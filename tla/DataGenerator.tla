--------------------------- MODULE DataGenerator ---------------------------
(***************************************************************************)
(* The commands "generate <count>" and "read <page_id>" of main.cpp, run   *)
(* one after the other in two processes on a file that starts empty, with  *)
(* DataGenerator::generate_pages of utils/data_generator.cpp.  A page's    *)
(* content is its payload[0]: fill_page_payload puts the page id there,    *)
(* and a page the file has grown by holds 0.                               *)
(***************************************************************************)
EXTENDS StorageEngine

\* One handle is alive at a time.
Handle == CHOOSE h \in Handles : TRUE

VARIABLES
    count,   \* how many pages are to be generated
    i,       \* the page the loop is at
    at       \* where the program is

generator_vars == <<count, i, at>>

GeneratorInit ==
    /\ EngineInit
    /\ page_count = 0
    /\ count \in 0 .. PageCount
    /\ i = 0
    /\ at = "loop"

\* The file is too short: it grows by a page.
generate_allocate ==
    /\ at = "loop"
    /\ i < count
    /\ i >= page_count
    /\ allocate_page(Handle)
    /\ at' = "allocated"
    /\ UNCHANGED <<count, i>>

\* The handle allocate_page returns is not kept.
generate_discard ==
    /\ at = "allocated"
    /\ drop_page(Handle)
    /\ at' = "loop"
    /\ UNCHANGED <<count, i>>

generate_fetch ==
    /\ at = "loop"
    /\ i < count
    /\ i < page_count
    /\ fetch_page(Handle, i)
    /\ at' = "reset"
    /\ UNCHANGED <<count, i>>

\* reset, the header and fill_page_payload: stores into the page.
generate_reset ==
    /\ at = "reset"
    /\ begin_write(Handle)
    /\ at' = "fill"
    /\ UNCHANGED <<page_count, count, i>>

fill_page_payload ==
    /\ at = "fill"
    /\ end_write(Handle, i)
    /\ at' = "filled"
    /\ UNCHANGED <<page_count, count, i>>

generate_next ==
    /\ at = "filled"
    /\ drop_page(Handle)
    /\ i' = i + 1
    /\ at' = "loop"
    /\ UNCHANGED count

\* generate_pages returns, main returns, and the next process opens the file.
generate_exit ==
    /\ at = "loop"
    /\ i >= count
    /\ restart
    /\ at' = "reopened"
    /\ UNCHANGED <<count, i>>

\* main's read command.
read(page_id) ==
    /\ at = "reopened"
    /\ fetch_page(Handle, page_id)
    /\ at' = "read"
    /\ UNCHANGED <<count, i>>

GeneratorNext ==
    \/ generate_allocate
    \/ generate_discard
    \/ generate_fetch
    \/ generate_reset
    \/ fill_page_payload
    \/ generate_next
    \/ generate_exit
    \/ \E page_id \in Pages : read(page_id)

GeneratorSpec == GeneratorInit /\ [][GeneratorNext]_<<engine_vars, generator_vars>>
-----------------------------------------------------------------------------
\* What main.cpp prints of a page it has read: "Payload[0] (Should be
\* <page_id>)", for the pages an earlier process has generated.
GeneratedReadable ==
    at = "read" /\ handle[Handle] < count => pool[frame[Handle]] = handle[Handle]
=============================================================================
