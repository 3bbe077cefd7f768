----------------------------- MODULE PageStore -----------------------------
(***************************************************************************)
(* What the buffer pool promises its callers: a memory of pages.  A caller *)
(* acquires a handle on a page, writes the page through the handle, moves  *)
(* the handle and drops it; nothing else ever changes what a page holds.   *)
(* A write is not atomic (the caller stores into the page byte by byte, no *)
(* latch is held), so a page is Torn between the start and the end of it.  *)
(***************************************************************************)
EXTENDS Integers

CONSTANTS
    Pages,      \* page ids
    Handles,    \* PageHandle objects of the callers
    Values,     \* what a page can hold
    Torn        \* the content of a page in the middle of a write

NoPage == -1    \* a PageHandle whose cache_ is nullptr

VARIABLES
    mem,        \* mem[p]: the content of page p
    held,       \* held[h]: the page handle h refers to, or NoPage
    writing     \* handles through which a write is in progress

vars == <<mem, held, writing>>

Init ==
    /\ mem \in [Pages -> Values]
    /\ held = [h \in Handles |-> NoPage]
    /\ writing = {}

Acquire(h, p) ==
    /\ held[h] = NoPage
    /\ held' = [held EXCEPT ![h] = p]
    /\ UNCHANGED <<mem, writing>>

Drop(h) ==
    /\ held[h] # NoPage
    /\ h \notin writing
    /\ held' = [held EXCEPT ![h] = NoPage]
    /\ UNCHANGED <<mem, writing>>

Move(dst, src) ==
    /\ dst # src
    /\ {dst, src} \cap writing = {}
    /\ held' = [held EXCEPT ![dst] = held[src], ![src] = NoPage]
    /\ UNCHANGED <<mem, writing>>

BeginWrite(h) ==
    /\ held[h] # NoPage
    /\ mem' = [mem EXCEPT ![held[h]] = Torn]
    /\ writing' = writing \cup {h}
    /\ UNCHANGED held

EndWrite(h, v) ==
    /\ h \in writing
    /\ mem' = [mem EXCEPT ![held[h]] = v]
    /\ writing' = writing \ {h}
    /\ UNCHANGED held

Next ==
    \E h \in Handles :
        \/ \E p \in Pages : Acquire(h, p)
        \/ Drop(h)
        \/ \E src \in Handles : Move(h, src)
        \/ BeginWrite(h)
        \/ \E v \in Values : EndWrite(h, v)

Spec == Init /\ [][Next]_vars
=============================================================================
