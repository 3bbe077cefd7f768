--------------------------- MODULE StorageWriter ---------------------------
(***************************************************************************)
(* The append-only slotted pages of storage/storage_writer.cpp and their   *)
(* reader, storage/storage_reader.cpp.  A page on disk is the sequence of  *)
(* its slots: slot s of the code is element s + 1.  A slot carries the     *)
(* record it points at and the offset and length it stores.  The writer    *)
(* fills one page in memory; records grow down from the end of the page,   *)
(* slots grow up behind the page header.                                   *)
(***************************************************************************)
EXTENDS Records

PAGE_SIZE == 4096
PAGE_HEADER_SIZE == 64
SLOT_COUNT_SIZE == 2     \* the uint16_t at the start of the payload
SLOT_SIZE == 4
RECORD_HEADER_SIZE == 5

VARIABLES
    file,       \* the data file, a sequence of pages
    writer      \* StorageWriter: page_id, slots and free_space_offset

SlotEntries == [key : Keys, value : Values, offset : Nat, length : Nat]

RecordIds == [page_id : Nat, slot_id : Nat]
NoRid == [page_id |-> -1, slot_id |-> -1]

record_data_size(v) == RECORD_HEADER_SIZE + KeyLen + ByteLen[v]

\* reset_current_page
EmptyPage(id) == [page_id |-> id, slots |-> <<>>, free_space_offset |-> PAGE_SIZE]

\* StorageWriter's constructor: it starts a new page behind those in the file.
open_writer == writer' = EmptyPage(Len(file))

\* Where the slot array of a page with n slots ends.
SlotsEnd(n) == PAGE_HEADER_SIZE + SLOT_COUNT_SIZE + n * SLOT_SIZE

\* Defect: the size is not compared with the room.
FitsAlways(w, v) == TRUE

\* Defect: the new slot is not counted.
FitsWithoutSlot(w, v) ==
    w.free_space_offset - SlotsEnd(Len(w.slots)) >= record_data_size(v)

\* try_insert_in_page: is there room?
Fits(w, v) ==
    w.free_space_offset - SlotsEnd(Len(w.slots)) >= SLOT_SIZE + record_data_size(v)

\* try_insert_in_page: the page with the record in it.
Insert(w, k, v) ==
    LET offset == w.free_space_offset - record_data_size(v)
        slot == [key |-> k, value |-> v, offset |-> offset, length |-> record_data_size(v)]
    IN  [page_id |-> w.page_id, slots |-> Append(w.slots, slot), free_space_offset |-> offset]

\* append has three outcomes.  The record fits in the current page; or the
\* page is written out and the record goes into the next one; or it does not
\* fit there either and append throws with the new page left empty.
append_here(k, v) ==
    /\ Fits(writer, v)
    /\ writer' = Insert(writer, k, v)
    /\ UNCHANGED file

\* Defect: the page id is not advanced.
append_same_id(k, v) ==
    LET fresh == EmptyPage(writer.page_id)
    IN  /\ ~Fits(writer, v)
        /\ Fits(fresh, v)
        /\ file' = Append(file, writer.slots)
        /\ writer' = Insert(fresh, k, v)

append_next(k, v) ==
    LET fresh == EmptyPage(writer.page_id + 1)
    IN  /\ ~Fits(writer, v)
        /\ Fits(fresh, v)
        /\ file' = Append(file, writer.slots)
        /\ writer' = Insert(fresh, k, v)

append_throw(v) ==
    LET fresh == EmptyPage(writer.page_id + 1)
    IN  /\ ~Fits(writer, v)
        /\ ~Fits(fresh, v)
        /\ file' = Append(file, writer.slots)
        /\ writer' = fresh

\* Defect: the slot id is taken after the count was advanced.
RidAfterCount == [page_id |-> writer'.page_id, slot_id |-> Len(writer'.slots)]

\* The record id that append returns.
AppendedRid == [page_id |-> writer'.page_id, slot_id |-> Len(writer'.slots) - 1]

\* Defect: the destructor does not flush.
NotFlushed == file

\* flush, as the destructor runs it.
Flushed ==
    IF writer.slots # <<>> \/ writer.page_id = 0 THEN Append(file, writer.slots) ELSE file

\* read_record finds a record under rid when the first n pages are mapped:
\* its page is mapped, its slot exists and lies inside the page.
Reads(n, rid) ==
    /\ 0 <= rid.page_id /\ rid.page_id < n
    /\ rid.slot_id < Len(file[rid.page_id + 1])
    /\ LET slot == file[rid.page_id + 1][rid.slot_id + 1]
       IN  slot.offset < PAGE_SIZE /\ slot.offset + slot.length <= PAGE_SIZE

RecordAt(rid) == file[rid.page_id + 1][rid.slot_id + 1]

WriterTypeOK ==
    /\ file \in Seq(Seq(SlotEntries))
    /\ writer \in [page_id : Nat, slots : Seq(SlotEntries), free_space_offset : Nat]
=============================================================================
