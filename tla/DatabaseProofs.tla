--------------------------- MODULE DatabaseProofs ---------------------------
(***************************************************************************)
(* For every set of keys, values and threads, every record size, log       *)
(* length and number of restarts, with crashes and torn log records:       *)
(* record ids stay aligned with the file, the index never dangles, and     *)
(* pages are laid out without overlaps.                                    *)
(***************************************************************************)
EXTENDS Database, TLAPS

Entries == [key : Keys, value : Values]
WriterPages == [page_id : Nat, slots : Seq(SlotEntries), free_space_offset : Nat]

-----------------------------------------------------------------------------
\* The operators.

\* Removing an element of a list (as touching and evicting do) leaves a list.
LEMMA RemoveAtType ==
    ASSUME NEW S, NEW s \in Seq(S), NEW i \in DOMAIN s
    PROVE  RemoveAt(s, i) \in Seq(S)
  BY DEF RemoveAt

\* LruCache::get on a hit keeps the cache a list of entries.
LEMMA CacheTouchType ==
    ASSUME NEW list \in Seq(Entries), NEW k \in Keys, HasKey(list, k)
    PROVE  CacheTouch(list, k) \in Seq(Entries)
  <1> DEFINE i == PositionOf(list, k)
  <1>1. i \in DOMAIN list
    BY DEF HasKey, PositionOf
  <1>2. RemoveAt(list, i) \in Seq(Entries)
    BY <1>1, RemoveAtType
  <1>3. list[i] \in Entries
    BY <1>1
  <1> HIDE DEF i
  <1>4. <<list[i]>> \o RemoveAt(list, i) \in Seq(Entries)
    BY <1>2, <1>3
  <1> QED
    BY <1>4 DEF CacheTouch, i

\* LruCache::put keeps the cache a list of entries.
LEMMA CachePutType ==
    ASSUME NEW list \in Seq(Entries), NEW k \in Keys, NEW v \in Values
    PROVE  CachePut(list, k, v) \in Seq(Entries)
  <1> DEFINE i == PositionOf(list, k)
  <1>1. Entry(k, v) \in Entries
    BY DEF Entry, Entries
  <1>2. CASE HasKey(list, k)
    <2>1. i \in DOMAIN list
      BY <1>2 DEF HasKey, PositionOf
    <2>2. RemoveAt(list, i) \in Seq(Entries)
      BY <2>1, RemoveAtType
    <2> HIDE DEF i
    <2>3. <<Entry(k, v)>> \o RemoveAt(list, i) \in Seq(Entries)
      BY <2>2, <1>1
    <2> QED
      BY <2>3, <1>2 DEF CachePut, i
  <1>3. CASE ~HasKey(list, k) /\ Len(list) >= RecordCacheSize
    <2>1. Len(list) \in DOMAIN list
      BY <1>3, RecordCacheAssumption
    <2>2. RemoveAt(list, Len(list)) \in Seq(Entries)
      BY <2>1, RemoveAtType
    <2>3. <<Entry(k, v)>> \o RemoveAt(list, Len(list)) \in Seq(Entries)
      BY <2>2, <1>1
    <2> QED
      BY <2>3, <1>3 DEF CachePut
  <1>4. CASE ~HasKey(list, k) /\ ~(Len(list) >= RecordCacheSize)
    BY <1>1, <1>4 DEF CachePut
  <1> QED
    BY <1>2, <1>3, <1>4

\* A fresh page is a well-formed one.
LEMMA EmptyPageFacts ==
    ASSUME NEW id \in Nat
    PROVE  /\ EmptyPage(id) \in WriterPages
           /\ EmptyPage(id).page_id = id
           /\ EmptyPage(id).slots = <<>>
           /\ EmptyPage(id).free_space_offset = RecordsStart(EmptyPage(id).slots)
           /\ PageLayout(EmptyPage(id).slots)
  BY DEF EmptyPage, WriterPages, RecordsStart, PageLayout, SlotsEnd, PAGE_SIZE,
         PAGE_HEADER_SIZE, SLOT_COUNT_SIZE, SLOT_SIZE

\* try_insert_in_page appends one slot for the record and moves free_space_offset
\* down to it, not below the end of the slot array.
LEMMA InsertFacts ==
    ASSUME NEW w \in WriterPages, NEW k \in Keys, NEW v \in Values, Fits(w, v)
    PROVE  LET offset == w.free_space_offset - record_data_size(v)
               slot == [key |-> k, value |-> v, offset |-> offset, length |-> record_data_size(v)]
           IN  /\ Insert(w, k, v) \in WriterPages
               /\ Insert(w, k, v).page_id = w.page_id
               /\ Insert(w, k, v).slots = Append(w.slots, slot)
               /\ Insert(w, k, v).free_space_offset = offset
               /\ slot \in SlotEntries
               /\ SlotsEnd(Len(w.slots) + 1) <= offset
  <1> DEFINE offset == w.free_space_offset - record_data_size(v)
             slot == [key |-> k, value |-> v, offset |-> offset, length |-> record_data_size(v)]
  <1>1. record_data_size(v) \in Nat
    BY RecordsAssumption DEF record_data_size, RECORD_HEADER_SIZE
  <1>2. Len(w.slots) \in Nat /\ w.free_space_offset \in Nat
    BY DEF WriterPages
  <1>3. offset \in Nat /\ SlotsEnd(Len(w.slots) + 1) <= offset
    BY <1>1, <1>2 DEF Fits, SlotsEnd, PAGE_HEADER_SIZE, SLOT_COUNT_SIZE, SLOT_SIZE
  <1>4. slot \in SlotEntries
    BY <1>1, <1>3 DEF SlotEntries
  <1>5. Insert(w, k, v) = [page_id |-> w.page_id, slots |-> Append(w.slots, slot),
                          free_space_offset |-> offset]
    BY DEF Insert
  <1> HIDE DEF offset, slot
  <1>6. Append(w.slots, slot) \in Seq(SlotEntries)
    BY <1>4 DEF WriterPages
  <1>7. /\ Insert(w, k, v) \in WriterPages
        /\ Insert(w, k, v).page_id = w.page_id
        /\ Insert(w, k, v).slots = Append(w.slots, slot)
        /\ Insert(w, k, v).free_space_offset = offset
    BY <1>3, <1>5, <1>6 DEF WriterPages
  <1> QED
    BY <1>3, <1>4, <1>7 DEF offset, slot

\* Inserting a record keeps the page's layout.
LEMMA InsertLayout ==
    ASSUME NEW w \in WriterPages, NEW k \in Keys, NEW v \in Values, Fits(w, v),
           w.free_space_offset = RecordsStart(w.slots),
           PageLayout(w.slots)
    PROVE  /\ Insert(w, k, v).free_space_offset = RecordsStart(Insert(w, k, v).slots)
           /\ PageLayout(Insert(w, k, v).slots)
  <1> DEFINE n == Len(w.slots)
             size == record_data_size(v)
             offset == w.free_space_offset - size
             slot == [key |-> k, value |-> v, offset |-> offset, length |-> size]
             new == Append(w.slots, slot)
  <1>1. /\ Insert(w, k, v).slots = new
        /\ Insert(w, k, v).free_space_offset = offset
        /\ slot \in SlotEntries
        /\ SlotsEnd(n + 1) <= offset
    BY InsertFacts
  <1>2. size \in Nat /\ w.free_space_offset \in Nat /\ offset \in Int
    BY RecordsAssumption DEF record_data_size, RECORD_HEADER_SIZE, WriterPages
  <1>3. slot.offset = offset /\ slot.length = size
    OBVIOUS
  <1> HIDE DEF slot, size
  <1>4. /\ Len(new) = n + 1
        /\ n \in Nat
        /\ DOMAIN new = 1 .. n + 1
        /\ DOMAIN w.slots = 1 .. n
        /\ new[n + 1] = slot
        /\ \A i \in 1 .. n : new[i] = w.slots[i]
        /\ new # <<>>
    BY DEF WriterPages
  <1>5. RecordsStart(new) = offset
    BY <1>3, <1>4 DEF RecordsStart
  <1>6. \A i \in 1 .. n + 1 :
            new[i].offset + new[i].length = IF i = 1 THEN PAGE_SIZE ELSE new[i - 1].offset
    <2> SUFFICES ASSUME NEW i \in 1 .. n + 1
                 PROVE  new[i].offset + new[i].length
                            = IF i = 1 THEN PAGE_SIZE ELSE new[i - 1].offset
      OBVIOUS
    <2>1. CASE i <= n
      <3>1. w.slots[i].offset + w.slots[i].length
                = IF i = 1 THEN PAGE_SIZE ELSE w.slots[i - 1].offset
        <4>1. i \in DOMAIN w.slots
          BY <1>4, <2>1
        <4> QED
          BY <4>1, Zenon DEF PageLayout
      <3>2. new[i] = w.slots[i] /\ (i # 1 => new[i - 1] = w.slots[i - 1])
        BY <1>4, <2>1
      <3> QED
        BY <3>1, <3>2
    <2>2. CASE i = n + 1
      <3>1. new[i].offset + new[i].length = w.free_space_offset
        BY <1>2, <1>3, <1>4, <2>2
      <3>2. CASE n = 0
        <4>1. w.slots = <<>>
          BY <1>4, <3>2 DEF WriterPages
        <4> QED
          BY <3>1, <3>2, <2>2, <4>1 DEF RecordsStart
      <3>3. CASE n # 0
        <4>1. w.free_space_offset = w.slots[n].offset
          BY <3>3, <1>4 DEF RecordsStart, WriterPages
        <4>2. new[i - 1] = w.slots[n] /\ i # 1
          BY <1>4, <2>2, <3>3
        <4> QED
          BY <3>1, <4>1, <4>2
      <3> QED
        BY <3>2, <3>3
    <2> QED
      BY <2>1, <2>2, <1>4
  <1> QED
    BY <1>1, <1>4, <1>5, <1>6 DEF PageLayout
-----------------------------------------------------------------------------
\* The image: the pages on disk with the writer's page behind them.

\* more has all the pages of pages, with all their slots.
Grows(pages, more) ==
    /\ Len(pages) <= Len(more)
    /\ \A p \in 1 .. Len(pages) :
          /\ Len(pages[p]) <= Len(more[p])
          /\ \A s \in 1 .. Len(pages[p]) : more[p][s] = pages[p][s]

\* A record id that resolves goes on resolving when the image grows.
LEMMA ResolvesInMore ==
    ASSUME NEW pages \in Seq(Seq(SlotEntries)), NEW more \in Seq(Seq(SlotEntries)),
           Grows(pages, more),
           NEW rid \in RecordIds, NEW k \in Keys, Resolves(pages, rid, k)
    PROVE  Resolves(more, rid, k)
  <1> DEFINE p == rid.page_id + 1
             s == rid.slot_id + 1
  <1>1. rid.page_id \in Nat /\ rid.slot_id \in Nat
    BY DEF RecordIds
  <1>2. rid.page_id < Len(pages) /\ rid.slot_id < Len(pages[p]) /\ pages[p][s].key = k
    BY Zenon DEF Resolves
  <1>3. p \in 1 .. Len(pages)
    BY <1>1, <1>2
  <1>4. pages[p] \in Seq(SlotEntries)
    BY <1>3
  <1>5. s \in 1 .. Len(pages[p])
    BY <1>1, <1>2, <1>4
  <1>6. Len(pages) <= Len(more)
    BY DEF Grows
  <1>7. rid.page_id < Len(more)
    <2>1. rid.page_id < Len(pages) /\ Len(pages) \in Nat /\ Len(more) \in Nat
      BY <1>2
    <2> QED
      BY <1>1, <1>6, <2>1
  <1>8. Len(pages[p]) \in Nat /\ Len(more[p]) \in Nat
    <2>1. p \in 1 .. Len(more)
      BY <1>1, <1>7
    <2>2. more[p] \in Seq(SlotEntries)
      BY <2>1
    <2> QED
      BY <1>4, <2>2
  <1> DEFINE old == Len(pages[p])
             new == Len(more[p])
  <1>9. old <= new /\ more[p][s] = pages[p][s]
    BY <1>3, <1>5, Zenon DEF Grows
  <1>10. rid.slot_id < old /\ rid.slot_id \in Nat /\ old \in Nat /\ new \in Nat
    BY <1>1, <1>2, <1>8
  <1> HIDE DEF old, new
  <1>11. rid.slot_id < new
    BY <1>9, <1>10
  <1> QED
    BY <1>2, <1>7, <1>9, <1>11, Zenon DEF Resolves, new

\* What every outcome of StorageWriter::append leaves behind: the types, the
\* alignment of page ids with the file, the layout, and all earlier records.
AppendKeeps ==
    /\ file' \in Seq(Seq(SlotEntries))
    /\ writer' \in WriterPages
    /\ writer'.page_id = Len(file')
    /\ Len(file) <= Len(file')
    /\ Grows(Image, Image')
    /\ PagesWellFormed'

\* Filling the writer's page.
LEMMA FillPage ==
    ASSUME file \in Seq(Seq(SlotEntries)), writer \in WriterPages,
           writer.page_id = Len(file), PagesWellFormed,
           NEW k \in Keys, NEW v \in Values, append_here(k, v)
    PROVE  AppendKeeps /\ AppendedRid \in RecordIds /\ Resolves(Image', AppendedRid, k)
  <1>1. Fits(writer, v) /\ writer' = Insert(writer, k, v) /\ file' = file
    BY DEF append_here
  <1> DEFINE slot == [key |-> k, value |-> v,
                      offset |-> writer.free_space_offset - record_data_size(v),
                      length |-> record_data_size(v)]
  <1>2. /\ writer' \in WriterPages
        /\ writer'.page_id = writer.page_id
        /\ writer'.slots = Append(writer.slots, slot)
        /\ slot \in SlotEntries
    BY <1>1, InsertFacts
  <1>3. slot.key = k
    OBVIOUS
  <1> HIDE DEF slot
  <1>4. writer.slots \in Seq(SlotEntries) /\ writer'.slots \in Seq(SlotEntries)
    BY <1>2 DEF WriterPages
  <1>5. Grows(Image, Image')
    <2>1. /\ Len(Image) = Len(file) + 1 /\ Len(Image') = Len(file) + 1 /\ Len(file) \in Nat
          /\ \A p \in 1 .. Len(file) : Image[p] = file[p] /\ Image'[p] = file[p]
          /\ Image[Len(file) + 1] = writer.slots /\ Image'[Len(file) + 1] = writer'.slots
      BY <1>1 DEF Image
    <2>2. /\ Len(writer.slots) <= Len(writer'.slots)
          /\ \A s \in 1 .. Len(writer.slots) : writer'.slots[s] = writer.slots[s]
      BY <1>2, <1>4
    <2>3. ASSUME NEW p \in 1 .. Len(Image)
          PROVE  /\ Len(Image[p]) <= Len(Image'[p])
                 /\ \A s \in 1 .. Len(Image[p]) : Image'[p][s] = Image[p][s]
      <3>1. CASE p \in 1 .. Len(file)
        <4>1. Image[p] = Image'[p] /\ Len(Image[p]) \in Nat
          BY <2>1, <3>1
        <4> QED
          BY <4>1
      <3>2. CASE p = Len(file) + 1
        BY <2>1, <2>2, <3>2
      <3> QED
        BY <2>1, <3>1, <3>2
    <2> QED
      BY <2>1, <2>3 DEF Grows
  <1>6. PagesWellFormed'
    <2>1. /\ writer'.free_space_offset = RecordsStart(writer'.slots)
          /\ PageLayout(writer'.slots)
      BY <1>1, InsertLayout DEF PagesWellFormed
    <2>2. \A p \in DOMAIN file' : PageLayout(file'[p])
      BY <1>1 DEF PagesWellFormed
    <2> QED
      BY <2>1, <2>2 DEF PagesWellFormed
  <1>7. /\ AppendedRid \in RecordIds
        /\ AppendedRid.page_id = Len(file)
        /\ AppendedRid.slot_id = Len(writer.slots)
    BY <1>2, <1>4 DEF AppendedRid, RecordIds, WriterPages
  <1>8. Image'[Len(file) + 1] = writer'.slots /\ Len(Image') = Len(file) + 1
    BY <1>1, <1>4 DEF Image
  <1>9. Resolves(Image', AppendedRid, k)
    BY <1>2, <1>3, <1>4, <1>7, <1>8 DEF Resolves
  <1> QED
    BY <1>1, <1>2, <1>5, <1>6, <1>7, <1>9 DEF AppendKeeps

\* Writing the page out: the file takes over the slots the writer had.
LEMMA WriteOut ==
    ASSUME file \in Seq(Seq(SlotEntries)), writer \in WriterPages,
           NEW slots \in Seq(SlotEntries)
    PROVE  LET f == Append(file, writer.slots)
           IN  /\ f \in Seq(Seq(SlotEntries))
               /\ Len(f) = Len(file) + 1
               /\ Len(file) \in Nat
               /\ Grows(Image, Append(f, slots))
               /\ Append(f, slots)[Len(f) + 1] = slots
               /\ Len(Append(f, slots)) = Len(f) + 1
  <1> DEFINE f == Append(file, writer.slots)
  <1>1. writer.slots \in Seq(SlotEntries)
    BY DEF WriterPages
  <1>2. f \in Seq(Seq(SlotEntries)) /\ Len(f) = Len(file) + 1 /\ Len(file) \in Nat
    BY <1>1
  <1>3. Image = f
    BY DEF Image
  <1> HIDE DEF f
  <1>4. Append(f, slots)[Len(f) + 1] = slots /\ Len(Append(f, slots)) = Len(f) + 1
    BY <1>2
  <1>5. \A p \in 1 .. Len(f) : Append(f, slots)[p] = f[p] /\ f[p] \in Seq(SlotEntries)
    BY <1>2
  <1>6. Grows(f, Append(f, slots))
    BY <1>2, <1>4, <1>5 DEF Grows
  <1> QED
    BY <1>2, <1>3, <1>4, <1>6 DEF f

\* The writer's page joins the laid-out pages of the file.
LEMMA WriteOutLayout ==
    ASSUME file \in Seq(Seq(SlotEntries)), writer \in WriterPages, PagesWellFormed
    PROVE  \A p \in DOMAIN Append(file, writer.slots) : PageLayout(Append(file, writer.slots)[p])
  <1>1. writer.slots \in Seq(SlotEntries)
    BY DEF WriterPages
  <1> QED
    BY <1>1 DEF PagesWellFormed

\* Starting the next page with the record in it.
LEMMA NextPage ==
    ASSUME file \in Seq(Seq(SlotEntries)), writer \in WriterPages,
           writer.page_id = Len(file), PagesWellFormed,
           NEW k \in Keys, NEW v \in Values, append_next(k, v)
    PROVE  AppendKeeps /\ AppendedRid \in RecordIds /\ Resolves(Image', AppendedRid, k)
  <1> DEFINE fresh == EmptyPage(writer.page_id + 1)
             slot == [key |-> k, value |-> v,
                      offset |-> fresh.free_space_offset - record_data_size(v),
                      length |-> record_data_size(v)]
  <1>1. /\ Fits(fresh, v)
        /\ file' = Append(file, writer.slots)
        /\ writer' = Insert(fresh, k, v)
    BY DEF append_next
  <1>2. writer.page_id + 1 \in Nat
    BY DEF WriterPages
  <1>3. /\ fresh \in WriterPages
        /\ fresh.page_id = writer.page_id + 1
        /\ fresh.slots = <<>>
        /\ fresh.free_space_offset = RecordsStart(fresh.slots)
        /\ PageLayout(fresh.slots)
    BY <1>2, EmptyPageFacts
  <1> HIDE DEF fresh
  <1>4. /\ writer' \in WriterPages
        /\ writer'.page_id = writer.page_id + 1
        /\ writer'.slots = Append(<<>>, slot)
        /\ slot \in SlotEntries
    BY <1>1, <1>3, InsertFacts
  <1>5. slot.key = k
    OBVIOUS
  <1> HIDE DEF slot
  <1>6. /\ writer'.slots \in Seq(SlotEntries)
        /\ Len(writer'.slots) = 1
        /\ writer'.slots[1] = slot
    BY <1>4 DEF WriterPages
  <1>7. /\ file' \in Seq(Seq(SlotEntries))
        /\ Len(file') = Len(file) + 1
        /\ Len(file) \in Nat
        /\ Grows(Image, Image')
        /\ Image'[Len(file') + 1] = writer'.slots
        /\ Len(Image') = Len(file') + 1
    BY <1>1, <1>6, WriteOut DEF Image
  <1>8. PagesWellFormed'
    <2>1. /\ writer'.free_space_offset = RecordsStart(writer'.slots)
          /\ PageLayout(writer'.slots)
      BY <1>1, <1>3, InsertLayout
    <2>2. \A p \in DOMAIN file' : PageLayout(file'[p])
      BY <1>1, WriteOutLayout
    <2> QED
      BY <2>1, <2>2 DEF PagesWellFormed
  <1>9. /\ AppendedRid \in RecordIds
        /\ AppendedRid.page_id = Len(file')
        /\ AppendedRid.slot_id = 0
    BY <1>4, <1>6, <1>7 DEF AppendedRid, RecordIds
  <1>10. Resolves(Image', AppendedRid, k)
    BY <1>5, <1>6, <1>7, <1>9 DEF Resolves
  <1> QED
    BY <1>4, <1>7, <1>8, <1>9, <1>10 DEF AppendKeeps

\* Giving a record up: the page is out, the next one empty.
LEMMA ThrowKeeps ==
    ASSUME file \in Seq(Seq(SlotEntries)), writer \in WriterPages,
           writer.page_id = Len(file), PagesWellFormed,
           NEW v, append_throw(v)
    PROVE  AppendKeeps
  <1>1. file' = Append(file, writer.slots) /\ writer' = EmptyPage(writer.page_id + 1)
    BY DEF append_throw
  <1>2. writer.page_id + 1 \in Nat
    BY DEF WriterPages
  <1>3. /\ writer' \in WriterPages
        /\ writer'.page_id = writer.page_id + 1
        /\ writer'.slots = <<>>
        /\ writer'.free_space_offset = RecordsStart(writer'.slots)
        /\ PageLayout(writer'.slots)
    BY <1>1, <1>2, EmptyPageFacts
  <1>4. writer'.slots \in Seq(SlotEntries)
    BY <1>3
  <1>5. /\ file' \in Seq(Seq(SlotEntries))
        /\ Len(file') = Len(file) + 1
        /\ Len(file) \in Nat
        /\ Grows(Image, Image')
    BY <1>1, <1>4, WriteOut DEF Image
  <1>6. PagesWellFormed'
    BY <1>1, <1>3, WriteOutLayout DEF PagesWellFormed
  <1> QED
    BY <1>3, <1>5, <1>6 DEF AppendKeeps
-----------------------------------------------------------------------------
\* The inductive invariant.

\* The mapping made at open covers a prefix of the file.
MappedInFile == mapped <= Len(file)

\* A database that is not open has no index and no calls.
DownIsBlank == status = "down" => index = EmptyIndex /\ pc = Idle

\* A call in progress works on a record, in an open database.
CallsHoldRecords == \A t \in Threads : pc[t] # "idle" => status = "up" /\ arg[t] \in Entries

Inv ==
    /\ TypeOK
    /\ WriterAligned
    /\ IndexSound
    /\ PagesWellFormed
    /\ MappedInFile
    /\ DownIsBlank
    /\ CallsHoldRecords

\* The part of TypeOK outside the log, the file and the writer.
RestTypeOK ==
    /\ status \in {"down", "replay", "rebuild", "up"}
    /\ mapped \in Nat
    /\ index \in [Keys -> RecordIds \cup {NoRid}]
    /\ cache \in Seq(Entries)
    /\ cursor \in RecordIds
    /\ pc \in [Threads -> {"idle", "store", "fill"}]
    /\ arg \in [Threads -> Entries \cup {NoArg}]
    /\ opens \in Nat
    /\ acked \in [Keys -> Values \cup {NoValue}]
    /\ session \in SUBSET Keys

\* The type invariant split into the parts that steps change together.
LEMMA TypeParts ==
    TypeOK <=> /\ log \in Seq(WalRecords)
               /\ current_lsn \in Nat
               /\ file \in Seq(Seq(SlotEntries))
               /\ writer \in WriterPages
               /\ RestTypeOK
  BY DEF TypeOK, WalTypeOK, WriterTypeOK, WriterPages, RestTypeOK, Entries

\* The same of the next state.
LEMMA TypePartsNext ==
    TypeOK' <=> /\ log' \in Seq(WalRecords)
                /\ current_lsn' \in Nat
                /\ file' \in Seq(Seq(SlotEntries))
                /\ writer' \in WriterPages
                /\ RestTypeOK'
  BY DEF TypeOK, WalTypeOK, WriterTypeOK, WriterPages, RestTypeOK, Entries

\* The values a dead process leaves behind have their types.
LEMMA BlankTypes ==
    /\ EmptyIndex \in [Keys -> RecordIds \cup {NoRid}]
    /\ \A k \in Keys : EmptyIndex[k] = NoRid
    /\ LogStart \in RecordIds
    /\ Idle \in [Threads -> {"idle", "store", "fill"}]
    /\ NoArgs \in [Threads -> Entries \cup {NoArg}]
  BY DEF EmptyIndex, LogStart, RecordIds, Idle, NoArgs

\* Ending the process establishes the invariant again, provided that what
\* reached the two files has its type and the pages their layout.
LEMMA VanishInv ==
    ASSUME Vanish,
           log' \in Seq(WalRecords),
           file' \in Seq(Seq(SlotEntries)),
           \A p \in DOMAIN file' : PageLayout(file'[p]),
           opens' \in Nat,
           acked' \in [Keys -> Values \cup {NoValue}]
    PROVE  Inv'
  <1>1. /\ writer' = EmptyPage(0)
        /\ writer' \in WriterPages
        /\ writer'.free_space_offset = RecordsStart(writer'.slots)
        /\ PageLayout(writer'.slots)
    BY EmptyPageFacts DEF Vanish
  <1>2. TypeOK'
    BY <1>1, BlankTypes, TypePartsNext DEF Vanish, RestTypeOK
  <1>3. WriterAligned'
    BY DEF Vanish, WriterAligned
  <1>4. IndexSound'
    BY BlankTypes DEF Vanish, IndexSound
  <1>5. PagesWellFormed'
    BY <1>1 DEF PagesWellFormed
  <1>6. MappedInFile'
    BY DEF MappedInFile, Vanish
  <1>7. DownIsBlank' /\ CallsHoldRecords'
    BY DEF DownIsBlank, CallsHoldRecords, Vanish, Idle
  <1> QED
    BY <1>2, <1>3, <1>4, <1>5, <1>6, <1>7 DEF Inv

\* An appended log record has its type.
LEMMA LogRecordType ==
    ASSUME current_lsn \in Nat, log \in Seq(WalRecords),
           NEW k \in Keys, NEW v \in Values, NEW whole \in BOOLEAN
    PROVE  Append(log, LogRecord(k, v, whole)) \in Seq(WalRecords)
  <1>1. (whole /\ LengthFits(v)) \in BOOLEAN
    BY DEF LengthFits
  <1>2. LogRecord(k, v, whole) \in WalRecords
    BY <1>1 DEF LogRecord, WalRecords
  <1> QED
    BY <1>2

\* Steps that write neither file nor the writer's page nor the index keep
\* what relates them.
LEMMA StorageUnchanged ==
    ASSUME Inv, UNCHANGED <<file, writer>>
    PROVE  PagesWellFormed' /\ (index' = index => IndexSound') /\ (mapped' = mapped => MappedInFile')
  BY DEF Inv, PagesWellFormed, IndexSound, Image, MappedInFile

\* A record id that names a slot of a mapped page resolves to that slot.
LEMMA MappedSlot ==
    ASSUME file \in Seq(Seq(SlotEntries)), mapped \in Nat, MappedInFile,
           NEW rid \in RecordIds,
           rid.page_id < mapped, rid.slot_id < Len(file[rid.page_id + 1])
    PROVE  /\ RecordAt(rid) \in SlotEntries
           /\ Resolves(Image, rid, RecordAt(rid).key)
  <1> DEFINE p == rid.page_id + 1
             s == rid.slot_id + 1
  <1>1. rid.page_id \in Nat /\ rid.slot_id \in Nat /\ Len(file) \in Nat
    BY DEF RecordIds
  <1>2. p \in 1 .. Len(file)
    BY <1>1 DEF MappedInFile
  <1>3. file[p] \in Seq(SlotEntries)
    BY <1>2
  <1>a. Len(file[p]) \in Nat
    BY <1>3
  <1>4. s \in 1 .. Len(file[p]) /\ Len(file[p]) \in Nat
    BY <1>1, <1>a
  <1>5. file[p][s] \in SlotEntries
    BY <1>3, <1>4
  <1>6. Image[p] = file[p] /\ Len(Image) = Len(file) + 1
    BY <1>2 DEF Image
  <1>7. rid.page_id < Len(Image)
    BY <1>1, <1>2, <1>6
  <1> QED
    BY <1>5, <1>6, <1>7 DEF Resolves, RecordAt

\* Storing a record (by put or by replay) keeps the index sound.
LEMMA StoreKeepsIndex ==
    ASSUME Inv, status # "down",
           NEW k \in Keys, NEW v \in Values,
           append_here(k, v) \/ append_next(k, v),
           Publish(k, v), mapped' = mapped
    PROVE  /\ file' \in Seq(Seq(SlotEntries)) /\ writer' \in WriterPages
           /\ writer'.page_id = Len(file')
           /\ index' \in [Keys -> RecordIds \cup {NoRid}]
           /\ cache' \in Seq(Entries)
           /\ IndexSound' /\ PagesWellFormed' /\ MappedInFile'
  <1>1. /\ file \in Seq(Seq(SlotEntries)) /\ writer \in WriterPages
        /\ RestTypeOK
        /\ writer.page_id = Len(file) /\ PagesWellFormed
    BY TypeParts DEF Inv, WriterAligned
  <1>2. AppendKeeps /\ AppendedRid \in RecordIds /\ Resolves(Image', AppendedRid, k)
    BY <1>1, FillPage, NextPage
  <1>3. index' = [index EXCEPT ![k] = AppendedRid]
    BY DEF Publish
  <1>4. index' \in [Keys -> RecordIds \cup {NoRid}]
    BY <1>1, <1>2, <1>3 DEF RestTypeOK
  <1>5. cache' \in Seq(Entries)
    BY <1>1, CachePutType DEF Publish, RestTypeOK
  <1>6. Image \in Seq(Seq(SlotEntries)) /\ Image' \in Seq(Seq(SlotEntries))
    BY <1>1, <1>2 DEF Image, AppendKeeps, WriterPages
  <1>7. IndexSound'
    <2> SUFFICES ASSUME NEW j \in Keys, index'[j] # NoRid
                 PROVE  Resolves(Image', index'[j], j)
      BY DEF IndexSound
    <2>1. CASE j = k
      BY <2>1, <1>1, <1>2, <1>3 DEF RestTypeOK
    <2>2. CASE j # k
      <3>1. index'[j] = index[j] /\ index[j] \in RecordIds
        BY <2>2, <1>1, <1>3 DEF RestTypeOK
      <3>2. Resolves(Image, index[j], j)
        BY <3>1 DEF Inv, IndexSound
      <3> QED
        BY <3>1, <3>2, <1>2, <1>6, ResolvesInMore DEF AppendKeeps
    <2> QED
      BY <2>1, <2>2
  <1>8. MappedInFile'
    BY <1>1, <1>2 DEF AppendKeeps, MappedInFile, Inv, RestTypeOK
  <1> QED
    BY <1>2, <1>4, <1>5, <1>7, <1>8 DEF AppendKeeps
-----------------------------------------------------------------------------
\* The invariant holds initially.
LEMMA InitInv == Init => Inv
  <1> SUFFICES ASSUME Init
               PROVE  Inv
    OBVIOUS
  <1>1. /\ writer = EmptyPage(0)
        /\ writer \in WriterPages
        /\ writer.free_space_offset = RecordsStart(writer.slots)
        /\ PageLayout(writer.slots)
    BY EmptyPageFacts DEF Init
  <1>2. TypeOK
    BY <1>1, BlankTypes, TypeParts DEF Init, RestTypeOK
  <1>3. WriterAligned /\ MappedInFile
    BY DEF Init, WriterAligned, MappedInFile
  <1>4. IndexSound
    BY BlankTypes DEF Init, IndexSound
  <1>5. PagesWellFormed
    BY <1>1 DEF PagesWellFormed, Init
  <1>6. DownIsBlank /\ CallsHoldRecords
    BY DEF DownIsBlank, CallsHoldRecords, Init, Idle
  <1> QED
    BY <1>2, <1>3, <1>4, <1>5, <1>6 DEF Inv

\* The constructor keeps it.
LEMMA ConstructInv == Inv /\ (open \/ Construct) => Inv'
  <1> SUFFICES ASSUME Inv, open \/ Construct
               PROVE  Inv'
    OBVIOUS
  <1>1. /\ log \in Seq(WalRecords) /\ current_lsn \in Nat
        /\ file \in Seq(Seq(SlotEntries)) /\ writer \in WriterPages /\ RestTypeOK
    BY TypeParts DEF Inv
  <1>2. Len(file) \in Nat
    BY <1>1
  <1>3. CASE open
    <2>1. /\ writer' = EmptyPage(Len(file))
          /\ writer' \in WriterPages /\ writer'.page_id = Len(file)
          /\ writer'.free_space_offset = RecordsStart(writer'.slots)
          /\ PageLayout(writer'.slots)
      BY <1>2, <1>3, EmptyPageFacts DEF open, open_writer
    <2>2. TypeOK'
      BY <1>1, <1>2, <1>3, <2>1, TypePartsNext DEF open, map_file, RestTypeOK
    <2>3. WriterAligned' /\ MappedInFile'
      BY <1>2, <1>3, <2>1 DEF open, map_file, WriterAligned, MappedInFile
    <2>4. index' = EmptyIndex
      BY <1>3 DEF open, Inv, DownIsBlank
    <2>5. IndexSound'
      BY <2>4, BlankTypes DEF IndexSound
    <2>6. PagesWellFormed'
      BY <1>3, <2>1 DEF open, PagesWellFormed, Inv
    <2>7. DownIsBlank' /\ CallsHoldRecords'
      BY <1>3 DEF open, Inv, DownIsBlank, CallsHoldRecords, Idle
    <2> QED
      BY <2>2, <2>3, <2>5, <2>6, <2>7 DEF Inv
  <1>4. CASE replay_record
    <2> DEFINE rec == log[Replayed + 1]
    <2>1. rec \in WalRecords /\ Replayed + 1 \in DOMAIN log
      BY <1>1, <1>4 DEF replay_record, Readable
    <2>2. rec.key \in Keys /\ rec.value \in Values /\ rec.lsn \in Nat
      BY <2>1 DEF WalRecords
    <2>3. /\ append_here(rec.key, rec.value) \/ append_next(rec.key, rec.value)
          /\ Publish(rec.key, rec.value)
          /\ mapped' = mapped /\ status = "replay" /\ status' = "replay"
      BY <1>4 DEF replay_record
    <2>4. current_lsn' \in Nat
      BY <1>1, <1>4, <2>2 DEF replay_record, wal_replayed
    <2>5. cursor' \in RecordIds
      <3>1. cursor \in RecordIds
        BY <1>1 DEF RestTypeOK
      <3>2. cursor' = [cursor EXCEPT !.slot_id = @ + 1]
        BY <1>4, Zenon DEF replay_record
      <3> QED
        BY <3>1, <3>2 DEF RecordIds
    <2> HIDE DEF rec
    <2>6. /\ file' \in Seq(Seq(SlotEntries)) /\ writer' \in WriterPages
          /\ writer'.page_id = Len(file')
          /\ index' \in [Keys -> RecordIds \cup {NoRid}]
          /\ cache' \in Seq(Entries)
          /\ IndexSound' /\ PagesWellFormed' /\ MappedInFile'
      BY <2>2, <2>3, StoreKeepsIndex
    <2>7. TypeOK'
      BY <1>1, <1>4, <2>4, <2>5, <2>6, TypePartsNext DEF replay_record, RestTypeOK
    <2>8. WriterAligned' /\ DownIsBlank'
      BY <2>3, <2>6 DEF WriterAligned, DownIsBlank
    <2>9. CallsHoldRecords'
      BY <1>4 DEF replay_record, Inv, CallsHoldRecords
    <2> QED
      BY <2>6, <2>7, <2>8, <2>9 DEF Inv
  <1>5. CASE replay_throw
    <2>1. Vanish /\ file' = Append(file, writer.slots)
      BY <1>5 DEF replay_throw
    <2>2. file' \in Seq(Seq(SlotEntries))
      BY <1>1, <2>1 DEF WriterPages
    <2>3. \A p \in DOMAIN file' : PageLayout(file'[p])
      BY <1>1, <2>1, WriteOutLayout DEF Inv
    <2> QED
      BY <1>1, <1>5, <2>1, <2>2, <2>3, VanishInv DEF replay_throw, RestTypeOK
  <1>6. CASE replay_end
    <2>1. index' = EmptyIndex \/ index' = index
      BY <1>6 DEF replay_end
    <2>2. UNCHANGED <<file, writer, mapped>> /\ status = "replay" /\ status' \in {"rebuild", "up"}
      BY <1>6 DEF replay_end
    <2>3. IndexSound' /\ PagesWellFormed' /\ MappedInFile'
      BY <2>1, <2>2, BlankTypes, StorageUnchanged DEF IndexSound
    <2>4. TypeOK'
      BY <1>1, <1>6, <2>1, <2>2, BlankTypes, TypePartsNext DEF replay_end, RestTypeOK
    <2>5. WriterAligned' /\ DownIsBlank'
      BY <2>2 DEF WriterAligned, DownIsBlank, Inv
    <2>6. CallsHoldRecords'
      BY <1>6 DEF replay_end, Inv, CallsHoldRecords
    <2> QED
      BY <2>3, <2>4, <2>5, <2>6 DEF Inv
  <1>7. CASE rebuild_slot
    <2> DEFINE key == RecordAt(cursor).key
    <2>1. /\ UNCHANGED <<file, writer, mapped>> /\ status = "rebuild" /\ status' = "rebuild"
          /\ cursor.page_id < mapped /\ cursor.slot_id < Len(file[cursor.page_id + 1])
          /\ index' = [index EXCEPT ![key] = cursor]
          /\ cursor' = [cursor EXCEPT !.slot_id = @ + 1]
      BY <1>7 DEF rebuild_slot, Reads
    <2>2. cursor \in RecordIds /\ index \in [Keys -> RecordIds \cup {NoRid}]
      BY <1>1 DEF RestTypeOK
    <2>3. RecordAt(cursor) \in SlotEntries /\ Resolves(Image, cursor, key)
      BY <1>1, <2>1, <2>2, MappedSlot DEF RestTypeOK, Inv
    <2>4. key \in Keys
      BY <2>3 DEF SlotEntries
    <2> HIDE DEF key
    <2>5. index' \in [Keys -> RecordIds \cup {NoRid}]
      BY <2>1, <2>2, <2>4
    <2>6. cursor' \in RecordIds
      BY <2>1, <2>2 DEF RecordIds
    <2>7. IndexSound'
      <3>1. Image' = Image
        BY <2>1 DEF Image
      <3> SUFFICES ASSUME NEW j \in Keys, index'[j] # NoRid
                   PROVE  Resolves(Image, index'[j], j)
        BY <3>1 DEF IndexSound
      <3>2. index'[j] = IF j = key THEN cursor ELSE index[j]
        BY <2>1, <2>2, <2>4
      <3> QED
        BY <2>3, <3>2 DEF Inv, IndexSound
    <2>8. PagesWellFormed' /\ MappedInFile'
      BY <2>1, StorageUnchanged
    <2>9. TypeOK'
      BY <1>1, <1>7, <2>5, <2>6, TypePartsNext DEF rebuild_slot, RestTypeOK
    <2>10. WriterAligned' /\ DownIsBlank'
      BY <2>1 DEF WriterAligned, DownIsBlank, Inv
    <2>11. CallsHoldRecords'
      BY <1>7 DEF rebuild_slot, Inv, CallsHoldRecords
    <2> QED
      BY <2>7, <2>8, <2>9, <2>10, <2>11 DEF Inv
  <1>8. CASE rebuild_page \/ rebuild_end
    <2>1. /\ UNCHANGED <<log, file, current_lsn, writer, mapped, index, cache, pc, arg, opens, acked, session>>
          /\ status = "rebuild" /\ status' \in {"rebuild", "up"}
      BY <1>8 DEF rebuild_page, rebuild_end
    <2>2. cursor' \in RecordIds
      BY <1>1, <1>8, BlankTypes DEF rebuild_page, rebuild_end, RestTypeOK, RecordIds
    <2>3. TypeOK'
      BY <1>1, <2>1, <2>2, TypePartsNext DEF RestTypeOK
    <2>4. PagesWellFormed' /\ IndexSound' /\ MappedInFile'
      BY <2>1, StorageUnchanged
    <2>5. WriterAligned' /\ DownIsBlank' /\ CallsHoldRecords'
      BY <2>1 DEF WriterAligned, DownIsBlank, CallsHoldRecords, Inv
    <2> QED
      BY <2>3, <2>4, <2>5 DEF Inv
  <1> QED
    BY <1>3, <1>4, <1>5, <1>6, <1>7, <1>8 DEF Construct

\* put keeps it.
LEMMA PutInv ==
    ASSUME Inv, NEW t \in Threads,
           \/ \E k \in Keys, v \in Values : put_log(t, k, v)
           \/ put_store(t)
           \/ put_throw(t)
    PROVE  Inv'
  <1>1. /\ log \in Seq(WalRecords) /\ current_lsn \in Nat
        /\ file \in Seq(Seq(SlotEntries)) /\ writer \in WriterPages /\ RestTypeOK
    BY TypeParts DEF Inv
  <1>2. ASSUME NEW k \in Keys, NEW v \in Values, put_log(t, k, v)
        PROVE  Inv'
    <2>1. log' = Append(log, LogRecord(k, v, TRUE)) /\ current_lsn' = current_lsn + 1
      BY <1>2 DEF put_log, wal_append
    <2>2. log' \in Seq(WalRecords)
      <3>1. TRUE \in BOOLEAN
        OBVIOUS
      <3>2. Append(log, LogRecord(k, v, TRUE)) \in Seq(WalRecords)
        BY <1>1, <3>1, LogRecordType, Zenon
      <3> QED
        BY <2>1, <3>2
    <2>3. current_lsn' \in Nat
      BY <1>1, <2>1
    <2>4. Entry(k, v) \in Entries
      BY DEF Entry, Entries
    <2>5. /\ UNCHANGED <<file, writer, mapped, index, status>> /\ status = "up"
          /\ pc' = [pc EXCEPT ![t] = "store"]
          /\ arg' = [arg EXCEPT ![t] = Entry(k, v)]
      BY <1>2 DEF put_log
    <2>6. TypeOK'
      BY <1>1, <1>2, <2>2, <2>3, <2>4, TypePartsNext DEF put_log, RestTypeOK
    <2>7. PagesWellFormed' /\ IndexSound' /\ MappedInFile'
      BY <2>5, StorageUnchanged
    <2>8. WriterAligned' /\ DownIsBlank'
      BY <2>5 DEF WriterAligned, DownIsBlank, Inv
    <2>9. CallsHoldRecords'
      BY <1>1, <2>4, <2>5 DEF CallsHoldRecords, Inv, RestTypeOK
    <2> QED
      BY <2>6, <2>7, <2>8, <2>9 DEF Inv
  <1>3. CASE put_store(t)
    <2> DEFINE k == arg[t].key
               v == arg[t].value
    <2>1. pc[t] = "store" /\ status = "up" /\ arg[t] \in Entries
      BY <1>3 DEF put_store, Inv, CallsHoldRecords
    <2>2. k \in Keys /\ v \in Values
      BY <2>1 DEF Entries
    <2>3. /\ append_here(k, v) \/ append_next(k, v)
          /\ Publish(k, v)
          /\ mapped' = mapped /\ status' = status
          /\ acked' = [acked EXCEPT ![k] = v]
          /\ session' = session \cup {k}
          /\ Returns(t)
      BY <1>3 DEF put_store
    <2> HIDE DEF k, v
    <2>4. /\ file' \in Seq(Seq(SlotEntries)) /\ writer' \in WriterPages
          /\ writer'.page_id = Len(file')
          /\ index' \in [Keys -> RecordIds \cup {NoRid}]
          /\ cache' \in Seq(Entries)
          /\ IndexSound' /\ PagesWellFormed' /\ MappedInFile'
      BY <2>1, <2>2, <2>3, StoreKeepsIndex
    <2>5. TypeOK'
      <3>1. /\ acked' \in [Keys -> Values \cup {NoValue}]
            /\ session' \in SUBSET Keys
        BY <1>1, <2>2, <2>3 DEF RestTypeOK
      <3>2. /\ pc' \in [Threads -> {"idle", "store", "fill"}]
            /\ arg' \in [Threads -> Entries \cup {NoArg}]
        BY <1>1, <2>3 DEF RestTypeOK, Returns
      <3>3. UNCHANGED <<log, current_lsn, mapped, cursor, status, opens>>
        BY <1>3 DEF put_store
      <3>4. RestTypeOK'
        BY <1>1, <2>4, <3>1, <3>2, <3>3 DEF RestTypeOK
      <3> QED
        BY <1>1, <2>4, <3>3, <3>4, TypePartsNext
    <2>6. WriterAligned' /\ DownIsBlank'
      BY <2>1, <2>3, <2>4 DEF WriterAligned, DownIsBlank
    <2>7. CallsHoldRecords'
      BY <1>1, <2>1, <2>3 DEF CallsHoldRecords, Inv, RestTypeOK, Returns
    <2> QED
      BY <2>4, <2>5, <2>6, <2>7 DEF Inv
  <1>4. CASE put_throw(t)
    <2>1. pc[t] = "store" /\ status = "up"
      BY <1>4 DEF put_throw, Inv, CallsHoldRecords
    <2>2. append_throw(arg[t].value) /\ Returns(t) /\ UNCHANGED <<mapped, status, index>>
      BY <1>4 DEF put_throw
    <2>3. AppendKeeps
      BY <1>1, <2>1, <2>2, ThrowKeeps DEF Inv, WriterAligned
    <2>4. Image \in Seq(Seq(SlotEntries)) /\ Image' \in Seq(Seq(SlotEntries))
      BY <1>1, <2>3 DEF Image, AppendKeeps, WriterPages
    <2>5. IndexSound'
      <3> SUFFICES ASSUME NEW j \in Keys, index[j] # NoRid
                   PROVE  Resolves(Image', index[j], j)
        BY <2>2 DEF IndexSound
      <3>1. index[j] \in RecordIds
        BY <1>1 DEF RestTypeOK
      <3>2. Resolves(Image, index[j], j)
        BY DEF Inv, IndexSound
      <3> QED
        BY <2>3, <2>4, <3>1, <3>2, ResolvesInMore DEF AppendKeeps
    <2>6. TypeOK'
      BY <1>1, <1>4, <2>3, TypePartsNext DEF put_throw, RestTypeOK, Returns, AppendKeeps
    <2>7. PagesWellFormed' /\ MappedInFile' /\ WriterAligned' /\ DownIsBlank'
      BY <1>1, <2>1, <2>2, <2>3 DEF AppendKeeps, MappedInFile, WriterAligned, DownIsBlank, Inv, RestTypeOK
    <2>8. CallsHoldRecords'
      BY <1>1, <2>1, <2>2 DEF CallsHoldRecords, Inv, RestTypeOK, Returns
    <2> QED
      BY <2>5, <2>6, <2>7, <2>8 DEF Inv
  <1> QED
    BY <1>2, <1>3, <1>4

\* get keeps it.
LEMMA GetInv ==
    ASSUME Inv, NEW t \in Threads,
           (\E k \in Keys : get_hit(t, k) \/ get_read(t, k)) \/ get_fill(t)
    PROVE  Inv'
  <1>1. /\ log \in Seq(WalRecords) /\ current_lsn \in Nat
        /\ file \in Seq(Seq(SlotEntries)) /\ writer \in WriterPages /\ RestTypeOK
    BY TypeParts DEF Inv
  <1>2. /\ UNCHANGED <<log, file, current_lsn, writer, mapped, index, cursor, status, opens, acked, session>>
        /\ status = "up"
    BY DEF get_hit, get_read, get_fill, volatile, Inv, CallsHoldRecords
  <1>3. PagesWellFormed' /\ IndexSound' /\ MappedInFile' /\ WriterAligned' /\ DownIsBlank'
    BY <1>2, StorageUnchanged DEF WriterAligned, DownIsBlank, Inv
  <1> DEFINE Goal == /\ cache' \in Seq(Entries)
                     /\ pc' \in [Threads -> {"idle", "store", "fill"}]
                     /\ arg' \in [Threads -> Entries \cup {NoArg}]
                     /\ CallsHoldRecords'
  <1>4. Goal
    <2>1. ASSUME NEW k \in Keys, get_hit(t, k)
          PROVE  Goal
      BY <1>1, <1>2, <2>1, CacheTouchType DEF get_hit, RestTypeOK, CallsHoldRecords, Inv
    <2>2. ASSUME NEW k \in Keys, get_read(t, k)
          PROVE  Goal
      <3> DEFINE e == Entry(k, RecordAt(index[k]).value)
      <3>1. /\ 0 <= index[k].page_id /\ index[k].page_id < mapped
            /\ index[k].slot_id < Len(file[index[k].page_id + 1])
            /\ arg' = [arg EXCEPT ![t] = e]
            /\ pc' = [pc EXCEPT ![t] = "fill"]
            /\ cache' = cache
        BY <2>2 DEF get_read, Found, Reads, volatile
      <3>2. index[k] \in RecordIds
        BY <1>1, <3>1 DEF RestTypeOK, NoRid
      <3>3. RecordAt(index[k]) \in SlotEntries
        BY <1>1, <3>1, <3>2, MappedSlot DEF RestTypeOK, Inv
      <3>4. e \in Entries
        BY <3>3 DEF SlotEntries, Entry, Entries
      <3> HIDE DEF e
      <3> QED
        BY <1>1, <1>2, <3>1, <3>4 DEF RestTypeOK, CallsHoldRecords, Inv
    <2>3. CASE get_fill(t)
      <3>1. arg[t] \in Entries
        BY <2>3 DEF get_fill, Inv, CallsHoldRecords
      <3>2. arg[t].key \in Keys /\ arg[t].value \in Values
        BY <3>1 DEF Entries
      <3>3. cache' \in Seq(Entries)
        BY <1>1, <2>3, <3>2, CachePutType DEF get_fill, RestTypeOK
      <3> QED
        BY <1>1, <1>2, <2>3, <3>3 DEF get_fill, Returns, RestTypeOK, CallsHoldRecords, Inv
    <2> HIDE DEF Goal
    <2> QED
      BY <2>1, <2>2, <2>3
  <1>5. TypeOK'
    BY <1>1, <1>2, <1>4, TypePartsNext DEF RestTypeOK
  <1> QED
    BY <1>3, <1>4, <1>5 DEF Inv

\* Closing and crashing keep it.
LEMMA StopInv ==
    ASSUME Inv, close \/ crash \/ (\E k \in Keys, v \in Values : crash_tear(k, v))
    PROVE  Inv'
  <1>1. /\ log \in Seq(WalRecords) /\ current_lsn \in Nat
        /\ file \in Seq(Seq(SlotEntries)) /\ writer \in WriterPages /\ RestTypeOK
    BY TypeParts DEF Inv
  <1>2. Vanish /\ UNCHANGED <<opens, acked>>
    BY DEF close, crash, crash_tear
  <1>3. log' \in Seq(WalRecords)
    BY <1>1, LogRecordType DEF close, crash, crash_tear, wal_tear
  <1>4. file' = file \/ file' = Append(file, writer.slots)
    BY DEF close, crash, crash_tear, Flushed
  <1>5. file' \in Seq(Seq(SlotEntries))
    <2>1. writer.slots \in Seq(SlotEntries)
      BY <1>1 DEF WriterPages
    <2>2. Append(file, writer.slots) \in Seq(Seq(SlotEntries))
      BY <1>1, <2>1
    <2> QED
      BY <1>1, <1>4, <2>2
  <1>6. \A p \in DOMAIN file' : PageLayout(file'[p])
    BY <1>1, <1>4, WriteOutLayout DEF Inv, PagesWellFormed
  <1> QED
    BY <1>1, <1>2, <1>3, <1>5, <1>6, VanishInv DEF RestTypeOK

\* The invariant is one, of every behaviour of the database.
THEOREM Invariance == Spec => []Inv
  <1>1. Inv /\ [Next]_vars => Inv'
    <2> SUFFICES ASSUME Inv, [Next]_vars
                 PROVE  Inv'
      OBVIOUS
    <2>1. CASE open \/ Construct
      BY <2>1, ConstructInv
    <2>2. ASSUME NEW t \in Threads,
                 \/ \E k \in Keys, v \in Values : put_log(t, k, v)
                 \/ put_store(t)
                 \/ put_throw(t)
          PROVE  Inv'
      BY <2>2, PutInv
    <2>3. ASSUME NEW t \in Threads,
                 (\E k \in Keys : get_hit(t, k) \/ get_read(t, k)) \/ get_fill(t)
          PROVE  Inv'
      BY <2>3, GetInv
    <2>4. CASE close \/ crash \/ (\E k \in Keys, v \in Values : crash_tear(k, v))
      BY <2>4, StopInv
    <2>5. CASE UNCHANGED vars
      <3>1. UNCHANGED <<log, file, current_lsn, writer, mapped, index, cache, cursor,
                        status, pc, arg, opens, acked, session>>
        BY <2>5 DEF vars, volatile
      <3>2. TypeOK'
        BY <3>1, TypeParts, TypePartsNext DEF RestTypeOK, Inv
      <3>3. PagesWellFormed' /\ IndexSound' /\ MappedInFile'
        BY <3>1, StorageUnchanged
      <3>4. WriterAligned' /\ DownIsBlank' /\ CallsHoldRecords'
        BY <3>1 DEF WriterAligned, DownIsBlank, CallsHoldRecords, Inv
      <3> QED
        BY <3>2, <3>3, <3>4 DEF Inv
    <2> QED
      BY <2>1, <2>2, <2>3, <2>4, <2>5 DEF Next
  <1> QED
    BY <1>1, InitInv, PTL DEF Spec

\* Every variable of the database keeps its type.
THEOREM TypeCorrect == Spec => []TypeOK
  <1>1. Inv => TypeOK
    BY DEF Inv
  <1> QED
    BY <1>1, Invariance, PTL

\* The page ids StorageWriter hands out are the positions its pages get in the
\* file, through appends, replays, throws, closes and crashes.
THEOREM PageIdsAligned == Spec => []WriterAligned
  <1>1. Inv => WriterAligned
    BY DEF Inv
  <1> QED
    BY <1>1, Invariance, PTL

\* Index::lookup never returns a record id that dangles or names a record of
\* another key, for any keys, sizes, restarts and crashes.
THEOREM IndexNeverDangles == Spec => []IndexSound
  <1>1. Inv => IndexSound
    BY DEF Inv
  <1> QED
    BY <1>1, Invariance, PTL

\* Records on a page never overlap each other or the slot array, for records
\* of any size.
THEOREM PagesNeverOverlap == Spec => []PagesWellFormed
  <1>1. Inv => PagesWellFormed
    BY DEF Inv
  <1> QED
    BY <1>1, Invariance, PTL
=============================================================================
