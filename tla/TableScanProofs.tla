--------------------------- MODULE TableScanProofs ---------------------------
(***************************************************************************)
(* For every number of pages and frames and every content of the file: a   *)
(* scan and the prefetch threads it detaches only use the buffer pool, the *)
(* scan delivers every record once and in order whatever those threads do  *)
(* to the pool, and they do not starve it in a pool that has a frame and   *)
(* at most one frame less than the table has pages.                        *)
(***************************************************************************)
EXTENDS TableScan, PageCacheProofs

ScanVars == <<engine_vars, scan_vars>>

-----------------------------------------------------------------------------
\* The handles.

\* The scan's two handles and those of the prefetch threads are different, and
\* no thread prefetches page 0.
LEMMA HandlesApart ==
    /\ PageOf \in Handles /\ RecordOf \in Handles /\ \A t \in Threads : t \in Handles
    /\ PageOf # RecordOf /\ PageOf \notin Threads /\ RecordOf \notin Threads
    /\ \A h \in Handles : h = PageOf \/ h = RecordOf \/ h \in Threads
    /\ \A t \in Threads : /\ t[1] \in Pages /\ t[1] \in Nat /\ t[1] >= 1
                           /\ t[1] - t[2] \in Nat
<1>1. Handles = Threads \cup {PageOf, RecordOf}
  BY TableScanAssumption DEF ScanHandles
<1>2. \A t \in Threads : t[1] \in Pages /\ t[2] \in 1 .. 2 /\ t[2] <= t[1]
  BY DEF Threads, PREFETCH_LOOKAHEAD
<1>3. PageOf[1] = -1 /\ RecordOf[1] = -1 /\ PageOf[2] = 1 /\ RecordOf[2] = 2
  BY DEF PageOf, RecordOf
<1>4. ASSUME NEW t \in Threads PROVE t[1] \in Nat /\ t[1] >= 1 /\ t[1] - t[2] \in Nat
  <2>1. t[1] \in Nat
    BY <1>2, Markers
  <2>2. t[2] \in 1 .. 2 /\ t[2] <= t[1]
    BY <1>2
  <2> QED
    BY <2>1, <2>2
<1>5. PageOf \notin Threads /\ RecordOf \notin Threads /\ PageOf # RecordOf
  BY <1>3, <1>4
<1> QED
  BY <1>1, <1>2, <1>4, <1>5
-----------------------------------------------------------------------------
\* The inductive invariant.

\* Where the scan holds its page.
InPage == at \in {"slot", "record", "callback", "leave"}

\* Nothing is written during a scan, so the pool's copies are the file's.
PoolClean ==
    /\ writing = {}
    /\ disk \in [Pages -> Values]
    /\ \A p \in Pages : Cached(p) => pool[page_map[p]] = disk[p]

\* Which handles are live follows from where the threads are.
HandlesHeld ==
    /\ handle[PageOf] = IF InPage THEN pid ELSE NoPage
    /\ handle[RecordOf] = IF at = "record" THEN pid ELSE NoPage
    /\ \A t \in Threads : handle[t] = IF thread[t] = "holding" THEN t[1] ELSE NoPage

\* The scan stays inside the table and its pages, and its prefetch threads
\* inside the table; each was started for a page the scan has read.
ScanInTable ==
    /\ InPage => pid < page_count
    /\ at = "slot" => sid <= disk[pid]
    /\ at \in {"record", "callback"} => sid < disk[pid]
    /\ at = "leave" => sid = disk[pid]
    /\ at = "returned" => pid >= page_count
    /\ \A t \in Threads : thread[t] # "none" =>
          /\ t[1] < page_count
          /\ t[1] - t[2] <= pid /\ (at # "leave" => t[1] - t[2] < pid)

\* The next record id the scan will look at.
NextId == <<pid, IF at \in {"idle", "page", "starved", "returned"} THEN 0 ELSE sid>>

\* The records delivered are those of the table before NextId, in order.
DeliveredBefore ==
    /\ \A i, j \in DOMAIN delivered : i < j => Before(delivered[i], delivered[j])
    /\ \A i \in DOMAIN delivered : delivered[i] \in TableRecords /\ Before(delivered[i], NextId)
    /\ \A r \in TableRecords : Before(r, NextId) => r \in Range(delivered)

ScanInv ==
    /\ Inv /\ ScanTypeOK
    /\ PoolClean
    /\ HandlesHeld
    /\ ScanInTable
    /\ DeliveredBefore
    /\ LoneScanNeverStarves

\* Pages of the table are pages of the file, and their contents are numbers.
LEMMA ScanTypes ==
    ASSUME ScanTypeOK, PoolClean
    PROVE  /\ PageCount \in Nat /\ page_count \in Nat /\ page_count <= PageCount
           /\ pid \in Nat /\ sid \in Nat
           /\ pid < page_count => pid \in Pages
           /\ \A p \in Pages : p \in Nat /\ disk[p] \in Values /\ disk[p] \in Nat
<1>1. PageCount \in Nat
  BY PageCacheAssumption
<1>2. page_count \in 0 .. PageCount /\ pid \in 0 .. PageCount /\ sid \in Nat
  BY DEF ScanTypeOK
<1>3. page_count \in Nat /\ page_count <= PageCount /\ pid \in Nat
  BY <1>1, <1>2
<1>4. pid < page_count => pid \in Pages
  BY <1>1, <1>3 DEF Pages
<1>5. \A p \in Pages : disk[p] \in Values
  BY DEF PoolClean
<1> QED
  BY <1>1, <1>2, <1>3, <1>4, <1>5, TableScanAssumption, Markers
-----------------------------------------------------------------------------
\* What a scan and its prefetches do to the pool.

\* A clean pool is one whose pages hold what the file holds.
LEMMA CleanIsLogical ==
    ASSUME disk \in [Pages -> Values]
    PROVE  (\A p \in Pages : Cached(p) => pool[page_map[p]] = disk[p]) <=> Logical = disk
<1>1. Logical = [p \in Pages |-> IF Cached(p) THEN pool[page_map[p]] ELSE disk[p]]
  BY DEF Logical
<1>2. Logical = disk <=> \A p \in Pages : Logical[p] = disk[p]
  BY <1>1
<1> QED
  BY <1>1, <1>2

\* The same of the next state.
LEMMA CleanNext ==
    ASSUME PoolClean, writing' = writing, disk' = disk, Logical' = Logical
    PROVE  PoolClean'
<1>1. Logical = disk
  BY CleanIsLogical DEF PoolClean
<1>2. \A p \in Pages : Cached(p)' => pool'[page_map'[p]] = disk'[p]
  <2>1. Logical' = [p \in Pages |-> IF Cached(p)' THEN pool'[page_map'[p]] ELSE disk'[p]]
    BY DEF Logical
  <2> QED
    BY <1>1, <2>1
<1> QED
  BY <1>2 DEF PoolClean

\* A fetch pins the page for its handle and changes no page.
LEMMA ScanFetch ==
    ASSUME Inv, PoolClean, NEW h \in Handles, NEW p \in Pages, cache_fetch(h, p)
    PROVE  /\ Next /\ Inv' /\ PoolClean' /\ disk' = disk
           /\ handle' = [handle EXCEPT ![h] = p]
<1>1. "PointLookup" \in Hints
  BY DEF Hints
<1>2. CASE fetch_hit(h, p)
  <2>1. Inv' /\ Next
    BY <1>2, FetchHitInv DEF Next
  <2>2. UNCHANGED <<disk, pool, page_map, writing>> /\ handle' = [handle EXCEPT ![h] = p]
    BY <1>2 DEF fetch_hit, NewHandle
  <2>3. Logical' = Logical
    BY <2>2 DEF Logical, Cached
  <2> QED
    BY <2>1, <2>2, <2>3, CleanNext
<1>3. CASE fetch_free(h, p)
  <2>1. Inv' /\ Next
    BY <1>3, FetchFreeInv DEF Next
  <2>2. UNCHANGED <<disk, writing>> /\ handle' = [handle EXCEPT ![h] = p]
    BY <1>3 DEF fetch_free, NewHandle
  <2>3. Logical' = Logical
    BY <1>3, MissKeepsContents
  <2> QED
    BY <2>1, <2>2, <2>3, CleanNext
<1>4. CASE fetch_evict(h, p, "PointLookup")
  <2>1. Inv' /\ Next
    BY <1>1, <1>4, FetchEvictInv DEF Next
  <2>2. PICK i \in Unpinned : evict_into(h, p, i)
    BY <1>4 DEF fetch_evict
  <2> DEFINE v == lru_list[i]
  <2>3. v \in Pages /\ Cached(v)
    BY UnpinnedPage
  <2>4. disk' = [disk EXCEPT ![v] = pool[page_map[v]]] /\ handle' = [handle EXCEPT ![h] = p]
    BY <2>2 DEF evict_into, WriteBack, NewHandle
  <2>5. disk' = disk
    BY <2>3, <2>4 DEF PoolClean
  <2>6. Logical' = Logical
    BY <1>1, <1>4, MissKeepsContents
  <2>7. writing' = writing
    BY <1>4 DEF fetch_evict
  <2> QED
    BY <2>1, <2>4, <2>5, <2>6, <2>7, CleanNext
<1> QED
  BY <1>2, <1>3, <1>4 DEF cache_fetch

\* So does a handle that goes away.
LEMMA ScanDrop ==
    ASSUME Inv, PoolClean, NEW h \in Handles, drop(h)
    PROVE  /\ Next /\ Inv' /\ PoolClean' /\ disk' = disk
           /\ handle' = [handle EXCEPT ![h] = NoPage]
<1>1. Inv' /\ Next
  BY DropInv DEF Next
<1>2. UNCHANGED <<disk, pool, page_map, writing>> /\ handle' = [handle EXCEPT ![h] = NoPage]
  BY DEF drop
<1>3. Logical' = Logical
  BY <1>2 DEF Logical, Cached
<1> QED
  BY <1>1, <1>2, <1>3, CleanNext

\* And a fetch that throws.
LEMMA ScanThrow ==
    ASSUME Inv, PoolClean, NEW p \in Pages, fetch_throw(p)
    PROVE  Next /\ Inv' /\ PoolClean' /\ disk' = disk /\ handle' = handle
<1>1. Inv' /\ Next
  BY FetchThrowInv DEF Next
<1>2. UNCHANGED <<disk, pool, page_map, writing, handle>>
  BY DEF fetch_throw
<1>3. Logical' = Logical
  BY <1>2 DEF Logical, Cached
<1> QED
  BY <1>1, <1>2, <1>3, CleanNext

\* And a step that leaves the pool alone.
LEMMA ScanElse ==
    ASSUME Inv, PoolClean, UNCHANGED engine_vars
    PROVE  /\ UNCHANGED vars /\ Inv' /\ PoolClean' /\ UNCHANGED <<disk, handle, page_count>>
<1>1. UNCHANGED vars /\ page_count' = page_count
  BY DEF engine_vars
<1>2. Inv'
  BY <1>1 DEF vars, Inv, TypeOK, HandleSafe, PinCountExact, HandlesOn, FramePartition,
              FramesDisjoint, LruListExact, NoTornPage, WritersApart, Cached
<1>3. PoolClean' /\ UNCHANGED <<disk, handle>>
  BY <1>1 DEF vars, PoolClean, Cached
<1> QED
  BY <1>1, <1>2, <1>3

\* Every step: the pool takes a step of its own or none, and the file keeps
\* its length and contents.
LEMMA PoolStep ==
    ASSUME ScanInv, [ScanNext]_ScanVars
    PROVE  /\ [Next]_vars /\ Inv' /\ PoolClean'
           /\ disk' = disk /\ page_count' = page_count
<1>1. Inv /\ PoolClean /\ ScanTypeOK
  BY DEF ScanInv
<1>2. CASE \E h \in Handles, p \in Pages : fetch_page(h, p)
  BY <1>1, <1>2, ScanFetch DEF fetch_page
<1>3. CASE \E h \in Handles : drop_page(h)
  BY <1>1, <1>3, ScanDrop DEF drop_page
<1>4. CASE \E p \in Pages : fetch_page_full(p)
  BY <1>1, <1>4, ScanThrow DEF fetch_page_full
<1>5. CASE UNCHANGED engine_vars
  BY <1>1, <1>5, ScanElse
<1>6. pid < page_count => pid \in Pages
  BY <1>1, ScanTypes
<1>7. CASE ScanStep
  BY <1>2, <1>3, <1>4, <1>5, <1>6, <1>7, HandlesApart
  DEF ScanStep, scan_page, scan_page_full, read_record, read_record_return, callback,
      callback_throw, prefetch, leave_page, scan_return, fetch_page, fetch_page_full
<1>8. ASSUME NEW t \in Threads, PrefetchStep(t)
      PROVE  /\ [Next]_vars /\ Inv' /\ PoolClean'
             /\ disk' = disk /\ page_count' = page_count
  BY <1>2, <1>3, <1>4, <1>8, HandlesApart
  DEF PrefetchStep, prefetch_fetch, prefetch_full, prefetch_end
<1>9. CASE scan \/ UNCHANGED ScanVars
  BY <1>5, <1>9 DEF scan, ScanVars
<1> QED
  BY <1>7, <1>8, <1>9 DEF ScanNext
-----------------------------------------------------------------------------
\* The scan.

\* The scanning thread keeps the types of what it works on.
LEMMA ScanTypeStep ==
    ASSUME ScanInv, [ScanNext]_ScanVars, Inv'
    PROVE  ScanTypeOK'
<1>1. /\ page_count \in 0 .. PageCount /\ pid \in 0 .. PageCount /\ sid \in Nat
      /\ at \in {"idle", "page", "slot", "record", "callback", "leave", "returned", "thrown", "starved"}
      /\ delivered \in Seq(Pages \X Nat) /\ hint \in Hints
      /\ thread \in [Threads -> {"none", "started", "holding", "ended"}]
  BY DEF ScanInv, ScanTypeOK
<1>2. TypeOK'
  BY DEF Inv
<1>3. page_count' = page_count
  BY PoolStep
<1>4. InPage => pid \in Pages /\ pid + 1 \in 0 .. PageCount
  <2>1. InPage => pid < page_count
    BY DEF ScanInv, ScanInTable
  <2>2. PageCount \in Nat
    BY PageCacheAssumption
  <2> QED
    BY <1>1, <2>1, <2>2 DEF Pages
<1>5. /\ at' \in {"idle", "page", "slot", "record", "callback", "leave", "returned", "thrown", "starved"}
      /\ hint' \in Hints
  <2>1. CASE scan \/ ScanStep
    BY <1>1, <2>1
    DEF scan, ScanStep, scan_page, scan_page_full, read_record, read_record_return, callback,
        callback_throw, prefetch, leave_page, scan_return, Hints
  <2>2. CASE (\E t \in Threads : PrefetchStep(t)) \/ UNCHANGED ScanVars
    BY <1>1, <2>2
    DEF PrefetchStep, prefetch_fetch, prefetch_full, prefetch_end, ScanVars, scan_vars
  <2> QED
    BY <2>1, <2>2 DEF ScanNext
<1>6. pid' \in 0 .. PageCount /\ sid' \in Nat
  <2>1. CASE scan \/ ScanStep
    BY <1>1, <1>4, <2>1
    DEF scan, ScanStep, scan_page, scan_page_full, read_record, read_record_return, callback,
        callback_throw, prefetch, leave_page, scan_return, InPage
  <2>2. CASE (\E t \in Threads : PrefetchStep(t)) \/ UNCHANGED ScanVars
    BY <1>1, <2>2
    DEF PrefetchStep, prefetch_fetch, prefetch_full, prefetch_end, ScanVars, scan_vars
  <2> QED
    BY <2>1, <2>2 DEF ScanNext
<1>7. delivered' \in Seq(Pages \X Nat)
  <2>1. CASE callback
    <3>1. delivered' = Append(delivered, <<pid, sid>>) /\ InPage
      BY <2>1 DEF callback, InPage
    <3>2. <<pid, sid>> \in Pages \X Nat
      BY <1>1, <1>4, <3>1
    <3> QED
      BY <1>1, <3>1, <3>2
  <2>2. CASE ~ callback
    BY <1>1, <2>2
    DEF ScanNext, scan, ScanStep, scan_page, scan_page_full, read_record, read_record_return,
        callback_throw, prefetch, leave_page, scan_return,
        PrefetchStep, prefetch_fetch, prefetch_full, prefetch_end, ScanVars, scan_vars
  <2> QED
    BY <2>1, <2>2
<1>8. thread' \in [Threads -> {"none", "started", "holding", "ended"}]
  <2>1. CASE prefetch
    BY <1>1, <2>1 DEF prefetch
  <2>2. ASSUME NEW t \in Threads, PrefetchStep(t)
        PROVE  thread' \in [Threads -> {"none", "started", "holding", "ended"}]
    BY <1>1, <2>2 DEF PrefetchStep, prefetch_fetch, prefetch_full, prefetch_end
  <2>3. CASE thread' = thread
    BY <1>1, <2>3
  <2> QED
    BY <2>1, <2>2, <2>3
    DEF ScanNext, scan, ScanStep, scan_page, scan_page_full, read_record, read_record_return,
        callback, callback_throw, leave_page, scan_return, ScanVars, scan_vars
<1> QED
  BY <1>1, <1>2, <1>3, <1>5, <1>6, <1>7, <1>8 DEF ScanTypeOK

\* What a step of the scanning thread does to its handles and its position.
LEMMA ScanStepEffect ==
    ASSUME ScanInv, scan \/ ScanStep
    PROVE  \/ /\ at = "idle" /\ at' = "page"
              /\ UNCHANGED <<handle, pid, sid, delivered, thread>>
           \/ /\ at = "page" /\ pid < page_count /\ at' = "slot" /\ sid' = 0
              /\ handle' = [handle EXCEPT ![PageOf] = pid]
              /\ UNCHANGED <<pid, delivered, thread>>
           \/ /\ at = "page" /\ pid < page_count /\ fetch_throw(pid) /\ at' = "starved"
              /\ UNCHANGED <<handle, pid, sid, delivered, thread>>
           \/ /\ at = "slot" /\ sid < slot_count /\ at' = "record"
              /\ handle' = [handle EXCEPT ![RecordOf] = pid]
              /\ UNCHANGED <<pid, sid, delivered, thread>>
           \/ /\ at = "record" /\ at' = "callback"
              /\ handle' = [handle EXCEPT ![RecordOf] = NoPage]
              /\ UNCHANGED <<pid, sid, delivered, thread>>
           \/ /\ at = "callback" /\ at' = "slot" /\ sid' = sid + 1
              /\ delivered' = Append(delivered, <<pid, sid>>)
              /\ UNCHANGED <<handle, pid, thread>>
           \/ /\ at = "callback" /\ at' = "thrown"
              /\ handle' = [handle EXCEPT ![PageOf] = NoPage]
              /\ UNCHANGED <<pid, sid, delivered, thread>>
           \/ /\ at = "slot" /\ sid = slot_count /\ at' = "leave"
              /\ thread' = [t \in Threads |-> IF t \in Ahead THEN "started" ELSE thread[t]]
              /\ UNCHANGED <<handle, pid, sid, delivered>>
           \/ /\ at = "leave" /\ at' = "page" /\ pid' = pid + 1
              /\ handle' = [handle EXCEPT ![PageOf] = NoPage]
              /\ UNCHANGED <<sid, delivered, thread>>
           \/ /\ at = "page" /\ pid >= page_count /\ at' = "returned"
              /\ UNCHANGED <<handle, pid, sid, delivered, thread>>
<1>1. Inv /\ PoolClean /\ (pid < page_count => pid \in Pages)
  BY ScanTypes DEF ScanInv
<1>2. \A h \in Handles : fetch_page(h, pid) => pid < page_count /\ handle' = [handle EXCEPT ![h] = pid]
  BY <1>1, ScanFetch DEF fetch_page
<1>3. \A h \in Handles : drop_page(h) => handle' = [handle EXCEPT ![h] = NoPage]
  BY DEF drop_page, drop
<1>4. fetch_page_full(pid) => pid < page_count /\ fetch_throw(pid) /\ handle' = handle
  BY DEF fetch_page_full, fetch_throw
<1>5. UNCHANGED engine_vars => handle' = handle
  BY DEF engine_vars, vars
<1> QED
  BY <1>2, <1>3, <1>4, <1>5, HandlesApart
  DEF scan, ScanStep, scan_page, scan_page_full, read_record, read_record_return, callback,
      callback_throw, prefetch, leave_page, scan_return

\* What a step of a prefetch thread does to its handle.
LEMMA PrefetchEffect ==
    ASSUME ScanInv, NEW t \in Threads, PrefetchStep(t)
    PROVE  /\ UNCHANGED <<at, pid, sid, delivered>>
           /\ \/ /\ thread[t] = "started" /\ thread' = [thread EXCEPT ![t] = "holding"]
                 /\ handle' = [handle EXCEPT ![t] = t[1]]
              \/ /\ thread[t] = "started" /\ thread' = [thread EXCEPT ![t] = "ended"]
                 /\ handle' = handle
              \/ /\ thread[t] = "holding" /\ thread' = [thread EXCEPT ![t] = "ended"]
                 /\ handle' = [handle EXCEPT ![t] = NoPage]
<1>1. Inv /\ PoolClean /\ t \in Handles /\ t[1] \in Pages
  BY HandlesApart DEF ScanInv
<1>2. fetch_page(t, t[1]) => handle' = [handle EXCEPT ![t] = t[1]]
  BY <1>1, ScanFetch DEF fetch_page
<1>3. drop_page(t) => handle' = [handle EXCEPT ![t] = NoPage]
  BY DEF drop_page, drop
<1>4. fetch_page_full(t[1]) => handle' = handle
  BY DEF fetch_page_full, fetch_throw
<1> QED
  BY <1>2, <1>3, <1>4 DEF PrefetchStep, prefetch_fetch, prefetch_full, prefetch_end

\* The slot count the scan reads is the one in the file.
LEMMA SlotCountIs ==
    ASSUME ScanInv, InPage
    PROVE  slot_count = disk[pid]
<1>1. handle[PageOf] = pid /\ pid < page_count /\ PageOf \in Handles
  BY HandlesApart DEF ScanInv, HandlesHeld, ScanInTable
<1>2. pid \in Pages
  BY <1>1, ScanTypes DEF ScanInv
<1>3. Cached(pid) /\ page_map[pid] = frame[PageOf]
  BY <1>1, <1>2, Markers DEF ScanInv, Inv, HandleSafe
<1> QED
  BY <1>2, <1>3 DEF ScanInv, PoolClean, slot_count

\* The handles after every step.
LEMMA HandlesStep ==
    ASSUME ScanInv, [ScanNext]_ScanVars
    PROVE  HandlesHeld'
<1>1. /\ handle \in [Handles -> Pages \cup {NoPage}]
      /\ thread \in [Threads -> {"none", "started", "holding", "ended"}]
  BY DEF ScanInv, Inv, TypeOK, ScanTypeOK
<1>2. /\ handle[PageOf] = IF InPage THEN pid ELSE NoPage
      /\ handle[RecordOf] = IF at = "record" THEN pid ELSE NoPage
      /\ \A t \in Threads : handle[t] = IF thread[t] = "holding" THEN t[1] ELSE NoPage
  BY DEF ScanInv, HandlesHeld
<1>3. CASE scan \/ ScanStep
  <2>1. CASE /\ at = "slot" /\ sid = slot_count /\ at' = "leave"
             /\ thread' = [t \in Threads |-> IF t \in Ahead THEN "started" ELSE thread[t]]
             /\ UNCHANGED <<handle, pid, sid, delivered>>
    <3>1. ASSUME NEW t \in Ahead PROVE thread[t] # "holding"
      <4>1. t \in Threads /\ t[1] - t[2] = pid /\ pid \in Nat
        BY ScanTypes DEF Ahead, ScanInv
      <4>2. ~ (t[1] - t[2] < pid)
        BY <4>1
      <4> QED
        BY <2>1, <4>1, <4>2 DEF ScanInv, ScanInTable
    <3> QED
      BY <1>1, <1>2, <2>1, <3>1 DEF HandlesHeld, InPage, Ahead
  <2>2. CASE thread' = thread
    <3>1. HandlesHeld' <=> /\ handle'[PageOf] = IF InPage' THEN pid' ELSE NoPage
                           /\ handle'[RecordOf] = IF at' = "record" THEN pid' ELSE NoPage
                           /\ \A t \in Threads : handle'[t] = IF thread[t] = "holding" THEN t[1] ELSE NoPage
      BY <2>2 DEF HandlesHeld
    <3> QED
      BY <1>1, <1>2, <1>3, <2>2, <3>1, ScanStepEffect, HandlesApart DEF InPage
  <2> QED
    BY <1>3, <2>1, <2>2, ScanStepEffect
<1>4. ASSUME NEW t \in Threads, PrefetchStep(t) PROVE HandlesHeld'
  <2>1. t \in Handles /\ t # PageOf /\ t # RecordOf /\ \A u \in Threads : u \in Handles
    BY HandlesApart
  <2>2. InPage' = InPage
    BY <1>4, PrefetchEffect DEF InPage
  <2> QED
    BY <1>1, <1>2, <1>4, <2>1, <2>2, PrefetchEffect, HandlesApart DEF HandlesHeld
<1>5. CASE UNCHANGED ScanVars
  BY <1>2, <1>5 DEF ScanVars, scan_vars, engine_vars, vars, HandlesHeld, InPage
<1> QED
  BY <1>3, <1>4, <1>5 DEF ScanNext

\* The position of the scan after every step.
LEMMA InTableStep ==
    ASSUME ScanInv, [ScanNext]_ScanVars
    PROVE  ScanInTable'
<1>1. /\ page_count \in Nat /\ pid \in Nat /\ sid \in Nat /\ disk' = disk /\ page_count' = page_count
      /\ thread \in [Threads -> {"none", "started", "holding", "ended"}]
      /\ pid < page_count => disk[pid] \in Nat
  BY PoolStep, ScanTypes DEF ScanInv, ScanTypeOK
<1>2. \A t \in Threads : t[1] \in Nat /\ t[1] - t[2] \in Nat
  BY HandlesApart
<1>3. ScanInTable
  BY DEF ScanInv
<1>4. InPage => slot_count = disk[pid] /\ pid < page_count
  BY SlotCountIs DEF ScanInv, ScanInTable
<1>5. CASE scan \/ ScanStep
  <2>1. /\ InPage' => pid' < page_count
        /\ at' = "slot" => sid' <= disk[pid']
        /\ at' \in {"record", "callback"} => sid' < disk[pid']
        /\ at' = "leave" => sid' = disk[pid']
        /\ at' = "returned" => pid' >= page_count
    BY <1>1, <1>3, <1>4, <1>5, ScanStepEffect DEF ScanInTable, InPage
  <2>2. ASSUME NEW t \in Threads, thread'[t] # "none"
        PROVE  t[1] < page_count /\ t[1] - t[2] <= pid' /\ (at' # "leave" => t[1] - t[2] < pid')
    <3>1. CASE thread' = thread
      <4>1. /\ t[1] < page_count /\ t[1] - t[2] <= pid /\ (at # "leave" => t[1] - t[2] < pid)
        BY <1>3, <2>2, <3>1 DEF ScanInTable
      <4>2. \/ at' # "leave" /\ at # "leave" /\ pid' = pid
            \/ at' = "leave" /\ pid' = pid
            \/ at = "leave" /\ pid' = pid + 1
        BY <1>5, ScanStepEffect
      <4> QED
        BY <1>1, <1>2, <4>1, <4>2
    <3>2. CASE /\ at = "slot" /\ at' = "leave" /\ pid' = pid
               /\ thread' = [u \in Threads |-> IF u \in Ahead THEN "started" ELSE thread[u]]
      <4>1. CASE t \in Ahead
        BY <1>1, <1>2, <3>2, <4>1 DEF Ahead
      <4>2. CASE t \notin Ahead
        <5>1. thread[t] # "none"
          BY <2>2, <3>2, <4>2
        <5> QED
          BY <1>1, <1>3, <3>2, <5>1 DEF ScanInTable
      <4> QED
        BY <4>1, <4>2
    <3> QED
      BY <1>5, <3>1, <3>2, ScanStepEffect
  <2> QED
    BY <1>1, <2>1, <2>2 DEF ScanInTable
<1>6. ASSUME NEW t \in Threads, PrefetchStep(t) PROVE ScanInTable'
  <2>1. UNCHANGED <<at, pid, sid>> /\ \A u \in Threads : thread'[u] # "none" => thread[u] # "none"
    BY <1>1, <1>6, PrefetchEffect
  <2> QED
    BY <1>1, <1>3, <2>1 DEF ScanInTable, InPage
<1>7. CASE UNCHANGED ScanVars
  BY <1>3, <1>7 DEF ScanVars, scan_vars, engine_vars, vars, ScanInTable, InPage
<1> QED
  BY <1>5, <1>6, <1>7 DEF ScanNext
-----------------------------------------------------------------------------
\* What is delivered.

\* The record ids of the table.
LEMMA TableRecordIs ==
    ASSUME ScanTypeOK, PoolClean
    PROVE  /\ \A r \in TableRecords :
                 r \in Nat \X Nat /\ r[1] < page_count /\ r[2] < disk[r[1]] /\ disk[r[1]] \in Nat
           /\ \A p, s \in Nat : p < page_count /\ s < disk[p] => <<p, s>> \in TableRecords
<1>1. page_count \in Nat /\ \A p \in 0 .. page_count - 1 : disk[p] \in Nat
  <2>1. /\ page_count \in Nat /\ PageCount \in Nat /\ page_count <= PageCount
        /\ \A p \in Pages : disk[p] \in Nat
    BY ScanTypes
  <2> QED
    BY <2>1 DEF Pages
<1>2. ASSUME NEW r \in TableRecords
      PROVE  r \in Nat \X Nat /\ r[1] < page_count /\ r[2] < disk[r[1]] /\ disk[r[1]] \in Nat
  <2>1. PICK p \in 0 .. page_count - 1 : r \in {p} \X (0 .. disk[p] - 1)
    BY DEF TableRecords
  <2>2. r = <<p, r[2]>> /\ r[1] = p /\ r[2] \in 0 .. disk[p] - 1
    BY <2>1
  <2>3. p \in Nat /\ p < page_count /\ disk[p] \in Nat
    BY <1>1
  <2>4. r[2] \in Nat /\ r[2] < disk[p]
    BY <2>2, <2>3
  <2> QED
    BY <2>2, <2>3, <2>4
<1>3. ASSUME NEW p \in Nat, NEW s \in Nat, p < page_count, s < disk[p]
      PROVE  <<p, s>> \in TableRecords
  <2>1. p \in 0 .. page_count - 1
    BY <1>1, <1>3
  <2>2. s \in 0 .. disk[p] - 1
    BY <1>1, <1>3, <2>1
  <2>3. <<p, s>> \in {p} \X (0 .. disk[p] - 1)
    BY <2>2
  <2> QED
    BY <2>1, <2>3 DEF TableRecords
<1> QED
  BY <1>2, <1>3

\* Delivering the record at the scan's position.
LEMMA DeliverOne ==
    ASSUME ScanInv, at = "callback", at' = "slot", pid' = pid, sid' = sid + 1,
           delivered' = Append(delivered, <<pid, sid>>), TableRecords' = TableRecords
    PROVE  DeliveredBefore'
<1> DEFINE n == Len(delivered)
           r == <<pid, sid>>
<1>1. /\ delivered \in Seq(Pages \X Nat) /\ n \in Nat /\ DOMAIN delivered = 1 .. n
      /\ pid \in Nat /\ sid \in Nat
  BY ScanTypes DEF ScanInv, ScanTypeOK
<1>2. pid < page_count /\ sid < disk[pid]
  BY DEF ScanInv, ScanInTable, InPage
<1>3. r \in TableRecords /\ r[1] = pid /\ r[2] = sid
  BY <1>1, <1>2, TableRecordIs DEF ScanInv
<1>4. NextId[1] = pid /\ NextId[2] = sid /\ NextId'[1] = pid /\ NextId'[2] = sid + 1
  BY DEF NextId
<1>5. /\ DOMAIN delivered' = 1 .. n + 1 /\ delivered'[n + 1] = r
      /\ \A i \in 1 .. n : delivered'[i] = delivered[i]
  <2>1. r \in Pages \X Nat
    BY <1>1, <1>2, ScanTypes DEF ScanInv
  <2> QED
    BY <1>1, <2>1
<1>6. /\ \A i, j \in 1 .. n : i < j => Before(delivered[i], delivered[j])
      /\ \A i \in 1 .. n : delivered[i] \in TableRecords /\ Before(delivered[i], NextId)
      /\ \A x \in TableRecords : Before(x, NextId) => x \in Range(delivered)
  BY <1>1 DEF ScanInv, DeliveredBefore
<1> HIDE DEF n, r
<1>7. \A i \in 1 .. n : Before(delivered[i], r)
  BY <1>3, <1>4, <1>6 DEF Before
<1>8. Before(r, NextId')
  BY <1>1, <1>3, <1>4 DEF Before
<1>9. ASSUME NEW x \in TableRecords, Before(x, NextId) PROVE Before(x, NextId')
  <2>1. x[1] \in Nat /\ x[2] \in Nat
    BY TableRecordIs DEF ScanInv
  <2> QED
    BY <1>1, <1>4, <1>9, <2>1 DEF Before
<1>10. ASSUME NEW i \in 1 .. n + 1, NEW j \in 1 .. n + 1, i < j
       PROVE  Before(delivered'[i], delivered'[j])
  <2>1. i \in 1 .. n
    BY <1>1, <1>10
  <2>2. CASE j = n + 1
    BY <1>5, <1>7, <2>1, <2>2
  <2>3. CASE j # n + 1
    <3>1. j \in 1 .. n
      BY <1>1, <2>3
    <3> QED
      BY <1>5, <1>6, <1>10, <2>1, <3>1
  <2> QED
    BY <2>2, <2>3
<1>11. ASSUME NEW i \in 1 .. n + 1
       PROVE  delivered'[i] \in TableRecords /\ Before(delivered'[i], NextId')
  <2>1. CASE i = n + 1
    BY <1>3, <1>5, <1>8, <2>1
  <2>2. CASE i # n + 1
    <3>1. i \in 1 .. n
      BY <1>1, <2>2
    <3> QED
      BY <1>5, <1>6, <1>9, <3>1
  <2> QED
    BY <2>1, <2>2
<1>12. ASSUME NEW x \in TableRecords, Before(x, NextId') PROVE x \in Range(delivered')
  <2>1. x \in Nat \X Nat
    BY TableRecordIs DEF ScanInv
  <2>2. CASE Before(x, NextId)
    <3>1. PICK i \in DOMAIN delivered : x = delivered[i]
      BY <1>6, <2>2 DEF Range
    <3>2. i \in 1 .. n /\ i \in 1 .. n + 1
      BY <1>1, <3>1
    <3> QED
      BY <1>5, <3>1, <3>2 DEF Range
  <2>3. CASE ~ Before(x, NextId)
    <3>1. x[1] = pid /\ x[2] = sid
      BY <1>1, <1>4, <1>12, <2>1, <2>3 DEF Before
    <3>2. x = r
      BY <2>1, <3>1 DEF r
    <3>3. n + 1 \in DOMAIN delivered'
      BY <1>1, <1>5
    <3> QED
      BY <1>5, <3>2, <3>3 DEF Range
  <2> QED
    BY <2>2, <2>3
<1> QED
  BY <1>5, <1>10, <1>11, <1>12 DEF DeliveredBefore

\* A step that delivers nothing moves the scan past no record.
LEMMA DeliverNone ==
    ASSUME ScanInv, delivered' = delivered, TableRecords' = TableRecords,
           \A r \in TableRecords : Before(r, NextId)' <=> Before(r, NextId)
    PROVE  DeliveredBefore'
<1>1. \A r \in TableRecords : Before(r, NextId') <=> Before(r, NextId)
  BY DEF Before
<1> QED
  BY <1>1 DEF ScanInv, DeliveredBefore

\* What is delivered after every step.
LEMMA DeliveredStep ==
    ASSUME ScanInv, [ScanNext]_ScanVars
    PROVE  DeliveredBefore'
<1>1. TableRecords' = TableRecords
  BY PoolStep DEF TableRecords
<1>2. pid \in Nat /\ sid \in Nat /\ ScanTypeOK /\ PoolClean
  BY ScanTypes DEF ScanInv
<1>3. CASE scan \/ ScanStep
  <2>1. CASE at = "callback" /\ at' = "slot"
    BY <1>1, <1>3, <2>1, DeliverOne, ScanStepEffect
  <2>2. CASE at = "leave"
    <3>1. at' = "page" /\ pid' = pid + 1 /\ delivered' = delivered
      BY <1>3, <2>2, ScanStepEffect
    <3>2. pid < page_count /\ sid = disk[pid]
      BY <2>2 DEF ScanInv, ScanInTable, InPage
    <3>3. NextId[1] = pid /\ NextId[2] = disk[pid] /\ NextId'[1] = pid + 1 /\ NextId'[2] = 0
      BY <2>2, <3>1, <3>2 DEF NextId
    <3>4. ASSUME NEW r \in TableRecords PROVE Before(r, NextId)' <=> Before(r, NextId)
      <4>1. r[1] \in Nat /\ r[2] \in Nat /\ r[2] < disk[r[1]] /\ disk[r[1]] \in Nat
        BY <1>2, TableRecordIs
      <4> QED
        BY <1>2, <3>3, <4>1 DEF Before
    <3> QED
      BY <1>1, <3>1, <3>4, DeliverNone
  <2>3. CASE at # "leave" /\ ~ (at = "callback" /\ at' = "slot")
    <3>1. NextId' = NextId /\ delivered' = delivered
      BY <1>3, <2>3, ScanStepEffect DEF NextId
    <3> QED
      BY <1>1, <3>1, DeliverNone DEF Before
  <2> QED
    BY <2>1, <2>2, <2>3
<1>4. CASE UNCHANGED <<at, pid, sid, delivered>>
  <2>1. NextId' = NextId
    BY <1>4 DEF NextId
  <2> QED
    BY <1>1, <1>4, <2>1, DeliverNone DEF Before
<1>5. ASSUME NEW t \in Threads, PrefetchStep(t) PROVE DeliveredBefore'
  BY <1>4, <1>5, PrefetchEffect
<1>6. CASE UNCHANGED ScanVars
  BY <1>4, <1>6 DEF ScanVars, scan_vars
<1> QED
  BY <1>3, <1>5, <1>6 DEF ScanNext
-----------------------------------------------------------------------------
\* Starvation.

\* A scan that is refused a frame faces a pool whose pages are all held by its
\* prefetch threads: pages of the table, not page 0 and not the one it asks
\* for, and it is past page 0 itself if there is such a page.
LEMMA RefusedByPrefetches ==
    ASSUME ScanInv, at = "page", pid < page_count, fetch_throw(pid)
    PROVE  /\ \A f \in Frames : \E p \in Pages : page_map[p] = f
           /\ \A p \in Pages : Cached(p) => p >= 1 /\ p < page_count /\ p # pid
           /\ \A p \in Pages : Cached(p) => pid >= 1
<1>1. Inv /\ HandlesHeld /\ ScanInTable /\ pid \in Nat /\ page_count \in Nat
  BY ScanTypes DEF ScanInv
<1>2. /\ ~Cached(pid) /\ free_frames = <<>> /\ Unpinned = {}
  BY DEF fetch_throw
<1>3. \A f \in Frames : \E p \in Pages : page_map[p] = f
  <2>1. DOMAIN free_frames = {}
    BY <1>2
  <2> QED
    BY <1>1, <2>1, Zenon DEF Inv, FramePartition
<1>4. ASSUME NEW p \in Pages, Cached(p)
      PROVE  p >= 1 /\ p < page_count /\ p # pid /\ pid >= 1
  <2>1. PICK i \in DOMAIN lru_list : lru_list[i] = p
    BY <1>1, <1>4, Zenon DEF Inv, LruListExact
  <2>2. pin_counts[page_map[p]] # 0
    BY <1>2, <2>1 DEF Unpinned
  <2>3. HandlesOn(p) # {}
    <3>1. pin_counts[page_map[p]] = Cardinality(HandlesOn(p))
      BY <1>1, <1>4, Zenon DEF Inv, PinCountExact
    <3> QED
      BY <2>2, <3>1, FS_EmptySet
  <2>4. PICK h \in Handles : handle[h] = p
    BY <2>3 DEF HandlesOn
  <2>5. p # NoPage
    BY Markers
  <2>6. h # PageOf /\ h # RecordOf
    BY <1>1, <2>4, <2>5 DEF HandlesHeld, InPage
  <2>7. h \in Threads
    BY <2>6, HandlesApart
  <2>8. thread[h] = "holding" /\ p = h[1]
    BY <1>1, <2>4, <2>5, <2>7 DEF HandlesHeld
  <2>9. h[1] < page_count /\ h[1] - h[2] < pid
    BY <1>1, <2>7, <2>8 DEF ScanInTable
  <2>10. h[1] \in Nat /\ h[1] >= 1 /\ h[1] - h[2] \in Nat
    BY <2>7, HandlesApart
  <2>11. pid >= 1
    BY <1>1, <2>9, <2>10
  <2> QED
    BY <1>2, <1>4, <2>8, <2>9, <2>10, <2>11
<1> QED
  BY <1>3, <1>4

\* Those are two pages less than the table has, too few to fill the frames.
LEMMA LoneScanIsServed ==
    ASSUME ScanInv, at = "page", pid < page_count, fetch_throw(pid),
           Capacity > 0, page_count <= Capacity + 1
    PROVE  FALSE
<1>1. /\ pid \in Nat /\ page_count \in Nat /\ Capacity \in Nat
  BY ScanTypes, PageCacheAssumption DEF ScanInv
<1> DEFINE Rest == (1 .. page_count - 1) \ {pid}
           of == [f \in Frames |-> CHOOSE p \in Pages : page_map[p] = f]
<1>2. \A f \in Frames : of[f] \in Pages /\ page_map[of[f]] = f
  BY RefusedByPrefetches
<1>3. \A f \in Frames : Cached(of[f])
  BY <1>2, Markers DEF Cached
<1>4. ASSUME NEW f \in Frames PROVE of[f] \in Rest
  <2>1. of[f] >= 1 /\ of[f] < page_count /\ of[f] # pid /\ of[f] \in Nat
    BY <1>2, <1>3, RefusedByPrefetches, Markers
  <2> HIDE DEF of
  <2> QED
    BY <1>1, <2>1
<1>5. of \in [Frames -> Rest]
  BY <1>4
<1>6. pid >= 1
  <2>1. 0 \in Frames
    BY <1>1 DEF Frames
  <2> QED
    BY <1>2, <1>3, <2>1, RefusedByPrefetches
<1> HIDE DEF of
<1>7. IsFiniteSet(Rest) /\ Cardinality(Rest) = page_count - 2
  <2>1. IsFiniteSet(1 .. page_count - 1) /\ Cardinality(1 .. page_count - 1) = page_count - 1
    BY <1>1, <1>6, FS_Interval
  <2>2. pid \in 1 .. page_count - 1
    BY <1>1, <1>6
  <2>3. IsFiniteSet(Rest) /\ Cardinality(Rest) = (page_count - 1) - 1
    BY <2>1, <2>2, FS_RemoveElement, Zenon
  <2> QED
    BY <1>1, <2>3
<1>8. IsFiniteSet(Frames) /\ Cardinality(Frames) = Capacity
  BY <1>1, FS_Interval DEF Frames
<1>9. Cardinality(Rest) < Cardinality(Frames)
  BY <1>1, <1>7, <1>8
<1> HIDE DEF Rest
<1>10. \E f, g \in Frames : f # g /\ of[f] = of[g]
  BY <1>5, <1>7, <1>8, <1>9, FS_PigeonHole
<1> QED
  BY <1>2, <1>10

\* So a step does not leave such a scan without a frame.
LEMMA StarveStep ==
    ASSUME ScanInv, [ScanNext]_ScanVars
    PROVE  LoneScanNeverStarves'
<1>1. page_count' = page_count /\ LoneScanNeverStarves
  BY PoolStep DEF ScanInv
<1>2. CASE scan \/ ScanStep
  <2>1. \/ at' # "starved"
        \/ at = "page" /\ pid < page_count /\ fetch_throw(pid)
    BY <1>2, ScanStepEffect
  <2> QED
    BY <1>1, <2>1, LoneScanIsServed DEF LoneScanNeverStarves
<1>3. CASE at' = at
  BY <1>1, <1>3 DEF LoneScanNeverStarves
<1>4. ASSUME NEW t \in Threads, PrefetchStep(t) PROVE at' = at
  BY <1>4, PrefetchEffect
<1>5. CASE UNCHANGED ScanVars
  BY <1>3, <1>5 DEF ScanVars, scan_vars
<1> QED
  BY <1>2, <1>3, <1>4, <1>5 DEF ScanNext
-----------------------------------------------------------------------------
\* The theorems.

\* A scan that has not begun on a pool that has just been opened.
LEMMA ScanInitInv == ScanInit => ScanInv
<1> SUFFICES ASSUME ScanInit PROVE ScanInv
  OBVIOUS
<1>1. Inv /\ TypeOK
  BY InitInv DEF ScanInit, EngineInit, Inv
<1>2. /\ page_count \in 0 .. PageCount /\ PageCount \in Nat
      /\ at = "idle" /\ pid = 0 /\ sid = 0 /\ delivered = <<>> /\ hint = "PointLookup"
      /\ thread = [t \in Threads |-> "none"]
      /\ handle = [h \in Handles |-> NoPage] /\ writing = {}
      /\ disk \in [Pages -> Values] /\ page_map = [p \in Pages |-> NoFrame]
  BY PageCacheAssumption DEF ScanInit, EngineInit, Init
<1>3. ScanTypeOK
  <2>1. 0 \in 0 .. PageCount
    BY <1>2
  <2>2. delivered \in Seq(Pages \X Nat) /\ hint \in Hints
    BY <1>2 DEF Hints
  <2> QED
    BY <1>1, <1>2, <2>1, <2>2 DEF ScanTypeOK
<1>4. PoolClean
  BY <1>2 DEF PoolClean, Cached
<1>5. HandlesHeld
  BY <1>2, HandlesApart DEF HandlesHeld, InPage
<1>6. ScanInTable
  BY <1>2 DEF ScanInTable, InPage
<1>7. DeliveredBefore
  <2>1. DOMAIN delivered = {} /\ NextId[1] = 0 /\ NextId[2] = 0
    BY <1>2 DEF NextId
  <2>2. ASSUME NEW r \in TableRecords PROVE ~ Before(r, NextId)
    <3>1. r[1] \in Nat /\ r[2] \in Nat
      BY <1>3, <1>4, TableRecordIs
    <3> QED
      BY <2>1, <3>1 DEF Before
  <2> QED
    BY <2>1, <2>2 DEF DeliveredBefore
<1>8. LoneScanNeverStarves
  BY <1>2 DEF LoneScanNeverStarves
<1> QED
  BY <1>1, <1>3, <1>4, <1>5, <1>6, <1>7, <1>8 DEF ScanInv

\* Every step of the scan and of its prefetch threads keeps the invariant.
THEOREM ScanInvariance == ScanSpec => []ScanInv
<1>1. ScanSpec => ScanInit /\ [][ScanNext]_ScanVars
  BY PTL DEF ScanSpec, ScanVars
<1>2. ScanInv /\ [ScanNext]_ScanVars => ScanInv'
  BY PoolStep, ScanTypeStep, HandlesStep, InTableStep, DeliveredStep, StarveStep DEF ScanInv
<1> QED
  BY <1>1, <1>2, ScanInitInv, PTL

\* The state of a scan has its type (StorageReader::scan).
THEOREM ScanTypeCorrect == ScanSpec => []ScanTypeOK
<1>1. ScanInv => ScanTypeOK
  BY DEF ScanInv
<1> QED
  BY <1>1, ScanInvariance, PTL

\* StorageReader::scan passes every record of the table to the callback once
\* and in order, whatever its prefetch threads do to the pool.
THEOREM ScanDeliversAll == ScanSpec => []ScanDelivers
<1>1. ASSUME ScanInv PROVE ScanDelivers
  <2>1. /\ pid \in Nat /\ sid \in Nat /\ page_count \in Nat /\ ScanTypeOK /\ PoolClean
    BY <1>1, ScanTypes DEF ScanInv
  <2>2. NextId[1] = pid /\ NextId[2] \in Nat
    BY <2>1 DEF NextId
  <2>3. /\ \A i, j \in DOMAIN delivered : i < j => Before(delivered[i], delivered[j])
        /\ \A i \in DOMAIN delivered :
              delivered[i] \in TableRecords /\ Before(delivered[i], NextId)
        /\ \A r \in TableRecords : Before(r, NextId) => r \in Range(delivered)
    BY <1>1 DEF ScanInv, DeliveredBefore
  <2>4. ASSUME NEW r \in TableRecords, r \notin Range(delivered)
        PROVE  at # "returned" /\ \A i \in DOMAIN delivered : Before(delivered[i], r)
    <3>1. ~ Before(r, NextId)
      BY <2>3, <2>4
    <3>2. r[1] \in Nat /\ r[2] \in Nat /\ r[1] < page_count
      BY <2>1, TableRecordIs
    <3>3. at # "returned"
      <4>1. ~ pid >= page_count
        BY <2>1, <2>2, <3>1, <3>2 DEF Before
      <4> QED
        BY <1>1, <4>1 DEF ScanInv, ScanInTable
    <3>4. ASSUME NEW i \in DOMAIN delivered PROVE Before(delivered[i], r)
      <4> DEFINE d == delivered[i]
      <4>1. d \in TableRecords /\ Before(d, NextId)
        BY <2>3
      <4>2. d[1] \in Nat /\ d[2] \in Nat
        BY <2>1, <4>1, TableRecordIs
      <4> HIDE DEF d
      <4>3. Before(d, r)
        BY <2>1, <2>2, <3>1, <3>2, <4>1, <4>2 DEF Before
      <4> QED
        BY <4>3 DEF d
    <3> QED
      BY <3>3, <3>4
  <2> QED
    BY <2>3, <2>4 DEF ScanDelivers
<1> QED
  BY <1>1, ScanInvariance, PTL

\* A scan's own prefetch threads never hold every frame against it when the
\* pool has a frame, and at most one frame less than the table has pages
\* (StorageReader::scan, PageCache::evict).
THEOREM LoneScanDoesNotStarve == ScanSpec => []LoneScanNeverStarves
<1>1. ScanInv => LoneScanNeverStarves
  BY DEF ScanInv
<1> QED
  BY <1>1, ScanInvariance, PTL

\* The scan and the prefetch threads it started have ended.
AllEnded ==
    /\ at \in {"returned", "thrown", "starved"}
    /\ \A t \in Threads : thread[t] \in {"none", "ended"}

NoPinLeft == AllEnded => \A p \in Pages : Cached(p) => pin_counts[page_map[p]] = 0

\* However a scan ends, by returning, by a callback that throws while the page
\* is held or by a fetch that throws: once its prefetch threads have ended too,
\* every cached page can be evicted (~PageHandle, StorageReader::scan,
\* StorageEngine::prefetch_page).
THEOREM EndedScanLeavesNoPin == ScanSpec => []NoPinLeft
<1>1. ASSUME ScanInv, AllEnded, NEW p \in Pages, Cached(p)
      PROVE  pin_counts[page_map[p]] = 0
  <2>1. handle[PageOf] = NoPage /\ handle[RecordOf] = NoPage
    BY <1>1 DEF ScanInv, HandlesHeld, AllEnded, InPage
  <2>2. \A t \in Threads : handle[t] = NoPage
    BY <1>1 DEF ScanInv, HandlesHeld, AllEnded
  <2>3. HandlesOn(p) = {}
    BY <2>1, <2>2, HandlesApart, Markers DEF HandlesOn
  <2>4. pin_counts[page_map[p]] = Cardinality(HandlesOn(p))
    BY <1>1, Zenon DEF ScanInv, Inv, PinCountExact
  <2> QED
    BY <2>3, <2>4, FS_EmptySet
<1>2. ScanInv => NoPinLeft
  BY <1>1 DEF NoPinLeft
<1> QED
  BY <1>2, ScanInvariance, PTL

\* A scan and its prefetches, seen from the pool, are callers like any other:
\* what is proved of the PageCache holds of it under them.
THEOREM ScanUsesPool == ScanSpec => Spec
<1>1. ScanSpec => ScanInit /\ [][ScanNext]_ScanVars
  BY PTL DEF ScanSpec, ScanVars
<1>2. ScanInit => Init
  BY DEF ScanInit, EngineInit
<1>3. ScanInv /\ [ScanNext]_ScanVars => [Next]_vars
  BY PoolStep
<1> QED
  BY <1>1, <1>2, <1>3, ScanInvariance, PTL DEF Spec
=============================================================================
