------------------------------ MODULE Database ------------------------------
(***************************************************************************)
(* db/database.cpp: the write-ahead log, the data file and its writer, the *)
(* in-memory index and the record cache under one reader-writer lock, with *)
(* the constructor's recovery (replay of the log, then a rebuild of the    *)
(* index from the pages mapped at open), clean closing and process crashes *)
(* at every point.  The data pages mapped at open never change during a    *)
(* session, so a read through the page cache is a read of the file.        *)
(*                                                                         *)
(* put is two steps (log, then store) so that a crash can fall between     *)
(* them; get that misses the record cache is two steps (read, then fill)   *)
(* so that another thread can run between them.                            *)
(***************************************************************************)
EXTENDS WalManager, StorageWriter, LruCache

CONSTANTS
    Threads,      \* threads that call get and put
    MaxLog,       \* bound on the records ever logged
    MaxOpens,     \* bound on the times the database is opened; the last session never ends
    MayCrash,     \* does the process crash?
    MayTear       \* can a crash leave part of a log record?

ASSUME DatabaseAssumption ==
    /\ MaxLog \in Nat /\ MaxOpens \in Nat
    /\ MayCrash \in BOOLEAN /\ MayTear \in BOOLEAN

VARIABLES
    status,       \* "down", in the constructor ("replay", "rebuild"), or "up"
    mapped,       \* page_count_ of the mapped file, fixed at open
    index,        \* index_: a record id or NoRid for each key
    cache,        \* record_cache_
    cursor,       \* the constructor's position: in the log, then in the file
    pc,           \* pc[t]: "idle", "store" (in put) or "fill" (in get)
    arg,          \* arg[t]: the record thread t works on
    opens,        \* times the database was opened
    acked,        \* history: acked[k] is the value of the last put(k) that returned
    session       \* history: the keys put since the database was opened

volatile == <<current_lsn, writer, mapped, index, cache, cursor>>
vars == <<log, file, volatile, status, pc, arg, opens, acked, session>>

Idle == [t \in Threads |-> "idle"]
NoArg == [key |-> NoValue, value |-> NoValue]
NoArgs == [t \in Threads |-> NoArg]
EmptyIndex == [k \in Keys |-> NoRid]
LogStart == [page_id |-> 0, slot_id |-> 0]

\* What a process that is not running leaves of its memory.
Vanish ==
    /\ status' = "down"
    /\ current_lsn' = 0 /\ writer' = EmptyPage(0) /\ mapped' = 0
    /\ index' = EmptyIndex /\ cache' = <<>> /\ cursor' = LogStart
    /\ pc' = Idle /\ arg' = NoArgs /\ session' = {}

Init ==
    /\ log = <<>> /\ file = <<>>
    /\ status = "down" /\ current_lsn = 0 /\ writer = EmptyPage(0) /\ mapped = 0
    /\ index = EmptyIndex /\ cache = <<>> /\ cursor = LogStart
    /\ pc = Idle /\ arg = NoArgs /\ session = {}
    /\ opens = 0
    /\ acked = [k \in Keys |-> NoValue]
-----------------------------------------------------------------------------
\* The constructor.

\* The file is mapped as it is at this moment; Database never grows it.
map_file == mapped' = Len(file)

\* The members: the file is mapped, the writer starts behind it, index and
\* cache are empty, the log is opened.
open ==
    /\ status = "down"
    /\ opens < MaxOpens
    /\ status' = "replay"
    /\ map_file
    /\ open_writer
    /\ opens' = opens + 1
    /\ UNCHANGED <<log, file, current_lsn, index, cache, cursor, pc, arg, acked, session>>

\* The number of log records replayed so far.
Replayed == cursor.slot_id

\* Defect: the record cache keeps what it has.
PublishToIndex(k, v) ==
    /\ index' = [index EXCEPT ![k] = AppendedRid]
    /\ UNCHANGED cache

\* What storing a record does once the writer has taken it.
Publish(k, v) ==
    /\ index' = [index EXCEPT ![k] = AppendedRid]
    /\ cache' = CachePut(cache, k, v)

\* replay hands the next readable record to the constructor's visitor.
replay_record ==
    /\ status = "replay"
    /\ Readable(Replayed + 1)
    /\ LET rec == log[Replayed + 1]
       IN  /\ append_here(rec.key, rec.value) \/ append_next(rec.key, rec.value)
           /\ Publish(rec.key, rec.value)
    /\ wal_replayed(Replayed + 1)
    /\ cursor' = [cursor EXCEPT !.slot_id = @ + 1]
    /\ UNCHANGED <<log, status, mapped, pc, arg, opens, acked, session>>

\* The visitor throws on a record that no page can hold; the exception leaves
\* the constructor and the members are destroyed.  The writer's page is empty
\* and not page 0, so its destructor writes nothing more.
replay_throw ==
    /\ status = "replay"
    /\ Readable(Replayed + 1)
    /\ ~Fits(writer, log[Replayed + 1].value)
    /\ ~Fits(EmptyPage(writer.page_id + 1), log[Replayed + 1].value)
    /\ file' = Append(file, writer.slots)
    /\ Vanish
    /\ UNCHANGED <<log, opens, acked>>

\* The end of the log or a record that can not be read ends the replay.
\* recover() then clears the index and scans the mapped pages, if any.
replay_end ==
    /\ status = "replay"
    /\ ~Readable(Replayed + 1)
    /\ status' = IF mapped > 0 THEN "rebuild" ELSE "up"
    /\ index' = IF mapped > 0 THEN EmptyIndex ELSE index
    /\ cursor' = LogStart
    /\ UNCHANGED <<log, file, current_lsn, writer, mapped, cache, pc, arg, opens, acked, session>>

\* Index::rebuild over StorageReader::scan: one slot, or on to the next page.
rebuild_slot ==
    /\ status = "rebuild"
    /\ Reads(mapped, cursor)
    /\ index' = [index EXCEPT ![RecordAt(cursor).key] = cursor]
    /\ cursor' = [cursor EXCEPT !.slot_id = @ + 1]
    /\ UNCHANGED <<log, file, current_lsn, writer, mapped, cache, status, pc, arg, opens, acked, session>>

\* Defect: the scan does not get past a page without records.
rebuild_full_page ==
    /\ status = "rebuild"
    /\ cursor.page_id < mapped
    /\ cursor.slot_id = Len(file[cursor.page_id + 1]) /\ cursor.slot_id > 0
    /\ cursor' = [page_id |-> cursor.page_id + 1, slot_id |-> 0]
    /\ UNCHANGED <<log, file, current_lsn, writer, mapped, index, cache, status, pc, arg, opens, acked, session>>

rebuild_page ==
    /\ status = "rebuild"
    /\ cursor.page_id < mapped
    /\ cursor.slot_id = Len(file[cursor.page_id + 1])
    /\ cursor' = [page_id |-> cursor.page_id + 1, slot_id |-> 0]
    /\ UNCHANGED <<log, file, current_lsn, writer, mapped, index, cache, status, pc, arg, opens, acked, session>>

rebuild_end ==
    /\ status = "rebuild"
    /\ cursor.page_id = mapped
    /\ status' = "up"
    /\ cursor' = LogStart
    /\ UNCHANGED <<log, file, current_lsn, writer, mapped, index, cache, pc, arg, opens, acked, session>>
-----------------------------------------------------------------------------
\* put and get.  A thread holds rw_mutex_ exclusively in "store", shared in
\* "fill"; what a lock acquisition waits for is its guard.

\* Defect: put does not wait for the readers.
lock_without_readers == \A u \in Threads : pc[u] # "store"

lock == \A u \in Threads : pc[u] = "idle"
lock_shared == \A u \in Threads : pc[u] # "store"

Returns(t) == pc' = [pc EXCEPT ![t] = "idle"] /\ arg' = [arg EXCEPT ![t] = NoArg]

\* put: the record is logged.
put_log(t, k, v) ==
    /\ status = "up" /\ pc[t] = "idle" /\ lock
    /\ Len(log) < MaxLog
    /\ wal_append(k, v)
    /\ pc' = [pc EXCEPT ![t] = "store"]
    /\ arg' = [arg EXCEPT ![t] = Entry(k, v)]
    /\ UNCHANGED <<file, writer, mapped, index, cache, cursor, status, opens, acked, session>>

\* put: the record is stored, indexed and cached.
put_store(t) ==
    /\ pc[t] = "store"
    /\ LET k == arg[t].key
           v == arg[t].value
       IN  /\ append_here(k, v) \/ append_next(k, v)
           /\ Publish(k, v)
           /\ acked' = [acked EXCEPT ![k] = v]
           /\ session' = session \cup {k}
    /\ Returns(t)
    /\ UNCHANGED <<log, current_lsn, mapped, cursor, status, opens>>

\* put: the writer throws, the caller gets the exception.
put_throw(t) ==
    /\ pc[t] = "store"
    /\ append_throw(arg[t].value)
    /\ Returns(t)
    /\ UNCHANGED <<log, current_lsn, mapped, index, cache, cursor, status, opens, acked, session>>

\* What index_.lookup and read_record find for key k outside the cache.
Found(k) == Reads(mapped, index[k]) /\ RecordAt(index[k]).key = k

\* get: a hit in the record cache.
get_hit(t, k) ==
    /\ status = "up" /\ pc[t] = "idle" /\ lock_shared
    /\ HasKey(cache, k)
    /\ cache' = CacheTouch(cache, k)
    /\ UNCHANGED <<log, file, current_lsn, writer, mapped, index, cursor, status, pc, arg, opens, acked, session>>

\* get: a miss; the record is looked up and read.
get_read(t, k) ==
    /\ status = "up" /\ pc[t] = "idle" /\ lock_shared
    /\ ~HasKey(cache, k)
    /\ Found(k)
    /\ pc' = [pc EXCEPT ![t] = "fill"]
    /\ arg' = [arg EXCEPT ![t] = Entry(k, RecordAt(index[k]).value)]
    /\ UNCHANGED <<log, file, volatile, status, opens, acked, session>>

\* get: the record that was read goes into the cache and is returned.
get_fill(t) ==
    /\ pc[t] = "fill"
    /\ cache' = CachePut(cache, arg[t].key, arg[t].value)
    /\ Returns(t)
    /\ UNCHANGED <<log, file, current_lsn, writer, mapped, index, cursor, status, opens, acked, session>>
-----------------------------------------------------------------------------
\* The destructor, with no call in progress: the writer flushes its page.
close ==
    /\ status = "up" /\ pc = Idle
    /\ opens < MaxOpens
    /\ file' = Flushed
    /\ Vanish
    /\ UNCHANGED <<log, opens, acked>>

\* The process dies; both files keep what was written to them.
crash ==
    /\ MayCrash
    /\ status # "down"
    /\ opens < MaxOpens
    /\ Vanish
    /\ UNCHANGED <<log, file, opens, acked>>

\* It dies in put while the log record is being written.
crash_tear(k, v) ==
    /\ MayCrash /\ MayTear
    /\ status = "up" /\ lock
    /\ opens < MaxOpens /\ Len(log) < MaxLog
    /\ wal_tear(k, v)
    /\ Vanish
    /\ UNCHANGED <<file, opens, acked>>

Construct == \/ replay_record \/ replay_throw \/ replay_end
             \/ rebuild_slot \/ rebuild_page \/ rebuild_end

Next ==
    \/ open \/ Construct
    \/ \E t \in Threads :
          \/ \E k \in Keys :
                \/ \E v \in Values : put_log(t, k, v)
                \/ get_hit(t, k)
                \/ get_read(t, k)
          \/ put_store(t)
          \/ put_throw(t)
          \/ get_fill(t)
    \/ close
    \/ crash
    \/ \E k \in Keys, v \in Values : crash_tear(k, v)

Spec == Init /\ [][Next]_vars

\* The constructor runs on its thread and a call in progress on its caller's;
\* the scheduler runs both.  Nothing makes a caller call, close or reopen.
Fairness ==
    /\ WF_vars(Construct)
    /\ \A t \in Threads : WF_vars(put_store(t) \/ put_throw(t) \/ get_fill(t))

FairSpec == Spec /\ Fairness
-----------------------------------------------------------------------------
\* The state has its type.
TypeOK ==
    /\ WalTypeOK
    /\ WriterTypeOK
    /\ status \in {"down", "replay", "rebuild", "up"}
    /\ mapped \in Nat
    /\ index \in [Keys -> RecordIds \cup {NoRid}]
    /\ cache \in Seq([key : Keys, value : Values])
    /\ cursor \in RecordIds
    /\ pc \in [Threads -> {"idle", "store", "fill"}]
    /\ arg \in [Threads -> [key : Keys, value : Values] \cup {NoArg}]
    /\ opens \in Nat
    /\ acked \in [Keys -> Values \cup {NoValue}]
    /\ session \in SUBSET Keys

\* The pages on disk with the writer's page behind them.
Image == Append(file, writer.slots)

\* The page id the writer hands out in record ids is the position at which
\* its page will land in the file, whatever was appended, replayed, lost in a
\* crash or given up half way by a throw before.
WriterAligned == status # "down" => writer.page_id = Len(file)

\* Record id rid names a record of key k in these pages.
Resolves(pages, rid, k) ==
    /\ rid.page_id < Len(pages)
    /\ rid.slot_id < Len(pages[rid.page_id + 1])
    /\ pages[rid.page_id + 1][rid.slot_id + 1].key = k

\* Record ids in the index never dangle and never name another key's record:
\* each resolves, on disk or in the writer's page, to a record of its key.
\* StorageWriter hands the ids out, Index::rebuild finds them again, and the
\* file grows meanwhile.
IndexSound == \A k \in Keys : index[k] # NoRid => Resolves(Image, index[k], k)

\* Where the records of a page with these slots start.
RecordsStart(slots) == IF slots = <<>> THEN PAGE_SIZE ELSE slots[Len(slots)].offset

\* A slotted page: the first record ends at the end of the page, each next one
\* ends where the one before starts, and the slots end before the last record.
PageLayout(slots) ==
    /\ \A i \in DOMAIN slots :
          slots[i].offset + slots[i].length = IF i = 1 THEN PAGE_SIZE ELSE slots[i - 1].offset
    /\ SlotsEnd(Len(slots)) <= RecordsStart(slots)

\* Every page, written or being filled, is laid out like that and the writer's
\* free_space_offset is where the records start.  So records never overlap
\* each other or the slots, and the unsigned free-space subtraction of
\* try_insert_in_page never wraps.
PagesWellFormed ==
    /\ writer.free_space_offset = RecordsStart(writer.slots)
    /\ PageLayout(writer.slots)
    /\ \A p \in DOMAIN file : PageLayout(file[p])

\* What get(k) returns when no put is in progress.
ReadResult(k) ==
    IF HasKey(cache, k) THEN CachedValue(cache, k)
    ELSE IF Found(k) THEN RecordAt(index[k]).value ELSE NoValue

\* A value a thread has read and is about to cache and return.
InFlight(k) == {arg[t].value : t \in {u \in Threads : pc[u] = "fill" /\ arg[u].key = k}}

\* A key put in this session is never read stale: get returns its last value,
\* or nothing once the record has left the record cache, but never an older
\* value, whatever the log, the file and earlier crashes left behind.
NoStaleSessionRead ==
    status = "up" /\ lock_shared =>
        \A k \in session : {ReadResult(k)} \cup InFlight(k) \subseteq {acked[k], NoValue}

\* Across clean restarts nothing is lost or out of date: a key not put since
\* the database was opened reads as the value of the last put of it.
CleanRestartReads ==
    status = "up" /\ lock_shared =>
        \A k \in Keys \ session : {ReadResult(k)} \cup InFlight(k) \subseteq {acked[k]}

\* The log positions of key k, and the value logged last for it.
Logged(k) == {i \in DOMAIN log : log[i].key = k}
LastLogged(k) ==
    IF Logged(k) = {} THEN NoValue
    ELSE log[CHOOSE i \in Logged(k) : \A j \in Logged(k) : j <= i].value

\* The places of key k in the image, and the value a scan of it ends with.
Places(k) ==
    UNION {{<<p, s>> : s \in {i \in DOMAIN Image[p] : Image[p][i].key = k}} : p \in DOMAIN Image}
LastStored(k) ==
    IF Places(k) = {} THEN NoValue
    ELSE LET r == CHOOSE r \in Places(k) : \A q \in Places(k) :
                      q[1] < r[1] \/ (q[1] = r[1] /\ q[2] <= r[2])
         IN  Image[r[1]][r[2]].value

\* The log can be replayed to its end: every record is readable and storable.
LogReplayable == \A i \in DOMAIN log : log[i].valid /\ Fits(EmptyPage(0), log[i].value)

\* Once the constructor has replayed a sound log, the last record of each key
\* in the file and the writer's page is the one logged last: after any crashes
\* the next clean close leaves a file from which recovery is exact.
ReplayHealsFile ==
    status = "up" /\ lock_shared /\ LogReplayable =>
        \A k \in Keys : LastStored(k) = LastLogged(k)

\* Sequence numbers in the readable part of the log count up from 1, across
\* restarts and crashes, and a running database continues from the last one.
ReadablePrefix == {i \in DOMAIN log : \A j \in 1 .. i : log[j].valid}
LsnConsecutive ==
    /\ \A i \in ReadablePrefix : log[i].lsn = i
    /\ status = "up" => \A i \in ReadablePrefix : log[i].lsn <= current_lsn

\* Opening ends: the replay and the rebuild get to the end of the log and of
\* the mapped pages, although the replay appends to the file being scanned.
OpenCompletes == status = "replay" ~> status = "up"

\* Read your writes: a key whose put has returned in this session is found
\* (docs/README.md describes a persistent store whose record cache holds the
\* hot records and whose index finds the others on disk).
ReadYourWrites ==
    status = "up" /\ lock_shared => \A k \in session : ReadResult(k) = acked[k]

\* tests/recovery_test.cpp: a key read after a restart has the value that was
\* put (or the later one whose put the crash cut short).  An answer of nothing
\* is let pass here, so only an out-of-date value violates this.
RecoveredNotStale ==
    status = "up" /\ lock_shared =>
        \A k \in Keys \ session : ReadResult(k) \in {NoValue, acked[k], LastLogged(k)}

\* tests/recovery_test.cpp: a scan after a restart returns as many records as
\* were put.
ScanReturnsRecordsPut ==
    status = "up" /\ session = {} =>
        \A k \in Keys : Cardinality({r \in Places(k) : r[1] <= mapped}) <= Cardinality(Logged(k))

\* tests/recovery_test.cpp: a database that was closed opens again with its
\* records, also when some put was refused with an exception before.
OpenNeverThrows == [][~replay_throw]_vars
=============================================================================
