# TLA+ models of the Adaptive Query Accelerator

The Adaptive Query Accelerator (AQA) is a key-value store in C++20: records in
append-only slotted pages, a write-ahead log, an in-memory hash index, a record
cache, a buffer pool over a memory-mapped file with pluggable eviction policies,
and an observer of page accesses that feeds the policies. This directory models
its core in TLA+, checks it with TLC on small instances, and proves its safety
properties with TLAPS for all instances. Paths below are relative to the repository.

## 1. Inventory

| Component | State | Operations | Talks to | Hard behaviour | What makes it correct |
|---|---|---|---|---|---|
| `Database` (`src/db`) | lock, index, record cache, log, writer, engine | constructor (replay, recover), `put`, `get`, `scan`, destructor | owns all others | crashes between the steps of `put` and of recovery, gets racing puts, a failed store after a successful log append | page ids match the file, the index never dangles, reads are never older than promised, opening ends |
| `WalManager` (`src/wal`) | log file, last sequence number | `append`, `replay`, `truncate` | replay calls back into `Database` | torn tail, 16-bit lengths | numbering continues across restarts, replay heals the file |
| `StorageWriter` (`src/storage`) | data file, current page | `append`, `flush`, destructor | called by `Database` | page switch, throw half way, offsets at the page's limits | records never overlap, record ids name the right place |
| `StorageReader` | none | `read_record`, `scan` | `StorageEngine`, prefetch | reads pages fixed at open while the writer appends | returns only records of the page |
| `Index` | key to record id | `insert`, `lookup`, `rebuild` | scan of the reader | rebuild after replay | see `Database` |
| `LruCache` (`src/cache`) | recency list of records | `get`, `put` | `Database` | fill after an unlocked interval | holds current values only |
| `PageCache`, `PageHandle` | frames, pins, map, recency list, free frames | `fetch_page`, `flush_page`, `flush_all`, handle moves and destruction | mapped file, observer, policy | threads fetch, move, drop and flush while holders store without a latch | a handle's frame stays its own, pins exact, contents never change by themselves |
| Eviction policies | learned weights, the pending eviction | `choose_victim` | observer | boundary page ids, ties, feedback from another moment than the eviction | the victim is an unpinned page, the label it learns from is true |
| `AccessObserver` (`src/observer`) | ring, head, size, counts | two recorders, six queries | cache, policies | wrap-around, incremental counts | ring, counts and queries agree |
| `StorageEngine`, `MappedFile` | mapping, page count | `fetch_page`, `prefetch_page`, `allocate_page`, `grow_file`, moves | cache; detached threads | prefetch racing the scan and destruction, unlocked growth, no write-back at the end | a scan returns what it would without prefetching and leaves no pin; written pages survive |
| `WorkloadHint` | one hint per thread | set, get, `ScanScope` | `Database::scan`, hint-aware policy | nesting, exceptions | the hint is `Scan` exactly during a scan |
| B+ tree pages | sorted arrays in a page | leaf `Insert`, internal `Lookup`, setters | nothing yet | full page, duplicates, keys equal to a separator | a leaf is a bounded map, a lookup descends into the right child |
| `DataGenerator`, `main` | none | `generate`, `read` | `StorageEngine` | no flush before the engine goes | a generated page can be read later |
| `QueryRunner`, benchmarks, trainer | none | measurements | all | none | not modelled |

The hazards list of `PROJECT.json` gives the line at which each hard behaviour
bites and the properties that watch it.

## 2. Modules

| Module | Models | Role |
|---|---|---|
| `Records` | keys, values and their byte lengths | parameters |
| `WalManager` | `src/wal/wal_manager.cpp` | log and sequence number; action fragments |
| `StorageWriter` | `src/storage/storage_writer.cpp`, `storage_reader.cpp` | pages, the writer's page, layout arithmetic, reads |
| `LruCache` | `src/cache/lru_cache.cpp` | record cache as operators on its list |
| `Database` | `src/db/database.cpp`, `src/index/index.cpp` | composes the four above; the specification |
| `DatabaseProofs` | | theorems about `Database`: layout, page ids, index |
| `DatabaseReadProofs` | | extends it: sequence numbers, reads of a session's keys |
| `DatabaseRecoveryProofs` | | extends that: the file after replay, clean restarts |
| `AccessWindow` | what the observer promises | window of the last accesses |
| `AccessLog` | abstract specification of the observer | |
| `AccessObserver` | `src/observer/access_observer.cpp` | implements `AccessLog` |
| `AccessObserverProofs` | | theorems about `AccessObserver` |
| `EvictionPolicy` | `src/cache/eviction_policy.cpp` | who may be the victim |
| `LearnedPolicy` | `LearnedPageEvictionPolicy::choose_victim` | the feedback step, over `AccessObserver` |
| `LearnedPolicyProofs` | | theorems about `LearnedPolicy`, from those about `AccessObserver` |
| `PageStore` | abstract specification of the buffer pool | a memory of pages |
| `PageCache` | `src/storage/page_cache.cpp`, `page_handle.h` | implements `PageStore`, uses `EvictionPolicy` |
| `PageCacheProofs` | | theorems about `PageCache` |
| `StorageEngine` | `src/storage/storage_engine.cpp`, `mapped_file.cpp` | extends `PageCache` with a file that grows and outlives the process |
| `TableScan` | `Database::scan`, `StorageReader::scan`, `prefetch_page` | the scan and its detached threads, over `StorageEngine` |
| `TableScanProofs` | | theorems about `TableScan`, from those about `PageCache` |
| `DataGenerator` | `src/utils/data_generator.cpp`, `src/main.cpp` | the `generate` and `read` commands, over `StorageEngine` |
| `BPlusTreePage`, `BPlusTreeLeafPage`, `BPlusTreeInternalPage` | `src/storage/page` | the two kinds of B+ tree pages over their common members |
| `BoundedMap` | abstract specification of a leaf | |
| `BPlusTreeProofs` | | theorems about the three page modules |
| `MCDatabase`, `MCPageCache`, `MCLearnedPolicy`, `MCTableScan`, `MCDataGenerator`, `MCBPlusTreePages` | | instances for TLC |

Definitions named "Defect: ..." in a comment are plausible wrong versions of the
definition that follows them. No specification uses them; replacing the
definition by its defect shows that a property notices (see section 3).

### How the code becomes state and actions

**Database.** A page on disk is the sequence of its slots; a slot carries its
record and the offset and length the code stores. `writer` is the page being
filled. `log` holds one element per log record; a record that `replay` could not
read (torn by a crash, or a value longer than 16 bits can say) has
`valid = FALSE`. The additive checksum is taken to detect both. `index` is a
function from keys to record ids, `cache` the record cache's list, `mapped` the
page count fixed when the file is mapped. The constructor is one action per
replayed record and per scanned slot, so that crashes fall anywhere in it: `open`,
`replay_record`, `replay_throw`, `replay_end`, `rebuild_slot`, `rebuild_page`,
`rebuild_end`. `put` is `put_log` followed by `put_store` or `put_throw`; `get` is
`get_hit`, or `get_read` followed by `get_fill`; a get that finds nothing changes
nothing and has no action. A thread in `"store"` holds the lock exclusively, one
in `"fill"` holds it shared. `crash` keeps both files and forgets the rest: the
model is of process crashes, the code flushes its streams after every record and
page and never calls `fsync` on them. A page write is atomic. The pages mapped at
open never change during a session and go through the buffer pool unchanged (that
is what `PageCache` shows), so a read is a read of the file; a pool exhausted by
prefetch threads is not part of this module. `acked` and `session` are history
variables.

**PageCache.** Every member function holds the mutex and is one action, one per
outcome for `fetch_page`. Stores through a handle hold no latch: `begin_write`
tears the page and `end_write` completes it, and everything else may happen in
between. Two holders do not store into one page at once, which the code leaves to
its callers. `lru_iters_` is a position in `lru_list`. A `PageHandle` that owns
nothing is one not yet fetched into or moved from (the default constructor can
not be used: it throws on its null page). The learned policies compare weighted
sums of doubles; they are modelled as any unpinned page. Hit and miss counters
are left out.

**AccessObserver.** The ring, the head, the size and the counts are the code's; a
count of 0 stands for a missing entry. `total_recorded` keeps its wrap-around
with a small modulus. Queries are operators. `get_recent_page_accesses(n)` returns
the oldest `n` events: `docs/access-observer.md` says "the last `n`", while
`tests/access_observer_test.cpp:65-68` asserts what the code does. The policies only
ask for the whole ring, where the two are the same.

**LearnedPolicy.** `choose_victim` reads the total without a lock, then asks the
ring, then reads the total again. These are three actions, `check_horizon`, `judge`
and `evict`, and `access` (a recorded access) may come between any two:
the observer's interface is open to other threads. `age` is the difference
`total_recorded_ - last_eviction_total_`, kept exactly as far as the horizon or the
ring reaches (`MaxAge`); a wrap of the 64-bit total is not reached. The victim is
any page. `reused` and `verdict` are history variables. `LabelHonest` says how far a
label can be relied on although other threads record meanwhile; it leaves out a label
1 given before the ring has been refilled, which may stem from an access before the
eviction (`docs/learned-eviction.md` takes presence in the ring for reuse, too).

**StorageEngine.** The module adds `page_count` to `PageCache` (whose `PageCount`
becomes the bound of the model) and fixes the policy, since the engine passes none.
`allocate_page` grows the file by a zeroed page and fetches it. `restart` is the end
of one process and the opening of the file by the next: the file's content stays,
the pool goes, because no destructor writes it back.

**TableScan.** One thread scans; its position `at` names the step it is about to take:
fetching the page, reading a slot, inside `read_record` with a second handle, in the
callback, leaving the page with its handle still held. A page's content is its slot
count: `read_record` finds a record in each slot, since the writer leaves neither
tombstones nor slots out of bounds. Thread `<<p, ahead>>` is the prefetch of page `p`
started while the scan was at page `p - ahead`; it fetches, holds its handle for a
while and drops it, or swallows the exception of a full pool. The callback may throw. The recovery scan of
the constructor is the same scan with a callback that does not throw.

**DataGenerator.** `main` in two processes: `generate` into an empty file, then `read`.
A page's content is its `payload[0]`.

**B+ tree pages.** `array` covers the places up to and beyond the end of the page.
`std::lower_bound` and `std::upper_bound` are what the standard says they return on
ordered ranges. `Insert` is one action for its effect and one for its two refusals;
`result` is its return value. An internal page has no insert of its own: the
actions are the setters as a tree would use them, in order and with different
children.

## 3. Runs

| Run | Instance | Shows |
|---|---|---|
| `page_cache` | 3 pages, 2 frames, 2 handles, 2 values, 6 policies | `HandleSafe`, `PinCountExact`, `LruListExact`, `FramePartition`, `NoTornPage`, and `ImplementsPageStore` (refinement) |
| `access_observer` | ring of 3, 3 pages, horizon 2 | `CountsMatchRing`, `LastIndexMatchesWindow`, `ImplementsAccessLog` (refinement), and of the learned policy `LabelHonest` |
| `database_recovery` | 2 keys, 4 values, 3 log records, 3 opens, crashes and torn records | `WriterAligned`, `IndexSound`, `PagesWellFormed`, `NoStaleSessionRead`, `ReplayHealsFile`, `LsnConsecutive` |
| `database_clean` | 2 threads, 2 keys, 2 values, 3 log records, 3 opens, no crash | `CleanRestartReads`, `NoStaleSessionRead`, and `OpenCompletes` under fairness |
| `table_scan` | files of 0 to 4 pages with 0 or 2 records each, 2 frames | `ScanDelivers`, `LoneScanNeverStarves`, and `ScanEndsUnpinned` under fairness |
| `bplus_pages` | 3 pairs in a leaf, 4 in an internal page, 5 keys, 4 values | `PageHolds`, `LeafSorted`, `LookupRoutes`, `LeafIsBoundedMap` (refinement) |
| `read_your_writes` | 2 keys, record cache of 1 | violated: a put key is not found once it left the record cache |
| `stale_after_crash` | crashes, 3 opens | violated: a get after a crash returns an overwritten value |
| `scan_twice` | 3 opens | violated: a scan returns records several times |
| `oversize_poison` | a value one byte too large | violated: after a refused put the database never opens again |
| `generate_lost` | 3 pages, 2 frames | violated: a generated page reads as zeroes in the next process |
| `unreadable_log` | a value too long for the log, no crash | violated: after a refused put and a clean restart a get returns an overwritten value |

The violated properties of the last six runs say what the documents and tests
of the repository say of the program; the findings in `PROJECT.json` quote the
lines. Each property of a passing run is violated when one named definition is
replaced by its defect (`mutants` in `PROJECT.json`).

**Bounds.** Values have real sizes, so pages have their real 4096 bytes:
`full` fills a page to the last byte, two `half` records share a page, `over` is
one byte too large, `huge` overflows the log's 16-bit length. Three log records
make a record fill a page, open a second one and share it; three opens give a
crash, a recovery from it, and a recovery from what that recovery wrote. A record
cache of one entry makes eviction from it happen at the second key. In the buffer
pool two handles can pin all frames, share one, or leave one to evict, and the
third page makes a neighbour run of page ids possible; an observer window of 2
makes frequencies tie and differ. The observer's ring of 3 over 3 pages overwrites
events of pages that occur again, and verdicts are given below, at and above the
ring's capacity. Two frames under a scan make prefetches evict each other's pages
and run out of frames; three pages are the most that can not starve the scan, the
fourth shows that the bound is tight (the scan's throw happens in the run). B+
tree pages of 56 bytes leave a remainder behind a leaf's pairs and none behind an
internal page's; five keys are more than a page holds.

**Deadlock** is checked except where a log with a record no page can hold keeps
the database down for good (`database_recovery`, `oversize_poison`), and where a
program ends (`table_scan`, `generate_lost`).

**Fairness.** `OpenCompletes` assumes weak fairness of the constructor's steps and
of the steps of a call in progress: both run on threads that wait for nothing. No
caller is assumed to call, close or reopen, and no waiting for the lock is assumed
to end: `std::shared_mutex` promises no such thing. `ScanEndsUnpinned` assumes weak
fairness of the scanning thread and of each prefetch thread: they wait for the
cache's mutex only, which is held for one step at a time, and a callback is taken
to return or throw.

## 4. Proofs

`DatabaseProofs` proves, for every set of keys, values and threads, all record
sizes, every length of log and number of restarts, with or without crashes and
torn records:

- `TypeCorrect`: `Spec => []TypeOK`
- `PageIdsAligned`: `Spec => []WriterAligned`
- `IndexNeverDangles`: `Spec => []IndexSound`
- `PagesNeverOverlap`: `Spec => []PagesWellFormed`

The argument is one inductive invariant, `Inv`: the four properties and three
facts they need. `MappedInFile`: the mapped pages are pages of the file, so a scan
position names a record in it (`rebuild_slot` keeps `IndexSound` by it).
`DownIsBlank`: a database that is not open has nothing in memory, so opening starts
from an empty index. `CallsHoldRecords`: a call in progress holds a key and a
value, so storing it makes a record. The page lemmas (`InsertFacts`,
`InsertLayout`, `FillPage`, `NextPage`, `ThrowKeeps`) say what `try_insert_in_page`
and the three outcomes of `append` do to a page and to the pages before it;
`StoreKeepsIndex` says that a stored record leaves every other index entry
resolved. The assumptions are those in `Records`, `LruCache` and `Database`: sizes
are natural numbers, a key's length fits in 16 bits, the record cache has room for
one record.

`DatabaseReadProofs` proves for the same instances:

- `LsnsConsecutive`: `Spec => []LsnConsecutive`
- `SessionReadsNotStale`: `Spec => []NoStaleSessionRead`

`LsnCounts` adds to the first what the constructor's counter is in each phase: the
number of records replayed, then at least every readable position, and exactly the
log's length as long as every record is readable. `SessionFresh` is the reason for
the second. A key put in this session has its record id behind the pages mapped at
open, so only the record cache can answer for it; the cache holds each key once;
and no reader is on its way to put an older value of it into the cache, because
`put` excludes the readers from before its log append until after its own cache
update (`pc[t] = "fill" => arg[t].key \notin session`).

`DatabaseRecoveryProofs` proves

- `ReplayHeals`: `Spec => []ReplayHealsFile`, with crashes and torn records
- `CleanRestartsKeepRecords`: `CleanOnly` implies `Spec => []CleanRestartReads`

`Heals` follows the replay: while it runs, the last record of a key in the pages is
the last one among the log records replayed so far (`Agrees`), which holds at 0
records whatever the file contains, and one more stored record carries it one log
record further (`AddsRecord`, `AgreesWithNext`); it also says that the pages hold no
key that is not in the log. For clean restarts `Clean` says in four parts that log,
file, index and cache each hold what was put last. The file part is the delicate
one: a replay appends the whole log to the file again, behind what it already
holds, and what makes the mapped part of the next session right is that the replay
ends with the log's last records, that is `Heals`. `CleanOnly` says that the process
never dies (`~MayCrash`) and that every value fits in a page. The first is needed,
as `stale_after_crash` shows. Of the second the proof needs less than it says: a value
longer than the log's 16-bit length makes the log unreadable from there on and the
statement false (`unreadable_log`), while after one that is
only longer than a page the database never opens again (`oversize_poison`) and there is
nothing left to read. The proof takes the simple hypothesis.

`PageCacheProofs` proves, for every number of pages and frames, every finite set
of handles, every set of values and each of the policies:

- `TypeCorrect`: `Spec => []TypeOK`
- `HandlesKeepFrames`: `Spec => []HandleSafe`
- `PinsExact`: `Spec => []PinCountExact`
- `FramesPartitioned`: `Spec => []FramePartition`
- `LruListIsExact`: `Spec => []LruListExact`
- `TornPagesAreCached`: `Spec => []NoTornPage`
- `PoolIsPageStore`: `Spec => ImplementsPageStore`, the refinement

None of these is inductive alone. A handle keeps its frame because an eviction
takes a page whose pin count is 0, a pin count of 0 means no handle because pins
are exact, and pins stay exact because a handle's page is cached in the frame the
handle knows and no two pages share it. The invariant `Inv` is therefore the
conjunction, with one addition, `WritersApart`: who stores into a page has a live
handle on it and is the only one to store. `end_write` needs it, to leave no torn
page without a writer. The lemmas are about lists without repetition (erasing
an element, erasing one and putting one in front), about the number of handles on
a page when one handle comes, goes or moves, and one per action. The refinement
follows from `Inv` and one step per action: a fetch that evicts changes where two
pages are and not what they hold. The assumptions: numbers of pages and frames
are natural numbers (0 included), the observer's window has room for one event,
a torn page is not a value, handles are finite in number.

`TableScanProofs` proves, for every number of pages and frames and every content of
the file:

- `ScanTypeCorrect`: `ScanSpec => []ScanTypeOK`
- `ScanDeliversAll`: `ScanSpec => []ScanDelivers`
- `LoneScanDoesNotStarve`: `ScanSpec => []LoneScanNeverStarves`
- `EndedScanLeavesNoPin`: once scan and prefetch threads have ended, in whatever way,
  no cached page is pinned (that they end is the part of `ScanEndsUnpinned` left to TLC)
- `ScanUsesPool`: `ScanSpec => Spec`, a scan and its threads are callers of the buffer
  pool like any other, so the theorems of `PageCacheProofs` hold under them

The invariant `ScanInv` is that of the pool and five parts of its own. `PoolClean`:
nothing is written, so cached pages are copies of the file's, and the slot count the
scan reads through its pinned frame is the file's (`SlotCountIs`, from `HandleSafe`).
`HandlesHeld`: which handles are live follows from where the threads are.
`ScanInTable`: scan and threads stay inside the table, and a thread was started by a
page the scan has left behind. `DeliveredBefore`: what was delivered is exactly what
lies before the scan's position. For the last one, `LoneScanNeverStarves`: when the
scan is refused, no frame is free and every cached page has a pin, hence a handle,
hence a prefetch thread (the scan holds none at that point). Those threads hold
pages from 1 on and not the page asked for, which is not cached; so they hold at most
`page_count - 2` pages and can not fill `page_count - 1` frames. The proof showed that
the property needs a pool with a frame: with none, a table of one page starves, so the
property says `Capacity > 0`.

`AccessObserverProofs` proves, for every capacity and set of pages:

- `TypeCorrect`: `Spec => []TypeOK`
- `CountsAreExact`: `Spec => []CountsMatchRing`
- `LastIndexAgrees`: `Spec => []LastIndexMatchesWindow`
- `RingIsAccessLog`: `Spec => ImplementsAccessLog`, the refinement

`SlotsRecorded`, that the first `size` slots hold events, is the fact the counts need:
a full ring overwrites an event whose count is then at least 1, so the decrement never
goes below zero. The other two rest on arithmetic of positions: `Forth` (from the
oldest event) and the code's walk back from the newest are inverse to each other
(`BackMeetsForth`), and recording shifts the window of a full ring by one place.

`LearnedPolicyProofs` proves, for every horizon and capacity, with accesses of other
threads between any two steps of the policy:

- `LabelsAreHonest`: `LearnedSpec => []LabelHonest`
- `PolicyRunsObserver`: `LearnedSpec => Spec`, the observer's theorems hold meanwhile

`ReachesBack` connects the history variable `reused` with what the ring still shows: as
long as the eviction is not older than the ring, its newest `age` events are the
accesses since; `JudgePending` says that a verdict is reached only past the horizon.

`BPlusTreeProofs` proves, for every set of integer keys, every set of values and
every page with room for a pair:

- `LeafStaysSorted`: `LeafSpec => []LeafSorted`
- `LeafHolds`, `InternalHolds`: `PageTypeOK` and `PageHolds` in every state of a
  leaf and of an internal page
- `LeafImplementsMap`: `LeafSpec => LeafIsBoundedMap`, the refinement
- `LookupStaysRight`: `InternalSpec => []LookupRoutes`

That a search on a sorted array finds a place is a fact about finite sets,
`InitialSegment`: the places whose key is below the one sought are closed
downwards, so they are the first ones, and their number is the place. `PageInv`
adds to the type that `max_size` fits the page (Init's duty), which keeps
`Insert`'s shift inside the array. A leaf's invariant adds that it has as many
keys as pairs, for the sizes `Insert` returns; an internal page's, that separators
ascend and children differ, which is what its owner has to keep. The lemmas on
sorted arrays are about any array and serve the leaf before and after a step:
`InsertAdds` needs both to say that the map gains one pair and loses none.

Model-checked only: liveness (`OpenCompletes`, `ScanEndsUnpinned`), which is out of
reach of the prover. Every invariant and every refinement of the passing runs is
proved. The violated properties of the six other runs are false and stay with TLC.

## 5. Plan

Done: every component with behaviour of its own is modelled, in the modules of
section 2, and the theorems of section 4.

Left to prove: `CleanRestartsKeepRecords` from the weaker hypothesis that the log can
hold every value.

## 6. Not modelled

The benchmarks, `QueryRunner` and the command line
(measurement and output), the byte-level encodings and the checksum's arithmetic,
floating-point weights and the policy file, metrics counters, and errors of the
output streams, which the code does not look at.

Operations without a caller in `src/`: `StorageWriter::flush` in the middle of a
session, `WalManager::truncate`, `MappedFile`'s moves, `ScanScope`. Misuse that the
code leaves to its callers: two threads in `allocate_page` at once, an engine
destroyed under its prefetch threads, a `max_size` that does not fit a B+ tree page,
two holders storing into one page. A scan started inside a scan's callback, which
resets the thread's hint early. Failing system calls and page writes cut short.
