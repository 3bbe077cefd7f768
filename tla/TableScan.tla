----------------------------- MODULE TableScan -----------------------------
(***************************************************************************)
(* Database::scan and StorageReader::scan of storage/storage_reader.cpp    *)
(* over a StorageEngine, with the prefetch threads the scan detaches.  A   *)
(* page's content is its slot_count.  The scanning thread holds a handle   *)
(* on the page it reads until it has started the prefetches, and a second  *)
(* one inside read_record.  Thread <<p, ahead>> prefetches page p for the  *)
(* scan of page p - ahead; it holds its own handle.                        *)
(***************************************************************************)
EXTENDS StorageEngine

PREFETCH_LOOKAHEAD == 2

\* The prefetch threads a scan may start.
Threads == {t \in Pages \X (1 .. PREFETCH_LOOKAHEAD) : t[2] <= t[1]}

PageOf == <<-1, 1>>     \* page_handle of scan
RecordOf == <<-1, 2>>   \* page_handle of read_record

ScanHandles == Threads \cup {PageOf, RecordOf}

ASSUME TableScanAssumption ==
    /\ Handles = ScanHandles
    /\ Values \subseteq Nat

VARIABLES
    at,          \* where the scanning thread is
    pid,         \* the page the scan is at
    sid,         \* the slot it is at
    delivered,   \* the record ids passed to the callback
    hint,        \* the scanning thread's workload hint
    thread       \* thread[t]: where prefetch thread t is

scan_vars == <<at, pid, sid, delivered, hint, thread>>

ScanInit ==
    /\ EngineInit
    /\ at = "idle"
    /\ pid = 0
    /\ sid = 0
    /\ delivered = <<>>
    /\ hint = "PointLookup"
    /\ thread = [t \in Threads |-> "none"]

\* Database::scan is called.
scan ==
    /\ at = "idle"
    /\ hint' = "Scan"
    /\ at' = "page"
    /\ UNCHANGED <<engine_vars, pid, sid, delivered, thread>>

\* The next page is fetched.
scan_page ==
    /\ at = "page"
    /\ fetch_page(PageOf, pid)
    /\ sid' = 0
    /\ at' = "slot"
    /\ UNCHANGED <<pid, delivered, hint, thread>>

\* The fetch throws and so does the scan; nothing resets the hint.
scan_page_full ==
    /\ at = "page"
    /\ fetch_page_full(pid)
    /\ at' = "starved"
    /\ UNCHANGED <<pid, sid, delivered, hint, thread>>

slot_count == pool[frame[PageOf]]

\* read_record fetches the page again, which the scan's own pin keeps cached.
read_record ==
    /\ at = "slot"
    /\ sid < slot_count
    /\ fetch_page(RecordOf, pid)
    /\ at' = "record"
    /\ UNCHANGED <<pid, sid, delivered, hint, thread>>

read_record_return ==
    /\ at = "record"
    /\ drop_page(RecordOf)
    /\ at' = "callback"
    /\ UNCHANGED <<pid, sid, delivered, hint, thread>>

callback ==
    /\ at = "callback"
    /\ delivered' = Append(delivered, <<pid, sid>>)
    /\ sid' = sid + 1
    /\ at' = "slot"
    /\ UNCHANGED <<engine_vars, pid, hint, thread>>

\* The callback throws: the scan's handle is dropped on the way out.
callback_throw ==
    /\ at = "callback"
    /\ drop_page(PageOf)
    /\ at' = "thrown"
    /\ UNCHANGED <<pid, sid, delivered, hint, thread>>

\* The threads the prefetch loop starts.
Ahead == {t \in Threads : t[1] - t[2] = pid /\ t[1] < page_count}

prefetch ==
    /\ at = "slot"
    /\ sid = slot_count
    /\ thread' = [t \in Threads |-> IF t \in Ahead THEN "started" ELSE thread[t]]
    /\ at' = "leave"
    /\ UNCHANGED <<engine_vars, pid, sid, delivered, hint>>

\* page_handle goes out of scope at the end of the loop's body.
leave_page ==
    /\ at = "leave"
    /\ drop_page(PageOf)
    /\ pid' = pid + 1
    /\ at' = "page"
    /\ UNCHANGED <<sid, delivered, hint, thread>>

\* The loop is over and Database::scan returns.
scan_return ==
    /\ at = "page"
    /\ pid >= page_count
    /\ hint' = "PointLookup"
    /\ at' = "returned"
    /\ UNCHANGED <<engine_vars, pid, sid, delivered, thread>>

prefetch_fetch(t) ==
    /\ thread[t] = "started"
    /\ fetch_page(t, t[1])
    /\ thread' = [thread EXCEPT ![t] = "holding"]
    /\ UNCHANGED <<at, pid, sid, delivered, hint>>

\* A prefetch that throws is swallowed.
prefetch_full(t) ==
    /\ thread[t] = "started"
    /\ fetch_page_full(t[1])
    /\ thread' = [thread EXCEPT ![t] = "ended"]
    /\ UNCHANGED <<at, pid, sid, delivered, hint>>

\* Defect: the thread ends and its pin stays.
prefetch_leak(t) ==
    /\ thread[t] = "holding"
    /\ thread' = [thread EXCEPT ![t] = "ended"]
    /\ UNCHANGED <<engine_vars, at, pid, sid, delivered, hint>>

prefetch_end(t) ==
    /\ thread[t] = "holding"
    /\ drop_page(t)
    /\ thread' = [thread EXCEPT ![t] = "ended"]
    /\ UNCHANGED <<at, pid, sid, delivered, hint>>

\* What the scanning thread does once it is in scan.
ScanStep ==
    \/ scan_page
    \/ scan_page_full
    \/ read_record
    \/ read_record_return
    \/ callback
    \/ callback_throw
    \/ prefetch
    \/ leave_page
    \/ scan_return

PrefetchStep(t) ==
    \/ prefetch_fetch(t)
    \/ prefetch_full(t)
    \/ prefetch_end(t)

ScanNext ==
    \/ scan
    \/ ScanStep
    \/ \E t \in Threads : PrefetchStep(t)

\* Both kinds of threads run without waiting for anything but the cache's
\* mutex, which is never held across a step; callbacks are taken to end.
ScanSpec ==
    /\ ScanInit
    /\ [][ScanNext]_<<engine_vars, scan_vars>>
    /\ WF_<<engine_vars, scan_vars>>(ScanStep)
    /\ \A t \in Threads : WF_<<engine_vars, scan_vars>>(PrefetchStep(t))
-----------------------------------------------------------------------------
\* The state has its type.
ScanTypeOK ==
    /\ TypeOK
    /\ page_count \in 0 .. PageCount
    /\ at \in {"idle", "page", "slot", "record", "callback", "leave",
               "returned", "thrown", "starved"}
    /\ pid \in 0 .. PageCount
    /\ sid \in Nat
    /\ delivered \in Seq(Pages \X Nat)
    /\ hint \in Hints
    /\ thread \in [Threads -> {"none", "started", "holding", "ended"}]

\* The record ids of the table.
TableRecords == UNION {{p} \X (0 .. disk[p] - 1) : p \in 0 .. page_count - 1}

Before(a, b) == a[1] < b[1] \/ (a[1] = b[1] /\ a[2] < b[2])

\* StorageReader::scan passes every record once, in the order of pages and
\* slots, whatever its prefetch threads do to the pool meanwhile
\* (docs/prefetch.md: prefetching does not change what a scan returns): what it
\* has passed so far has no gap, no repetition and nothing that is not in the
\* table, and a scan that returns has passed all of it.
ScanDelivers ==
    /\ \A i, j \in DOMAIN delivered : i < j => Before(delivered[i], delivered[j])
    /\ \A i \in DOMAIN delivered : delivered[i] \in TableRecords
    /\ \A r \in TableRecords :
          \/ r \in Range(delivered)
          \/ at # "returned" /\ \A i \in DOMAIN delivered : Before(delivered[i], r)

\* The scan's own detached threads can take its pool away: each may still hold
\* its page when the scan fetches the next one.  They never hold page 0, and the
\* page being fetched is a hit when one of them holds it, so a pool of one frame
\* less than the table has pages never runs out on a scan that is alone, if it
\* has a frame at all.
LoneScanNeverStarves == Capacity > 0 /\ page_count <= Capacity + 1 => at # "starved"

\* Every scan ends, by returning or by throwing, and afterwards no pin is left
\* in the pool: neither the scan's, also when the callback throws while the
\* page is held, nor one of the threads it left behind.
ScanEndsUnpinned ==
    at # "idle" ~> /\ at \in {"returned", "thrown", "starved"}
                   /\ \A f \in Frames : pin_counts[f] = 0
=============================================================================
