--------------------------- MODULE AccessObserver ---------------------------
(***************************************************************************)
(* The ring buffer of observer/access_observer.cpp and its table of counts *)
(* per page.  Each member function runs under mutex_.                      *)
(***************************************************************************)
EXTENDS AccessWindow

CONSTANTS
    ObservedPages,   \* page ids that are accessed
    TotalModulus     \* total_recorded_ is a size_t and wraps (2^64)

ASSUME AccessObserverAssumption == TotalModulus \in Nat \ {0}

Events == [page_id : ObservedPages, is_hit : BOOLEAN]

NoEvent == [page_id |-> 0, is_hit |-> FALSE]   \* a slot never recorded into

VARIABLES
    ring,                \* ring_, indexed from 0
    head,                \* head_: where the next event goes
    size,                \* size_: events in the ring
    total_recorded,      \* total_recorded_
    page_access_counts   \* page_access_counts_, 0 where it has no entry

vars == <<ring, head, size, total_recorded, page_access_counts>>

Slots == 0 .. ObserverCapacity - 1

Init ==
    /\ ring = [i \in Slots |-> NoEvent]
    /\ head = 0
    /\ size = 0
    /\ total_recorded = 0
    /\ page_access_counts = [p \in ObservedPages |-> 0]

\* Defect: an entry is erased while one more event of its page is left.
ForgetEarly(counts) ==
    IF size < ObserverCapacity THEN counts
    ELSE [counts EXCEPT ![ring[head].page_id] = IF @ <= 2 THEN 0 ELSE @ - 1]

\* The counts once the event about to be overwritten is forgotten.  An entry
\* that falls to zero is erased, which a count of 0 stands for.
Forget(counts) ==
    IF size < ObserverCapacity THEN counts
    ELSE [counts EXCEPT ![ring[head].page_id] = IF @ <= 1 THEN 0 ELSE @ - 1]

\* Defect: head_ runs off the ring.
NextHeadNoWrap == head + 1

NextHead == (head + 1) % ObserverCapacity

record_page_access(p, hit) ==
    /\ ring' = [ring EXCEPT ![head] = [page_id |-> p, is_hit |-> hit]]
    /\ head' = NextHead
    /\ size' = IF size < ObserverCapacity THEN size + 1 ELSE size
    /\ total_recorded' = (total_recorded + 1) % TotalModulus
    /\ page_access_counts' = [Forget(page_access_counts) EXCEPT ![p] = @ + 1]

\* A record access is an access to the record's page, counted as a miss.
record_record_access(p) == record_page_access(p, FALSE)

Next ==
    \E p \in ObservedPages :
        \/ \E hit \in BOOLEAN : record_page_access(p, hit)
        \/ record_record_access(p)

Spec == Init /\ [][Next]_vars
-----------------------------------------------------------------------------
\* The queries.

get_access_count(p) == page_access_counts[p]

\* Defect: right only once the ring is full.
OldestIfFull == head

\* Where the oldest event is.
Oldest == (head + ObserverCapacity - size) % ObserverCapacity

\* n events starting at the oldest one.
get_recent_page_accesses(n) ==
    [i \in 1 .. (IF n < size THEN n ELSE size) |->
        ring[(Oldest + i - 1) % ObserverCapacity]]

get_recent_page_ids(n) ==
    [i \in DOMAIN get_recent_page_accesses(n) |-> get_recent_page_accesses(n)[i].page_id]

\* Defect: counts back from the slot behind the newest event.
BackFromHead(i) == (head + ObserverCapacity - i) % ObserverCapacity

\* The slot of the i-th newest event.
Back(i) == (head + ObserverCapacity - 1 - i) % ObserverCapacity

\* The position of the newest event on page p counted back from head (0 is
\* the newest event), or the capacity when there is none.
get_last_index_in_recent(p) ==
    LET found == {i \in 0 .. size - 1 : ring[Back(i)].page_id = p}
    IN  IF found = {} THEN ObserverCapacity
        ELSE CHOOSE i \in found : \A j \in found : i <= j
-----------------------------------------------------------------------------
\* The state has its type; until the ring is full head_ follows size_.
TypeOK ==
    /\ ring \in [Slots -> Events \cup {NoEvent}]
    /\ head \in Slots
    /\ size \in 0 .. ObserverCapacity
    /\ size < ObserverCapacity => head = size
    /\ total_recorded \in 0 .. TotalModulus - 1
    /\ page_access_counts \in [ObservedPages -> Nat]

\* The incrementally maintained count of a page, from which the LFU and the
\* learned policies read its frequency, is the number of its events in the
\* ring: overwriting an event always takes the right page's count down.
CountsMatchRing ==
    \A p \in ObservedPages :
        get_access_count(p) = Cardinality({i \in 0 .. size - 1 : ring[i].page_id = p})

\* The window as a caller sees it.
Window == get_recent_page_ids(ObserverCapacity)

\* The recency feature of the learned policies: the queries that walk the
\* ring in opposite directions agree on the newest event of a page.
LastIndexMatchesWindow ==
    \A p \in ObservedPages :
        LET k == get_last_index_in_recent(p)
        IN  /\ k < size => Window[size - k] = p
            /\ \A i \in DOMAIN Window : i > size - k => Window[i] # p
            /\ k >= size => k = ObserverCapacity

Log == INSTANCE AccessLog WITH events <- get_recent_page_accesses(ObserverCapacity)

\* The ring keeps exactly the most recent events in order: recording an event
\* appends it and, once the ring is full, forgets the oldest one.
ImplementsAccessLog == Log!Spec
=============================================================================
