----------------------------- MODULE PageCache -----------------------------
(***************************************************************************)
(* The buffer pool of storage/page_cache.cpp and the RAII PageHandle of    *)
(* storage/page_handle.h, over a memory-mapped file of PageCount pages.    *)
(* Every member function runs under mutex_, so each is one atomic step; a  *)
(* caller's stores into a page do not, so a write is a begin and an end    *)
(* step and flushes may fall between them.  fetch_page is one action per   *)
(* outcome: hit, miss with a free frame, miss with an eviction, and the    *)
(* throw when every page is pinned.                                        *)
(***************************************************************************)
EXTENDS EvictionPolicy, Integers, SequencesExt

CONSTANTS
    PageCount,  \* pages of the mapped file
    Capacity,   \* frames of the pool
    Handles,    \* PageHandle objects that can be alive at once
    Values,     \* what a page can hold
    Torn        \* the content of a page in the middle of a write

ASSUME PageCacheAssumption ==
    /\ PageCount \in Nat
    /\ Capacity \in Nat
    /\ Torn \notin Values

ASSUME HandlesFinite == IsFiniteSet(Handles)

Pages == 0 .. PageCount - 1
Frames == 0 .. Capacity - 1
Contents == Values \cup {Torn}
NoPage == -1    \* a handle with cache_ = nullptr
NoFrame == -1   \* page_map_ has no entry

VARIABLES
    disk,         \* the mapped file
    pool,         \* pool_
    pin_counts,   \* pin_counts_
    page_map,     \* page_map_
    lru_list,     \* lru_list_, most recently used first
    free_frames,  \* free_frames_
    handle,       \* handle[h]: page_id_ of handle h, NoPage when invalid
    frame,        \* frame[h]: the pool frame its page_ points into
    writing,      \* handles whose holder is storing into the page
    window,       \* the page accesses the observer has recorded
    policy        \* eviction_policy_, fixed at construction

vars == <<disk, pool, pin_counts, page_map, lru_list, free_frames,
          handle, frame, writing, window, policy>>

Init ==
    /\ disk \in [Pages -> Values]
    /\ pool \in [Frames -> {Torn}]         \* never read before it is filled
    /\ pin_counts = [f \in Frames |-> 0]
    /\ page_map = [p \in Pages |-> NoFrame]
    /\ lru_list = <<>>
    /\ free_frames = [i \in 1 .. Capacity |-> i - 1]
    /\ handle = [h \in Handles |-> NoPage]
    /\ frame = [h \in Handles |-> NoFrame]
    /\ writing = {}
    /\ window = <<>>
    /\ policy \in Policies

Cached(p) == page_map[p] # NoFrame

\* Defect: the page's old position stays in the list.
touch_without_erase(i) == lru_list' = <<lru_list[i]>> \o lru_list

\* touch_page: the page at position i becomes the most recently used one.
touch_page(i) == lru_list' = <<lru_list[i]>> \o RemoveAt(lru_list, i)

\* Defect: pins are not looked at.
EveryPosition == DOMAIN lru_list

\* evict: the positions of the pages that may go.
Unpinned == {i \in DOMAIN lru_list : pin_counts[page_map[lru_list[i]]] = 0}

\* The handle returned by fetch_page.
NewHandle(h, p, f) ==
    /\ handle' = [handle EXCEPT ![h] = p]
    /\ frame' = [frame EXCEPT ![h] = f]

fetch_hit(h, p) ==
    /\ handle[h] = NoPage
    /\ Cached(p)
    /\ window' = Record(window, p)
    /\ \E i \in DOMAIN lru_list : lru_list[i] = p /\ touch_page(i)
    /\ pin_counts' = [pin_counts EXCEPT ![page_map[p]] = @ + 1]
    /\ NewHandle(h, p, page_map[p])
    /\ UNCHANGED <<disk, pool, page_map, free_frames, writing, policy>>

fetch_free(h, p) ==
    /\ handle[h] = NoPage
    /\ ~Cached(p)
    /\ free_frames # <<>>
    /\ window' = Record(window, p)
    /\ free_frames' = Tail(free_frames)
    /\ pool' = [pool EXCEPT ![Head(free_frames)] = disk[p]]
    /\ page_map' = [page_map EXCEPT ![p] = Head(free_frames)]
    /\ lru_list' = <<p>> \o lru_list
    /\ pin_counts' = [pin_counts EXCEPT ![Head(free_frames)] = 1]
    /\ NewHandle(h, p, Head(free_frames))
    /\ UNCHANGED <<disk, writing, policy>>

\* Defect: the pool's copy is dropped.
NoWriteBack(p) == disk

\* The file once the cached page p is copied to it.
WriteBack(p) == [disk EXCEPT ![p] = pool[page_map[p]]]

\* Defect: the victim's entry stays in the map.
RemapKeeping(victim, p, f) == [page_map EXCEPT ![p] = f]

\* page_map_ once frame f passes from the victim to page p.
Remap(victim, p, f) == [page_map EXCEPT ![victim] = NoFrame, ![p] = f]

\* The victim at position i is written back and its frame gets page p.
evict_into(h, p, i) ==
    LET victim == lru_list[i]
        f == page_map[victim]
    IN  /\ disk' = WriteBack(victim)
        /\ pool' = [pool EXCEPT ![f] = disk[p]]
        /\ page_map' = Remap(victim, p, f)
        /\ lru_list' = <<p>> \o RemoveAt(lru_list, i)
        /\ pin_counts' = [pin_counts EXCEPT ![f] = 1]
        /\ NewHandle(h, p, f)

fetch_evict(h, p, hint) ==
    /\ handle[h] = NoPage
    /\ ~Cached(p)
    /\ free_frames = <<>>
    /\ window' = Record(window, p)
    /\ \E i \in Unpinned :
          /\ choose_victim(policy, hint, lru_list, window', Unpinned, i)
          /\ evict_into(h, p, i)
    /\ UNCHANGED <<free_frames, writing, policy>>

\* "Buffer Pool Full": the access is already recorded when evict throws, and
\* no handle comes of it.
fetch_throw(p) ==
    /\ ~Cached(p)
    /\ free_frames = <<>>
    /\ Unpinned = {}
    /\ window' = Record(window, p)
    /\ UNCHANGED <<disk, pool, pin_counts, page_map, lru_list, free_frames,
                   handle, frame, writing, policy>>

\* Defect: two pins are given back.
UnpinTwice(p) ==
    IF Cached(p) /\ pin_counts[page_map[p]] > 0
    THEN [pin_counts EXCEPT ![page_map[p]] = @ - 2]
    ELSE pin_counts

\* unpin_page as a function of the counts.
Unpin(p) ==
    IF Cached(p) /\ pin_counts[page_map[p]] > 0
    THEN [pin_counts EXCEPT ![page_map[p]] = @ - 1]
    ELSE pin_counts

\* Defect: the pin is kept.
KeepPin(h) == pin_counts

\* The counts once handle h has let go of its page.
ReleasePin(h) == IF handle[h] # NoPage THEN Unpin(handle[h]) ELSE pin_counts

\* ~PageHandle
drop(h) ==
    /\ handle[h] # NoPage
    /\ h \notin writing
    /\ pin_counts' = ReleasePin(h)
    /\ handle' = [handle EXCEPT ![h] = NoPage]
    /\ frame' = [frame EXCEPT ![h] = NoFrame]
    /\ UNCHANGED <<disk, pool, page_map, lru_list, free_frames, writing, window, policy>>

\* PageHandle's move constructor (dst invalid) and move assignment.
move(dst, src) ==
    /\ dst # src
    /\ {dst, src} \cap writing = {}
    /\ pin_counts' = ReleasePin(dst)
    /\ handle' = [handle EXCEPT ![dst] = handle[src], ![src] = NoPage]
    /\ frame' = [frame EXCEPT ![dst] = frame[src], ![src] = NoFrame]
    /\ UNCHANGED <<disk, pool, page_map, lru_list, free_frames, writing, window, policy>>

\* A holder starts storing into its page.  There is no page latch: that two
\* holders of one page do not store at once is the callers' duty.
begin_write(h) ==
    /\ handle[h] # NoPage
    /\ \A g \in writing : handle[g] # handle[h]
    /\ pool' = [pool EXCEPT ![frame[h]] = Torn]
    /\ writing' = writing \cup {h}
    /\ UNCHANGED <<disk, pin_counts, page_map, lru_list, free_frames, handle, frame,
                   window, policy>>

end_write(h, v) ==
    /\ h \in writing
    /\ pool' = [pool EXCEPT ![frame[h]] = v]
    /\ writing' = writing \ {h}
    /\ UNCHANGED <<disk, pin_counts, page_map, lru_list, free_frames, handle, frame,
                   window, policy>>

flush_page(p) ==
    /\ Cached(p)
    /\ disk' = WriteBack(p)
    /\ UNCHANGED <<pool, pin_counts, page_map, lru_list, free_frames, handle, frame,
                   writing, window, policy>>

flush_all ==
    /\ disk' = [p \in Pages |-> IF Cached(p) THEN pool[page_map[p]] ELSE disk[p]]
    /\ UNCHANGED <<pool, pin_counts, page_map, lru_list, free_frames, handle, frame,
                   writing, window, policy>>

Next ==
    \/ \E h \in Handles :
          \/ \E p \in Pages :
                \/ fetch_hit(h, p)
                \/ fetch_free(h, p)
                \/ \E hint \in Hints : fetch_evict(h, p, hint)
          \/ drop(h)
          \/ \E src \in Handles : move(h, src)
          \/ begin_write(h)
          \/ \E v \in Values : end_write(h, v)
    \/ \E p \in Pages :
          \/ fetch_throw(p)
          \/ flush_page(p)
    \/ flush_all

Spec == Init /\ [][Next]_vars
-----------------------------------------------------------------------------
\* The state has its type.
TypeOK ==
    /\ disk \in [Pages -> Contents]
    /\ pool \in [Frames -> Contents]
    /\ pin_counts \in [Frames -> Nat]
    /\ page_map \in [Pages -> Frames \cup {NoFrame}]
    /\ lru_list \in Seq(Pages)
    /\ free_frames \in Seq(Frames)
    /\ handle \in [Handles -> Pages \cup {NoPage}]
    /\ frame \in [Handles -> Frames \cup {NoFrame}]
    /\ writing \in SUBSET Handles
    /\ window \in Seq(Pages)
    /\ policy \in Policies

\* The handles that refer to page p.
HandlesOn(p) == {h \in Handles : handle[h] = p}

\* A live PageHandle points at the frame its page is mapped to: no eviction
\* takes the frame from under it (page_cache.cpp, pin_counts_ and evict).
HandleSafe ==
    \A h \in Handles :
        handle[h] # NoPage => Cached(handle[h]) /\ page_map[handle[h]] = frame[h]

\* The pin count of a cached page is the number of live handles on it, so no
\* sequence of fetches, moves and drops leaks a pin or loses one.
PinCountExact ==
    \A p \in Pages : Cached(p) => pin_counts[page_map[p]] = Cardinality(HandlesOn(p))

\* No two pages share a frame, and a free frame belongs to no page.
FramesDisjoint ==
    /\ \A p, q \in Pages : Cached(p) /\ page_map[p] = page_map[q] => p = q
    /\ \A i, j \in DOMAIN free_frames : free_frames[i] = free_frames[j] => i = j
    /\ \A p \in Pages, i \in DOMAIN free_frames : page_map[p] # free_frames[i]

\* lru_list_ holds every cached page exactly once (the iterators kept in
\* lru_iters_ never dangle).
LruListExact ==
    /\ \A i, j \in DOMAIN lru_list : lru_list[i] = lru_list[j] => i = j
    /\ \A i \in DOMAIN lru_list : Cached(lru_list[i])
    /\ \A p \in Pages : Cached(p) => \E i \in DOMAIN lru_list : lru_list[i] = p

\* Every frame is free once or holds one page: none is lost, none is shared.
FramePartition ==
    /\ FramesDisjoint
    /\ \A f \in Frames :
          \/ \E i \in DOMAIN free_frames : free_frames[i] = f
          \/ \E p \in Pages : page_map[p] = f

\* flush_page and flush_all copy a page while its holder may be storing into
\* it.  A torn copy may reach the file, but only under a page that is still
\* cached, and a cached page is torn only while a write to it is in progress:
\* the eviction that ends the page's stay writes the whole content.
NoTornPage ==
    \A p \in Pages :
        /\ disk[p] = Torn => Cached(p)
        /\ Cached(p) /\ pool[page_map[p]] = Torn => \E h \in writing : handle[h] = p

\* What a page holds: the pool's copy when there is one, else the file's.
Logical == [p \in Pages |-> IF Cached(p) THEN pool[page_map[p]] ELSE disk[p]]

Store == INSTANCE PageStore WITH mem <- Logical, held <- handle

\* The pool is a page memory: hits, misses, evictions, flushes, moves and
\* throws never change what a page holds, and a write changes its page only.
ImplementsPageStore == Store!Spec
=============================================================================
