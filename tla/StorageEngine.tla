--------------------------- MODULE StorageEngine ---------------------------
(***************************************************************************)
(* StorageEngine of storage/storage_engine.cpp: a page cache without a     *)
(* policy of its own over a MappedFile that can grow.  PageCount is the    *)
(* bound of the model, page_count the pages the file has.  The cache does  *)
(* not write its pages back when it is destroyed, so what is only in the   *)
(* pool goes with the engine.                                              *)
(***************************************************************************)
EXTENDS PageCache

CONSTANT ZeroPage   \* what a page holds that the file has just grown by

ASSUME ZeroPageAssumption == ZeroPage \in Values

VARIABLE page_count   \* MappedFile's page_count_

engine_vars == <<vars, page_count>>

\* The engine is opened on a file of any length.
EngineInit ==
    /\ Init
    /\ policy = "lru"
    /\ page_count \in 0 .. PageCount
    /\ \A p \in Pages : p >= page_count => disk[p] = ZeroPage

\* PageCache::fetch_page when it returns a handle; with no policy the hint
\* is not looked at.
cache_fetch(h, p) ==
    \/ fetch_hit(h, p)
    \/ fetch_free(h, p)
    \/ fetch_evict(h, p, "PointLookup")

fetch_page(h, p) ==
    /\ p < page_count
    /\ cache_fetch(h, p)
    /\ UNCHANGED page_count

\* fetch_page when the cache throws "Buffer Pool Full".
fetch_page_full(p) ==
    /\ p < page_count
    /\ fetch_throw(p)
    /\ UNCHANGED page_count

\* A handle goes out of scope.
drop_page(h) == drop(h) /\ UNCHANGED page_count

\* grow_file(page_count_ + 1): the file is unmapped, extended with zeroes and
\* mapped again.
grow_file == page_count < PageCount /\ page_count' = page_count + 1

\* allocate_page: the header fields it stores are not part of the content.  The
\* caller holds no other page, so the cache does not throw.
allocate_page(h) == grow_file /\ cache_fetch(h, page_count)

\* ~StorageEngine, and the constructor on the same file in a later process:
\* unmap_memory syncs the mapping, the pool is gone.
restart ==
    /\ \A h \in Handles : handle[h] = NoPage
    /\ pool' = [f \in Frames |-> Torn]
    /\ pin_counts' = [f \in Frames |-> 0]
    /\ page_map' = [p \in Pages |-> NoFrame]
    /\ lru_list' = <<>>
    /\ free_frames' = [i \in 1 .. Capacity |-> i - 1]
    /\ window' = <<>>
    /\ UNCHANGED <<disk, handle, frame, writing, policy, page_count>>
=============================================================================
