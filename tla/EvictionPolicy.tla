--------------------------- MODULE EvictionPolicy ---------------------------
(***************************************************************************)
(* The page eviction policies of cache/eviction_policy.cpp as predicates.  *)
(* The code hands a policy the unpinned pages in LRU order, the least      *)
(* recently used first.  Here the cache's recency list lru has the most    *)
(* recently used page first and cand is the set of positions in lru of the *)
(* unpinned pages, so the code's order is the descending order of cand     *)
(* and "the first one" is the greatest position.  Each predicate says      *)
(* whether position i holds the victim.                                    *)
(***************************************************************************)
EXTENDS AccessWindow

Policies == {"lru", "scan_resistant", "lfu", "scan_then_lfu", "hint_aware", "learned"}

Hints == {"Scan", "PointLookup"}

\* The front of the unpinned pages in LRU order.
LeastRecent(cand, i) == i \in cand /\ \A j \in cand : j <= i

\* A neighbour of page pid was accessed recently: pid belongs to a run.
in_run(window, pid) ==
    \/ pid + 1 \in RecentSet(window)
    \/ pid > 0 /\ pid - 1 \in RecentSet(window)

RunPositions(lru, window, cand) == {i \in cand : in_run(window, lru[i])}

\* The fewest recorded accesses; among equals the least recently used.
FewestAccesses(lru, window, cand, i) ==
    /\ i \in cand
    /\ \A j \in cand :
          \/ Count(window, lru[i]) < Count(window, lru[j])
          \/ Count(window, lru[i]) = Count(window, lru[j]) /\ j <= i

ScanResistant(lru, window, cand, i) ==
    LET run == RunPositions(lru, window, cand)
    IN  IF run # {} THEN LeastRecent(run, i) ELSE LeastRecent(cand, i)

ScanThenLfu(lru, window, cand, i) ==
    LET run == RunPositions(lru, window, cand)
    IN  FewestAccesses(lru, window, IF run # {} THEN run ELSE cand, i)

HintAware(hint, lru, window, cand, i) ==
    IF hint = "Scan" THEN ScanResistant(lru, window, cand, i)
                     ELSE FewestAccesses(lru, window, cand, i)

\* The learned policies take the candidate with the least score, a weighted
\* sum of floating-point features: over the weights a training run can reach
\* any candidate may be it.
Learned(cand, i) == i \in cand

choose_victim(policy, hint, lru, window, cand, i) ==
    \/ policy = "lru" /\ LeastRecent(cand, i)
    \/ policy = "scan_resistant" /\ ScanResistant(lru, window, cand, i)
    \/ policy = "lfu" /\ FewestAccesses(lru, window, cand, i)
    \/ policy = "scan_then_lfu" /\ ScanThenLfu(lru, window, cand, i)
    \/ policy = "hint_aware" /\ HintAware(hint, lru, window, cand, i)
    \/ policy = "learned" /\ Learned(cand, i)
=============================================================================
