---------------------------- MODULE AccessWindow ----------------------------
(***************************************************************************)
(* What the access observer promises: the most recent page accesses, at    *)
(* most ObserverCapacity of them, oldest first.  PageCache keeps this      *)
(* window; AccessObserver is shown to implement it with a ring buffer and  *)
(* a table of counts.                                                      *)
(***************************************************************************)
EXTENDS Naturals, Sequences, FiniteSets

CONSTANT ObserverCapacity   \* ring_capacity, 1024 by default, never below 1

ASSUME ObserverCapacityAssumption == ObserverCapacity \in Nat \ {0}

\* The window after one more access to page p.
Record(w, p) ==
    IF Len(w) < ObserverCapacity THEN Append(w, p) ELSE Append(Tail(w), p)

\* How often page p occurs in the window.
Count(w, p) == Cardinality({i \in DOMAIN w : w[i] = p})

\* The pages that occur in the window.
RecentSet(w) == {w[i] : i \in DOMAIN w}
=============================================================================
