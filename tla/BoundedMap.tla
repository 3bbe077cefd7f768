----------------------------- MODULE BoundedMap -----------------------------
(***************************************************************************)
(* What a B+ tree leaf promises: a map of at most bound keys.  An insert   *)
(* never overwrites.                                                       *)
(***************************************************************************)
EXTENDS Integers, FiniteSets

CONSTANTS Keys, Values

VARIABLES map, bound, result

Refused(k) ==
    /\ Cardinality(DOMAIN map) >= bound \/ k \in DOMAIN map
    /\ result' = -1
    /\ UNCHANGED <<map, bound>>

Added(k, v) ==
    /\ Cardinality(DOMAIN map) < bound
    /\ k \notin DOMAIN map
    /\ map' = [q \in DOMAIN map \cup {k} |-> IF q = k THEN v ELSE map[q]]
    /\ result' = Cardinality(DOMAIN map')
    /\ UNCHANGED bound

Next ==
    \E k \in Keys :
        \/ Refused(k)
        \/ \E v \in Values : Added(k, v)

Spec ==
    /\ DOMAIN map = {}
    /\ result = 0
    /\ [][Next]_<<map, bound, result>>
=============================================================================
