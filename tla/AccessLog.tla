----------------------------- MODULE AccessLog -----------------------------
(***************************************************************************)
(* The abstract specification of the access observer: a window of the most *)
(* recent events, extended by one event per recorded access.               *)
(***************************************************************************)
EXTENDS AccessWindow

CONSTANT Events

VARIABLE events

Init == events = <<>>

Next == \E e \in Events : events' = Record(events, e)

Spec == Init /\ [][Next]_events
=============================================================================
