-------------------------- MODULE MCLearnedPolicy --------------------------
(***************************************************************************)
(* A ring of three events over three pages: it fills, wraps several times  *)
(* and overwrites events of pages that occur again in it.  The total wraps *)
(* at 4 so that it passes every residue.  The horizon of 2 is below the    *)
(* ring's capacity, as it is by default, so verdicts are given for ages    *)
(* below, at and above the capacity.                                       *)
(***************************************************************************)
EXTENDS LearnedPolicy
=============================================================================
