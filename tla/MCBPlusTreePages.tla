-------------------------- MODULE MCBPlusTreePages --------------------------
(***************************************************************************)
(* Pages of 56 bytes: three pairs fit behind a leaf's header and four      *)
(* bytes stay unused, four pairs fill an internal page to its last byte.   *)
(* Every max_size that fits, asked for or computed.                        *)
(***************************************************************************)
EXTENDS BPlusTreeLeafPage, BPlusTreeInternalPage

PagesInit == LeafInit \/ (InternalInit /\ result = 0)

PagesNext == LeafNext \/ (InternalNext /\ UNCHANGED result)

PagesSpec == PagesInit /\ [][PagesNext]_leaf_vars
=============================================================================
