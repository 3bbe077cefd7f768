------------------------------ MODULE Records ------------------------------
(***************************************************************************)
(* The records the database stores: keys, values and their sizes.          *)
(***************************************************************************)
EXTENDS Integers, Sequences

CONSTANTS
    Keys,       \* keys, all of them KeyLen bytes long
    Values,     \* values
    NoValue,    \* std::nullopt
    KeyLen,     \* key.size()
    ByteLen     \* ByteLen[v] is the size() of value v

ASSUME RecordsAssumption ==
    /\ NoValue \notin Values
    /\ KeyLen \in 0 .. 2^16 - 1
    /\ ByteLen \in [Values -> Nat]
=============================================================================
