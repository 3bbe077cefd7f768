----------------------------- MODULE MCDatabase -----------------------------
(***************************************************************************)
(* Sizes for the values of the runs.  With 4-byte keys a page takes        *)
(* 4096 - 64 - 2 - 4 - 5 - 4 = 4017 bytes of value at most: "full" fills a *)
(* page to the last byte, two "half" records share one, "over" is one byte *)
(* too large, and the length of "huge" does not fit in 16 bits.            *)
(***************************************************************************)
EXTENDS Database

Sizes == [full |-> 4017, half |-> 2000, half2 |-> 2000, over |-> 4018, huge |-> 70000]

MCByteLen == [v \in Values |-> Sizes[v]]
=============================================================================
