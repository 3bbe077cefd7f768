------------------------- MODULE BPlusTreeLeafPage -------------------------
(***************************************************************************)
(* Insert of storage/page/b_plus_tree_leaf_page.cpp: pairs in ascending    *)
(* order of keys, no key twice.                                            *)
(***************************************************************************)
EXTENDS BPlusTreePage

VARIABLE result   \* what the last Insert returned

leaf_vars == <<page_vars, result>>

LeafInit ==
    /\ InitPage("LEAF_PAGE")
    /\ result = 0

KeyAt(i) == array[i].key
ValueAt(i) == array[i].value

\* Defect: the new pair goes behind the others.
KeyIndexAtEnd(key) == size

\* std::lower_bound over the pairs in use: the first one whose key is not
\* less, or size.
KeyIndex(key) ==
    CHOOSE i \in 0 .. size :
        /\ \A j \in 0 .. i - 1 : KeyAt(j) < key
        /\ i < size => KeyAt(i) >= key

\* Defect: one pair too many.
IsOverfull == size > max_size

IsFull == size >= max_size

\* Defect: keys are not compared.
NeverDuplicate(key) == FALSE

IsDuplicate(key) == KeyIndex(key) < size /\ KeyAt(KeyIndex(key)) = key

\* The loop that makes room at index, and the store into it.
Shifted(index, key, value) ==
    [i \in Cells |->
        CASE i = index -> [key |-> key, value |-> value]
          [] i > index /\ i <= size -> array[i - 1]
          [] OTHER -> array[i]]

\* Insert returns -1.
Insert_refused(key) ==
    /\ IsLeafPage
    /\ IsFull \/ IsDuplicate(key)
    /\ result' = -1
    /\ UNCHANGED page_vars

Insert(key, value) ==
    /\ IsLeafPage
    /\ ~IsFull
    /\ ~IsDuplicate(key)
    /\ array' = Shifted(KeyIndex(key), key, value)
    /\ size' = size + 1
    /\ result' = size + 1
    /\ UNCHANGED <<page_type, max_size>>

LeafNext ==
    \E key \in Keys :
        \/ Insert_refused(key)
        \/ \E value \in Values : Insert(key, value)

LeafSpec == LeafInit /\ [][LeafNext]_leaf_vars
-----------------------------------------------------------------------------
\* The keys of a leaf ascend strictly, which lower_bound and the check for
\* duplicates rely on and only Insert's shift keeps.
LeafSorted ==
    IsLeafPage => \A i, j \in 0 .. size - 1 : i < j => KeyAt(i) < KeyAt(j)

LeafKeys == IF IsLeafPage THEN {KeyAt(i) : i \in 0 .. size - 1} ELSE {}

\* What the leaf holds, as a reader of KeyIndex, KeyAt and ValueAt sees it.
LeafMap == [k \in LeafKeys |-> ValueAt(KeyIndex(k))]

Map == INSTANCE BoundedMap WITH map <- LeafMap, bound <- max_size, result <- result

\* A leaf is a bounded map without overwriting, return values included
\* (docs/b-plus-tree-status.md): Insert adds its pair and returns the new size,
\* or leaves the leaf alone and returns -1 when it is full or has the key.
LeafIsBoundedMap == Map!Spec
=============================================================================
