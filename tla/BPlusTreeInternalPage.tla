----------------------- MODULE BPlusTreeInternalPage -----------------------
(***************************************************************************)
(* storage/page/b_plus_tree_internal_page.cpp: children and the keys that  *)
(* separate them; the first key is unused.  The page is filled through     *)
(* setters, so that separators ascend and children differ is the duty of   *)
(* the tree that owns it (there is none yet): the guards say so.           *)
(***************************************************************************)
EXTENDS BPlusTreePage

InternalInit == InitPage("INTERNAL_PAGE")

NoChild == 0   \* ValueType{}

\* key can be the separator at index i, below a page of n children.
Separates(key, i, n) ==
    \A j \in 1 .. n - 1 :
        /\ j < i => array[j].key < key
        /\ j > i => key < array[j].key

Children == {array[i].value : i \in 0 .. size - 1}

\* setKeyAt, setValueAt and increaseSize for one more child.
append_child(key, child) ==
    /\ ~IsLeafPage
    /\ size < max_size
    /\ Separates(key, size, size)
    /\ child \notin Children
    /\ array' = [array EXCEPT ![size] = [key |-> key, value |-> child]]
    /\ size' = size + 1
    /\ UNCHANGED <<page_type, max_size>>

setKeyAt(i, key) ==
    /\ ~IsLeafPage
    /\ i < size
    /\ i = 0 \/ Separates(key, i, size)
    /\ array' = [array EXCEPT ![i].key = key]
    /\ UNCHANGED <<page_type, size, max_size>>

setValueAt(i, child) ==
    /\ ~IsLeafPage
    /\ i < size
    /\ child \notin Children
    /\ array' = [array EXCEPT ![i].value = child]
    /\ UNCHANGED <<page_type, size, max_size>>

InternalNext ==
    \/ \E key \in Keys, child \in Values : append_child(key, child)
    \/ \E i \in Cells :
          \/ \E key \in Keys : setKeyAt(i, key)
          \/ \E child \in Values : setValueAt(i, child)

InternalSpec == InternalInit /\ [][InternalNext]_page_vars
-----------------------------------------------------------------------------
\* Defect: a key equal to a separator goes to its left.
lower_bound(key) ==
    CHOOSE i \in 1 .. size :
        /\ \A j \in 1 .. i - 1 : array[j].key < key
        /\ i < size => key <= array[i].key

\* std::upper_bound from the second pair on: the first separator above key.
upper_bound(key) ==
    CHOOSE i \in 1 .. size :
        /\ \A j \in 1 .. i - 1 : array[j].key <= key
        /\ i < size => key < array[i].key

\* The child to descend into.
Lookup(key) == IF size = 0 THEN NoChild ELSE array[upper_bound(key) - 1].value

\* The first place of a child, -1 when it is none.
ValueIndex(child) ==
    IF child \in Children
    THEN CHOOSE i \in 0 .. size - 1 :
            /\ array[i].value = child
            /\ \A j \in 0 .. i - 1 : array[j].value # child
    ELSE -1

\* Lookup descends into the child whose interval holds the key: its separator
\* is at most the key, except for the first child, and the next separator is
\* above it; ValueIndex finds that child again.  So it is at size 1, where the
\* range searched is empty, and for a key equal to a separator.
LookupRoutes ==
    ~IsLeafPage /\ size > 0 =>
        \A key \in Keys :
            LET i == ValueIndex(Lookup(key))
            IN  /\ i \in 0 .. size - 1
                /\ i > 0 => array[i].key <= key
                /\ i < size - 1 => key < array[i + 1].key
=============================================================================
