--------------------------- MODULE BPlusTreePage ---------------------------
(***************************************************************************)
(* What the leaf and the internal pages of storage/page have in common:    *)
(* the members of BPlusTreePage and the array of key-value pairs that      *)
(* fills the rest of the page.  Memory behind the first size_ pairs is     *)
(* uninitialised; no operation reads it, so one value stands for it.       *)
(***************************************************************************)
EXTENDS Integers, FiniteSets

CONSTANTS
    Keys,        \* integers, ordered by std::less
    Values,      \* values of a leaf, children of an internal page
    PageBytes    \* 4096

LEAF_PAGE_HEADER_SIZE == 28
INTERNAL_PAGE_HEADER_SIZE == 24
EntryBytes == 8   \* sizeof(std::pair<KeyType, ValueType>), both int

ASSUME BPlusTreePageAssumption ==
    /\ Keys \subseteq Int
    /\ PageBytes \in Nat
    /\ PageBytes >= LEAF_PAGE_HEADER_SIZE + EntryBytes

VARIABLES
    page_type,   \* page_type_
    size,        \* size_
    max_size,    \* max_size_
    array        \* array_, indexed from 0

page_vars == <<page_type, size, max_size, array>>

PageTypes == {"LEAF_PAGE", "INTERNAL_PAGE"}

HeaderSize(type) ==
    IF type = "LEAF_PAGE" THEN LEAF_PAGE_HEADER_SIZE ELSE INTERNAL_PAGE_HEADER_SIZE

\* Defect: the header is forgotten.
calculated_max_of_page(type) == PageBytes \div EntryBytes

calculated_max(type) == (PageBytes - HeaderSize(type)) \div EntryBytes

\* Places of array_, the first ones behind the end of the page included.
Cells == 0 .. PageBytes \div EntryBytes

Entries == [key : Keys, value : Values]

\* A place never stored into.
Unset == [key |-> 0, value |-> 0]

\* Init.  A max_size argument of 0 asks for as many pairs as the page can
\* hold; that any other one fits is the caller's duty.
InitPage(type) ==
    /\ page_type = type
    /\ size = 0
    /\ \E max \in 0 .. calculated_max(type) :
          max_size = IF max = 0 THEN calculated_max(type) ELSE max
    /\ array = [i \in Cells |-> Unset]

IsLeafPage == page_type = "LEAF_PAGE"
-----------------------------------------------------------------------------
\* The page has its type and is never filled beyond max_size_.
PageTypeOK ==
    /\ page_type \in PageTypes
    /\ max_size \in Nat \ {0}
    /\ size \in 0 .. max_size
    /\ array \in [Cells -> Entries \cup {Unset}]
    /\ \A i \in 0 .. size - 1 : array[i] \in Entries

\* The pairs in use end inside the page's bytes, header included (Init's
\* computed max_size_ and every way to fill the page up to it).
PageHolds == HeaderSize(page_type) + size * EntryBytes <= PageBytes
=============================================================================
