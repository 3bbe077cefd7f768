-------------------------- MODULE BPlusTreeProofs --------------------------
(***************************************************************************)
(* Theorems about B+ tree leaf and internal pages, for every set of        *)
(* integer keys, every set of values and every size of a page.             *)
(***************************************************************************)
EXTENDS BPlusTreeLeafPage, BPlusTreeInternalPage, FiniteSetTheorems, TLAPS

\* A downward closed set of the first n numbers is a first part of them: what
\* makes a sorted array have the place lower_bound and upper_bound look for.
LEMMA InitialSegment ==
    ASSUME NEW n \in Nat, NEW S, S \subseteq 0 .. n - 1,
           \A i \in S : \A j \in 0 .. i : j \in S
    PROVE  /\ Cardinality(S) \in 0 .. n
           /\ S = 0 .. Cardinality(S) - 1
<1>0. ASSUME NEW c \in Nat
      PROVE  IsFiniteSet(0 .. c - 1) /\ Cardinality(0 .. c - 1) = c
  <2>1. c - 1 \in Int
    OBVIOUS
  <2>2. /\ IsFiniteSet(0 .. c - 1)
        /\ Cardinality(0 .. c - 1) = IF 0 > c - 1 THEN 0 ELSE c - 1 - 0 + 1
    BY <2>1, FS_Interval
  <2> QED
    BY <2>2
<1>1. IsFiniteSet(0 .. n - 1) /\ Cardinality(0 .. n - 1) = n
  BY <1>0
<1>2. IsFiniteSet(S) /\ Cardinality(S) <= n
  <2>1. S \in SUBSET (0 .. n - 1)
    OBVIOUS
  <2>2. IsFiniteSet(S) /\ Cardinality(S) <= Cardinality(0 .. n - 1)
    BY <1>1, <2>1, FS_Subset
  <2> QED
    BY <1>1, <2>2
<1>3. Cardinality(S) \in Nat
  BY <1>2, FS_CardinalityType
<1>4. ASSUME NEW i \in S
      PROVE  i \in 0 .. Cardinality(S) - 1
  <2>1. i \in Nat
    OBVIOUS
  <2>2. 0 .. i \subseteq S
    OBVIOUS
  <2>3. Cardinality(0 .. i) = i + 1
    BY <2>1, FS_Interval
  <2>4. Cardinality(0 .. i) <= Cardinality(S)
    BY <1>2, <2>2, FS_Subset
  <2> QED
    BY <2>1, <2>3, <2>4, <1>3
<1>5. S \subseteq 0 .. Cardinality(S) - 1
  BY <1>4
<1>6. IsFiniteSet(0 .. Cardinality(S) - 1) /\ Cardinality(0 .. Cardinality(S) - 1) = Cardinality(S)
  BY <1>3, <1>0
<1>7. S = 0 .. Cardinality(S) - 1
  BY <1>5, <1>6, FS_Subset
<1> QED
  BY <1>2, <1>3, <1>7
-----------------------------------------------------------------------------
\* The sizes in bytes are expanded everywhere.
USE DEF LEAF_PAGE_HEADER_SIZE, INTERNAL_PAGE_HEADER_SIZE, EntryBytes

\* The computed maximum leaves all pairs inside the page.
LEMMA CalculatedMax ==
    ASSUME NEW type \in PageTypes
    PROVE  /\ calculated_max(type) \in Nat \ {0}
           /\ HeaderSize(type) + calculated_max(type) * EntryBytes <= PageBytes
           /\ calculated_max(type) <= PageBytes \div EntryBytes
           /\ PageBytes \div EntryBytes \in Nat
  BY BPlusTreePageAssumption DEF calculated_max, HeaderSize, PageTypes

\* What holds of every page: its type, and a maximum that fits.
PageInv ==
    /\ PageTypeOK
    /\ max_size <= calculated_max(page_type)

\* A page within its maximum is within its bytes.
LEMMA InvHolds == PageInv => PageHolds
<1> SUFFICES ASSUME PageInv PROVE PageHolds
  OBVIOUS
<1>1. page_type \in PageTypes /\ size \in Nat /\ size <= calculated_max(page_type)
  BY CalculatedMax DEF PageInv, PageTypeOK
<1> QED
  BY <1>1, CalculatedMax, BPlusTreePageAssumption DEF PageHolds, HeaderSize, PageTypes

\* Init of either kind establishes it.
LEMMA InitKeeps == ASSUME NEW type \in PageTypes, InitPage(type) PROVE PageInv /\ size = 0
<1>1. max_size \in 1 .. calculated_max(type)
  BY CalculatedMax DEF InitPage
<1> QED
  BY <1>1, CalculatedMax DEF InitPage, PageInv, PageTypeOK
-----------------------------------------------------------------------------
(* The partition point of a sorted array, for any array, so that the       *)
(* lemmas serve the state before a step and the one after it.              *)

Sorted(f, n) ==
    /\ \A i \in 0 .. n - 1 : f[i].key \in Int
    /\ \A i, j \in 0 .. n - 1 : i < j => f[i].key < f[j].key

IsLowerBound(f, n, key, i) ==
    /\ i \in 0 .. n
    /\ \A j \in 0 .. i - 1 : f[j].key < key
    /\ i < n => f[i].key >= key

\* A sorted array has the place lower_bound looks for.
LEMMA LowerBoundExists ==
    ASSUME NEW f, NEW n \in Nat, Sorted(f, n), NEW key \in Int
    PROVE  \E i \in 0 .. n : IsLowerBound(f, n, key, i)
<1> DEFINE S == {j \in 0 .. n - 1 : f[j].key < key}
<1>1. S \subseteq 0 .. n - 1
  OBVIOUS
<1>2. ASSUME NEW i \in S, NEW j \in 0 .. i
      PROVE  j \in S
  <2>1. i \in 0 .. n - 1 /\ f[i].key < key /\ f[i].key \in Int
    BY DEF Sorted
  <2>2. j \in 0 .. n - 1 /\ f[j].key \in Int
    BY <2>1 DEF Sorted
  <2>3. j = i \/ f[j].key < f[i].key
    BY <2>1, <2>2 DEF Sorted
  <2> QED
    BY <2>1, <2>2, <2>3
<1>3. Cardinality(S) \in 0 .. n /\ S = 0 .. Cardinality(S) - 1
  <2> HIDE DEF S
  <2> QED
    BY <1>1, <1>2, InitialSegment
<1> DEFINE c == Cardinality(S)
<1>4. \A j \in 0 .. c - 1 : f[j].key < key
  <2>1. ASSUME NEW j \in 0 .. c - 1 PROVE j \in S
    BY <1>3
  <2> QED
    BY <2>1
<1>5. ASSUME c < n
      PROVE  f[c].key >= key
  <2>1. c \notin S
    <3> HIDE DEF S
    <3> QED
      BY <1>3
  <2>2. c \in 0 .. n - 1
    <3> HIDE DEF S
    <3> QED
      BY <1>3, <1>5
  <2>3. f[c].key \in Int
    BY <2>2 DEF Sorted
  <2> QED
    BY <2>1, <2>2, <2>3
<1> HIDE DEF c
<1>6. c \in 0 .. n
  BY <1>3 DEF c
<1> QED
  BY <1>4, <1>5, <1>6 DEF IsLowerBound

\* It has only one.
LEMMA LowerBoundUnique ==
    ASSUME NEW f, NEW n \in Nat, Sorted(f, n), NEW key \in Int,
           NEW i, IsLowerBound(f, n, key, i),
           NEW k, IsLowerBound(f, n, key, k)
    PROVE  i = k
<1>1. i \in 0 .. n /\ k \in 0 .. n
  BY DEF IsLowerBound
<1>2. ~ (i < k)
  <2> SUFFICES ASSUME i < k PROVE FALSE
    OBVIOUS
  <2>1. f[i].key < key /\ f[i].key >= key /\ f[i].key \in Int
    BY <1>1 DEF IsLowerBound, Sorted
  <2> QED
    BY <2>1
<1>3. ~ (k < i)
  <2> SUFFICES ASSUME k < i PROVE FALSE
    OBVIOUS
  <2>1. f[k].key < key /\ f[k].key >= key /\ f[k].key \in Int
    BY <1>1 DEF IsLowerBound, Sorted
  <2> QED
    BY <2>1
<1> QED
  BY <1>1, <1>2, <1>3
-----------------------------------------------------------------------------
\* The invariant of a leaf page.
LeafInv ==
    /\ PageInv
    /\ IsLeafPage
    /\ LeafSorted
    /\ IsFiniteSet(LeafKeys)
    /\ Cardinality(LeafKeys) = size

\* A leaf's pairs are sorted in the sense of the lemmas above.
LEMMA LeafIsSorted == ASSUME LeafInv PROVE Sorted(array, size) /\ size \in Nat
<1>1. PageTypeOK /\ IsLeafPage /\ LeafSorted
  BY DEF LeafInv, PageInv
<1>2. size \in Nat
  BY <1>1 DEF PageTypeOK
<1>3. \A i \in 0 .. size - 1 : array[i].key \in Int
  BY <1>1, BPlusTreePageAssumption DEF PageTypeOK, Entries
<1> QED
  BY <1>1, <1>2, <1>3 DEF Sorted, LeafSorted, KeyAt

\* KeyIndex is the partition point.
LEMMA KeyIndexFacts ==
    ASSUME LeafInv, NEW key \in Int
    PROVE  IsLowerBound(array, size, key, KeyIndex(key))
<1>1. \E i \in 0 .. size : IsLowerBound(array, size, key, i)
  BY LeafIsSorted, LowerBoundExists
<1> QED
  BY <1>1 DEF KeyIndex, IsLowerBound, KeyAt

\* A key is at KeyIndex exactly when the leaf has it.
LEMMA DuplicateIsMember ==
    ASSUME LeafInv, NEW key \in Int
    PROVE  IsDuplicate(key) <=> key \in LeafKeys
<1>1. IsLowerBound(array, size, key, KeyIndex(key)) /\ Sorted(array, size) /\ size \in Nat /\ IsLeafPage
  BY KeyIndexFacts, LeafIsSorted DEF LeafInv
<1>2. IsDuplicate(key) => key \in LeafKeys
  BY <1>1 DEF IsDuplicate, LeafKeys, IsLowerBound
<1>3. ASSUME NEW i \in 0 .. size - 1, KeyAt(i) = key
      PROVE  IsDuplicate(key)
  <2>1. IsLowerBound(array, size, key, i)
    BY <1>1, <1>3 DEF IsLowerBound, Sorted, KeyAt
  <2>2. KeyIndex(key) = i
    BY <1>1, <2>1, LowerBoundUnique
  <2> QED
    BY <2>2, <1>1, <1>3 DEF IsDuplicate
<1> QED
  BY <1>1, <1>2, <1>3 DEF LeafKeys

\* The place of a pair in use is KeyIndex of its key.
LEMMA KeyIndexOfKey ==
    ASSUME NEW f, NEW n \in Nat, Sorted(f, n), NEW i \in 0 .. n - 1
    PROVE  IsLowerBound(f, n, f[i].key, i)
  BY DEF IsLowerBound, Sorted

\* What Insert's loop and store leave in the array.
LEMMA InsertFacts ==
    ASSUME LeafInv, NEW key \in Keys, NEW value \in Values, Insert(key, value)
    PROVE  /\ KeyIndex(key) \in 0 .. size
           /\ 0 .. size \subseteq Cells
           /\ \A i \in 0 .. KeyIndex(key) - 1 : array'[i] = array[i] /\ array[i].key < key
           /\ array'[KeyIndex(key)] = [key |-> key, value |-> value]
           /\ \A i \in KeyIndex(key) .. size - 1 : array'[i + 1] = array[i] /\ key < array[i].key
           /\ DOMAIN array' = Cells
           /\ \A i \in Cells : array'[i] \in Entries \cup {Unset}
<1> DEFINE p == KeyIndex(key)
<1>0. key \in Int
  BY BPlusTreePageAssumption
<1>1. IsLowerBound(array, size, key, p) /\ Sorted(array, size) /\ size \in Nat
  BY <1>0, KeyIndexFacts, LeafIsSorted
<1>2. p \in 0 .. size
  BY <1>1 DEF IsLowerBound
<1>3. ~ (p < size /\ array[p].key = key)
  BY DEF Insert, IsDuplicate, KeyAt
<1>4. PageTypeOK /\ max_size <= calculated_max(page_type) /\ page_type \in PageTypes
  BY DEF LeafInv, PageInv, PageTypeOK
<1>5. size < max_size /\ max_size \in Nat
  BY <1>1, <1>4 DEF Insert, IsFull, PageTypeOK
<1>6. size <= PageBytes \div EntryBytes /\ PageBytes \div EntryBytes \in Nat
  <2>1. /\ calculated_max(page_type) \in Nat
        /\ calculated_max(page_type) <= PageBytes \div EntryBytes
        /\ PageBytes \div EntryBytes \in Nat
    BY <1>4, CalculatedMax
  <2> HIDE DEF EntryBytes
  <2> QED
    BY <1>1, <1>4, <1>5, <2>1
<1>7. 0 .. size \subseteq Cells
  <2> HIDE DEF EntryBytes
  <2> QED
    BY <1>1, <1>6 DEF Cells
<1>8. array' = Shifted(p, key, value)
  BY DEF Insert
<1>a. Cells \subseteq Int
  <2> HIDE DEF EntryBytes
  <2> QED
    BY <1>6 DEF Cells
<1> HIDE DEF p
<1>9. DOMAIN array' = Cells
  BY <1>8 DEF Shifted
<1>10. ASSUME NEW i \in 0 .. p - 1
       PROVE  array'[i] = array[i] /\ array[i].key < key
  <2>1. i \in Cells /\ i # p /\ ~ (i > p)
    BY <1>2, <1>7, <1>1
  <2>2. array[i].key < key
    BY <1>1 DEF IsLowerBound
  <2> QED
    BY <2>1, <2>2, <1>8 DEF Shifted
<1>11. array'[p] = [key |-> key, value |-> value]
  BY <1>2, <1>7, <1>8 DEF Shifted
<1>12. ASSUME NEW i \in p .. size - 1
       PROVE  array'[i + 1] = array[i] /\ key < array[i].key
  <2>1. i + 1 \in Cells /\ i + 1 # p /\ i + 1 > p /\ i + 1 <= size /\ (i + 1) - 1 = i
    BY <1>1, <1>2, <1>7
  <2>2. array'[i + 1] = array[i]
    BY <2>1, <1>8 DEF Shifted
  <2>3. p < size /\ p \in 0 .. size - 1 /\ i \in 0 .. size - 1 /\ i \in Int /\ p \in Int
    BY <1>1, <1>2
  <2>4. array[p].key \in Int /\ array[i].key \in Int /\ array[p].key >= key
    BY <1>1, <2>3 DEF Sorted, IsLowerBound
  <2>5. key < array[p].key
    BY <1>0, <1>3, <2>3, <2>4
  <2>6. p = i \/ array[p].key < array[i].key
    BY <1>1, <2>3 DEF Sorted
  <2>7. key < array[i].key
    BY <1>0, <2>4, <2>5, <2>6
  <2> QED
    BY <2>2, <2>7
<1>13. ASSUME NEW i \in Cells
       PROVE  array'[i] \in Entries \cup {Unset}
  <2>1. [key |-> key, value |-> value] \in Entries
    BY DEF Entries
  <2>2. array[i] \in Entries \cup {Unset}
    BY <1>4 DEF PageTypeOK
  <2>3. ASSUME i > p, i <= size
        PROVE  array[i - 1] \in Entries
    <3>1. i - 1 \in 0 .. size - 1
      BY <2>3, <1>1, <1>2, <1>a
    <3> QED
      BY <3>1, <1>4 DEF PageTypeOK
  <2> QED
    BY <1>8, <2>1, <2>2, <2>3 DEF Shifted
<1> QED
  BY <1>2, <1>7, <1>9, <1>10, <1>11, <1>12, <1>13 DEF p

\* Insert keeps the order, adds its key and no other.
LEMMA InsertKeeps ==
    ASSUME LeafInv, NEW key \in Keys, NEW value \in Values, Insert(key, value)
    PROVE  /\ LeafInv'
           /\ LeafKeys' = LeafKeys \cup {key}
           /\ key \notin LeafKeys
<1> DEFINE p == KeyIndex(key)
<1>0. key \in Int
  BY BPlusTreePageAssumption
<1>1. /\ p \in 0 .. size
      /\ 0 .. size \subseteq Cells
      /\ \A i \in 0 .. p - 1 : array'[i] = array[i] /\ array[i].key < key
      /\ array'[p] = [key |-> key, value |-> value]
      /\ \A i \in p .. size - 1 : array'[i + 1] = array[i] /\ key < array[i].key
      /\ DOMAIN array' = Cells
      /\ \A i \in Cells : array'[i] \in Entries \cup {Unset}
  BY InsertFacts
<1>2. /\ size \in Nat /\ max_size \in Nat /\ size < max_size
      /\ size' = size + 1
      /\ max_size' = max_size /\ page_type' = page_type
      /\ page_type = "LEAF_PAGE" /\ page_type \in PageTypes
      /\ max_size <= calculated_max(page_type)
      /\ IsLeafPage /\ IsLeafPage'
  BY DEF LeafInv, PageInv, PageTypeOK, Insert, IsFull, IsLeafPage
<1>3. Sorted(array, size) /\ \A i \in 0 .. size - 1 : array[i] \in Entries
  BY LeafIsSorted DEF LeafInv, PageInv, PageTypeOK
<1>a. \E g : array' = [x \in Cells |-> g[x]]
  BY DEF Insert, Shifted
<1>b. \A i \in 0 .. size - 1 : array[i].key \in Int
  BY <1>3 DEF Sorted
<1>c. ~ IsDuplicate(key)
  BY DEF Insert
<1> HIDE DEF p
<1>4. ASSUME NEW i \in 0 .. size
      PROVE  \/ i \in 0 .. p - 1 /\ i \in 0 .. size - 1 /\ array'[i] = array[i] /\ array[i].key < key
             \/ i = p /\ array'[i] = [key |-> key, value |-> value]
             \/ i - 1 \in p .. size - 1 /\ i - 1 \in 0 .. size - 1 /\ array'[i] = array[i - 1] /\ key < array[i - 1].key
  <2>1. CASE i < p
    BY <2>1, <1>1, <1>2
  <2>2. CASE i = p
    BY <2>2, <1>1, <1>2
  <2>3. CASE i > p
    <3>1. i - 1 \in p .. size - 1 /\ i - 1 \in 0 .. size - 1 /\ (i - 1) + 1 = i
      BY <2>3, <1>1, <1>2
    <3> QED
      BY <3>1, <1>1
  <2> QED
    BY <2>1, <2>2, <2>3, <1>1, <1>2
<1>5. \A i \in 0 .. size : array'[i] \in Entries
  <2>1. [key |-> key, value |-> value] \in Entries
    BY DEF Entries
  <2> QED
    BY <2>1, <1>3, <1>4
<1>6. PageInv'
  <2>1. array' \in [Cells -> Entries \cup {Unset}]
    BY <1>1, <1>a
  <2>2. size' \in 0 .. max_size' /\ max_size' \in Nat \ {0} /\ 0 .. size' - 1 = 0 .. size
    BY <1>2
  <2>3. max_size' <= calculated_max(page_type')
    BY <1>2
  <2>4. calculated_max(page_type)' = calculated_max(page_type')
    BY DEF calculated_max, HeaderSize
  <2> QED
    BY <2>1, <2>2, <2>3, <2>4, <1>2, <1>5 DEF PageInv, PageTypeOK
<1>7. LeafSorted'
  <2> SUFFICES ASSUME NEW i \in 0 .. size, NEW j \in 0 .. size, i < j
               PROVE  array'[i].key < array'[j].key
    <3>1. 0 .. size' - 1 = 0 .. size
      BY <1>2
    <3> QED
      BY <3>1 DEF LeafSorted, KeyAt
  <2>1. /\ i \in 0 .. p - 1 => i \in 0 .. size - 1 /\ array'[i].key = array[i].key /\ array[i].key < key
        /\ i = p => array'[i].key = key
        /\ i > p => i - 1 \in 0 .. size - 1 /\ array'[i].key = array[i - 1].key /\ key < array[i - 1].key
    BY <1>1, <1>2, <1>4
  <2>2. /\ j \in 0 .. p - 1 => j \in 0 .. size - 1 /\ array'[j].key = array[j].key /\ array[j].key < key
        /\ j = p => array'[j].key = key
        /\ j > p => j - 1 \in 0 .. size - 1 /\ array'[j].key = array[j - 1].key /\ key < array[j - 1].key
    BY <1>1, <1>2, <1>4
  <2>3. \A m, n \in 0 .. size - 1 : m < n => array[m].key < array[n].key
    BY <1>3 DEF Sorted
  <2>4. CASE j \in 0 .. p - 1
    BY <2>4, <2>1, <2>2, <2>3, <1>1, <1>2
  <2>5. CASE j = p
    BY <2>5, <2>1, <2>2, <1>1, <1>2
  <2>6. CASE j > p /\ i > p
    BY <2>6, <2>1, <2>2, <2>3, <1>1, <1>2
  <2>7. CASE j > p /\ i = p
    BY <2>7, <2>1, <2>2, <1>1, <1>2
  <2>8. CASE j > p /\ i \in 0 .. p - 1
    BY <2>8, <2>1, <2>2, <1>0, <1>b
  <2> QED
    BY <2>4, <2>5, <2>6, <2>7, <2>8, <1>1, <1>2
<1>8. LeafKeys' = LeafKeys \cup {key}
  <2>1. LeafKeys = {array[i].key : i \in 0 .. size - 1}
    BY <1>2 DEF LeafKeys, KeyAt
  <2>2. LeafKeys' = {array'[i].key : i \in 0 .. size}
    <3>1. 0 .. size' - 1 = 0 .. size
      BY <1>2
    <3> QED
      BY <3>1, <1>2 DEF LeafKeys, KeyAt
  <2>3. ASSUME NEW i \in 0 .. size
        PROVE  array'[i].key \in LeafKeys \cup {key}
    BY <1>4, <2>1
  <2>4. ASSUME NEW i \in 0 .. size - 1
        PROVE  array[i].key \in LeafKeys'
    <3>1. CASE i < p
      BY <3>1, <1>1, <1>2, <2>2
    <3>2. CASE i >= p
      <4>1. i \in p .. size - 1 /\ i + 1 \in 0 .. size
        BY <3>2, <1>1, <1>2
      <4> QED
        BY <4>1, <1>1, <2>2
    <3> QED
      BY <3>1, <3>2, <1>1, <1>2
  <2>5. key \in LeafKeys'
    BY <1>1, <2>2
  <2> QED
    BY <2>1, <2>2, <2>3, <2>4, <2>5
<1>9. key \notin LeafKeys
  BY <1>0, <1>c, DuplicateIsMember
<1>10. IsFiniteSet(LeafKeys)' /\ Cardinality(LeafKeys)' = size'
  <2>1. IsFiniteSet(LeafKeys) /\ Cardinality(LeafKeys) = size
    BY DEF LeafInv
  <2>2. IsFiniteSet(LeafKeys \cup {key}) /\ Cardinality(LeafKeys \cup {key}) = size + 1
    BY <1>9, <2>1, FS_AddElement
  <2> QED
    BY <1>2, <1>8, <2>2
<1> QED
  BY <1>2, <1>6, <1>7, <1>8, <1>9, <1>10 DEF LeafInv

\* A leaf page starts empty.
LEMMA LeafInitInv == LeafInit => LeafInv
<1> SUFFICES ASSUME LeafInit PROVE LeafInv
  OBVIOUS
<1>1. PageInv /\ size = 0
  <2>1. "LEAF_PAGE" \in PageTypes /\ InitPage("LEAF_PAGE")
    BY DEF LeafInit, PageTypes
  <2> QED
    BY <2>1, InitKeeps
<1>2. IsLeafPage
  BY DEF LeafInit, InitPage, IsLeafPage
<1>3. 0 .. size - 1 = {}
  BY <1>1
<1>4. LeafSorted /\ LeafKeys = {}
  BY <1>3 DEF LeafSorted, LeafKeys
<1> QED
  BY <1>1, <1>2, <1>4, FS_EmptySet DEF LeafInv

\* Every step of a leaf keeps the invariant.
LEMMA LeafNextInv == LeafInv /\ [LeafNext]_leaf_vars => LeafInv'
<1> SUFFICES ASSUME LeafInv, [LeafNext]_leaf_vars PROVE LeafInv'
  OBVIOUS
<1>1. ASSUME NEW key \in Keys, NEW value \in Values, Insert(key, value)
      PROVE  LeafInv'
  BY <1>1, InsertKeeps
<1>2. ASSUME UNCHANGED page_vars
      PROVE  LeafInv'
  <2>1. page_type' = page_type /\ size' = size /\ max_size' = max_size /\ array' = array
    BY <1>2 DEF page_vars
  <2>2. IsLeafPage' = IsLeafPage /\ LeafKeys' = LeafKeys /\ LeafSorted' = LeafSorted
    BY <2>1 DEF IsLeafPage, LeafKeys, LeafSorted, KeyAt
  <2>3. PageInv' = PageInv
    BY <2>1 DEF PageInv, PageTypeOK, calculated_max, HeaderSize
  <2> QED
    BY <2>1, <2>2, <2>3 DEF LeafInv
<1>3. ASSUME NEW key \in Keys, Insert_refused(key)
      PROVE  LeafInv'
  BY <1>2, <1>3 DEF Insert_refused
<1>4. CASE UNCHANGED leaf_vars
  BY <1>2, <1>4 DEF leaf_vars
<1> QED
  BY <1>1, <1>3, <1>4 DEF LeafNext

\* The leaf's invariant holds in every state.
LEMMA LeafInvariance == LeafSpec => []LeafInv
  BY LeafInitInv, LeafNextInv, PTL DEF LeafSpec

\* Insert keeps a leaf's keys in strictly ascending order, whatever the keys,
\* the order of their arrival, the page's size and its max_size.
THEOREM LeafStaysSorted == LeafSpec => []LeafSorted
<1>1. LeafInv => LeafSorted
  BY DEF LeafInv
<1> QED
  BY <1>1, LeafInvariance, PTL

\* A leaf never holds more than max_size pairs, and they never reach behind
\* the page's last byte.
THEOREM LeafHolds == LeafSpec => [](PageTypeOK /\ PageHolds)
<1>1. LeafInv => PageTypeOK /\ PageHolds
  BY InvHolds DEF LeafInv, PageInv
<1> QED
  BY <1>1, LeafInvariance, PTL
-----------------------------------------------------------------------------
(* A leaf implements the bounded map.                                      *)

LowerBound(f, n, key) ==
    CHOOSE i \in 0 .. n :
        /\ \A j \in 0 .. i - 1 : f[j].key < key
        /\ i < n => f[i].key >= key

\* The pair found under the key of a pair is that pair.
LEMMA FoundAgain ==
    ASSUME NEW f, NEW n \in Nat, Sorted(f, n), NEW i \in 0 .. n - 1
    PROVE  LowerBound(f, n, f[i].key) = i
<1> DEFINE k == f[i].key
<1>1. k \in Int /\ IsLowerBound(f, n, k, i)
  BY KeyIndexOfKey DEF Sorted
<1> HIDE DEF k
<1>2. IsLowerBound(f, n, k, LowerBound(f, n, k))
  BY <1>1 DEF LowerBound, IsLowerBound
<1>3. LowerBound(f, n, k) = i
  BY <1>1, <1>2, LowerBoundUnique
<1> QED
  BY <1>3 DEF k

\* Insert adds one pair to the map and changes no other.
LEMMA InsertAdds ==
    ASSUME LeafInv, NEW key \in Keys, NEW value \in Values, Insert(key, value)
    PROVE  LeafMap' = [q \in LeafKeys \cup {key} |-> IF q = key THEN value ELSE LeafMap[q]]
<1> DEFINE p == KeyIndex(key)
<1>1. /\ p \in 0 .. size
      /\ \A i \in 0 .. p - 1 : array'[i] = array[i] /\ array[i].key < key
      /\ array'[p] = [key |-> key, value |-> value]
      /\ \A i \in p .. size - 1 : array'[i + 1] = array[i] /\ key < array[i].key
  BY InsertFacts
<1> HIDE DEF p
<1>2. LeafInv' /\ LeafKeys' = LeafKeys \cup {key} /\ key \notin LeafKeys
  BY InsertKeeps
<1>3. size' = size + 1 /\ size \in Nat /\ Sorted(array, size)
  BY LeafIsSorted DEF Insert
<1>4. Sorted(array', size')
  <2>1. PageTypeOK' /\ IsLeafPage' /\ LeafSorted'
    BY <1>2 DEF LeafInv, PageInv
  <2>2. \A i \in 0 .. size' - 1 : array'[i].key \in Int
    BY <2>1, BPlusTreePageAssumption DEF PageTypeOK, Entries
  <2> QED
    BY <2>1, <2>2 DEF Sorted, LeafSorted, KeyAt
<1>5. LeafMap = [k \in LeafKeys |-> array[LowerBound(array, size, k)].value]
  BY DEF LeafMap, ValueAt, KeyIndex, KeyAt, LowerBound
<1>6. LeafMap' = [k \in LeafKeys' |-> array'[LowerBound(array', size', k)].value]
  BY DEF LeafMap, ValueAt, KeyIndex, KeyAt, LowerBound
<1>7. array'[LowerBound(array', size', key)].value = value
  <2>1. p \in 0 .. size' - 1 /\ array'[p].key = key /\ array'[p].value = value /\ size' \in Nat
    BY <1>1, <1>3
  <2>2. LowerBound(array', size', array'[p].key) = p
    BY <2>1, <1>4, FoundAgain
  <2> QED
    BY <2>1, <2>2
<1>8. ASSUME NEW q \in LeafKeys
      PROVE  array'[LowerBound(array', size', q)].value = LeafMap[q]
  <2>1. PICK i \in 0 .. size - 1 : array[i].key = q
    BY DEF LeafKeys, KeyAt, LeafInv
  <2>2. LowerBound(array, size, q) = i
    BY <1>3, <2>1, FoundAgain
  <2>3. LeafMap[q] = array[i].value
    BY <1>5, <2>2
  <2>4. \E m \in 0 .. size' - 1 : array'[m] = array[i]
    <3>1. CASE i < p
      BY <3>1, <1>1, <1>3
    <3>2. CASE i >= p
      <4>1. i \in p .. size - 1 /\ i + 1 \in 0 .. size' - 1
        BY <3>2, <1>1, <1>3
      <4> QED
        BY <4>1, <1>1
    <3> QED
      BY <3>1, <3>2, <1>1, <1>3
  <2>5. PICK m \in 0 .. size' - 1 : array'[m] = array[i]
    BY <2>4
  <2>6. size' \in Nat
    BY <1>3
  <2>7. LowerBound(array', size', array'[m].key) = m
    BY <2>6, <1>4, FoundAgain
  <2> QED
    BY <2>1, <2>3, <2>5, <2>7
<1> QED
  BY <1>2, <1>6, <1>7, <1>8

\* A leaf is a bounded map that never overwrites, what Insert returns included
\* (its new size, or -1 for a full leaf or a key it has).
THEOREM LeafImplementsMap == LeafSpec => LeafIsBoundedMap
<1>1. LeafInit => DOMAIN LeafMap = {} /\ result = 0
  <2> SUFFICES ASSUME LeafInit PROVE DOMAIN LeafMap = {} /\ result = 0
    OBVIOUS
  <2>1. LeafKeys = {} /\ result = 0
    BY DEF LeafInit, InitPage, LeafKeys
  <2> QED
    BY <2>1 DEF LeafMap
<1>2. LeafInv /\ [LeafNext]_leaf_vars => [Map!Next]_<<LeafMap, max_size, result>>
  <2> SUFFICES ASSUME LeafInv, [LeafNext]_leaf_vars
               PROVE  Map!Next \/ UNCHANGED <<LeafMap, max_size, result>>
    OBVIOUS
  <2>1. DOMAIN LeafMap = LeafKeys /\ Cardinality(LeafKeys) = size
    BY DEF LeafMap, LeafInv
  <2>0. ASSUME NEW S PROVE Map!Cardinality(S) = Cardinality(S)
    BY Zenon DEF Map!Cardinality, Cardinality
  <2>2. Keys \subseteq Int
    BY BPlusTreePageAssumption
  <2>3. ASSUME UNCHANGED page_vars
        PROVE  UNCHANGED <<LeafMap, max_size>>
    BY <2>3 DEF page_vars, LeafMap, LeafKeys, IsLeafPage, KeyAt, ValueAt, KeyIndex
  <2>4. ASSUME NEW key \in Keys, Insert_refused(key)
        PROVE  Map!Next
    <3>1. size >= max_size \/ key \in LeafKeys
      BY <2>2, <2>4, DuplicateIsMember DEF Insert_refused, IsFull
    <3>2. result' = -1 /\ UNCHANGED <<LeafMap, max_size>>
      BY <2>3, <2>4 DEF Insert_refused
    <3>3. Map!Refused(key)
      BY <2>0, <2>1, <3>1, <3>2 DEF Map!Refused
    <3> QED
      BY <3>3 DEF Map!Next
  <2>5. ASSUME NEW key \in Keys, NEW value \in Values, Insert(key, value)
        PROVE  Map!Next
    <3>1. LeafInv' /\ LeafKeys' = LeafKeys \cup {key} /\ key \notin LeafKeys
      BY <2>5, InsertKeeps
    <3>2. LeafMap' = [q \in LeafKeys \cup {key} |-> IF q = key THEN value ELSE LeafMap[q]]
      BY <2>5, InsertAdds
    <3>3. DOMAIN LeafMap' = LeafKeys' /\ Cardinality(LeafKeys') = size'
      BY <3>1 DEF LeafMap, LeafInv
    <3>4. result' = size' /\ max_size' = max_size /\ size < max_size
      BY <2>5 DEF Insert, IsFull, LeafInv, PageInv, PageTypeOK
    <3>5. result' = Cardinality(DOMAIN LeafMap')
      BY <3>3, <3>4
    <3>6. Map!Added(key, value)
      BY <2>0, <2>1, <3>1, <3>2, <3>4, <3>5 DEF Map!Added
    <3> QED
      BY <3>6 DEF Map!Next
  <2>6. CASE UNCHANGED leaf_vars
    BY <2>3, <2>6 DEF leaf_vars
  <2> QED
    BY <2>4, <2>5, <2>6 DEF LeafNext
<1> QED
  BY <1>1, <1>2, LeafInvariance, PTL DEF LeafSpec, LeafIsBoundedMap, Map!Spec
-----------------------------------------------------------------------------
(* Internal pages.                                                         *)

SeparatorsAscend ==
    \A i, j \in 1 .. size - 1 : i < j => array[i].key < array[j].key

ChildrenDiffer ==
    \A i, j \in 0 .. size - 1 : i # j => array[i].value # array[j].value

\* The invariant of an internal page.
InternalInv ==
    /\ PageInv
    /\ ~IsLeafPage
    /\ SeparatorsAscend
    /\ ChildrenDiffer

\* What the type says of the pairs in use and of the room behind them.
LEMMA InternalFacts ==
    ASSUME InternalInv
    PROVE  /\ size \in Nat /\ max_size \in Nat \ {0} /\ size <= max_size
           /\ 0 .. max_size \subseteq Cells
           /\ Cells \subseteq Int
           /\ \A i \in 0 .. size - 1 : array[i] \in Entries /\ array[i].key \in Int
<1>1. PageTypeOK /\ max_size <= calculated_max(page_type) /\ page_type \in PageTypes
  BY DEF InternalInv, PageInv, PageTypeOK
<1>2. /\ calculated_max(page_type) \in Nat
      /\ calculated_max(page_type) <= PageBytes \div EntryBytes
      /\ PageBytes \div EntryBytes \in Nat
  BY <1>1, CalculatedMax
<1>3. size \in Nat /\ max_size \in Nat \ {0} /\ size <= max_size
  BY <1>1 DEF PageTypeOK
<1>4. 0 .. max_size \subseteq Cells /\ Cells \subseteq Int
  <2> HIDE DEF EntryBytes
  <2> QED
    BY <1>1, <1>2, <1>3 DEF Cells
<1>5. \A i \in 0 .. size - 1 : array[i] \in Entries /\ array[i].key \in Int
  BY <1>1, BPlusTreePageAssumption DEF PageTypeOK, Entries
<1> QED
  BY <1>3, <1>4, <1>5

\* A page whose pairs in use have their type keeps PageInv.
LEMMA ArrayKeeps ==
    ASSUME InternalInv, page_type' = page_type, max_size' = max_size,
           size' \in 0 .. max_size, array' \in [Cells -> Entries \cup {Unset}],
           \A i \in 0 .. size' - 1 : array'[i] \in Entries
    PROVE  PageInv' /\ ~IsLeafPage'
<1>1. PageTypeOK /\ max_size <= calculated_max(page_type) /\ ~IsLeafPage
  BY DEF InternalInv, PageInv
<1>2. PageTypeOK'
  BY <1>1 DEF PageTypeOK
<1>3. max_size' <= calculated_max(page_type)'
  BY <1>1 DEF calculated_max, HeaderSize
<1> QED
  BY <1>1, <1>2, <1>3 DEF PageInv, IsLeafPage

\* One more child behind the others keeps the invariant.
LEMMA AppendKeeps ==
    ASSUME InternalInv, NEW key \in Keys, NEW child \in Values, append_child(key, child)
    PROVE  InternalInv'
<1>1. /\ size \in Nat /\ max_size \in Nat \ {0} /\ size <= max_size
      /\ 0 .. max_size \subseteq Cells
      /\ Cells \subseteq Int
      /\ \A i \in 0 .. size - 1 : array[i] \in Entries /\ array[i].key \in Int
  BY InternalFacts
<1>2. size < max_size /\ size' = size + 1 /\ page_type' = page_type /\ max_size' = max_size
  BY DEF append_child
<1>3. array' = [array EXCEPT ![size] = [key |-> key, value |-> child]]
  BY DEF append_child
<1>4. array \in [Cells -> Entries \cup {Unset}]
  BY DEF InternalInv, PageInv, PageTypeOK
<1>5. [key |-> key, value |-> child] \in Entries /\ size \in Cells
  BY <1>1, <1>2 DEF Entries
<1>6. 0 .. size - 1 \subseteq Cells /\ \A i \in 0 .. size - 1 : i # size
  BY <1>1
<1>7. \A i \in 0 .. size - 1 : array'[i] = array[i]
  BY <1>3, <1>4, <1>6
<1>8. array'[size] = [key |-> key, value |-> child]
  BY <1>3, <1>4, <1>5
<1>9. array' \in [Cells -> Entries \cup {Unset}]
  BY <1>3, <1>4, <1>5
<1>10. \A i \in 0 .. size' - 1 : i \in 0 .. size - 1 \/ i = size
  BY <1>1, <1>2
<1>11. \A i \in 0 .. size' - 1 : array'[i] \in Entries
  BY <1>1, <1>5, <1>7, <1>8, <1>10
<1>12. PageInv' /\ ~IsLeafPage'
  <2>1. size' \in 0 .. max_size
    BY <1>1, <1>2
  <2> QED
    BY <1>2, <1>9, <1>11, <2>1, ArrayKeeps
<1>13. SeparatorsAscend'
  <2> SUFFICES ASSUME NEW i \in 1 .. size' - 1, NEW j \in 1 .. size' - 1, i < j
               PROVE  array'[i].key < array'[j].key
    BY DEF SeparatorsAscend
  <2>1. i \in 1 .. size - 1 /\ i \in 0 .. size - 1 /\ i < size
    BY <1>1, <1>2
  <2>2. CASE j = size
    <3>1. array[i].key < key
      BY <2>1 DEF append_child, Separates
    <3> QED
      BY <3>1, <2>1, <2>2, <1>7, <1>8
  <2>3. CASE j # size
    <3>1. j \in 1 .. size - 1 /\ j \in 0 .. size - 1
      BY <2>3, <1>1, <1>2
    <3> QED
      BY <3>1, <2>1, <1>7 DEF InternalInv, SeparatorsAscend
  <2> QED
    BY <2>2, <2>3
<1>14. ChildrenDiffer'
  <2> SUFFICES ASSUME NEW i \in 0 .. size' - 1, NEW j \in 0 .. size' - 1, i # j
               PROVE  array'[i].value # array'[j].value
    BY DEF ChildrenDiffer
  <2>1. \A m \in 0 .. size - 1 : array[m].value # child
    BY DEF append_child, Children
  <2> QED
    BY <2>1, <1>7, <1>8, <1>10 DEF InternalInv, ChildrenDiffer
<1> QED
  BY <1>12, <1>13, <1>14 DEF InternalInv

\* setKeyAt keeps it: the key lies between its neighbours, or is the unused one.
LEMMA SetKeyKeeps ==
    ASSUME InternalInv, NEW n \in Cells, NEW key \in Keys, setKeyAt(n, key)
    PROVE  InternalInv'
<1>1. /\ size \in Nat /\ max_size \in Nat \ {0} /\ size <= max_size
      /\ 0 .. max_size \subseteq Cells
      /\ Cells \subseteq Int
      /\ \A i \in 0 .. size - 1 : array[i] \in Entries /\ array[i].key \in Int
  BY InternalFacts
<1>2. n < size /\ size' = size /\ page_type' = page_type /\ max_size' = max_size
  BY DEF setKeyAt
<1>3. n \in 0 .. size - 1
  <2>1. n >= 0 /\ n \in Int
    <3> HIDE DEF EntryBytes
    <3> QED
      BY <1>1 DEF Cells
  <2> QED
    BY <1>1, <1>2, <2>1
<1>4. array \in [Cells -> Entries \cup {Unset}] /\ array[n] \in Entries
  BY <1>1, <1>3 DEF InternalInv, PageInv, PageTypeOK
<1>5. array' = [array EXCEPT ![n] = [array[n] EXCEPT !.key = key]]
  BY DEF setKeyAt
<1>6. [array[n] EXCEPT !.key = key] \in Entries
  BY <1>4 DEF Entries
<1>7. \A i \in Cells : i # n => array'[i] = array[i]
  BY <1>4, <1>5
<1>8. array'[n] \in Entries /\ array'[n].key = key /\ array'[n].value = array[n].value
  BY <1>4, <1>5, <1>6 DEF Entries
<1>9. array' \in [Cells -> Entries \cup {Unset}]
  BY <1>4, <1>5, <1>6
<1>10. \A i \in 0 .. size - 1 : i \in Cells
  BY <1>1
<1>11. \A i \in 0 .. size' - 1 : array'[i] \in Entries
  BY <1>1, <1>2, <1>7, <1>8, <1>10
<1>12. PageInv' /\ ~IsLeafPage'
  <2>1. size' \in 0 .. max_size
    BY <1>1, <1>2
  <2> QED
    BY <1>2, <1>9, <1>11, <2>1, ArrayKeeps
<1>13. SeparatorsAscend'
  <2> SUFFICES ASSUME NEW i \in 1 .. size - 1, NEW j \in 1 .. size - 1, i < j
               PROVE  array'[i].key < array'[j].key
    BY <1>2 DEF SeparatorsAscend
  <2>1. i \in Cells /\ j \in Cells /\ i # 0 /\ j # 0 /\ i # j
    BY <1>1
  <2>2. CASE i = n
    <3>1. key < array[j].key
      BY <2>1, <2>2 DEF setKeyAt, Separates
    <3> QED
      BY <3>1, <2>1, <2>2, <1>7, <1>8
  <2>3. CASE j = n
    <3>1. array[i].key < key
      BY <2>1, <2>3 DEF setKeyAt, Separates
    <3> QED
      BY <3>1, <2>1, <2>3, <1>7, <1>8
  <2>4. CASE i # n /\ j # n
    BY <2>1, <2>4, <1>7 DEF InternalInv, SeparatorsAscend
  <2> QED
    BY <2>2, <2>3, <2>4
<1>14. ChildrenDiffer'
  <2>1. \A i \in 0 .. size - 1 : array'[i].value = array[i].value
    BY <1>7, <1>8, <1>10
  <2> QED
    BY <1>2, <2>1 DEF InternalInv, ChildrenDiffer
<1> QED
  BY <1>12, <1>13, <1>14 DEF InternalInv

\* setValueAt keeps it: the child is new.
LEMMA SetValueKeeps ==
    ASSUME InternalInv, NEW n \in Cells, NEW child \in Values, setValueAt(n, child)
    PROVE  InternalInv'
<1>1. /\ size \in Nat /\ max_size \in Nat \ {0} /\ size <= max_size
      /\ 0 .. max_size \subseteq Cells
      /\ Cells \subseteq Int
      /\ \A i \in 0 .. size - 1 : array[i] \in Entries /\ array[i].key \in Int
  BY InternalFacts
<1>2. n < size /\ size' = size /\ page_type' = page_type /\ max_size' = max_size
  BY DEF setValueAt
<1>3. n \in 0 .. size - 1
  <2>1. n >= 0 /\ n \in Int
    <3> HIDE DEF EntryBytes
    <3> QED
      BY <1>1 DEF Cells
  <2> QED
    BY <1>1, <1>2, <2>1
<1>4. array \in [Cells -> Entries \cup {Unset}] /\ array[n] \in Entries
  BY <1>1, <1>3 DEF InternalInv, PageInv, PageTypeOK
<1>5. array' = [array EXCEPT ![n] = [array[n] EXCEPT !.value = child]]
  BY DEF setValueAt
<1>6. [array[n] EXCEPT !.value = child] \in Entries
  BY <1>4 DEF Entries
<1>7. \A i \in Cells : i # n => array'[i] = array[i]
  BY <1>4, <1>5
<1>8. array'[n] \in Entries /\ array'[n].key = array[n].key /\ array'[n].value = child
  BY <1>4, <1>5, <1>6 DEF Entries
<1>9. array' \in [Cells -> Entries \cup {Unset}]
  BY <1>4, <1>5, <1>6
<1>10. \A i \in 0 .. size - 1 : i \in Cells
  BY <1>1
<1>11. \A i \in 0 .. size' - 1 : array'[i] \in Entries
  BY <1>1, <1>2, <1>7, <1>8, <1>10
<1>12. PageInv' /\ ~IsLeafPage'
  <2>1. size' \in 0 .. max_size
    BY <1>1, <1>2
  <2> QED
    BY <1>2, <1>9, <1>11, <2>1, ArrayKeeps
<1>13. SeparatorsAscend'
  <2>1. \A i \in 1 .. size - 1 : i \in 0 .. size - 1
    BY <1>1
  <2>2. \A i \in 1 .. size - 1 : array'[i].key = array[i].key
    BY <2>1, <1>7, <1>8, <1>10
  <2> QED
    BY <1>2, <2>2 DEF InternalInv, SeparatorsAscend
<1>14. ChildrenDiffer'
  <2> SUFFICES ASSUME NEW i \in 0 .. size - 1, NEW j \in 0 .. size - 1, i # j
               PROVE  array'[i].value # array'[j].value
    BY <1>2 DEF ChildrenDiffer
  <2>1. \A m \in 0 .. size - 1 : array[m].value # child
    BY DEF setValueAt, Children
  <2> QED
    BY <2>1, <1>7, <1>8, <1>10 DEF InternalInv, ChildrenDiffer
<1> QED
  BY <1>12, <1>13, <1>14 DEF InternalInv

\* Ascending separators have the place upper_bound looks for; a page of one
\* child has none and the search ends at once.
LEMMA UpperBoundFacts ==
    ASSUME InternalInv, size > 0, NEW key \in Int
    PROVE  /\ upper_bound(key) \in 1 .. size
           /\ \A j \in 1 .. upper_bound(key) - 1 : array[j].key <= key
           /\ upper_bound(key) < size => key < array[upper_bound(key)].key
<1>1. size \in Nat /\ \A i \in 0 .. size - 1 : array[i].key \in Int
  BY InternalFacts
<1>2. size - 1 \in Nat
  BY <1>1
<1> DEFINE n == size - 1
           S == {j \in 0 .. n - 1 : array[j + 1].key <= key}
<1>3. S \subseteq 0 .. n - 1
  OBVIOUS
<1>4. ASSUME NEW i \in S, NEW j \in 0 .. i
      PROVE  j \in S
  <2>1. i \in 0 .. n - 1 /\ array[i + 1].key <= key
    OBVIOUS
  <2>2. /\ j \in 0 .. n - 1
        /\ i + 1 \in 1 .. size - 1 /\ j + 1 \in 1 .. size - 1
        /\ i + 1 \in 0 .. size - 1 /\ j + 1 \in 0 .. size - 1
    BY <2>1, <1>1
  <2>3. array[i + 1].key \in Int /\ array[j + 1].key \in Int
    BY <1>1, <2>2
  <2>4. j + 1 = i + 1 \/ array[j + 1].key < array[i + 1].key
    <3>1. j = i \/ j + 1 < i + 1
      BY <2>1
    <3> QED
      BY <3>1, <2>2 DEF InternalInv, SeparatorsAscend
  <2> QED
    BY <2>1, <2>2, <2>3, <2>4
<1> DEFINE c == Cardinality(S)
<1>5. c \in 0 .. n /\ S = 0 .. c - 1
  <2> HIDE DEF S
  <2>1. n \in Nat
    BY <1>2
  <2> HIDE DEF n
  <2> QED
    BY <1>3, <1>4, <2>1, InitialSegment
<1> HIDE DEF c
<1>6. c + 1 \in 1 .. size
  BY <1>1, <1>5
<1>7. ASSUME NEW j \in 1 .. (c + 1) - 1
      PROVE  array[j].key <= key
  <2>1. j - 1 \in 0 .. c - 1 /\ (j - 1) + 1 = j
    BY <1>1, <1>5
  <2>2. j - 1 \in S
    BY <2>1, <1>5
  <2> QED
    BY <2>1, <2>2
<1>8. ASSUME c + 1 < size
      PROVE  key < array[c + 1].key
  <2>1. c \in 0 .. n - 1 /\ c + 1 \in 0 .. size - 1 /\ c \notin 0 .. c - 1
    BY <1>8, <1>1, <1>5
  <2>2. c \notin S
    BY <1>5, <2>1
  <2>3. array[c + 1].key \in Int /\ ~ (array[c + 1].key <= key)
    BY <1>1, <2>1, <2>2
  <2> QED
    BY <2>3
<1> DEFINE Bound(i) ==
        /\ \A j \in 1 .. i - 1 : array[j].key <= key
        /\ i < size => key < array[i].key
<1>9. \E i \in 1 .. size : Bound(i)
  BY <1>6, <1>7, <1>8
<1>10. upper_bound(key) = CHOOSE i \in 1 .. size : Bound(i)
  BY DEF upper_bound
<1> HIDE DEF Bound
<1>11. upper_bound(key) \in 1 .. size /\ Bound(upper_bound(key))
  BY <1>9, <1>10
<1> QED
  BY <1>11 DEF Bound

\* In an internal page whose separators ascend Lookup goes to the right child.
LEMMA InvRoutes == InternalInv => LookupRoutes
<1> SUFFICES ASSUME InternalInv, size > 0, NEW key \in Keys
             PROVE  LET i == ValueIndex(Lookup(key))
                    IN  /\ i \in 0 .. size - 1
                        /\ i > 0 => array[i].key <= key
                        /\ i < size - 1 => key < array[i + 1].key
  BY DEF LookupRoutes
<1> DEFINE u == upper_bound(key)
<1>0. key \in Int
  BY BPlusTreePageAssumption
<1>1. /\ u \in 1 .. size
      /\ \A j \in 1 .. u - 1 : array[j].key <= key
      /\ u < size => key < array[u].key
  BY <1>0, UpperBoundFacts
<1>2. Lookup(key) = array[u - 1].value
  BY InternalFacts DEF Lookup
<1> HIDE DEF u
<1>3. size \in Nat
  BY InternalFacts
<1>4. u - 1 \in 0 .. size - 1
  BY <1>1, <1>3
<1> DEFINE child == array[u - 1].value
           First(i) == /\ array[i].value = child
                       /\ \A j \in 0 .. i - 1 : array[j].value # child
<1>5. First(u - 1)
  <2>1. \A j \in 0 .. (u - 1) - 1 : j \in 0 .. size - 1 /\ j # u - 1
    BY <1>3, <1>4
  <2> QED
    BY <2>1, <1>4 DEF InternalInv, ChildrenDiffer
<1>6. \A i \in 0 .. size - 1 : First(i) => i = u - 1
  BY <1>4 DEF InternalInv, ChildrenDiffer
<1>7. child \in Children
  BY <1>4 DEF Children
<1>8. ValueIndex(child) = CHOOSE i \in 0 .. size - 1 : First(i)
  BY <1>7 DEF ValueIndex
<1> HIDE DEF First, child
<1>9. ValueIndex(child) = u - 1
  BY <1>4, <1>5, <1>6, <1>8
<1>10. ValueIndex(Lookup(key)) = u - 1
  BY <1>2, <1>9 DEF child
<1>11. u - 1 > 0 => array[u - 1].key <= key
  BY <1>1, <1>3
<1>12. u - 1 < size - 1 => key < array[(u - 1) + 1].key
  <2>1. (u - 1) + 1 = u /\ (u - 1 < size - 1 => u < size)
    BY <1>1, <1>3
  <2> QED
    BY <2>1, <1>1
<1> QED
  BY <1>4, <1>10, <1>11, <1>12

\* The internal page's invariant holds in every state.
LEMMA InternalInvariance == InternalSpec => []InternalInv
<1>1. InternalInit => InternalInv
  <2> SUFFICES ASSUME InternalInit PROVE InternalInv
    OBVIOUS
  <2>1. "INTERNAL_PAGE" \in PageTypes /\ InitPage("INTERNAL_PAGE")
    BY DEF InternalInit, PageTypes
  <2>2. PageInv /\ size = 0
    BY <2>1, InitKeeps
  <2>3. ~IsLeafPage
    BY <2>1 DEF InitPage, IsLeafPage
  <2>4. 0 .. size - 1 = {} /\ 1 .. size - 1 = {}
    BY <2>2
  <2> QED
    BY <2>2, <2>3, <2>4 DEF InternalInv, SeparatorsAscend, ChildrenDiffer
<1>2. InternalInv /\ [InternalNext]_page_vars => InternalInv'
  <2> SUFFICES ASSUME InternalInv, [InternalNext]_page_vars PROVE InternalInv'
    OBVIOUS
  <2>1. ASSUME NEW key \in Keys, NEW child \in Values, append_child(key, child)
        PROVE  InternalInv'
    BY <2>1, AppendKeeps
  <2>2. ASSUME NEW i \in Cells, NEW key \in Keys, setKeyAt(i, key)
        PROVE  InternalInv'
    BY <2>2, SetKeyKeeps
  <2>3. ASSUME NEW i \in Cells, NEW child \in Values, setValueAt(i, child)
        PROVE  InternalInv'
    BY <2>3, SetValueKeeps
  <2>4. CASE UNCHANGED page_vars
    <3>1. page_type' = page_type /\ size' = size /\ max_size' = max_size /\ array' = array
      BY <2>4 DEF page_vars
    <3>2. PageInv' = PageInv /\ IsLeafPage' = IsLeafPage
      BY <3>1 DEF PageInv, PageTypeOK, calculated_max, HeaderSize, IsLeafPage
    <3> QED
      BY <3>1, <3>2 DEF InternalInv, SeparatorsAscend, ChildrenDiffer
  <2> QED
    BY <2>1, <2>2, <2>3, <2>4 DEF InternalNext
<1> QED
  BY <1>1, <1>2, PTL DEF InternalSpec

\* Lookup descends into the child whose interval holds the key and ValueIndex
\* finds that child again, as long as the owner keeps separators ascending and
\* children different.
THEOREM LookupStaysRight == InternalSpec => []LookupRoutes
  BY InvRoutes, InternalInvariance, PTL

\* An internal page, too, is never filled beyond max_size or its last byte.
THEOREM InternalHolds == InternalSpec => [](PageTypeOK /\ PageHolds)
<1>1. InternalInv => PageTypeOK /\ PageHolds
  BY InvHolds DEF InternalInv, PageInv
<1> QED
  BY <1>1, InternalInvariance, PTL
=============================================================================
