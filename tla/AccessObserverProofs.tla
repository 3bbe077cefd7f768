----------------------- MODULE AccessObserverProofs -----------------------
(***************************************************************************)
(* For every ring capacity and every set of pages: the counts of the       *)
(* access observer are the numbers of events in its ring, its queries      *)
(* agree, and the ring implements the window of the last accesses.         *)
(***************************************************************************)
EXTENDS AccessObserver, FiniteSetTheorems, WellFoundedInduction, TLAPS

\* The slots that hold an event have been recorded into.
SlotsRecorded == \A i \in 0 .. size - 1 : ring[i] \in Events

Inv == TypeOK /\ SlotsRecorded /\ CountsMatchRing

\* The slots with an event on page p.
SlotsOf(p) == {i \in 0 .. size - 1 : ring[i].page_id = p}

\* The slots of a page are finite in number.
LEMMA SlotsFinite ==
    ASSUME NEW p, size \in Nat
    PROVE  IsFiniteSet(SlotsOf(p)) /\ Cardinality(SlotsOf(p)) \in Nat
  <1>1. IsFiniteSet(0 .. size - 1)
    BY FS_Interval
  <1> QED
    BY <1>1, FS_Subset, FS_CardinalityType DEF SlotsOf

\* head_ moves on by one and comes back to 0 at the end of the ring.
LEMMA NextHeadFacts ==
    ASSUME head \in Slots
    PROVE  /\ NextHead \in Slots
           /\ head + 1 < ObserverCapacity => NextHead = head + 1
  BY ObserverCapacityAssumption DEF NextHead, Slots

\* An empty ring satisfies the invariant.
LEMMA InitInv == Init => Inv
  <1> SUFFICES ASSUME Init PROVE Inv
    OBVIOUS
  <1>1. TypeOK
    BY ObserverCapacityAssumption, AccessObserverAssumption DEF Init, TypeOK, Slots
  <1>2. SlotsRecorded
    BY DEF Init, SlotsRecorded
  <1>3. \A p : {i \in 0 .. size - 1 : ring[i].page_id = p} = {}
    BY DEF Init
  <1>4. CountsMatchRing
    BY <1>3, FS_EmptySet DEF Init, CountsMatchRing, get_access_count
  <1> QED
    BY <1>1, <1>2, <1>4 DEF Inv

\* Recording an access keeps it, on the way to a full ring and around it.
LEMMA RecordInv ==
    ASSUME Inv, NEW p \in ObservedPages, NEW hit \in BOOLEAN, record_page_access(p, hit)
    PROVE  Inv'
  <1> DEFINE e == [page_id |-> p, is_hit |-> hit]
             C(q) == Cardinality(SlotsOf(q))
  <1>1. TypeOK /\ head \in Slots /\ size \in Nat /\ size <= ObserverCapacity /\ e \in Events
    BY ObserverCapacityAssumption DEF Inv, TypeOK, Events
  <1>2. /\ ring' = [ring EXCEPT ![head] = e] /\ head' = NextHead
        /\ size' = IF size < ObserverCapacity THEN size + 1 ELSE size
        /\ total_recorded' = (total_recorded + 1) % TotalModulus
        /\ page_access_counts' = [Forget(page_access_counts) EXCEPT ![p] = @ + 1]
    BY DEF record_page_access
  <1> HIDE DEF e
  <1>3. e.page_id = p
    BY DEF e
  <1>4. \A q \in ObservedPages : page_access_counts[q] = C(q) /\ C(q) \in Nat
    BY <1>1, SlotsFinite DEF Inv, CountsMatchRing, get_access_count, SlotsOf
  <1>5. total_recorded' \in 0 .. TotalModulus - 1
    BY <1>1, <1>2, AccessObserverAssumption DEF TypeOK
  <1>6. \A i \in Slots : ring'[i] = IF i = head THEN e ELSE ring[i]
    BY <1>1, <1>2 DEF TypeOK
  <1>7. CASE size < ObserverCapacity
    <2>1. head = size /\ size' = size + 1
      BY <1>1, <1>2, <1>7 DEF TypeOK
    <2>2. page_access_counts' = [page_access_counts EXCEPT ![p] = @ + 1]
      BY <1>2, <1>7 DEF Forget
    <2>3. TypeOK'
      <3>1. size' \in 0 .. ObserverCapacity
        BY <1>1, <1>7, <2>1, ObserverCapacityAssumption
      <3>2. size' < ObserverCapacity => head' = size'
        BY <1>1, <1>2, <2>1, NextHeadFacts
      <3>3. ring' \in [Slots -> Events \cup {NoEvent}] /\ head' \in Slots
        BY <1>1, <1>2, NextHeadFacts DEF TypeOK
      <3>4. page_access_counts' \in [ObservedPages -> Nat]
        BY <1>1, <2>2 DEF TypeOK
      <3> QED
        BY <1>5, <3>1, <3>2, <3>3, <3>4 DEF TypeOK
    <2>4. 0 .. size' - 1 = (0 .. size - 1) \cup {head} /\ head \notin 0 .. size - 1
      BY <1>1, <2>1
    <2>5. 0 .. size' - 1 \subseteq Slots
      BY <1>1, <1>7, <2>1, ObserverCapacityAssumption DEF Slots
    <2>6. SlotsRecorded'
      BY <1>1, <1>6, <2>4, <2>5 DEF Inv, SlotsRecorded
    <2>7. \A q : SlotsOf(q)' = IF q = p THEN SlotsOf(q) \cup {head} ELSE SlotsOf(q)
      BY <1>3, <1>6, <2>4, <2>5 DEF SlotsOf
    <2>8. \A q : head \notin SlotsOf(q)
      BY <2>4 DEF SlotsOf
    <2>9. ASSUME NEW q \in ObservedPages
          PROVE  page_access_counts'[q] = Cardinality(SlotsOf(q)')
      <3>1. CASE q = p
        <4>1. Cardinality(SlotsOf(q) \cup {head}) = C(q) + 1
          BY <1>1, <2>8, FS_AddElement, SlotsFinite
        <4> QED
          BY <1>1, <1>4, <2>2, <2>7, <3>1, <4>1 DEF TypeOK
      <3>2. CASE q # p
        BY <1>1, <1>4, <2>2, <2>7, <3>2 DEF TypeOK
      <3> QED
        BY <3>1, <3>2
    <2>10. CountsMatchRing'
      BY <2>9 DEF CountsMatchRing, get_access_count, SlotsOf
    <2> QED
      BY <2>3, <2>6, <2>10 DEF Inv
  <1>8. CASE size = ObserverCapacity
    <2> DEFINE old == ring[head].page_id
    <2>1. size' = size /\ 0 .. size - 1 = Slots
      BY <1>1, <1>2, <1>8 DEF Slots
    <2>2. old \in ObservedPages /\ head \in SlotsOf(old)
      BY <1>1, <2>1 DEF Inv, SlotsRecorded, Events, SlotsOf
    <2>3. C(old) > 0
      <3>1. SlotsOf(old) # {} /\ IsFiniteSet(SlotsOf(old)) /\ C(old) \in Nat
        BY <1>1, <2>2, SlotsFinite
      <3>2. C(old) # 0
        BY <3>1, FS_EmptySet
      <3> QED
        BY <3>1, <3>2
    <2> HIDE DEF old
    <2>a. (IF C(old) <= 1 THEN 0 ELSE C(old) - 1) = C(old) - 1
      BY <1>4, <2>2, <2>3
    <2>b. ~(size < ObserverCapacity)
      BY <1>1, <1>8, ObserverCapacityAssumption
    <2>c. Forget(page_access_counts) =
            [page_access_counts EXCEPT ![old] = IF C(old) <= 1 THEN 0 ELSE C(old) - 1]
      BY <1>1, <1>4, <2>2, <2>b DEF Forget, old, TypeOK
    <2>4. Forget(page_access_counts) = [page_access_counts EXCEPT ![old] = C(old) - 1]
      BY <2>a, <2>c
    <2>d. page_access_counts = [q \in ObservedPages |-> C(q)]
      BY <1>1, <1>4 DEF TypeOK
    <2> DEFINE D(q) == IF q = old THEN C(q) - 1 ELSE C(q)
    <2>5. page_access_counts' = [q \in ObservedPages |-> IF q = p THEN D(q) + 1 ELSE D(q)]
      <3> HIDE DEF C
      <3>1. Forget(page_access_counts) = [q \in ObservedPages |-> D(q)]
        BY <2>2, <2>4, <2>d
      <3> HIDE DEF D
      <3> QED
        BY <1>2, <3>1
    <2>6. TypeOK'
      <3>1. page_access_counts' \in [ObservedPages -> Nat]
        BY <1>4, <2>2, <2>3, <2>5
      <3>2. ring' \in [Slots -> Events \cup {NoEvent}] /\ head' \in Slots
        BY <1>1, <1>2, NextHeadFacts DEF TypeOK
      <3>3. size' \in 0 .. ObserverCapacity /\ ~(size' < ObserverCapacity)
        BY <1>1, <1>8, <2>1, ObserverCapacityAssumption
      <3> QED
        BY <1>5, <3>1, <3>2, <3>3 DEF TypeOK
    <2>7. SlotsRecorded'
      BY <1>1, <1>6, <2>1 DEF Inv, SlotsRecorded
    <2>8. \A q : SlotsOf(q)' = IF q = p THEN (SlotsOf(q) \ {head}) \cup {head}
                              ELSE SlotsOf(q) \ {head}
      BY <1>1, <1>3, <1>6, <2>1 DEF SlotsOf
    <2>9. \A q : head \in SlotsOf(q) <=> q = old
      BY <2>2 DEF SlotsOf, old
    <2>10. ASSUME NEW q \in ObservedPages
           PROVE  page_access_counts'[q] = Cardinality(SlotsOf(q)')
      <3> DEFINE R == SlotsOf(q) \ {head}
      <3>1. IsFiniteSet(R) /\ Cardinality(R) = IF q = old THEN C(q) - 1 ELSE C(q)
        BY <1>1, <2>9, FS_RemoveElement, SlotsFinite
      <3>2. Cardinality(R \cup {head}) = Cardinality(R) + 1
        BY <3>1, FS_AddElement
      <3> HIDE DEF R
      <3>3. CASE q = p
        <4>1. SlotsOf(q)' = R \cup {head}
          BY <2>8, <3>3 DEF R
        <4> QED
          BY <2>5, <3>1, <3>2, <3>3, <4>1
      <3>4. CASE q # p
        <4>1. SlotsOf(q)' = R
          BY <2>8, <3>4 DEF R
        <4> QED
          BY <1>4, <2>5, <3>1, <3>4, <4>1
      <3> QED
        BY <3>3, <3>4
    <2>11. CountsMatchRing'
      BY <2>10 DEF CountsMatchRing, get_access_count, SlotsOf
    <2> QED
      BY <2>6, <2>7, <2>11 DEF Inv
  <1> QED
    BY <1>1, <1>7, <1>8, ObserverCapacityAssumption

\* Every recorded access keeps ring, head, size and counts in step
\* (record_page_access, record_record_access).
THEOREM Invariance == Spec => []Inv
  <1>1. Inv /\ [Next]_vars => Inv'
    <2> SUFFICES ASSUME Inv, [Next]_vars PROVE Inv'
      OBVIOUS
    <2>1. CASE \E p \in ObservedPages, hit \in BOOLEAN : record_page_access(p, hit)
      BY <2>1, RecordInv
    <2>2. CASE \E p \in ObservedPages : record_record_access(p)
      BY <2>2, RecordInv DEF record_record_access
    <2>3. CASE UNCHANGED vars
      BY <2>3 DEF vars, Inv, TypeOK, SlotsRecorded, CountsMatchRing, get_access_count
    <2> QED
      BY <2>1, <2>2, <2>3 DEF Next
  <1> QED
    BY <1>1, InitInv, PTL DEF Spec

\* The observer's count of a page is the number of its events in the ring, for
\* every capacity (page_access_counts_ in record_page_access).
THEOREM CountsAreExact == Spec => []CountsMatchRing
  <1>1. Inv => CountsMatchRing
    BY DEF Inv
  <1> QED
    BY <1>1, Invariance, PTL

\* head_ and size_ stay in the ring and total_recorded_ in its width.
THEOREM TypeCorrect == Spec => []TypeOK
  <1>1. Inv => TypeOK
    BY DEF Inv
  <1> QED
    BY <1>1, Invariance, PTL
-----------------------------------------------------------------------------
(* Positions in the ring.                                                  *)

\* A nonempty set of numbers has a smallest one.
LEMMA SmallestOf ==
    ASSUME NEW S \in SUBSET Nat, S # {}
    PROVE  \E i \in S : \A j \in S : i <= j
<1> DEFINE R == {ss \in Nat \X Nat : ss[1] < ss[2]}
<1>1. OpToRel(<, Nat) = R
  BY Zenon DEF OpToRel
<1>2. IsWellFoundedOn(R, Nat)
  BY <1>1, NatLessThanWellFounded, Zenon
<1>3. PICK x \in S : \A y \in S : ~ (<<y, x>> \in R)
  BY <1>2, WFMin
<1>4. ASSUME NEW y \in S
      PROVE  x <= y
  <2>1. <<y, x>> \in Nat \X Nat /\ ~ (<<y, x>> \in R)
    BY <1>3
  <2>2. ~ (y < x)
    BY <2>1
  <2> QED
    BY <2>2
<1> QED
  BY <1>4

\* A position less than two rings away comes back once.
LEMMA Wraps ==
    ASSUME NEW a \in Nat, a < 2 * ObserverCapacity
    PROVE  a % ObserverCapacity = IF a < ObserverCapacity THEN a ELSE a - ObserverCapacity
<1>1. ObserverCapacity \in Nat /\ ObserverCapacity > 0
  BY ObserverCapacityAssumption
<1> DEFINE N == ObserverCapacity
<1>2. CASE a < N
  BY <1>1, <1>2
<1>3. CASE a >= N
  <2>1. a - N \in 0 .. N - 1 /\ a = 1 * N + (a - N)
    BY <1>1, <1>3
  <2> QED
    BY <1>1, <1>3, <2>1
<1> QED
  BY <1>1, <1>2, <1>3

\* The slot of the i-th oldest event, counted from 1.
Forth(i) == (Oldest + i - 1) % ObserverCapacity

\* The oldest event is in slot 0 until the ring is full, then where the next
\* event will go.
LEMMA OldestFacts ==
    ASSUME TypeOK
    PROVE  Oldest = IF size < ObserverCapacity THEN 0 ELSE head
<1>1. /\ ObserverCapacity \in Nat \ {0} /\ head \in 0 .. ObserverCapacity - 1
      /\ size \in 0 .. ObserverCapacity /\ (size < ObserverCapacity => head = size)
  BY ObserverCapacityAssumption DEF TypeOK, Slots
<1>2. head + ObserverCapacity - size \in Nat /\ head + ObserverCapacity - size < 2 * ObserverCapacity
  BY <1>1
<1> QED
  BY <1>1, <1>2, Wraps DEF Oldest

\* Where the events are, counted from the oldest.
LEMMA ForthFacts ==
    ASSUME TypeOK, NEW i \in 1 .. size
    PROVE  /\ Forth(i) \in 0 .. size - 1
           /\ size < ObserverCapacity => Forth(i) = i - 1
           /\ size = ObserverCapacity =>
                 Forth(i) = IF head + i - 1 < ObserverCapacity THEN head + i - 1
                            ELSE head + i - 1 - ObserverCapacity
<1>1. /\ ObserverCapacity \in Nat \ {0} /\ head \in 0 .. ObserverCapacity - 1
      /\ size \in 0 .. ObserverCapacity /\ (size < ObserverCapacity => head = size)
  BY ObserverCapacityAssumption DEF TypeOK, Slots
<1>2. Oldest = IF size < ObserverCapacity THEN 0 ELSE head
  BY OldestFacts
<1> HIDE DEF Oldest
<1>3. Oldest + i - 1 \in Nat /\ Oldest + i - 1 < 2 * ObserverCapacity
  BY <1>1, <1>2
<1>4. Forth(i) = IF Oldest + i - 1 < ObserverCapacity THEN Oldest + i - 1
                 ELSE Oldest + i - 1 - ObserverCapacity
  <2> DEFINE a == Oldest + i - 1
  <2>1. a \in Nat /\ a < 2 * ObserverCapacity /\ Forth(i) = a % ObserverCapacity
    BY <1>3 DEF Forth
  <2> HIDE DEF a
  <2>2. Forth(i) = IF a < ObserverCapacity THEN a ELSE a - ObserverCapacity
    BY <2>1, Wraps
  <2> QED
    BY <1>1, <1>2, <2>1, <2>2 DEF a
<1> QED
  BY <1>1, <1>2, <1>4

\* Counting back from the newest event and forth from the oldest one meet.
LEMMA BackMeetsForth ==
    ASSUME TypeOK, NEW i \in 0 .. size - 1
    PROVE  Back(i) = Forth(size - i)
<1>1. /\ ObserverCapacity \in Nat \ {0} /\ head \in 0 .. ObserverCapacity - 1
      /\ size \in 0 .. ObserverCapacity /\ (size < ObserverCapacity => head = size)
  BY ObserverCapacityAssumption DEF TypeOK, Slots
<1>2. head + ObserverCapacity - 1 - i \in Nat /\ head + ObserverCapacity - 1 - i < 2 * ObserverCapacity
  BY <1>1
<1>3. Back(i) = IF head + ObserverCapacity - 1 - i < ObserverCapacity
                THEN head + ObserverCapacity - 1 - i ELSE head - 1 - i
  BY <1>1, <1>2, Wraps DEF Back
<1>4. size - i \in 1 .. size
  BY <1>1
<1>5. /\ size < ObserverCapacity => Forth(size - i) = size - i - 1
      /\ size = ObserverCapacity =>
            Forth(size - i) = IF head + (size - i) - 1 < ObserverCapacity THEN head + (size - i) - 1
                              ELSE head + (size - i) - 1 - ObserverCapacity
  BY <1>4, ForthFacts
<1> QED
  BY <1>1, <1>3, <1>5

\* The whole window: as many events as the ring has, oldest first.
LEMMA WindowFacts ==
    ASSUME TypeOK
    PROVE  /\ get_recent_page_accesses(ObserverCapacity) = [i \in 1 .. size |-> ring[Forth(i)]]
           /\ DOMAIN Window = 1 .. size
           /\ \A i \in 1 .. size : Window[i] = ring[Forth(i)].page_id
<1>1. size \in 0 .. ObserverCapacity /\ ObserverCapacity \in Nat
  BY ObserverCapacityAssumption DEF TypeOK
<1>2. (IF ObserverCapacity < size THEN ObserverCapacity ELSE size) = size
  BY <1>1
<1>3. get_recent_page_accesses(ObserverCapacity) = [i \in 1 .. size |-> ring[Forth(i)]]
  BY <1>2 DEF get_recent_page_accesses, Forth
<1> HIDE DEF get_recent_page_accesses
<1> QED
  BY <1>3 DEF Window, get_recent_page_ids

\* The invariant implies that the two ways around the ring agree.
LEMMA InvLastIndex == TypeOK => LastIndexMatchesWindow
<1> SUFFICES ASSUME TypeOK, NEW p \in ObservedPages
             PROVE  LET k == get_last_index_in_recent(p)
                    IN  /\ k < size => Window[size - k] = p
                        /\ \A i \in DOMAIN Window : i > size - k => Window[i] # p
                        /\ k >= size => k = ObserverCapacity
  BY DEF LastIndexMatchesWindow
<1> DEFINE k == get_last_index_in_recent(p)
           found == {i \in 0 .. size - 1 : ring[Back(i)].page_id = p}
<1>1. size \in Nat /\ ObserverCapacity \in Nat /\ size <= ObserverCapacity
  BY ObserverCapacityAssumption DEF TypeOK
<1>2. DOMAIN Window = 1 .. size /\ \A i \in 1 .. size : Window[i] = ring[Forth(i)].page_id
  BY WindowFacts
<1>3. \A i \in 0 .. size - 1 : Window[size - i] = ring[Back(i)].page_id
  <2> TAKE i \in 0 .. size - 1
  <2>1. size - i \in 1 .. size
    BY <1>1
  <2> QED
    BY <1>2, <2>1, BackMeetsForth
<1>4. k = IF found = {} THEN ObserverCapacity ELSE CHOOSE i \in found : \A j \in found : i <= j
  BY DEF get_last_index_in_recent
<1>5. \A i \in 1 .. size : Window[i] = p => size - i \in found
  <2> SUFFICES ASSUME NEW i \in 1 .. size, Window[i] = p PROVE size - i \in found
    OBVIOUS
  <2>1. size - i \in 0 .. size - 1 /\ size - (size - i) = i
    BY <1>1
  <2> QED
    BY <1>3, <2>1
<1>6. CASE found = {}
  <2>1. k = ObserverCapacity
    BY <1>4, <1>6
  <2> HIDE DEF k
  <2>2. \A i \in DOMAIN Window : Window[i] # p
    BY <1>2, <1>5, <1>6
  <2> QED
    BY <1>1, <2>1, <2>2 DEF k
<1>7. CASE found # {}
  <2>1. found \subseteq Nat
    BY <1>1
  <2>2. \E i \in found : \A j \in found : i <= j
    BY <1>7, <2>1, SmallestOf
  <2>3. k \in found /\ \A j \in found : k <= j
    BY <1>4, <1>7, <2>2
  <2> HIDE DEF k
  <2>4. k \in 0 .. size - 1 /\ Window[size - k] = p
    BY <1>3, <2>3
  <2>5. ASSUME NEW i \in DOMAIN Window, i > size - k
        PROVE  Window[i] # p
    <3>1. ASSUME Window[i] = p PROVE FALSE
      <4>1. i \in 1 .. size /\ size - i \in found
        BY <1>2, <1>5, <3>1
      <4>2. k <= size - i
        BY <2>3, <4>1
      <4> QED
        BY <1>1, <2>4, <2>5, <4>1, <4>2
    <3> QED
      BY <3>1
  <2> QED
    BY <1>1, <2>4, <2>5 DEF k
<1> QED
  BY <1>6, <1>7

\* What the lemmas above say of the window, of one state and so of the next.
WindowIsRing ==
    /\ get_recent_page_accesses(ObserverCapacity) = [i \in 1 .. size |-> ring[Forth(i)]]
    /\ \A i \in 1 .. size :
          /\ Forth(i) \in 0 .. size - 1
          /\ size < ObserverCapacity => Forth(i) = i - 1
          /\ size = ObserverCapacity =>
                Forth(i) = IF head + i - 1 < ObserverCapacity THEN head + i - 1
                           ELSE head + i - 1 - ObserverCapacity

\* It holds in every state of the right type.
LEMMA TypeGivesWindow == TypeOK => WindowIsRing
  BY WindowFacts, ForthFacts DEF WindowIsRing

\* And in the next one.
LEMMA TypeGivesWindowNext == TypeOK' => WindowIsRing'
  BY TypeGivesWindow, PTL

\* Append, as a function of the positions.
LEMMA AppendAt ==
    ASSUME NEW T, NEW w \in Seq(T), NEW x \in T, NEW n \in Nat, Len(w) = n
    PROVE  Append(w, x) = [i \in 1 .. n + 1 |-> IF i <= n THEN w[i] ELSE x]
<1> DEFINE A == Append(w, x)
<1>1. A \in Seq(T) /\ Len(A) = n + 1
  OBVIOUS
<1>2. \A i \in 1 .. n + 1 : A[i] = IF i <= n THEN w[i] ELSE x
  OBVIOUS
<1> HIDE DEF A
<1>3. A = [i \in 1 .. n + 1 |-> A[i]]
  <2>1. A \in [1 .. n + 1 -> T]
    BY <1>1
  <2> QED
    BY <2>1
<1>4. A = [i \in 1 .. n + 1 |-> IF i <= n THEN w[i] ELSE x]
  BY <1>2, <1>3
<1> QED
  BY <1>4 DEF A

\* A full window that takes one more event, as a function of the positions.
LEMMA ShiftAt ==
    ASSUME NEW T, NEW w \in Seq(T), NEW x \in T, NEW n \in Nat \ {0}, Len(w) = n
    PROVE  Append(Tail(w), x) = [i \in 1 .. n |-> IF i < n THEN w[i + 1] ELSE x]
<1> DEFINE v == Tail(w)
<1>1. v \in Seq(T) /\ Len(v) = n - 1 /\ n - 1 \in Nat /\ (n - 1) + 1 = n
  OBVIOUS
<1>2. \A i \in 1 .. n - 1 : v[i] = w[i + 1]
  OBVIOUS
<1> HIDE DEF v
<1>3. Append(v, x) = [i \in 1 .. (n - 1) + 1 |-> IF i <= n - 1 THEN v[i] ELSE x]
  BY <1>1, AppendAt
<1>4. ASSUME NEW i \in 1 .. n
      PROVE  (IF i <= n - 1 THEN v[i] ELSE x) = (IF i < n THEN w[i + 1] ELSE x)
  <2>1. CASE i < n
    BY <1>2, <2>1
  <2>2. CASE ~ (i < n)
    BY <2>2
  <2> QED
    BY <2>1, <2>2
<1> QED
  BY <1>1, <1>3, <1>4 DEF v

\* Recording an event moves the window on by it.
LEMMA RecordExtends ==
    ASSUME TypeOK, TypeOK', NEW p \in ObservedPages, NEW hit \in BOOLEAN,
           record_page_access(p, hit)
    PROVE  get_recent_page_accesses(ObserverCapacity)'
             = Record(get_recent_page_accesses(ObserverCapacity), [page_id |-> p, is_hit |-> hit])
<1> DEFINE N == ObserverCapacity
           T == Events \cup {NoEvent}
           e == [page_id |-> p, is_hit |-> hit]
           F == [i \in 1 .. size |-> Forth(i)]
           G == [i \in 1 .. size' |-> Forth(i)']
           W == [i \in 1 .. size |-> ring[F[i]]]
           X == [i \in 1 .. size' |-> ring'[G[i]]]
<1>1. /\ N \in Nat \ {0} /\ head \in 0 .. N - 1
      /\ size \in 0 .. N /\ (size < N => head = size)
      /\ ring \in [0 .. N - 1 -> T]
  BY ObserverCapacityAssumption DEF TypeOK, Slots
<1>2. e \in T
  BY DEF Events
<1>3. /\ ring' = [ring EXCEPT ![head] = e]
      /\ head' = NextHead
      /\ size' = IF size < N THEN size + 1 ELSE size
  BY DEF record_page_access
<1>4. head' = IF head + 1 < N THEN head + 1 ELSE 0
  <2>1. head + 1 \in Nat /\ head + 1 < 2 * N
    BY <1>1
  <2>2. NextHead = IF head + 1 < N THEN head + 1 ELSE (head + 1) - N
    BY <2>1, Wraps DEF NextHead
  <2> QED
    BY <1>1, <1>3, <2>2
<1>5. WindowIsRing /\ WindowIsRing'
  BY TypeGivesWindow, TypeGivesWindowNext
<1>6. get_recent_page_accesses(N) = W
  <2>1. get_recent_page_accesses(N) = [i \in 1 .. size |-> ring[Forth(i)]]
    BY <1>5 DEF WindowIsRing
  <2> QED
    BY <2>1
<1>7. get_recent_page_accesses(N)' = X
  <2>1. get_recent_page_accesses(N)' = [i \in 1 .. size' |-> ring'[Forth(i)']]
    BY <1>5 DEF WindowIsRing
  <2> QED
    BY <2>1
<1>8. \A i \in 1 .. size :
         /\ size < N => F[i] = i - 1
         /\ size = N => F[i] = IF head + i - 1 < N THEN head + i - 1 ELSE head + i - 1 - N
  BY <1>5 DEF WindowIsRing
<1>9. \A i \in 1 .. size' :
         /\ size' < N => G[i] = i - 1
         /\ size' = N => G[i] = IF head' + i - 1 < N THEN head' + i - 1 ELSE head' + i - 1 - N
  BY <1>5 DEF WindowIsRing
<1> HIDE DEF T, F, G, e
<1>10. \A i \in 0 .. N - 1 : ring'[i] = IF i = head THEN e ELSE ring[i]
  BY <1>1, <1>3
<1>11. ASSUME NEW i \in 1 .. size PROVE W[i] = ring[F[i]] /\ W[i] \in T
  <2>1. F[i] \in 0 .. N - 1
    <3>1. CASE size < N
      BY <1>1, <1>8, <3>1
    <3>2. CASE size = N
      BY <1>1, <1>8, <3>2
    <3> QED
      BY <1>1, <3>1, <3>2
  <2> QED
    BY <1>1, <2>1
<1>12. W \in Seq(T) /\ Len(W) = size
  <2>1. \A i \in 1 .. size : W[i] \in T
    BY <1>11
  <2>2. W \in [1 .. size -> T] /\ size \in Nat
    BY <1>1, <2>1
  <2> QED
    BY <2>2
<1>13. X = [i \in 1 .. size' |-> X[i]] /\ \A i \in 1 .. size' : X[i] = ring'[G[i]]
  OBVIOUS
<1> HIDE DEF W, X
<1>14. CASE size < N
  <2>1. size' = size + 1 /\ head = size /\ size' \in Nat /\ size \in Nat
    BY <1>1, <1>3, <1>14
  <2>2. Record(W, e) = Append(W, e)
    BY <1>12, <1>14 DEF Record
  <2>3. Append(W, e) = [i \in 1 .. size + 1 |-> IF i <= size THEN W[i] ELSE e]
    BY <1>2, <1>12, <2>1, AppendAt
  <2>4. ASSUME NEW i \in 1 .. size'
        PROVE  X[i] = IF i <= size THEN W[i] ELSE e
    <3>1. G[i] = i - 1
      <4>1. CASE size' < N
        BY <1>9, <4>1
      <4>2. CASE size' = N
        <5>1. head' = 0
          BY <1>1, <1>4, <2>1, <4>2
        <5>2. G[i] = IF head' + i - 1 < N THEN head' + i - 1 ELSE head' + i - 1 - N
          BY <1>9, <4>2
        <5> QED
          BY <1>1, <2>1, <4>2, <5>1, <5>2
      <4> QED
        BY <1>1, <1>14, <2>1, <4>1, <4>2
    <3>2. i - 1 \in 0 .. N - 1
      BY <1>1, <1>14, <2>1
    <3>3. X[i] = IF i - 1 = head THEN e ELSE ring[i - 1]
      BY <1>10, <1>13, <3>1, <3>2
    <3>4. CASE i <= size
      <4>1. i \in 1 .. size /\ F[i] = i - 1
        BY <1>8, <1>14, <2>1, <3>4
      <4> QED
        BY <1>11, <2>1, <3>3, <3>4, <4>1
    <3>5. CASE ~ (i <= size)
      BY <2>1, <3>3, <3>5
    <3> QED
      BY <3>4, <3>5
  <2>5. X = [i \in 1 .. size' |-> IF i <= size THEN W[i] ELSE e]
    BY <1>13, <2>4
  <2> QED
    BY <1>6, <1>7, <2>1, <2>2, <2>3, <2>5 DEF e
<1>15. CASE size = N
  <2>1. size' = N
    BY <1>1, <1>3, <1>15
  <2>2. Record(W, e) = Append(Tail(W), e)
    BY <1>1, <1>12, <1>15 DEF Record
  <2>3. Append(Tail(W), e) = [i \in 1 .. N |-> IF i < N THEN W[i + 1] ELSE e]
    BY <1>1, <1>2, <1>12, <1>15, ShiftAt
  <2>4. ASSUME NEW i \in 1 .. N
        PROVE  X[i] = IF i < N THEN W[i + 1] ELSE e
    <3>1. G[i] = IF head' + i - 1 < N THEN head' + i - 1 ELSE head' + i - 1 - N
      BY <1>9, <2>1
    <3>2. G[i] = IF head + i < N THEN head + i ELSE head + i - N
      BY <1>1, <1>4, <3>1
    <3>3. G[i] \in 0 .. N - 1
      BY <1>1, <3>2
    <3>4. X[i] = IF G[i] = head THEN e ELSE ring[G[i]]
      BY <1>10, <1>13, <2>1, <3>3
    <3>5. CASE i = N
      <4>1. G[i] = head
        BY <1>1, <3>2, <3>5
      <4> QED
        BY <1>1, <3>4, <3>5, <4>1
    <3>6. CASE i < N
      <4>1. i + 1 \in 1 .. size
        BY <1>1, <1>15, <3>6
      <4>2. F[i + 1] = IF head + (i + 1) - 1 < N THEN head + (i + 1) - 1 ELSE head + (i + 1) - 1 - N
        BY <1>8, <1>15, <4>1
      <4>3. G[i] = F[i + 1] /\ G[i] # head
        BY <1>1, <3>2, <3>6, <4>2
      <4>4. W[i + 1] = ring[F[i + 1]]
        BY <1>11, <4>1
      <4> QED
        BY <3>4, <3>6, <4>3, <4>4
    <3> QED
      BY <1>1, <3>5, <3>6
  <2>5. X = [i \in 1 .. N |-> IF i < N THEN W[i + 1] ELSE e]
    BY <1>13, <2>1, <2>4
  <2> QED
    BY <1>6, <1>7, <2>2, <2>3, <2>5 DEF e
<1> QED
  BY <1>1, <1>14, <1>15
-----------------------------------------------------------------------------
\* get_last_index_in_recent, which walks back from the newest event, and
\* get_recent_page_ids, which walks forth from the oldest one, agree on the
\* newest event of every page, for every capacity.
THEOREM LastIndexAgrees == Spec => []LastIndexMatchesWindow
<1>1. Inv => LastIndexMatchesWindow
  BY InvLastIndex DEF Inv
<1> QED
  BY <1>1, Invariance, PTL

\* The ring buffer implements the window of the most recent events: recording
\* appends one and forgets the oldest once the ring is full.
THEOREM RingIsAccessLog == Spec => ImplementsAccessLog
<1> DEFINE W == get_recent_page_accesses(ObserverCapacity)
<1>1. Init => W = <<>>
  <2> SUFFICES ASSUME Init PROVE W = <<>>
    OBVIOUS
  <2>1. TypeOK /\ size = 0
    BY InitInv DEF Inv, Init
  <2>2. W = [i \in 1 .. size |-> ring[Forth(i)]]
    BY <2>1, TypeGivesWindow DEF WindowIsRing
  <2> QED
    BY <2>1, <2>2
<1>2. Inv /\ Inv' /\ [Next]_vars => [Log!Next]_W
  <2> SUFFICES ASSUME Inv, Inv', [Next]_vars PROVE Log!Next \/ W' = W
    OBVIOUS
  <2>1. ASSUME NEW p \in ObservedPages, NEW hit \in BOOLEAN, record_page_access(p, hit)
        PROVE  Log!Next
    <3> DEFINE e == [page_id |-> p, is_hit |-> hit]
    <3>1. W' = Record(W, e)
      BY <2>1, RecordExtends DEF Inv
    <3>2. e \in Events
      BY DEF Events
    <3>3. Log!Record(W, e) = Record(W, e)
      BY DEF Log!Record, Record
    <3> HIDE DEF e
    <3> QED
      BY <3>1, <3>2, <3>3 DEF Log!Next
  <2>2. CASE \E p \in ObservedPages : record_record_access(p)
    BY <2>1, <2>2 DEF record_record_access
  <2>3. CASE UNCHANGED vars
    BY <2>3 DEF vars, get_recent_page_accesses, Oldest
  <2> QED
    BY <2>1, <2>2, <2>3 DEF Next
<1> QED
  BY <1>1, <1>2, Invariance, PTL DEF Spec, ImplementsAccessLog, Log!Spec, Log!Init
=============================================================================
