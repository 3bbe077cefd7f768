-------------------------- MODULE PageCacheProofs --------------------------
(***************************************************************************)
(* For every number of pages and frames, every finite set of handles and   *)
(* every policy: pins are exact, no live handle loses its frame, frames    *)
(* and the recency list stay consistent, no torn page is evicted, and the  *)
(* buffer pool implements PageStore.                                       *)
(***************************************************************************)
EXTENDS PageCache, FiniteSetTheorems, TLAPS

-----------------------------------------------------------------------------
\* Lists without repetition.

Distinct(s) == \A i, j \in DOMAIN s : s[i] = s[j] => i = j

Holds(s, q) == \E j \in DOMAIN s : s[j] = q

\* What erasing the element at position i does to the others.
LEMMA RemoveAtFacts ==
    ASSUME NEW S, NEW s \in Seq(S), NEW i \in DOMAIN s
    PROVE  /\ RemoveAt(s, i) \in Seq(S)
           /\ Len(RemoveAt(s, i)) = Len(s) - 1
           /\ \A j \in 1 .. Len(s) - 1 : RemoveAt(s, i)[j] = IF j < i THEN s[j] ELSE s[j + 1]
  <1> DEFINE a == SubSeq(s, 1, i - 1)
             b == SubSeq(s, i + 1, Len(s))
  <1>1. /\ a \in Seq(S) /\ Len(a) = i - 1
        /\ \A j \in 1 .. i - 1 : a[j] = s[j]
    OBVIOUS
  <1>2. /\ b \in Seq(S) /\ Len(b) = Len(s) - i
        /\ \A j \in 1 .. Len(s) - i : b[j] = s[i + j]
    OBVIOUS
  <1> HIDE DEF a, b
  <1>3. a \o b \in Seq(S) /\ Len(a \o b) = Len(s) - 1
    BY <1>1, <1>2
  <1>4. ASSUME NEW j \in 1 .. Len(s) - 1
        PROVE  (a \o b)[j] = IF j < i THEN s[j] ELSE s[j + 1]
    <2>0. j < i \/ j >= i
      OBVIOUS
    <2>1. CASE j < i
      BY <1>1, <1>2, <2>1
    <2>2. CASE j >= i
      <3>1. j - (i - 1) \in 1 .. Len(s) - i /\ i + (j - (i - 1)) = j + 1
        BY <2>2
      <3>2. (a \o b)[j] = b[j - (i - 1)]
        BY <1>1, <1>2, <2>2
      <3> QED
        BY <1>2, <2>2, <3>1, <3>2
    <2> QED
      BY <2>0, <2>1, <2>2
  <1> QED
    BY <1>3, <1>4 DEF RemoveAt, a, b

\* Erasing an element and putting one in front, as touch_page and an eviction
\* followed by push_front do.
LEMMA FrontOfRest ==
    ASSUME NEW S, NEW s \in Seq(S), NEW i \in DOMAIN s, NEW p \in S,
           Distinct(s), \A j \in DOMAIN s : s[j] = p => j = i
    PROVE  LET t == <<p>> \o RemoveAt(s, i)
           IN  /\ t \in Seq(S)
               /\ Distinct(t)
               /\ \A q \in S : Holds(t, q) <=> q = p \/ (q # s[i] /\ Holds(s, q))
  <1> DEFINE r == RemoveAt(s, i)
             t == <<p>> \o r
  <1>1. /\ r \in Seq(S) /\ Len(r) = Len(s) - 1
        /\ \A j \in 1 .. Len(s) - 1 : r[j] = IF j < i THEN s[j] ELSE s[j + 1]
    BY RemoveAtFacts
  <1> HIDE DEF r
  <1>2. /\ t \in Seq(S) /\ Len(t) = Len(s) /\ t[1] = p
        /\ \A j \in 2 .. Len(s) : t[j] = r[j - 1]
    BY <1>1
  <1> HIDE DEF t
  <1>3. \A j \in 2 .. Len(s) : t[j] = IF j <= i THEN s[j - 1] ELSE s[j]
    BY <1>1, <1>2
  <1>4. /\ DOMAIN t = 1 .. Len(s) /\ DOMAIN s = 1 .. Len(s) /\ Len(s) \in Nat
        /\ i \in 1 .. Len(s)
    BY <1>2
  <1> DEFINE Old(j) == IF j = 1 THEN i ELSE IF j <= i THEN j - 1 ELSE j
  <1>a. \A j \in 1 .. Len(s) : Old(j) \in 1 .. Len(s)
    BY <1>4
  <1>b. \A j, k \in 1 .. Len(s) : Old(j) = Old(k) => j = k
    BY <1>4
  <1>c. \A j \in 1 .. Len(s) : j # 1 => t[j] = s[Old(j)] /\ Old(j) # i
    BY <1>3, <1>4
  <1> HIDE DEF Old
  <1>5. ASSUME NEW j \in 1 .. Len(s), NEW k \in 1 .. Len(s), t[j] = t[k]
        PROVE  j = k
    <2>1. CASE j = 1 \/ k = 1
      BY <1>2, <1>4, <1>5, <1>a, <1>c, <2>1
    <2>2. CASE j # 1 /\ k # 1
      BY <1>4, <1>5, <1>a, <1>b, <1>c, <2>2 DEF Distinct
    <2> QED
      BY <2>1, <2>2
  <1>6. ASSUME NEW q \in S, NEW j \in 1 .. Len(s), t[j] = q
        PROVE  q = p \/ (q # s[i] /\ \E k \in 1 .. Len(s) : s[k] = q)
    <2>1. CASE j = 1
      BY <1>2, <1>6, <2>1
    <2>2. CASE j # 1
      BY <1>4, <1>6, <1>a, <1>c, <2>2 DEF Distinct
    <2> QED
      BY <2>1, <2>2
  <1>7. ASSUME NEW q \in S, q # s[i], Holds(s, q)
        PROVE  Holds(t, q)
    <2>1. PICK j \in 1 .. Len(s) : s[j] = q /\ j # i
      BY <1>4, <1>7 DEF Holds
    <2>2. CASE j < i
      <3>1. j + 1 \in 2 .. Len(s) /\ j + 1 <= i /\ (j + 1) - 1 = j
        BY <1>4, <2>1, <2>2
      <3>2. t[j + 1] = s[j]
        BY <1>3, <3>1
      <3> QED
        BY <1>4, <2>1, <3>1, <3>2 DEF Holds
    <2>3. CASE j > i
      <3>1. j \in 2 .. Len(s)
        BY <1>4, <2>1, <2>3
      <3> QED
        BY <1>3, <1>4, <2>1, <2>3, <3>1 DEF Holds
    <2> QED
      BY <1>4, <2>1, <2>2, <2>3
  <1>8. Holds(t, p)
    BY <1>2, <1>4 DEF Holds
  <1>9. Distinct(t)
    BY <1>4, <1>5 DEF Distinct
  <1>10. \A q \in S : Holds(t, q) => q = p \/ (q # s[i] /\ Holds(s, q))
    BY <1>4, <1>6 DEF Holds
  <1> QED
    BY <1>2, <1>7, <1>8, <1>9, <1>10 DEF t, r

\* push_front of a new element.
LEMMA FrontOfList ==
    ASSUME NEW S, NEW s \in Seq(S), NEW p \in S, Distinct(s), ~Holds(s, p)
    PROVE  LET t == <<p>> \o s
           IN  /\ t \in Seq(S)
               /\ Distinct(t)
               /\ \A q \in S : Holds(t, q) <=> q = p \/ Holds(s, q)
  <1> DEFINE t == <<p>> \o s
  <1>1. /\ t \in Seq(S) /\ Len(t) = Len(s) + 1 /\ t[1] = p
        /\ \A j \in 2 .. Len(s) + 1 : t[j] = s[j - 1]
        /\ DOMAIN t = 1 .. Len(s) + 1 /\ DOMAIN s = 1 .. Len(s) /\ Len(s) \in Nat
    OBVIOUS
  <1> HIDE DEF t
  <1>a. \A j \in 2 .. Len(s) + 1 : j - 1 \in 1 .. Len(s)
    BY <1>1
  <1>b. \A j \in 2 .. Len(s) + 1 : t[j] # p
    BY <1>1, <1>a DEF Holds
  <1>c. ASSUME NEW j \in 2 .. Len(s) + 1, NEW k \in 2 .. Len(s) + 1, t[j] = t[k]
        PROVE  j = k
    <2>1. j - 1 \in DOMAIN s /\ k - 1 \in DOMAIN s /\ s[j - 1] = s[k - 1]
      BY <1>1, <1>a, <1>c
    <2>2. j - 1 = k - 1
      BY <2>1 DEF Distinct
    <2> QED
      BY <2>2
  <1>2. Distinct(t)
    BY <1>1, <1>b, <1>c DEF Distinct
  <1>3. \A q \in S : Holds(t, q) => q = p \/ Holds(s, q)
    BY <1>1, <1>a DEF Holds
  <1>4. Holds(t, p)
    BY <1>1 DEF Holds
  <1>5. ASSUME NEW q \in S, NEW j \in 1 .. Len(s), s[j] = q
        PROVE  Holds(t, q)
    <2>1. j + 1 \in 2 .. Len(s) + 1 /\ (j + 1) - 1 = j
      BY <1>1
    <2>2. t[j + 1] = q
      BY <1>1, <1>5, <2>1
    <2> QED
      BY <1>1, <2>1, <2>2 DEF Holds
  <1>6. \A q \in S : Holds(s, q) => Holds(t, q)
    BY <1>1, <1>5 DEF Holds
  <1> QED
    BY <1>1, <1>2, <1>3, <1>4, <1>6 DEF t
-----------------------------------------------------------------------------
\* The inductive invariant.

\* A holder that stores into a page has a live handle, and no two holders
\* store into one page.
WritersApart ==
    /\ \A h \in writing : handle[h] # NoPage
    /\ \A g, h \in writing : handle[g] = handle[h] => g = h

Inv ==
    /\ TypeOK
    /\ HandleSafe
    /\ PinCountExact
    /\ FramePartition
    /\ LruListExact
    /\ NoTornPage
    /\ WritersApart

\* The markers for "none" are neither pages nor frames.
LEMMA Markers == NoFrame \notin Frames /\ NoPage \notin Pages /\ Pages \subseteq Nat
  BY PageCacheAssumption DEF NoFrame, NoPage, Frames, Pages

\* The observer's window stays a sequence of pages.
LEMMA RecordType ==
    ASSUME NEW w \in Seq(Pages), NEW p \in Pages
    PROVE  Record(w, p) \in Seq(Pages)
  BY ObserverCapacityAssumption DEF Record

\* The recency list as a set.
LEMMA ListIsCached ==
    ASSUME lru_list \in Seq(Pages)
    PROVE  LruListExact <=> /\ Distinct(lru_list)
                            /\ \A p \in Pages : Holds(lru_list, p) <=> Cached(p)
  BY DEF LruListExact, Distinct, Holds

\* The same of the next state.
LEMMA ListIsCachedNext ==
    ASSUME lru_list' \in Seq(Pages), Distinct(lru_list'),
           \A p \in Pages : Holds(lru_list', p) <=> page_map'[p] # NoFrame
    PROVE  LruListExact'
  BY DEF LruListExact, Distinct, Holds, Cached

\* Handles are finite in number, so pages can count theirs.
LEMMA HandlesOnFinite ==
    ASSUME NEW p
    PROVE  IsFiniteSet(HandlesOn(p)) /\ Cardinality(HandlesOn(p)) \in Nat
  BY HandlesFinite, FS_Subset, FS_CardinalityType DEF HandlesOn

\* A fresh pool satisfies the invariant.
LEMMA InitInv == Init => Inv
  <1> SUFFICES ASSUME Init PROVE Inv
    OBVIOUS
  <1>1. TypeOK
    <2>1. free_frames \in Seq(Frames)
      BY PageCacheAssumption DEF Init, Frames
    <2>2. /\ disk \in [Pages -> Contents] /\ pool \in [Frames -> Contents]
          /\ pin_counts \in [Frames -> Nat] /\ page_map \in [Pages -> Frames \cup {NoFrame}]
      BY DEF Init, Contents
    <2>3. /\ lru_list \in Seq(Pages) /\ window \in Seq(Pages)
          /\ handle \in [Handles -> Pages \cup {NoPage}]
          /\ frame \in [Handles -> Frames \cup {NoFrame}]
          /\ writing \in SUBSET Handles /\ policy \in Policies
      BY DEF Init
    <2> QED
      BY <2>1, <2>2, <2>3 DEF TypeOK
  <1>2. \A p \in Pages : ~Cached(p)
    BY DEF Init, Cached
  <1>3. HandleSafe /\ PinCountExact /\ WritersApart
    BY <1>2 DEF Init, HandleSafe, PinCountExact, WritersApart
  <1>4. LruListExact
    BY <1>2 DEF Init, LruListExact
  <1>5. NoTornPage
    BY <1>2, PageCacheAssumption DEF Init, NoTornPage
  <1>6. FramePartition
    <2>1. DOMAIN free_frames = 1 .. Capacity /\ \A i \in 1 .. Capacity : free_frames[i] = i - 1
      BY PageCacheAssumption DEF Init
    <2>2. FramesDisjoint
      BY <1>2, <2>1, PageCacheAssumption DEF FramesDisjoint, Init, Cached, NoFrame
    <2>3. ASSUME NEW f \in Frames
          PROVE  \E i \in DOMAIN free_frames : free_frames[i] = f
      <3>1. f + 1 \in 1 .. Capacity /\ (f + 1) - 1 = f
        BY PageCacheAssumption DEF Frames
      <3> QED
        BY <2>1, <3>1
    <2> QED
      BY <2>2, <2>3 DEF FramePartition
  <1> QED
    BY <1>1, <1>3, <1>4, <1>5, <1>6 DEF Inv
-----------------------------------------------------------------------------
\* fetch_page, one lemma per outcome.

\* A hit pins the frame once more for the one handle more.
LEMMA FetchHitInv ==
    ASSUME Inv, NEW h \in Handles, NEW p \in Pages, fetch_hit(h, p)
    PROVE  Inv'
  <1>1. TypeOK /\ Cached(p) /\ handle[h] = NoPage
    BY DEF Inv, fetch_hit
  <1> DEFINE f == page_map[p]
  <1>2. f \in Frames
    BY <1>1 DEF TypeOK, Cached
  <1>3. PICK i \in DOMAIN lru_list : lru_list[i] = p /\ lru_list' = <<p>> \o RemoveAt(lru_list, i)
    BY DEF fetch_hit, touch_page
  <1>4. /\ Distinct(lru_list)
        /\ \A q \in Pages : Holds(lru_list, q) <=> Cached(q)
    BY <1>1, ListIsCached DEF Inv, TypeOK
  <1>5. \A j \in DOMAIN lru_list : lru_list[j] = p => j = i
    BY <1>3, <1>4 DEF Distinct
  <1>6. /\ lru_list' \in Seq(Pages)
        /\ Distinct(lru_list')
        /\ \A q \in Pages : Holds(lru_list', q) <=> q = p \/ (q # p /\ Holds(lru_list, q))
    BY <1>1, <1>3, <1>4, <1>5, FrontOfRest DEF TypeOK
  <1>7. LruListExact'
    <2>1. \A q \in Pages : Holds(lru_list', q) <=> page_map'[q] # NoFrame
      BY <1>1, <1>4, <1>6 DEF fetch_hit, Cached
    <2> QED
      BY <1>6, <2>1, ListIsCachedNext
  <1>8. /\ handle' = [handle EXCEPT ![h] = p] /\ frame' = [frame EXCEPT ![h] = f]
        /\ pin_counts' = [pin_counts EXCEPT ![f] = @ + 1]
        /\ disk' = disk /\ pool' = pool /\ page_map' = page_map /\ free_frames' = free_frames
        /\ writing' = writing /\ policy' = policy /\ window' = Record(window, p)
    BY DEF fetch_hit, NewHandle
  <1> HIDE DEF f
  <1>9. TypeOK'
    <2>1. window' \in Seq(Pages)
      BY <1>1, <1>8, RecordType DEF TypeOK
    <2> QED
      BY <1>1, <1>2, <1>6, <1>8, <2>1 DEF TypeOK
  <1>10. HandleSafe'
    BY <1>1, <1>8 DEF Inv, HandleSafe, TypeOK, Cached, f
  <1>11. PinCountExact'
    <2> SUFFICES ASSUME NEW q \in Pages, Cached(q)
                 PROVE  pin_counts'[page_map[q]] = Cardinality(HandlesOn(q)')
      BY <1>8 DEF PinCountExact, Cached
    <2>1. page_map[q] \in Frames /\ pin_counts[page_map[q]] = Cardinality(HandlesOn(q))
      BY <1>1 DEF Inv, TypeOK, Cached, PinCountExact
    <2>2. CASE q = p
      <3>1. HandlesOn(q)' = HandlesOn(q) \cup {h} /\ h \notin HandlesOn(q)
        BY <1>1, <1>8, <2>2, Markers DEF HandlesOn, TypeOK
      <3>2. Cardinality(HandlesOn(q) \cup {h}) = Cardinality(HandlesOn(q)) + 1
        BY <3>1, FS_AddElement, HandlesOnFinite
      <3>3. pin_counts'[page_map[q]] = pin_counts[page_map[q]] + 1
        BY <1>1, <1>8, <2>1, <2>2 DEF f, TypeOK
      <3> QED
        BY <2>1, <3>1, <3>2, <3>3
    <2>3. CASE q # p
      <3>1. HandlesOn(q)' = HandlesOn(q)
        BY <1>1, <1>8, <2>3, Markers DEF HandlesOn, TypeOK
      <3>2. page_map[q] # f
        BY <2>3 DEF f, Inv, FramePartition, FramesDisjoint, Cached
      <3>3. pin_counts'[page_map[q]] = pin_counts[page_map[q]]
        BY <1>1, <1>8, <2>1, <3>2 DEF TypeOK
      <3> QED
        BY <2>1, <3>1, <3>3
    <2> QED
      BY <2>2, <2>3
  <1>12. FramePartition'
    BY <1>8 DEF Inv, FramePartition, FramesDisjoint, Cached
  <1>13. h \notin writing
    BY <1>1 DEF Inv, WritersApart
  <1>14. NoTornPage' /\ WritersApart'
    BY <1>1, <1>8, <1>13 DEF Inv, NoTornPage, WritersApart, Cached, TypeOK
  <1> QED
    BY <1>7, <1>9, <1>10, <1>11, <1>12, <1>14 DEF Inv

\* A page that is not cached has no handle and is whole in the file.
LEMMA UncachedPage ==
    ASSUME Inv, NEW p \in Pages, ~Cached(p)
    PROVE  HandlesOn(p) = {} /\ disk[p] # Torn
  <1>1. \A h \in Handles : handle[h] # p
    BY Markers DEF Inv, HandleSafe
  <1>2. disk[p] # Torn
    BY DEF Inv, NoTornPage
  <1> QED
    BY <1>1, <1>2 DEF HandlesOn

\* The new handle is the only one on a page that was not cached, and the
\* other pages keep theirs.
LEMMA FirstHandle ==
    ASSUME Inv, NEW h \in Handles, NEW p \in Pages, ~Cached(p), handle[h] = NoPage,
           handle' = [handle EXCEPT ![h] = p]
    PROVE  /\ HandlesOn(p)' = {h} /\ Cardinality(HandlesOn(p)') = 1
           /\ \A q \in Pages : q # p => HandlesOn(q)' = HandlesOn(q)
  <1>1. handle \in [Handles -> Pages \cup {NoPage}]
    BY DEF Inv, TypeOK
  <1>2. HandlesOn(p)' = {h}
    BY <1>1, UncachedPage DEF HandlesOn
  <1>3. \A q \in Pages : q # p => HandlesOn(q)' = HandlesOn(q)
    BY <1>1, Markers DEF HandlesOn
  <1> QED
    BY <1>2, <1>3, FS_Singleton

\* A miss with a free frame takes that frame out of the free list.
LEMMA FetchFreeInv ==
    ASSUME Inv, NEW h \in Handles, NEW p \in Pages, fetch_free(h, p)
    PROVE  Inv'
  <1>1. TypeOK /\ ~Cached(p) /\ handle[h] = NoPage /\ free_frames # <<>>
    BY DEF Inv, fetch_free
  <1> DEFINE f == Head(free_frames)
  <1>2. /\ handle' = [handle EXCEPT ![h] = p] /\ frame' = [frame EXCEPT ![h] = f]
        /\ pin_counts' = [pin_counts EXCEPT ![f] = 1]
        /\ pool' = [pool EXCEPT ![f] = disk[p]] /\ page_map' = [page_map EXCEPT ![p] = f]
        /\ lru_list' = <<p>> \o lru_list /\ free_frames' = Tail(free_frames)
        /\ disk' = disk /\ writing' = writing /\ policy' = policy
        /\ window' = Record(window, p)
    BY DEF fetch_free, NewHandle
  <1>3. /\ f \in Frames /\ f = free_frames[1] /\ 1 \in DOMAIN free_frames
        /\ Tail(free_frames) \in Seq(Frames)
    BY <1>1 DEF TypeOK
  <1> HIDE DEF f
  <1>4. \A q \in Pages : page_map[q] # f
    BY <1>3 DEF Inv, FramePartition, FramesDisjoint
  <1>5. /\ Distinct(lru_list)
        /\ \A q \in Pages : Holds(lru_list, q) <=> Cached(q)
    BY <1>1, ListIsCached DEF Inv, TypeOK
  <1>6. /\ lru_list' \in Seq(Pages)
        /\ Distinct(lru_list')
        /\ \A q \in Pages : Holds(lru_list', q) <=> q = p \/ Holds(lru_list, q)
    BY <1>1, <1>2, <1>5, FrontOfList DEF TypeOK
  <1>7. \A q \in Pages : page_map'[q] = IF q = p THEN f ELSE page_map[q]
    BY <1>1, <1>2 DEF TypeOK
  <1>8. LruListExact'
    <2>1. \A q \in Pages : Holds(lru_list', q) <=> page_map'[q] # NoFrame
      BY <1>3, <1>5, <1>6, <1>7, Markers DEF Cached
    <2> QED
      BY <1>6, <2>1, ListIsCachedNext
  <1>9. TypeOK'
    <2>1. window' \in Seq(Pages)
      BY <1>1, <1>2, RecordType DEF TypeOK
    <2> QED
      BY <1>1, <1>2, <1>3, <1>6, <2>1 DEF TypeOK
  <1>10. HandleSafe'
    BY <1>1, <1>2, <1>3, <1>7, Markers DEF Inv, HandleSafe, TypeOK, Cached
  <1>11. PinCountExact'
    <2> SUFFICES ASSUME NEW q \in Pages, Cached(q)'
                 PROVE  pin_counts'[page_map'[q]] = Cardinality(HandlesOn(q)')
      BY DEF PinCountExact
    <2>1. CASE q = p
      BY <1>1, <1>2, <1>3, <1>7, <2>1, FirstHandle DEF TypeOK
    <2>2. CASE q # p
      <3>1. Cached(q) /\ page_map'[q] = page_map[q] /\ page_map[q] \in Frames /\ page_map[q] # f
        BY <1>1, <1>4, <1>7, <2>2 DEF Cached, TypeOK
      <3>2. pin_counts'[page_map'[q]] = pin_counts[page_map[q]]
        BY <1>1, <1>2, <3>1 DEF TypeOK
      <3>3. HandlesOn(q)' = HandlesOn(q)
        BY <1>1, <1>2, <2>2, FirstHandle
      <3>4. pin_counts[page_map[q]] = Cardinality(HandlesOn(q))
        BY <3>1 DEF Inv, PinCountExact
      <3> QED
        BY <3>2, <3>3, <3>4
    <2> QED
      BY <2>1, <2>2
  <1>12. FramePartition'
    <2> DEFINE t == Tail(free_frames)
    <2>1. /\ Len(free_frames) \in Nat /\ DOMAIN free_frames = 1 .. Len(free_frames)
          /\ DOMAIN t = 1 .. Len(free_frames) - 1
          /\ \A i \in DOMAIN t : i + 1 \in DOMAIN free_frames /\ t[i] = free_frames[i + 1]
      BY <1>1 DEF TypeOK
    <2> HIDE DEF t
    <2>2. \A i, j \in DOMAIN free_frames : free_frames[i] = free_frames[j] => i = j
      BY DEF Inv, FramePartition, FramesDisjoint
    <2>3. \A i, j \in DOMAIN t : t[i] = t[j] => i = j
      <3>1. \A i, j \in DOMAIN t : t[i] = t[j] => i + 1 = j + 1
        BY <2>1, <2>2
      <3> QED
        BY <2>1, <3>1
    <2>4. \A i \in DOMAIN t : t[i] # f
      <3>1. \A i \in DOMAIN t : i + 1 # 1
        BY <2>1
      <3> QED
        BY <1>3, <2>1, <2>2, <3>1
    <2>5. \A q \in Pages, i \in DOMAIN t : page_map'[q] # t[i]
      BY <1>7, <2>1, <2>4 DEF Inv, FramePartition, FramesDisjoint
    <2>6. \A q, r \in Pages : Cached(q)' /\ page_map'[q] = page_map'[r] => q = r
      BY <1>4, <1>7 DEF Cached, Inv, FramePartition, FramesDisjoint
    <2>7. FramesDisjoint'
      BY <1>2, <2>3, <2>5, <2>6 DEF FramesDisjoint, t
    <2>8. ASSUME NEW g \in Frames
          PROVE  (\E i \in DOMAIN t : t[i] = g) \/ (\E q \in Pages : page_map'[q] = g)
      <3>1. CASE \E i \in DOMAIN free_frames : free_frames[i] = g
        <4>1. PICK i \in DOMAIN free_frames : free_frames[i] = g
          BY <3>1
        <4>2. CASE i = 1
          BY <1>3, <1>7, <4>1, <4>2
        <4>3. CASE i # 1
          <5>1. i - 1 \in DOMAIN t /\ (i - 1) + 1 = i
            BY <2>1, <4>3
          <5> QED
            BY <2>1, <4>1, <5>1
        <4> QED
          BY <4>2, <4>3
      <3>2. CASE \E q \in Pages : page_map[q] = g
        BY <1>1, <1>7, <3>2, Markers DEF Cached
      <3> QED
        BY <3>1, <3>2 DEF Inv, FramePartition
    <2> QED
      BY <1>2, <2>7, <2>8 DEF FramePartition, t
  <1>13. NoTornPage'
    <2> SUFFICES ASSUME NEW q \in Pages
                 PROVE  /\ disk'[q] = Torn => Cached(q)'
                        /\ Cached(q)' /\ pool'[page_map'[q]] = Torn =>
                              \E g \in writing' : handle'[g] = q
      BY DEF NoTornPage
    <2>1. CASE q = p
      BY <1>1, <1>2, <1>3, <1>7, <2>1, UncachedPage, Markers DEF TypeOK, Cached
    <2>2. CASE q # p
      <3>1. page_map'[q] = page_map[q] /\ page_map[q] # f /\ (Cached(q)' <=> Cached(q))
        BY <1>4, <1>7, <2>2 DEF Cached
      <3>2. Cached(q) => pool'[page_map'[q]] = pool[page_map[q]]
        BY <1>1, <1>2, <3>1 DEF TypeOK, Cached
      <3>3. h \notin writing
        BY <1>1 DEF Inv, WritersApart
      <3> QED
        BY <1>1, <1>2, <3>1, <3>2, <3>3 DEF Inv, NoTornPage, TypeOK
    <2> QED
      BY <2>1, <2>2
  <1>14. WritersApart'
    BY <1>1, <1>2 DEF Inv, WritersApart, TypeOK
  <1> QED
    BY <1>8, <1>9, <1>10, <1>11, <1>12, <1>13, <1>14 DEF Inv

\* A page that evict may choose has no handle and is whole in the pool.
LEMMA UnpinnedPage ==
    ASSUME Inv, NEW i \in Unpinned
    PROVE  /\ i \in DOMAIN lru_list /\ lru_list[i] \in Pages /\ Cached(lru_list[i])
           /\ page_map[lru_list[i]] \in Frames
           /\ HandlesOn(lru_list[i]) = {} /\ pool[page_map[lru_list[i]]] # Torn
  <1> DEFINE v == lru_list[i]
  <1>1. i \in DOMAIN lru_list /\ v \in Pages /\ Cached(v) /\ pin_counts[page_map[v]] = 0
    BY DEF Inv, TypeOK, LruListExact, Unpinned
  <1> HIDE DEF v
  <1>2. page_map[v] \in Frames
    BY <1>1 DEF Inv, TypeOK, Cached
  <1>3. HandlesOn(v) = {}
    BY <1>1, FS_EmptySet, HandlesOnFinite DEF Inv, PinCountExact
  <1>4. pool[page_map[v]] # Torn
    BY <1>1, <1>3 DEF Inv, NoTornPage, HandlesOn, TypeOK
  <1> QED
    BY <1>1, <1>2, <1>3, <1>4 DEF v

\* A miss with an eviction: the victim is written back whole and its frame
\* goes to the new page, whichever unpinned page the policy chose.
LEMMA FetchEvictInv ==
    ASSUME Inv, NEW h \in Handles, NEW p \in Pages, NEW hint, fetch_evict(h, p, hint)
    PROVE  Inv'
  <1>1. TypeOK /\ ~Cached(p) /\ handle[h] = NoPage
    BY DEF Inv, fetch_evict
  <1>2. PICK i \in Unpinned : evict_into(h, p, i)
    BY DEF fetch_evict
  <1> DEFINE v == lru_list[i]
             f == page_map[v]
  <1>3. /\ i \in DOMAIN lru_list /\ v \in Pages /\ Cached(v) /\ f \in Frames
        /\ HandlesOn(v) = {} /\ pool[f] # Torn
    BY UnpinnedPage
  <1>4. /\ disk' = [disk EXCEPT ![v] = pool[f]] /\ pool' = [pool EXCEPT ![f] = disk[p]]
        /\ page_map' = [page_map EXCEPT ![v] = NoFrame, ![p] = f]
        /\ lru_list' = <<p>> \o RemoveAt(lru_list, i)
        /\ pin_counts' = [pin_counts EXCEPT ![f] = 1]
        /\ handle' = [handle EXCEPT ![h] = p] /\ frame' = [frame EXCEPT ![h] = f]
    BY <1>2 DEF evict_into, WriteBack, Remap, NewHandle
  <1>5. /\ window' = Record(window, p) /\ free_frames' = free_frames
        /\ writing' = writing /\ policy' = policy
    BY DEF fetch_evict
  <1> HIDE DEF f
  <1>6. v # p
    BY <1>1, <1>3
  <1>7. /\ Distinct(lru_list)
        /\ \A q \in Pages : Holds(lru_list, q) <=> Cached(q)
    BY <1>1, ListIsCached DEF Inv, TypeOK
  <1>8. \A j \in DOMAIN lru_list : lru_list[j] # p
    BY <1>1, <1>7 DEF Holds
  <1>9. /\ lru_list' \in Seq(Pages)
        /\ Distinct(lru_list')
        /\ \A q \in Pages : Holds(lru_list', q) <=> q = p \/ (q # v /\ Holds(lru_list, q))
    BY <1>1, <1>3, <1>4, <1>7, <1>8, FrontOfRest DEF TypeOK
  <1> HIDE DEF v
  <1>10. \A q \in Pages :
            page_map'[q] = IF q = p THEN f ELSE IF q = v THEN NoFrame ELSE page_map[q]
    BY <1>1, <1>3, <1>4, <1>6 DEF TypeOK
  <1>11. \A q \in Pages : q # v => page_map[q] # f
    BY <1>3 DEF f, Inv, FramePartition, FramesDisjoint, Cached
  <1>12. LruListExact'
    <2>1. \A q \in Pages : Holds(lru_list', q) <=> page_map'[q] # NoFrame
      BY <1>3, <1>7, <1>9, <1>10, Markers DEF Cached
    <2> QED
      BY <1>9, <2>1, ListIsCachedNext
  <1>13. TypeOK'
    <2>1. window' \in Seq(Pages)
      BY <1>1, <1>5, RecordType DEF TypeOK
    <2>2. page_map' \in [Pages -> Frames \cup {NoFrame}]
      BY <1>1, <1>3, <1>4 DEF TypeOK
    <2>3. disk' \in [Pages -> Contents] /\ pool' \in [Frames -> Contents]
      BY <1>1, <1>3, <1>4 DEF TypeOK
    <2> QED
      BY <1>1, <1>3, <1>4, <1>5, <1>9, <2>1, <2>2, <2>3 DEF TypeOK
  <1>14. HandleSafe'
    <2> SUFFICES ASSUME NEW g \in Handles, handle'[g] # NoPage
                 PROVE  Cached(handle[g])' /\ page_map'[handle'[g]] = frame'[g]
      BY DEF HandleSafe, Cached
    <2>1. CASE g = h
      BY <1>1, <1>3, <1>4, <1>10, <2>1, Markers DEF TypeOK, Cached
    <2>2. CASE g # h
      <3>1. /\ handle'[g] = handle[g] /\ frame'[g] = frame[g] /\ handle[g] \in Pages
        BY <1>1, <1>4, <2>2 DEF TypeOK
      <3>2. Cached(handle[g]) /\ page_map[handle[g]] = frame[g]
        BY <3>1, Markers DEF Inv, HandleSafe
      <3>3. handle[g] # p /\ handle[g] # v
        BY <1>1, <1>3, <3>2 DEF HandlesOn
      <3> QED
        BY <1>10, <3>1, <3>2, <3>3 DEF Cached
    <2> QED
      BY <2>1, <2>2
  <1>15. PinCountExact'
    <2> SUFFICES ASSUME NEW q \in Pages, Cached(q)'
                 PROVE  pin_counts'[page_map'[q]] = Cardinality(HandlesOn(q)')
      BY DEF PinCountExact
    <2>1. CASE q = p
      BY <1>1, <1>3, <1>4, <1>10, <2>1, FirstHandle DEF TypeOK
    <2>2. CASE q # p
      <3>1. q # v /\ Cached(q) /\ page_map'[q] = page_map[q] /\ page_map[q] \in Frames
        BY <1>1, <1>10, <2>2 DEF Cached, TypeOK
      <3>2. pin_counts'[page_map'[q]] = pin_counts[page_map[q]]
        BY <1>1, <1>4, <1>11, <3>1 DEF TypeOK
      <3>3. HandlesOn(q)' = HandlesOn(q)
        BY <1>1, <1>4, <2>2, FirstHandle
      <3>4. pin_counts[page_map[q]] = Cardinality(HandlesOn(q))
        BY <3>1 DEF Inv, PinCountExact
      <3> QED
        BY <3>2, <3>3, <3>4
    <2> QED
      BY <2>1, <2>2
  <1>16. FramePartition'
    <2>1. \A q, r \in Pages : Cached(q)' /\ page_map'[q] = page_map'[r] => q = r
      BY <1>3, <1>10, <1>11, Markers DEF Cached, Inv, FramePartition, FramesDisjoint
    <2>2. \A q \in Pages, j \in DOMAIN free_frames : page_map'[q] # free_frames[j]
      <3>1. \A j \in DOMAIN free_frames : free_frames[j] \in Frames /\ free_frames[j] # f
        BY <1>1, <1>3 DEF f, TypeOK, Inv, FramePartition, FramesDisjoint
      <3> QED
        BY <1>10, <3>1, Markers DEF Inv, FramePartition, FramesDisjoint
    <2>3. FramesDisjoint'
      BY <1>5, <2>1, <2>2 DEF Inv, FramePartition, FramesDisjoint
    <2>4. \A g \in Frames : (\E q \in Pages : page_map[q] = g) => \E q \in Pages : page_map'[q] = g
      BY <1>1, <1>10, Markers DEF f, Cached
    <2> QED
      BY <1>5, <2>3, <2>4 DEF Inv, FramePartition
  <1>17. h \notin writing
    BY <1>1 DEF Inv, WritersApart
  <1>18. NoTornPage'
    <2> SUFFICES ASSUME NEW q \in Pages
                 PROVE  /\ disk'[q] = Torn => Cached(q)'
                        /\ Cached(q)' /\ pool'[page_map'[q]] = Torn =>
                              \E g \in writing' : handle'[g] = q
      BY DEF NoTornPage
    <2>1. CASE q = p
      BY <1>1, <1>3, <1>4, <1>10, <2>1, UncachedPage, Markers DEF TypeOK, Cached
    <2>2. CASE q = v
      BY <1>1, <1>3, <1>4, <1>6, <1>10, <2>2 DEF TypeOK, Cached
    <2>3. CASE q # p /\ q # v
      <3>1. page_map'[q] = page_map[q] /\ page_map[q] # f /\ (Cached(q)' <=> Cached(q))
            /\ disk'[q] = disk[q]
        BY <1>1, <1>4, <1>10, <1>11, <2>3 DEF Cached, TypeOK
      <3>2. Cached(q) => pool'[page_map'[q]] = pool[page_map[q]]
        BY <1>1, <1>4, <3>1 DEF TypeOK, Cached
      <3> QED
        BY <1>1, <1>4, <1>5, <1>17, <3>1, <3>2 DEF Inv, NoTornPage, TypeOK
    <2> QED
      BY <2>1, <2>2, <2>3
  <1>19. WritersApart'
    BY <1>1, <1>4, <1>5, <1>17 DEF Inv, WritersApart, TypeOK
  <1> QED
    BY <1>12, <1>13, <1>14, <1>15, <1>16, <1>18, <1>19 DEF Inv

\* A fetch that throws leaves the pool as it was.
LEMMA FetchThrowInv ==
    ASSUME Inv, NEW p \in Pages, fetch_throw(p)
    PROVE  Inv'
  <1>1. window' \in Seq(Pages)
    BY RecordType DEF Inv, TypeOK, fetch_throw
  <1>2. UNCHANGED <<disk, pool, pin_counts, page_map, lru_list, free_frames,
                    handle, frame, writing, policy>>
    BY DEF fetch_throw
  <1>3. TypeOK'
    BY <1>1, <1>2 DEF Inv, TypeOK
  <1> QED
    BY <1>2, <1>3 DEF Inv, HandleSafe, PinCountExact, HandlesOn, FramePartition,
                      FramesDisjoint, LruListExact, NoTornPage, WritersApart, Cached
-----------------------------------------------------------------------------
\* Handles going away and moving.

\* What giving a pin back does to the counts.
LEMMA UnpinFacts ==
    ASSUME Inv, NEW h \in Handles, handle[h] # NoPage
    PROVE  /\ handle[h] \in Pages /\ Cached(handle[h]) /\ page_map[handle[h]] \in Frames
           /\ Cardinality(HandlesOn(handle[h])) > 0
           /\ Unpin(handle[h]) =
                 [pin_counts EXCEPT ![page_map[handle[h]]] = Cardinality(HandlesOn(handle[h])) - 1]
  <1> DEFINE p == handle[h]
  <1>1. p \in Pages /\ Cached(p) /\ page_map[p] \in Frames
    BY DEF Inv, TypeOK, HandleSafe, Cached
  <1>2. pin_counts[page_map[p]] = Cardinality(HandlesOn(p))
    BY <1>1 DEF Inv, PinCountExact
  <1>3. h \in HandlesOn(p)
    BY DEF HandlesOn
  <1> HIDE DEF p
  <1>4. Cardinality(HandlesOn(p)) > 0
    <2>1. HandlesOn(p) # {}
      BY <1>3
    <2>2. IsFiniteSet(HandlesOn(p)) /\ Cardinality(HandlesOn(p)) \in Nat
      BY HandlesOnFinite
    <2>3. Cardinality(HandlesOn(p)) # 0
      BY <2>1, <2>2, FS_EmptySet
    <2> QED
      BY <2>2, <2>3
  <1>5. Unpin(p) = [pin_counts EXCEPT ![page_map[p]] = Cardinality(HandlesOn(p)) - 1]
    BY <1>1, <1>2, <1>4 DEF Unpin, Inv, TypeOK
  <1> QED
    BY <1>1, <1>4, <1>5 DEF p

\* The destructor gives back the one pin of its handle.
LEMMA DropInv ==
    ASSUME Inv, NEW h \in Handles, drop(h)
    PROVE  Inv'
  <1> DEFINE p == handle[h]
  <1>1. /\ TypeOK /\ p # NoPage /\ h \notin writing
        /\ handle' = [handle EXCEPT ![h] = NoPage] /\ frame' = [frame EXCEPT ![h] = NoFrame]
        /\ UNCHANGED <<disk, pool, page_map, lru_list, free_frames, writing, window, policy>>
    BY DEF Inv, drop
  <1>2. /\ p \in Pages /\ Cached(p) /\ page_map[p] \in Frames
        /\ Cardinality(HandlesOn(p)) > 0
        /\ pin_counts' = [pin_counts EXCEPT ![page_map[p]] = Cardinality(HandlesOn(p)) - 1]
    BY <1>1, UnpinFacts DEF drop, ReleasePin
  <1>3. Cardinality(HandlesOn(p)) - 1 \in Nat
    BY <1>2, HandlesOnFinite
  <1>4. TypeOK'
    BY <1>1, <1>2, <1>3 DEF TypeOK
  <1>5. HandleSafe'
    BY <1>1 DEF Inv, HandleSafe, Cached, TypeOK
  <1>6. PinCountExact'
    <2> SUFFICES ASSUME NEW q \in Pages, Cached(q)
                 PROVE  pin_counts'[page_map[q]] = Cardinality(HandlesOn(q)')
      BY <1>1 DEF PinCountExact, Cached
    <2>1. page_map[q] \in Frames /\ pin_counts[page_map[q]] = Cardinality(HandlesOn(q))
      BY <1>1 DEF Inv, TypeOK, Cached, PinCountExact
    <2>2. CASE q = p
      <3>1. HandlesOn(q)' = HandlesOn(q) \ {h} /\ h \in HandlesOn(q)
        BY <1>1, <2>2 DEF HandlesOn, TypeOK
      <3>2. Cardinality(HandlesOn(q) \ {h}) = Cardinality(HandlesOn(q)) - 1
        BY <3>1, FS_RemoveElement, HandlesOnFinite
      <3>3. pin_counts'[page_map[q]] = Cardinality(HandlesOn(q)) - 1
        BY <1>1, <1>2, <2>2 DEF TypeOK
      <3> QED
        BY <3>1, <3>2, <3>3
    <2>3. CASE q # p
      <3>1. HandlesOn(q)' = HandlesOn(q)
        BY <1>1, <2>3, Markers DEF HandlesOn, TypeOK
      <3>2. page_map[q] # page_map[p]
        BY <2>3, <1>2 DEF Inv, FramePartition, FramesDisjoint, Cached
      <3>3. pin_counts'[page_map[q]] = pin_counts[page_map[q]]
        BY <1>1, <1>2, <2>1, <3>2 DEF TypeOK
      <3> QED
        BY <2>1, <3>1, <3>3
    <2> QED
      BY <2>2, <2>3
  <1>7. FramePartition' /\ LruListExact'
    BY <1>1 DEF Inv, FramePartition, FramesDisjoint, LruListExact, Cached
  <1>8. NoTornPage' /\ WritersApart'
    BY <1>1 DEF Inv, NoTornPage, WritersApart, Cached, TypeOK
  <1> QED
    BY <1>4, <1>5, <1>6, <1>7, <1>8 DEF Inv

\* A move takes the source's pin along and gives back the destination's.
LEMMA MoveInv ==
    ASSUME Inv, NEW dst \in Handles, NEW src \in Handles, move(dst, src)
    PROVE  Inv'
  <1> DEFINE d == handle[dst]
             s == handle[src]
             C(q) == Cardinality(HandlesOn(q))
  <1>1. /\ TypeOK /\ dst # src /\ dst \notin writing /\ src \notin writing
        /\ handle' = [handle EXCEPT ![dst] = s, ![src] = NoPage]
        /\ frame' = [frame EXCEPT ![dst] = frame[src], ![src] = NoFrame]
        /\ UNCHANGED <<disk, pool, page_map, lru_list, free_frames, writing, window, policy>>
    BY DEF Inv, move
  <1>2. pin_counts' = IF d # NoPage THEN Unpin(d) ELSE pin_counts
    BY DEF move, ReleasePin
  <1>3. d # NoPage =>
          /\ d \in Pages /\ Cached(d) /\ page_map[d] \in Frames /\ C(d) > 0
          /\ pin_counts' = [pin_counts EXCEPT ![page_map[d]] = C(d) - 1]
    BY <1>2, UnpinFacts
  <1>4. \A g \in Handles :
           /\ handle'[g] = IF g = src THEN NoPage ELSE IF g = dst THEN s ELSE handle[g]
           /\ frame'[g] = IF g = src THEN NoFrame ELSE IF g = dst THEN frame[src] ELSE frame[g]
    BY <1>1 DEF TypeOK
  <1>5. TypeOK'
    <2>1. pin_counts' \in [Frames -> Nat]
      <3>1. CASE d = NoPage
        BY <1>1, <1>2, <3>1 DEF TypeOK
      <3>2. CASE d # NoPage
        <4>1. C(d) - 1 \in Nat
          BY <1>3, <3>2, HandlesOnFinite
        <4> QED
          BY <1>1, <1>3, <3>2, <4>1 DEF TypeOK
      <3> QED
        BY <3>1, <3>2
    <2>2. /\ handle' \in [Handles -> Pages \cup {NoPage}]
          /\ frame' \in [Handles -> Frames \cup {NoFrame}]
      BY <1>1 DEF TypeOK
    <2> QED
      BY <1>1, <2>1, <2>2 DEF TypeOK
  <1>6. HandleSafe'
    <2> SUFFICES ASSUME NEW g \in Handles, handle'[g] # NoPage
                 PROVE  page_map[handle'[g]] # NoFrame /\ page_map[handle'[g]] = frame'[g]
      BY <1>1 DEF HandleSafe, Cached
    <2>1. CASE g = dst
      <3>1. handle'[g] = handle[src] /\ frame'[g] = frame[src]
        BY <1>1, <1>4, <2>1
      <3> QED
        BY <3>1 DEF Inv, HandleSafe, Cached
    <2>2. CASE g # dst
      BY <1>4, <2>2 DEF Inv, HandleSafe, Cached
    <2> QED
      BY <2>1, <2>2
  <1>7. PinCountExact'
    <2> SUFFICES ASSUME NEW q \in Pages, Cached(q)
                 PROVE  pin_counts'[page_map[q]] = Cardinality(HandlesOn(q)')
      BY <1>1 DEF PinCountExact, Cached
    <2>1. page_map[q] \in Frames /\ pin_counts[page_map[q]] = C(q)
      BY <1>1 DEF Inv, TypeOK, Cached, PinCountExact
    <2>2. pin_counts'[page_map[q]] = IF q = d THEN C(q) - 1 ELSE C(q)
      <3>1. CASE d = NoPage
        BY <1>2, <2>1, <3>1, Markers
      <3>2. CASE q = d
        <4>1. d # NoPage
          BY <3>2, Markers
        <4> QED
          BY <1>1, <1>3, <3>2, <4>1 DEF TypeOK
      <3>3. CASE d # NoPage /\ q # d
        <4>1. page_map[q] # page_map[d]
          BY <1>3, <3>3 DEF Inv, FramePartition, FramesDisjoint, Cached
        <4> QED
          BY <1>1, <1>3, <2>1, <3>3, <4>1 DEF TypeOK
      <3> QED
        BY <3>1, <3>2, <3>3
    <2>3. IsFiniteSet(HandlesOn(q)) /\ C(q) \in Nat
      BY HandlesOnFinite
    <2>4. /\ dst \in HandlesOn(q) <=> q = d
          /\ src \in HandlesOn(q) <=> q = s
      BY DEF HandlesOn
    <2>5. HandlesOn(q)' = {g \in Handles : IF g = src THEN FALSE
                                           ELSE IF g = dst THEN s = q ELSE handle[g] = q}
      BY <1>4, Markers DEF HandlesOn
    <2>6. CASE q = d /\ q = s
      <3>1. HandlesOn(q)' = HandlesOn(q) \ {src}
        BY <2>5, <2>6 DEF HandlesOn
      <3>2. Cardinality(HandlesOn(q) \ {src}) = C(q) - 1
        BY <2>3, <2>4, <2>6, FS_RemoveElement
      <3> QED
        BY <2>2, <2>6, <3>1, <3>2
    <2>7. CASE q = d /\ q # s
      <3>1. HandlesOn(q)' = HandlesOn(q) \ {dst}
        BY <1>1, <2>5, <2>7 DEF HandlesOn
      <3>2. Cardinality(HandlesOn(q) \ {dst}) = C(q) - 1
        BY <2>3, <2>4, <2>7, FS_RemoveElement
      <3> QED
        BY <2>2, <2>7, <3>1, <3>2
    <2>8. CASE q # d /\ q = s
      <3>1. HandlesOn(q)' = (HandlesOn(q) \ {src}) \cup {dst}
        BY <1>1, <2>5, <2>8 DEF HandlesOn
      <3>2. /\ IsFiniteSet(HandlesOn(q) \ {src})
            /\ Cardinality(HandlesOn(q) \ {src}) = C(q) - 1
        BY <2>3, <2>4, <2>8, FS_RemoveElement
      <3>3. dst \notin HandlesOn(q) \ {src}
        BY <2>4, <2>8
      <3>4. Cardinality((HandlesOn(q) \ {src}) \cup {dst}) = (C(q) - 1) + 1
        BY <3>2, <3>3, FS_AddElement
      <3> QED
        BY <2>2, <2>3, <2>8, <3>1, <3>4
    <2>9. CASE q # d /\ q # s
      <3>1. HandlesOn(q)' = HandlesOn(q)
        BY <1>1, <2>5, <2>9 DEF HandlesOn
      <3> QED
        BY <2>2, <2>9, <3>1
    <2> QED
      BY <2>6, <2>7, <2>8, <2>9
  <1>8. FramePartition' /\ LruListExact'
    BY <1>1 DEF Inv, FramePartition, FramesDisjoint, LruListExact, Cached
  <1>9. writing' = writing /\ \A g \in writing : handle'[g] = handle[g]
    BY <1>1, <1>4 DEF TypeOK
  <1>10. WritersApart'
    BY <1>9 DEF Inv, WritersApart
  <1>11. NoTornPage'
    BY <1>1, <1>9 DEF Inv, NoTornPage, Cached
  <1> QED
    BY <1>5, <1>6, <1>7, <1>8, <1>10, <1>11 DEF Inv
-----------------------------------------------------------------------------
\* Writes and flushes.

\* A store into a page changes the content of its own frame only.
LEMMA WriteInv ==
    ASSUME Inv, NEW h \in Handles, begin_write(h) \/ \E v \in Values : end_write(h, v)
    PROVE  Inv'
  <1>1. /\ TypeOK /\ handle[h] # NoPage
        /\ UNCHANGED <<disk, pin_counts, page_map, lru_list, free_frames, handle, frame,
                       window, policy>>
    BY DEF Inv, begin_write, end_write, WritersApart
  <1>2. /\ handle[h] \in Pages /\ Cached(handle[h]) /\ frame[h] \in Frames
        /\ page_map[handle[h]] = frame[h]
    <2>1. handle[h] \in Pages /\ Cached(handle[h]) /\ page_map[handle[h]] = frame[h]
      BY <1>1 DEF Inv, TypeOK, HandleSafe
    <2> QED
      BY <1>1, <2>1 DEF TypeOK, Cached
  <1>3. \A q \in Pages : Cached(q) /\ q # handle[h] => page_map[q] # frame[h]
    BY <1>2 DEF Inv, FramePartition, FramesDisjoint, Cached
  <1>4. \A q \in Pages : Cached(q) => page_map[q] \in Frames
    BY <1>1 DEF TypeOK, Cached
  <1>5. /\ HandleSafe' /\ PinCountExact' /\ FramePartition' /\ LruListExact'
    BY <1>1 DEF Inv, HandleSafe, PinCountExact, HandlesOn, FramePartition, FramesDisjoint,
                LruListExact, Cached
  <1>6. CASE begin_write(h)
    <2>1. /\ pool' = [pool EXCEPT ![frame[h]] = Torn] /\ writing' = writing \cup {h}
          /\ \A g \in writing : handle[g] # handle[h]
      BY <1>6 DEF begin_write
    <2>2. TypeOK'
      BY <1>1, <1>2, <2>1 DEF TypeOK, Contents
    <2>3. WritersApart'
      BY <1>1, <2>1 DEF Inv, WritersApart
    <2>4. NoTornPage'
      BY <1>1, <1>2, <1>3, <1>4, <2>1 DEF Inv, NoTornPage, TypeOK, Cached
    <2> QED
      BY <1>5, <2>2, <2>3, <2>4 DEF Inv
  <1>7. ASSUME NEW v \in Values, end_write(h, v)
        PROVE  Inv'
    <2>1. /\ pool' = [pool EXCEPT ![frame[h]] = v] /\ writing' = writing \ {h} /\ h \in writing
      BY <1>7 DEF end_write
    <2>2. TypeOK'
      BY <1>1, <1>2, <2>1 DEF TypeOK, Contents
    <2>3. WritersApart'
      BY <1>1, <2>1 DEF Inv, WritersApart
    <2>4. v # Torn
      BY PageCacheAssumption
    <2>5. NoTornPage'
      <3> SUFFICES ASSUME NEW q \in Pages, Cached(q), pool'[page_map[q]] = Torn
                   PROVE  \E g \in writing' : handle[g] = q
        BY <1>1 DEF Inv, NoTornPage, Cached
      <3>1. q # handle[h]
        BY <1>1, <1>2, <2>1, <2>4 DEF TypeOK
      <3>2. pool[page_map[q]] = Torn
        BY <1>1, <1>3, <1>4, <2>1, <3>1 DEF TypeOK
      <3> QED
        BY <2>1, <3>1, <3>2 DEF Inv, NoTornPage
    <2> QED
      BY <1>5, <2>2, <2>3, <2>5 DEF Inv
  <1> QED
    BY <1>6, <1>7

\* A flush writes to the file under pages that stay cached.
LEMMA FlushInv ==
    ASSUME Inv, flush_all \/ \E p \in Pages : flush_page(p)
    PROVE  Inv'
  <1>1. /\ TypeOK
        /\ UNCHANGED <<pool, pin_counts, page_map, lru_list, free_frames, handle, frame,
                       writing, window, policy>>
    BY DEF Inv, flush_all, flush_page
  <1>2. \A q \in Pages : Cached(q) => pool[page_map[q]] \in Contents
    BY <1>1 DEF TypeOK, Cached
  <1>3. disk' \in [Pages -> Contents] /\ \A q \in Pages : ~Cached(q) => disk'[q] = disk[q]
    <2>1. CASE flush_all
      BY <1>1, <1>2, <2>1 DEF flush_all, TypeOK
    <2>2. ASSUME NEW p \in Pages, flush_page(p)
          PROVE  disk' \in [Pages -> Contents] /\ \A q \in Pages : ~Cached(q) => disk'[q] = disk[q]
      BY <1>1, <1>2, <2>2 DEF flush_page, WriteBack, TypeOK
    <2> QED
      BY <2>1, <2>2
  <1>4. TypeOK'
    BY <1>1, <1>3 DEF TypeOK
  <1>5. NoTornPage'
    BY <1>1, <1>3 DEF Inv, NoTornPage, Cached
  <1> QED
    BY <1>1, <1>4, <1>5 DEF Inv, HandleSafe, PinCountExact, HandlesOn, FramePartition,
                            FramesDisjoint, LruListExact, WritersApart, Cached
-----------------------------------------------------------------------------
\* The theorems.

\* Every step of the buffer pool keeps the invariant, and it holds of a new
\* one (page_cache.cpp, all member functions, and page_handle.h).
THEOREM Invariance == Spec => []Inv
  <1>1. Inv /\ [Next]_vars => Inv'
    <2> SUFFICES ASSUME Inv, [Next]_vars PROVE Inv'
      OBVIOUS
    <2>1. CASE \E h \in Handles, p \in Pages : fetch_hit(h, p)
      BY <2>1, FetchHitInv
    <2>2. CASE \E h \in Handles, p \in Pages : fetch_free(h, p)
      BY <2>2, FetchFreeInv
    <2>3. CASE \E h \in Handles, p \in Pages, hint \in Hints : fetch_evict(h, p, hint)
      BY <2>3, FetchEvictInv
    <2>4. CASE \E p \in Pages : fetch_throw(p)
      BY <2>4, FetchThrowInv
    <2>5. CASE \E h \in Handles : drop(h)
      BY <2>5, DropInv
    <2>6. CASE \E h \in Handles, src \in Handles : move(h, src)
      BY <2>6, MoveInv
    <2>7. CASE \E h \in Handles : begin_write(h) \/ \E v \in Values : end_write(h, v)
      BY <2>7, WriteInv
    <2>8. CASE flush_all \/ \E p \in Pages : flush_page(p)
      BY <2>8, FlushInv
    <2>9. CASE UNCHANGED vars
      BY <2>9 DEF vars, Inv, TypeOK, HandleSafe, PinCountExact, HandlesOn, FramePartition,
                  FramesDisjoint, LruListExact, NoTornPage, WritersApart, Cached
    <2> QED
      BY <2>1, <2>2, <2>3, <2>4, <2>5, <2>6, <2>7, <2>8, <2>9 DEF Next
  <1> QED
    BY <1>1, InitInv, PTL DEF Spec

\* The pool's state keeps its types; a pin count never goes below zero
\* (pin_counts_, unpin_page).
THEOREM TypeCorrect == Spec => []TypeOK
  <1>1. Inv => TypeOK
    BY DEF Inv
  <1> QED
    BY <1>1, Invariance, PTL

\* No eviction takes the frame of a live handle (evict, PageHandle).
THEOREM HandlesKeepFrames == Spec => []HandleSafe
  <1>1. Inv => HandleSafe
    BY DEF Inv
  <1> QED
    BY <1>1, Invariance, PTL

\* Pins are never leaked or lost by fetches, moves and drops (pin_counts_,
\* PageHandle's moves and destructor).
THEOREM PinsExact == Spec => []PinCountExact
  <1>1. Inv => PinCountExact
    BY DEF Inv
  <1> QED
    BY <1>1, Invariance, PTL

\* Every frame is free once or holds one page (free_frames_, page_map_).
THEOREM FramesPartitioned == Spec => []FramePartition
  <1>1. Inv => FramePartition
    BY DEF Inv
  <1> QED
    BY <1>1, Invariance, PTL

\* lru_list_ holds each cached page once (touch_page, evict).
THEOREM LruListIsExact == Spec => []LruListExact
  <1>1. Inv => LruListExact
    BY DEF Inv
  <1> QED
    BY <1>1, Invariance, PTL

\* A torn page is cached and its write in progress (flush_page, flush_all and
\* evict against the callers' stores).
THEOREM TornPagesAreCached == Spec => []NoTornPage
  <1>1. Inv => NoTornPage
    BY DEF Inv
  <1> QED
    BY <1>1, Invariance, PTL
-----------------------------------------------------------------------------
\* The refinement.

\* A miss loads what the page held, and the eviction writes back what the
\* victim held: neither changes the content of any page.
LEMMA MissKeepsContents ==
    ASSUME Inv, NEW h \in Handles, NEW p \in Pages,
           fetch_free(h, p) \/ \E hint \in Hints : fetch_evict(h, p, hint)
    PROVE  Logical' = Logical
  <1>1. TypeOK /\ ~Cached(p)
    BY DEF Inv, fetch_free, fetch_evict
  <1>2. CASE fetch_free(h, p)
    <2> DEFINE f == Head(free_frames)
    <2>1. f \in Frames /\ f = free_frames[1] /\ 1 \in DOMAIN free_frames
      BY <1>1, <1>2 DEF fetch_free, TypeOK
    <2>2. /\ pool' = [pool EXCEPT ![f] = disk[p]] /\ page_map' = [page_map EXCEPT ![p] = f]
          /\ disk' = disk
      BY <1>2 DEF fetch_free
    <2>3. \A q \in Pages : page_map[q] # f
      BY <2>1 DEF Inv, FramePartition, FramesDisjoint
    <2> HIDE DEF f
    <2>4. ASSUME NEW q \in Pages
          PROVE  (IF Cached(q)' THEN pool'[page_map'[q]] ELSE disk'[q]) =
                 (IF Cached(q) THEN pool[page_map[q]] ELSE disk[q])
      <3>1. CASE q = p
        BY <1>1, <2>1, <2>2, <3>1, Markers DEF TypeOK, Cached
      <3>2. CASE q # p
        BY <1>1, <2>2, <2>3, <3>2 DEF TypeOK, Cached
      <3> QED
        BY <3>1, <3>2
    <2> QED
      BY <2>4 DEF Logical
  <1>3. ASSUME NEW hint \in Hints, fetch_evict(h, p, hint)
        PROVE  Logical' = Logical
    <2>1. PICK i \in Unpinned : evict_into(h, p, i)
      BY <1>3 DEF fetch_evict
    <2> DEFINE v == lru_list[i]
               f == page_map[v]
    <2>2. v \in Pages /\ Cached(v) /\ f \in Frames /\ v # p
      BY <1>1, UnpinnedPage
    <2>3. /\ disk' = [disk EXCEPT ![v] = pool[f]] /\ pool' = [pool EXCEPT ![f] = disk[p]]
          /\ page_map' = [page_map EXCEPT ![v] = NoFrame, ![p] = f]
      BY <2>1 DEF evict_into, WriteBack, Remap
    <2>4. \A q \in Pages : q # v => page_map[q] # f
      BY <2>2 DEF Inv, FramePartition, FramesDisjoint, Cached
    <2> HIDE DEF v
    <2>5. ASSUME NEW q \in Pages
          PROVE  (IF Cached(q)' THEN pool'[page_map'[q]] ELSE disk'[q]) =
                 (IF Cached(q) THEN pool[page_map[q]] ELSE disk[q])
      <3> HIDE DEF f
      <3>1. CASE q = p
        BY <1>1, <2>2, <2>3, <3>1, Markers DEF TypeOK, Cached
      <3>2. CASE q = v
        BY <1>1, <2>2, <2>3, <3>2 DEF TypeOK, Cached, f
      <3>3. CASE q # p /\ q # v
        BY <1>1, <2>2, <2>3, <2>4, <3>3 DEF TypeOK, Cached
      <3> QED
        BY <3>1, <3>2, <3>3
    <2> QED
      BY <2>5 DEF Logical
  <1> QED
    BY <1>2, <1>3

\* A flush copies what the page holds already.
LEMMA FlushKeepsContents ==
    ASSUME Inv, flush_all \/ \E p \in Pages : flush_page(p)
    PROVE  Logical' = Logical
  <1>1. TypeOK
    BY DEF Inv
  <1>2. pool' = pool /\ page_map' = page_map
    BY DEF flush_all, flush_page
  <1>3. \A q \in Pages : ~Cached(q) => disk'[q] = disk[q]
    <2>1. CASE flush_all
      BY <1>1, <2>1 DEF flush_all, TypeOK
    <2>2. ASSUME NEW p \in Pages, flush_page(p)
          PROVE  \A q \in Pages : ~Cached(q) => disk'[q] = disk[q]
      BY <1>1, <2>2 DEF flush_page, WriteBack, TypeOK
    <2> QED
      BY <2>1, <2>2
  <1> QED
    BY <1>2, <1>3 DEF Logical, Cached

\* A store through a handle changes what its page holds and nothing else.
LEMMA StoreChangesOne ==
    ASSUME Inv, NEW h \in Handles, handle[h] # NoPage, NEW c,
           pool' = [pool EXCEPT ![frame[h]] = c], page_map' = page_map, disk' = disk
    PROVE  Logical' = [Logical EXCEPT ![handle[h]] = c]
  <1>1. TypeOK
    BY DEF Inv
  <1>2. handle[h] \in Pages /\ Cached(handle[h]) /\ page_map[handle[h]] = frame[h]
    BY <1>1 DEF Inv, TypeOK, HandleSafe
  <1>3. \A q \in Pages : Cached(q) => page_map[q] \in Frames
    BY <1>1 DEF TypeOK, Cached
  <1>4. \A q \in Pages : Cached(q) /\ q # handle[h] => page_map[q] # frame[h]
    BY <1>2 DEF Inv, FramePartition, FramesDisjoint, Cached
  <1>5. ASSUME NEW q \in Pages
        PROVE  (IF Cached(q)' THEN pool'[page_map'[q]] ELSE disk'[q]) =
               IF q = handle[h] THEN c
               ELSE IF Cached(q) THEN pool[page_map[q]] ELSE disk[q]
    BY <1>1, <1>2, <1>3, <1>4 DEF TypeOK, Cached
  <1> QED
    BY <1>2, <1>5 DEF Logical

\* Each step of the pool is a step of the page memory or changes nothing of
\* it.
LEMMA StoreStep ==
    ASSUME Inv, [Next]_vars
    PROVE  [Store!Next]_(Store!vars)
  <1>1. ASSUME NEW h \in Handles, NEW p \in Pages, fetch_hit(h, p)
        PROVE  Store!Acquire(h, p)
    <2>1. Logical' = Logical
      BY <1>1 DEF fetch_hit, Logical, Cached
    <2> QED
      BY <1>1, <2>1 DEF fetch_hit, NewHandle, Store!Acquire, Store!NoPage, NoPage
  <1>2. ASSUME NEW h \in Handles, NEW p \in Pages,
               fetch_free(h, p) \/ \E hint \in Hints : fetch_evict(h, p, hint)
        PROVE  Store!Acquire(h, p)
    <2>1. Logical' = Logical
      BY <1>2, MissKeepsContents
    <2>2. /\ handle[h] = NoPage /\ handle' = [handle EXCEPT ![h] = p] /\ writing' = writing
      BY <1>2 DEF fetch_free, fetch_evict, evict_into, NewHandle
    <2> QED
      BY <2>1, <2>2 DEF Store!Acquire, Store!NoPage, NoPage
  <1>3. ASSUME NEW h \in Handles, drop(h)
        PROVE  Store!Drop(h)
    <2>1. Logical' = Logical
      BY <1>3 DEF drop, Logical, Cached
    <2> QED
      BY <1>3, <2>1 DEF drop, Store!Drop, Store!NoPage, NoPage
  <1>4. ASSUME NEW h \in Handles, NEW src \in Handles, move(h, src)
        PROVE  Store!Move(h, src)
    <2>1. Logical' = Logical
      BY <1>4 DEF move, Logical, Cached
    <2> QED
      BY <1>4, <2>1 DEF move, Store!Move, Store!NoPage, NoPage
  <1>5. ASSUME NEW h \in Handles, begin_write(h)
        PROVE  Store!BeginWrite(h)
    <2>1. Logical' = [Logical EXCEPT ![handle[h]] = Torn]
      BY <1>5, StoreChangesOne DEF begin_write
    <2> QED
      BY <1>5, <2>1 DEF begin_write, Store!BeginWrite, Store!NoPage, NoPage
  <1>6. ASSUME NEW h \in Handles, NEW v \in Values, end_write(h, v)
        PROVE  Store!EndWrite(h, v)
    <2>1. handle[h] # NoPage
      BY <1>6 DEF Inv, WritersApart, end_write
    <2>2. Logical' = [Logical EXCEPT ![handle[h]] = v]
      BY <1>6, <2>1, StoreChangesOne DEF end_write
    <2> QED
      BY <1>6, <2>2 DEF end_write, Store!EndWrite
  <1>7. ASSUME flush_all \/ \E p \in Pages : flush_page(p)
        PROVE  UNCHANGED <<Logical, handle, writing>>
    BY <1>7, FlushKeepsContents DEF flush_all, flush_page
  <1>8. ASSUME (\E p \in Pages : fetch_throw(p)) \/ UNCHANGED vars
        PROVE  UNCHANGED <<Logical, handle, writing>>
    BY <1>8 DEF fetch_throw, vars, Logical, Cached
  <1> QED
    BY <1>1, <1>2, <1>3, <1>4, <1>5, <1>6, <1>7, <1>8 DEF Next, Store!Next, Store!vars

\* The buffer pool implements the page memory: whatever is hit, missed,
\* evicted, flushed, moved or refused, a page holds what was last written to
\* it (get_page_internal, evict, flush_page, flush_all, PageHandle).
THEOREM PoolIsPageStore == Spec => ImplementsPageStore
  <1>1. Init => Store!Init
    BY DEF Init, Store!Init, Logical, Cached, Store!NoPage, NoPage
  <1>2. Inv /\ [Next]_vars => [Store!Next]_(Store!vars)
    BY StoreStep
  <1> QED
    BY <1>1, <1>2, Invariance, PTL DEF Spec, ImplementsPageStore, Store!Spec
=============================================================================
