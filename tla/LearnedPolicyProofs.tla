------------------------ MODULE LearnedPolicyProofs ------------------------
(***************************************************************************)
(* The label of the learned eviction policy, for every ring capacity and   *)
(* every feedback horizon: what the ring still shows of the accesses since *)
(* the eviction is related to the history of those accesses.               *)
(***************************************************************************)
EXTENDS LearnedPolicy, AccessObserverProofs

\* The page of the i-th newest event.
PageBack(i) == ring[Back(i)].page_id

\* The newest min(age, size) events are the accesses since the eviction: until
\* the ring has been filled by them, the page was reused exactly when one of
\* them is on it; and while it was not reused none of them is.
ReachesBack ==
    last_evicted # NoPage =>
        /\ age <= ObserverCapacity => age <= size
        /\ age > ObserverCapacity => size = ObserverCapacity
        /\ reused /\ age <= ObserverCapacity =>
              \E i \in 0 .. size - 1 : i < age /\ PageBack(i) = last_evicted
        /\ ~ reused => \A i \in 0 .. size - 1 : i < age => PageBack(i) # last_evicted

\* An eviction about to be judged is pending and old enough.
JudgePending == step = "judge" => last_evicted # NoPage /\ HorizonPassed

PolicyTypeOK == age \in 0 .. MaxAge /\ reused \in BOOLEAN

LearnedInv == Inv /\ PolicyTypeOK /\ ReachesBack /\ JudgePending /\ LabelHonest

\* The cap on ages lies beyond the ring and the horizon.
LEMMA MaxAgeFacts == MaxAge \in Nat /\ MaxAge > ObserverCapacity /\ MaxAge >= FeedbackHorizon
  BY ObserverCapacityAssumption, FeedbackHorizonAssumption DEF MaxAge

\* Where the events are, counted back from the newest.
LEMMA BackFacts ==
    ASSUME TypeOK, NEW i \in 0 .. ObserverCapacity - 1
    PROVE  /\ Back(i) = IF head >= i + 1 THEN head - 1 - i ELSE head + ObserverCapacity - 1 - i
           /\ Back(i) \in Slots
<1>1. ObserverCapacity \in Nat \ {0} /\ head \in 0 .. ObserverCapacity - 1
  BY ObserverCapacityAssumption DEF TypeOK, Slots
<1> DEFINE a == head + ObserverCapacity - 1 - i
<1>2. a \in Nat /\ a < 2 * ObserverCapacity /\ Back(i) = a % ObserverCapacity
  BY <1>1 DEF Back
<1> HIDE DEF a
<1>3. Back(i) = IF a < ObserverCapacity THEN a ELSE a - ObserverCapacity
  BY <1>2, Wraps
<1> QED
  BY <1>1, <1>3 DEF a, Slots

\* The same as one formula, of a state and so of the next.
BackIsBack ==
    \A i \in 0 .. ObserverCapacity - 1 :
        /\ Back(i) = IF head >= i + 1 THEN head - 1 - i ELSE head + ObserverCapacity - 1 - i
        /\ Back(i) \in Slots

\* It holds in every state of the right type.
LEMMA TypeGivesBack == TypeOK => BackIsBack
  BY BackFacts DEF BackIsBack

\* And in the next one.
LEMMA TypeGivesBackNext == TypeOK' => BackIsBack'
  BY TypeGivesBack, PTL

\* Recording an event moves every other one a position back.
LEMMA RecordMovesBack ==
    ASSUME TypeOK, TypeOK', NEW p \in ObservedPages, NEW hit \in BOOLEAN,
           record_page_access(p, hit)
    PROVE  /\ PageBack(0)' = p
           /\ \A i \in 0 .. ObserverCapacity - 2 : PageBack(i + 1)' = PageBack(i)
<1> DEFINE N == ObserverCapacity
           e == [page_id |-> p, is_hit |-> hit]
<1>1. N \in Nat \ {0} /\ head \in 0 .. N - 1 /\ ring \in [0 .. N - 1 -> Events \cup {NoEvent}]
  BY ObserverCapacityAssumption DEF TypeOK, Slots
<1>2. ring' = [ring EXCEPT ![head] = e] /\ head' = NextHead
  BY DEF record_page_access
<1>3. head' = IF head + 1 < N THEN head + 1 ELSE 0
  <2>1. head + 1 \in Nat /\ head + 1 < 2 * N
    BY <1>1
  <2>2. NextHead = IF head + 1 < N THEN head + 1 ELSE (head + 1) - N
    BY <2>1, Wraps DEF NextHead
  <2> QED
    BY <1>1, <1>2, <2>2
<1>4. BackIsBack /\ BackIsBack'
  BY TypeGivesBack, TypeGivesBackNext
<1>5. \A i \in 0 .. N - 1 :
         Back(i)' = IF head' >= i + 1 THEN head' - 1 - i ELSE head' + N - 1 - i
  BY <1>4 DEF BackIsBack
<1>6. \A i \in 0 .. N - 1 :
         /\ Back(i) = IF head >= i + 1 THEN head - 1 - i ELSE head + N - 1 - i
         /\ Back(i) \in 0 .. N - 1
  BY <1>4 DEF BackIsBack, Slots
<1>7. \A j \in 0 .. N - 1 : ring'[j].page_id = IF j = head THEN p ELSE ring[j].page_id
  BY <1>1, <1>2
<1>8. PageBack(0)' = p
  <2>1. 0 \in 0 .. N - 1
    BY <1>1
  <2>2. Back(0)' = IF head' >= 1 THEN head' - 1 ELSE head' + N - 1
    BY <1>1, <1>3, <1>5, <2>1
  <2>3. Back(0)' = head
    BY <1>1, <1>3, <2>2
  <2> QED
    BY <1>1, <1>7, <2>3 DEF PageBack
<1>9. ASSUME NEW i \in 0 .. N - 2
      PROVE  PageBack(i + 1)' = PageBack(i)
  <2>1. i \in 0 .. N - 1 /\ i + 1 \in 0 .. N - 1
    BY <1>1
  <2>2. Back(i + 1)' = IF head' >= (i + 1) + 1 THEN head' - 1 - (i + 1) ELSE head' + N - 1 - (i + 1)
    BY <1>5, <2>1
  <2>3. /\ Back(i) = IF head >= i + 1 THEN head - 1 - i ELSE head + N - 1 - i
        /\ Back(i) \in 0 .. N - 1
    BY <1>6, <2>1
  <2>4. Back(i + 1)' = Back(i) /\ Back(i) # head
    BY <1>1, <1>3, <2>1, <2>2, <2>3
  <2> QED
    BY <1>7, <2>3, <2>4 DEF PageBack
<1> QED
  BY <1>8, <1>9

\* The label is 1 exactly when the ring holds an event on the page.
LEMMA LabelFacts ==
    ASSUME TypeOK
    PROVE  Label = 1 <=> \E i \in 0 .. size - 1 : PageBack(i) = last_evicted
<1> DEFINE found == {i \in 0 .. size - 1 : ring[Back(i)].page_id = last_evicted}
           k == get_last_index_in_recent(last_evicted)
<1>1. size \in 0 .. ObserverCapacity /\ ObserverCapacity \in Nat \ {0}
  BY ObserverCapacityAssumption DEF TypeOK
<1>2. k = IF found = {} THEN ObserverCapacity ELSE CHOOSE i \in found : \A j \in found : i <= j
  BY DEF get_last_index_in_recent
<1>3. Label = IF k < ObserverCapacity THEN 1 ELSE 0
  BY DEF Label
<1> HIDE DEF k
<1>4. CASE found = {}
  BY <1>1, <1>2, <1>3, <1>4 DEF PageBack
<1>5. CASE found # {}
  <2>1. found \subseteq Nat
    BY <1>1
  <2>2. k \in found
    BY <1>2, <1>5, <2>1, SmallestOf
  <2> QED
    BY <1>1, <1>3, <2>2 DEF PageBack
<1> QED
  BY <1>4, <1>5

\* The positions of fewer events are positions of more.
LEMMA ShorterRing ==
    ASSUME NEW n \in Nat, NEW m \in 0 .. n
    PROVE  0 .. m - 1 \subseteq 0 .. n - 1
  OBVIOUS

\* What the observer's invariant and PageBack say does not change with it.
LEMMA ObserverUnchanged ==
    ASSUME UNCHANGED vars
    PROVE  (Inv => Inv') /\ size' = size /\ \A i : PageBack(i)' = PageBack(i)
  BY DEF vars, Inv, TypeOK, SlotsRecorded, CountsMatchRing, get_access_count, PageBack, Back

\* An access extends what is known of the accesses since the eviction.
LEMMA AccessReachesBack ==
    ASSUME LearnedInv, Inv', NEW p \in ObservedPages, NEW hit \in BOOLEAN,
           record_page_access(p, hit),
           age' = IF last_evicted # NoPage /\ age < MaxAge THEN age + 1 ELSE age,
           reused' = (reused \/ p = last_evicted), last_evicted' = last_evicted
    PROVE  ReachesBack'
<1> SUFFICES ASSUME last_evicted # NoPage
             PROVE  /\ age' <= ObserverCapacity => age' <= size'
                    /\ age' > ObserverCapacity => size' = ObserverCapacity
                    /\ reused' /\ age' <= ObserverCapacity =>
                          \E i \in 0 .. size' - 1 : i < age' /\ PageBack(i)' = last_evicted
                    /\ ~ reused' => \A i \in 0 .. size' - 1 : i < age' => PageBack(i)' # last_evicted
  BY DEF ReachesBack
<1> DEFINE N == ObserverCapacity
           B == [i \in 0 .. N - 1 |-> PageBack(i)]
           D == [i \in 0 .. N - 1 |-> PageBack(i)']
<1>1. /\ N \in Nat \ {0} /\ size \in 0 .. N /\ age \in 0 .. MaxAge /\ reused \in BOOLEAN
      /\ MaxAge \in Nat /\ MaxAge > N
  BY ObserverCapacityAssumption, MaxAgeFacts DEF LearnedInv, Inv, TypeOK, PolicyTypeOK
<1>2. /\ size' = IF size < N THEN size + 1 ELSE size
      /\ age' = IF age < MaxAge THEN age + 1 ELSE age
  BY DEF record_page_access
<1>3. /\ age <= N => age <= size
      /\ age > N => size = N
      /\ reused /\ age <= N => \E i \in 0 .. size - 1 : i < age /\ PageBack(i) = last_evicted
      /\ ~ reused => \A i \in 0 .. size - 1 : i < age => PageBack(i) # last_evicted
  BY DEF LearnedInv, ReachesBack
<1>4. PageBack(0)' = p /\ \A i \in 0 .. N - 2 : PageBack(i + 1)' = PageBack(i)
  BY RecordMovesBack DEF LearnedInv, Inv
<1>5. D[0] = p /\ \A i \in 0 .. N - 2 : D[i + 1] = B[i]
  <2>1. 0 \in 0 .. N - 1 /\ \A i \in 0 .. N - 2 : i \in 0 .. N - 1 /\ i + 1 \in 0 .. N - 1
    BY <1>1
  <2> QED
    BY <1>4, <2>1
<1>6. /\ reused /\ age <= N => \E i \in 0 .. size - 1 : i < age /\ B[i] = last_evicted
      /\ ~ reused => \A i \in 0 .. size - 1 : i < age => B[i] # last_evicted
  <2>1. \A i \in 0 .. size - 1 : B[i] = PageBack(i)
    BY <1>1
  <2> QED
    BY <1>3, <2>1
<1>7. size' \in 0 .. N /\ \A i \in 0 .. size' - 1 : D[i] = PageBack(i)'
  <2>1. size' \in 0 .. N
    BY <1>1, <1>2
  <2>2. 0 .. size' - 1 \subseteq 0 .. N - 1
    <3>1. N \in Nat
      BY <1>1
    <3> QED
      BY <2>1, <3>1, ShorterRing
  <2> QED
    BY <2>1, <2>2
<1> HIDE DEF B, D, N
<1>8. (age' <= N => age' <= size') /\ (age' > N => size' = N)
  BY <1>1, <1>2, <1>3
<1>9. ASSUME reused', age' <= N
      PROVE  \E i \in 0 .. size' - 1 : i < age' /\ D[i] = last_evicted
  <2>1. age' = age + 1 /\ age + 1 <= N
    BY <1>1, <1>2, <1>9
  <2>2. CASE p = last_evicted
    <3>1. 0 \in 0 .. size' - 1 /\ 0 < age'
      BY <1>1, <1>2, <2>1
    <3> QED
      BY <1>5, <2>2, <3>1
  <2>3. CASE reused
    <3>1. PICK i \in 0 .. size - 1 : i < age /\ B[i] = last_evicted
      BY <1>1, <1>6, <2>1, <2>3
    <3>2. i + 1 \in 0 .. size' - 1 /\ i + 1 < age' /\ i \in 0 .. N - 2
      BY <1>1, <1>2, <2>1, <3>1
    <3> QED
      BY <1>5, <3>1, <3>2
  <2> QED
    BY <1>9, <2>2, <2>3
<1>10. ASSUME ~ reused', NEW i \in 0 .. size' - 1, i < age'
       PROVE  D[i] # last_evicted
  <2>1. ~ reused /\ p # last_evicted
    BY <1>10
  <2>2. CASE i = 0
    BY <1>5, <2>1, <2>2
  <2>3. CASE i # 0
    <3>1. /\ i - 1 \in 0 .. size - 1 /\ i - 1 < age /\ i - 1 \in 0 .. N - 2 /\ (i - 1) + 1 = i
      BY <1>1, <1>2, <1>7, <1>10, <2>3
    <3> QED
      BY <1>5, <1>6, <2>1, <3>1
  <2> QED
    BY <2>2, <2>3
<1> QED
  BY <1>7, <1>8, <1>9, <1>10 DEF N

\* The policy starts without a pending eviction.
LEMMA LearnedInitInv == LearnedInit => LearnedInv
<1> SUFFICES ASSUME LearnedInit PROVE LearnedInv
  OBVIOUS
<1>1. Inv
  BY InitInv DEF LearnedInit
<1>2. PolicyTypeOK /\ ReachesBack /\ JudgePending
  <2>1. age = 0 /\ last_evicted = NoPage /\ step = "idle"
    BY DEF LearnedInit
  <2>2. reused \in BOOLEAN
    BY Zenon DEF LearnedInit
  <2>3. age \in 0 .. MaxAge
    BY <2>1, MaxAgeFacts
  <2> QED
    BY <2>1, <2>2, <2>3, Zenon DEF PolicyTypeOK, ReachesBack, JudgePending
<1>3. LabelHonest
  BY MaxAgeFacts DEF LearnedInit, LabelHonest, NoVerdict
<1> QED
  BY <1>1, <1>2, <1>3 DEF LearnedInv

\* An access by any user of the observer keeps the invariant, whatever step
\* choose_victim is at.
LEMMA AccessKeeps ==
    ASSUME LearnedInv, NEW p \in ObservedPages, access(p)
    PROVE  LearnedInv'
<1>1. PICK hit \in BOOLEAN : record_page_access(p, hit)
  BY DEF access, record_record_access
<1>2. Inv'
  BY <1>1, RecordInv DEF LearnedInv
<1>3. /\ age' = IF last_evicted # NoPage /\ age < MaxAge THEN age + 1 ELSE age
      /\ reused' = (reused \/ p = last_evicted)
      /\ last_evicted' = last_evicted /\ step' = step /\ verdict' = verdict
  BY DEF access
<1>4. ReachesBack'
  BY <1>1, <1>2, <1>3, AccessReachesBack
<1>5. age \in 0 .. MaxAge /\ MaxAge \in Nat /\ reused \in BOOLEAN
  BY MaxAgeFacts DEF LearnedInv, PolicyTypeOK
<1>6. PolicyTypeOK'
  <2>1. age' \in 0 .. MaxAge
    BY <1>3, <1>5
  <2>2. reused' \in BOOLEAN
    BY <1>3, Zenon
  <2> QED
    BY <2>1, <2>2 DEF PolicyTypeOK, MaxAge
<1>7. JudgePending'
  BY <1>3, <1>5, FeedbackHorizonAssumption DEF LearnedInv, JudgePending, HorizonPassed
<1>8. LabelHonest'
  BY <1>3 DEF LearnedInv, LabelHonest
<1> QED
  BY <1>2, <1>4, <1>6, <1>7, <1>8 DEF LearnedInv

\* Judging the pending eviction gives an honest label.
LEMMA JudgeKeeps ==
    ASSUME LearnedInv, judge
    PROVE  LearnedInv'
<1>1. /\ verdict' = [label |-> Label, reused |-> reused, age |-> age]
      /\ last_evicted' = NoPage /\ age' = 0 /\ reused' = FALSE /\ step' = "choose"
      /\ UNCHANGED vars /\ step = "judge"
  BY DEF judge
<1>2. Inv'
  BY <1>1, ObserverUnchanged DEF LearnedInv
<1>3. PolicyTypeOK' /\ ReachesBack' /\ JudgePending'
  <2>1. reused' \in BOOLEAN
    BY <1>1, Zenon
  <2>2. age' \in 0 .. MaxAge
    BY <1>1, MaxAgeFacts
  <2>3. last_evicted' = NoPage /\ step' = "choose"
    BY <1>1
  <2>4. PolicyTypeOK'
    BY <2>1, <2>2 DEF PolicyTypeOK, MaxAge
  <2> QED
    BY <2>3, <2>4 DEF ReachesBack, JudgePending
<1>4. /\ last_evicted # NoPage /\ age >= FeedbackHorizon
      /\ ObserverCapacity \in Nat \ {0} /\ size \in 0 .. ObserverCapacity /\ age \in Nat
  BY <1>1, ObserverCapacityAssumption, MaxAgeFacts
  DEF LearnedInv, JudgePending, HorizonPassed, Inv, TypeOK, PolicyTypeOK
<1>5. /\ reused /\ age <= ObserverCapacity =>
            \E i \in 0 .. size - 1 : i < age /\ PageBack(i) = last_evicted
      /\ ~ reused => \A i \in 0 .. size - 1 : i < age => PageBack(i) # last_evicted
  BY <1>4 DEF LearnedInv, ReachesBack
<1>6. Label = 1 <=> \E i \in 0 .. size - 1 : PageBack(i) = last_evicted
  BY LabelFacts DEF LearnedInv, Inv
<1>7. age >= ObserverCapacity /\ Label = 1 => reused
  <2> SUFFICES ASSUME age >= ObserverCapacity, Label = 1, ~ reused PROVE FALSE
    BY Zenon DEF LearnedInv, PolicyTypeOK
  <2>1. PICK i \in 0 .. size - 1 : PageBack(i) = last_evicted
    BY <1>6
  <2>2. i < age
    BY <1>4
  <2> QED
    BY <1>5, <2>1, <2>2
<1>8. age <= ObserverCapacity /\ reused => Label = 1
  BY <1>5, <1>6
<1>9. /\ verdict'.label = Label /\ verdict'.age = age /\ (verdict'.reused <=> reused)
  BY <1>1
<1>10. LabelHonest'
  BY <1>4, <1>7, <1>8, <1>9 DEF LabelHonest
<1> QED
  BY <1>2, <1>3, <1>10 DEF LearnedInv

\* So does every step of the policy and of the observer's users.
LEMMA LearnedStepInv == LearnedInv /\ [LearnedNext]_<<vars, policy_vars>> => LearnedInv'
<1> SUFFICES ASSUME LearnedInv, [LearnedNext]_<<vars, policy_vars>> PROVE LearnedInv'
  OBVIOUS
<1>1. CASE \E p \in ObservedPages : access(p)
  BY <1>1, AccessKeeps
<1>2. CASE judge
  BY <1>2, JudgeKeeps
<1>3. CASE check_horizon
  <2>1. UNCHANGED <<last_evicted, age, reused, verdict>> /\ UNCHANGED vars
    BY <1>3 DEF check_horizon
  <2>2. Inv' /\ size' = size /\ \A i : PageBack(i)' = PageBack(i)
    BY <2>1, ObserverUnchanged DEF LearnedInv
  <2>3. ReachesBack' /\ PolicyTypeOK' /\ LabelHonest'
    BY <2>1, <2>2 DEF LearnedInv, ReachesBack, PolicyTypeOK, LabelHonest, MaxAge
  <2>4. JudgePending'
    BY <1>3, <2>1 DEF check_horizon, JudgePending, HorizonPassed
  <2> QED
    BY <2>2, <2>3, <2>4 DEF LearnedInv
<1>4. CASE \E p \in ObservedPages : evict(p)
  <2>1. /\ age' = 0 /\ reused' = FALSE /\ step' = "idle" /\ verdict' = NoVerdict /\ UNCHANGED vars
    BY <1>4 DEF evict
  <2>2. Inv' /\ size' = size
    BY <2>1, ObserverUnchanged DEF LearnedInv
  <2>3. ReachesBack'
    <3>1. size' \in Nat /\ ObserverCapacity \in Nat
      BY <2>2, ObserverCapacityAssumption DEF LearnedInv, Inv, TypeOK
    <3>2. ~ reused' /\ age' = 0
      BY <2>1
    <3>3. \A i \in 0 .. size' - 1 : ~ (i < age')
      BY <3>1, <3>2
    <3>4. ~ (age' > ObserverCapacity) /\ age' <= size'
      BY <3>1, <3>2
    <3> QED
      BY <3>2, <3>3, <3>4 DEF ReachesBack
  <2>4. PolicyTypeOK' /\ JudgePending'
    <3>1. reused' \in BOOLEAN
      BY <2>1, Zenon
    <3>2. age' \in 0 .. MaxAge
      BY <2>1, MaxAgeFacts
    <3>3. step' = "idle"
      BY <2>1
    <3>4. PolicyTypeOK'
      BY <3>1, <3>2 DEF PolicyTypeOK, MaxAge
    <3> QED
      BY <3>3, <3>4 DEF JudgePending
  <2>5. LabelHonest'
    BY <2>1, MaxAgeFacts DEF LabelHonest, NoVerdict, MaxAge
  <2> QED
    BY <2>2, <2>3, <2>4, <2>5 DEF LearnedInv
<1>5. CASE UNCHANGED <<vars, policy_vars>>
  <2>1. UNCHANGED vars /\ UNCHANGED policy_vars
    BY <1>5
  <2>2. Inv' /\ size' = size /\ \A i : PageBack(i)' = PageBack(i)
    BY <2>1, ObserverUnchanged DEF LearnedInv
  <2> QED
    BY <2>1, <2>2 DEF policy_vars, LearnedInv, ReachesBack, PolicyTypeOK, JudgePending,
                      HorizonPassed, LabelHonest, MaxAge
<1> QED
  BY <1>1, <1>2, <1>3, <1>4, <1>5 DEF LearnedNext
-----------------------------------------------------------------------------
\* The policy's steps leave the observer alone, so everything proved of the
\* observer holds while the policy runs.
THEOREM PolicyRunsObserver == LearnedSpec => Spec
<1>1. LearnedInit => Init
  BY DEF LearnedInit
<1>2. [LearnedNext]_<<vars, policy_vars>> => [Next]_vars
  <2> SUFFICES ASSUME [LearnedNext]_<<vars, policy_vars>> PROVE Next \/ UNCHANGED vars
    OBVIOUS
  <2>1. CASE \E p \in ObservedPages : access(p)
    BY <2>1 DEF access, Next
  <2>2. CASE ~ \E p \in ObservedPages : access(p)
    BY <2>2 DEF LearnedNext, check_horizon, judge, evict
  <2> QED
    BY <2>1, <2>2
<1> QED
  BY <1>1, <1>2, PTL DEF LearnedSpec, Spec

\* For every horizon and every ring capacity, and whatever other threads record
\* between the policy's steps: no eviction is judged before the horizon, a label
\* 1 given after a ring's worth of accesses means the page was accessed again,
\* and an access the ring still reaches back to is never overlooked.
THEOREM LabelsAreHonest == LearnedSpec => []LabelHonest
<1>1. LearnedInv => LabelHonest
  BY DEF LearnedInv
<1> QED
  BY <1>1, LearnedInitInv, LearnedStepInv, PTL DEF LearnedSpec
=============================================================================
