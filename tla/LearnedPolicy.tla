--------------------------- MODULE LearnedPolicy ---------------------------
(***************************************************************************)
(* LearnedPageEvictionPolicy of cache/eviction_policy.cpp: choose_victim   *)
(* first judges the previous eviction, once FeedbackHorizon accesses have  *)
(* been recorded since, and then evicts.  It calls the observer several    *)
(* times and holds no lock of the observer between the calls, so accesses  *)
(* of the observer's other users fall between its steps.  Weights and      *)
(* features are doubles: any candidate may be the victim.                  *)
(***************************************************************************)
EXTENDS AccessObserver, Integers

CONSTANT FeedbackHorizon   \* feedback_horizon_, 64 by default

ASSUME FeedbackHorizonAssumption == FeedbackHorizon \in Nat

VARIABLES
    last_evicted,   \* last_evicted_page_id_, NoPage when it has no value
    age,            \* accesses recorded since last_eviction_total_ was read
    step,           \* where choose_victim is
    reused,         \* history: last_evicted has been accessed since
    verdict         \* history: the label given in this call and what it was for

policy_vars == <<last_evicted, age, step, reused, verdict>>

NoPage == -1

\* Ages beyond MaxAge need not be told apart: no comparison of the policy and
\* no property looks further back than the horizon or the ring.
MaxAge == IF FeedbackHorizon > ObserverCapacity THEN FeedbackHorizon
                                                ELSE ObserverCapacity + 1

NoVerdict == [label |-> 0, reused |-> FALSE, age |-> MaxAge]

LearnedInit ==
    /\ Init
    /\ last_evicted = NoPage
    /\ age = 0
    /\ step = "idle"
    /\ reused = FALSE
    /\ verdict = NoVerdict

\* An access by the page cache or by another user of the observer.
\* total_now - last_eviction_total_ grows by one.
access(p) ==
    /\ \/ \E hit \in BOOLEAN : record_page_access(p, hit)
       \/ record_record_access(p)
    /\ age' = IF last_evicted # NoPage /\ age < MaxAge THEN age + 1 ELSE age
    /\ reused' = (reused \/ p = last_evicted)
    /\ UNCHANGED <<last_evicted, step, verdict>>

\* total_now >= last_eviction_total_ + feedback_horizon_
HorizonPassed == age >= FeedbackHorizon

\* choose_victim is called with some candidates: the unlocked read of the
\* total decides whether the pending eviction is judged.
check_horizon ==
    /\ step = "idle"
    /\ step' = IF last_evicted # NoPage /\ HorizonPassed THEN "judge" ELSE "choose"
    /\ UNCHANGED <<vars, last_evicted, age, reused, verdict>>

\* Defect: the index returned for "not found" counts as found.
LabelOffByOne == IF get_last_index_in_recent(last_evicted) <= ObserverCapacity THEN 1 ELSE 0

Label == IF get_last_index_in_recent(last_evicted) < ObserverCapacity THEN 1 ELSE 0

\* update_weights with the label; the pending eviction is settled.
judge ==
    /\ step = "judge"
    /\ verdict' = [label |-> Label, reused |-> reused, age |-> age]
    /\ last_evicted' = NoPage
    /\ age' = 0
    /\ reused' = FALSE
    /\ step' = "choose"
    /\ UNCHANGED vars

\* The victim becomes the pending eviction; one that was not judged in time
\* is forgotten.
evict(victim) ==
    /\ step = "choose"
    /\ last_evicted' = victim
    /\ age' = 0
    /\ reused' = FALSE
    /\ step' = "idle"
    /\ verdict' = NoVerdict
    /\ UNCHANGED vars

LearnedNext ==
    \/ \E p \in ObservedPages : access(p)
    \/ check_horizon
    \/ judge
    \/ \E p \in ObservedPages : evict(p)

LearnedSpec == LearnedInit /\ [][LearnedNext]_<<vars, policy_vars>>
-----------------------------------------------------------------------------
\* The label the weights learn from is honest within the ring's reach
\* (choose_victim, the feedback part), whatever other threads record between
\* the policy's steps: an eviction is judged only after the horizon; a label 1
\* after at least a ring's worth of accesses means that the page was accessed
\* after its eviction; and an access after the eviction is never overlooked as
\* long as the ring still covers the time since.  Nothing is said of a label 1
\* given earlier: with a horizon below the ring's capacity (64 and 1024 by
\* default) it may stem from an access before the eviction.
LabelHonest ==
    /\ verdict.age >= FeedbackHorizon
    /\ verdict.age >= ObserverCapacity /\ verdict.label = 1 => verdict.reused
    /\ verdict.age <= ObserverCapacity /\ verdict.reused => verdict.label = 1
=============================================================================
