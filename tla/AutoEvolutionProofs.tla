------------------------- MODULE AutoEvolutionProofs -------------------------
(***************************************************************************)
(* What autoevolution guarantees for every set of episodes, every length   *)
(* of patience, watch and cool-down, and any number of runners: proofs for *)
(* module AutoEvolution.                                                   *)
(***************************************************************************)
EXTENDS AutoEvolution, TLAPS

-----------------------------------------------------------------------------
(* Operators *)

\* Four states in use leave an identity for a fifth.
LEMMA FreshIdType ==
  ASSUME TypeOK PROVE FreshId \in Ids
<1> DEFINE a == org.id
           b == IF checkpoint = None THEN a ELSE checkpoint.org.id
           c == IF monitor = None THEN a ELSE monitor.org.id
           d == IF before = None THEN a ELSE before.org.id
           used == {a, b, c, d}
<1>1. FreshId = CHOOSE i \in Ids : i \notin used /\ \A j \in Ids : j < i => j \in used
  <2>1. {org.id} \cup (IF checkpoint = None THEN {} ELSE {checkpoint.org.id})
          \cup (IF monitor = None THEN {} ELSE {monitor.org.id})
          \cup (IF before = None THEN {} ELSE {before.org.id}) = used
    OBVIOUS
  <2>2. QED
    BY <2>1 DEF FreshId
<1> HIDE DEF a, b, c, d
<1>2. \E i \in Ids : i \notin used /\ \A j \in Ids : j < i => j \in used
  <2>1. Ids = {1, 2, 3, 4, 5}
    BY DEF Ids
  <2>2. \E i \in Ids : i \notin used
    BY <2>1
  <2>3. QED
    BY <2>1, <2>2
<1> HIDE DEF used
<1>3. QED
  BY <1>1, <1>2

\* The state after an episode.
LEMMA LivedType ==
  ASSUME TypeOK, NEW e \in Episodes
  PROVE  Lived(e) \in State
<1>1. FreshId \in Ids
  BY FreshIdType
<1>2. knobs \in Knobs
  BY DEF TypeOK
<1>3. (Healthy(e) /\ ~RollbackRequired(e)) \in BOOLEAN
  OBVIOUS
<1>4. QED
  BY <1>1, <1>2, <1>3 DEF Lived, State

\* A proposal is a setting of the knobs.
LEMMA CandidateType ==
  ASSUME TypeOK, NEW e \in Episodes, Candidate(e) # None
  PROVE  Candidate(e) \in Knobs
<1>1. knobs \in Knobs /\ MaxLimit \in Nat \ {0}
  BY EvolutionAssumption DEF TypeOK
<1>2. QED
  BY <1>1 DEF Candidate, Knobs

-----------------------------------------------------------------------------
(* Types *)

\* A setback and an episode without a watch keep the counters in range.
LEMMA CountersType ==
  ASSUME TypeOK
  PROVE  /\ SetBack => cooldown' \in 0..Cooldown /\ since' \in 0..Cooldown
         /\ Ages => since' \in 0..Cooldown
         /\ Cools => cooldown' \in 0..Cooldown
         /\ AtMost(degraded + 1, Patience) \in Nat
<1>1. Cooldown \in Nat /\ Patience \in Nat
  BY EvolutionAssumption
<1>2. cooldown \in 0..Cooldown /\ since \in 0..Cooldown /\ degraded \in Nat
  BY DEF TypeOK
<1>3. QED
  BY <1>1, <1>2 DEF SetBack, Ages, Cools, AtMost

\* What is kept of a modification under watch.
LEMMA WatchType ==
  ASSUME NEW l \in Int, NEW s \in Int, NEW o \in State, NEW k \in Knobs
  PROVE  [left |-> l, sum |-> s, org |-> o, knobs |-> k] \in Watch
  BY DEF Watch

\* No step breaks the types.
LEMMA TypeStep ==
  ASSUME TypeOK, [Next]_vars
  PROVE  TypeOK'
<1> USE DEF TypeOK
<1>c. Cooldown \in Nat /\ 0 \in 0..Cooldown /\ Cooldown \in 0..Cooldown
  BY EvolutionAssumption
<1>1. ASSUME NEW e \in Episodes, Rollback(e) PROVE TypeOK'
  <2>1. org' \in State /\ knobs' \in Knobs
    BY <1>1, LivedType DEF Rollback, Checkpoint
  <2>2. QED
    BY <1>1, <2>1, CountersType DEF Rollback, Actions
<1>2. ASSUME NEW e \in Episodes, KeepWatching(e) PROVE TypeOK'
  <2>1. monitor \in Watch /\ e.delta \in Int
    BY <1>2, EvolutionAssumption DEF KeepWatching, Watched, Episode
  <2>2. monitor' = [left |-> monitor.left - 1, sum |-> monitor.sum + e.delta,
                    org |-> monitor.org, knobs |-> monitor.knobs]
    BY <1>2, <2>1 DEF KeepWatching, Watch
  <2>3. monitor' \in Watch
    BY <2>1, <2>2 DEF Watch
  <2>4. QED
    BY <1>2, <2>3, LivedType, CountersType DEF KeepWatching, Actions
<1>3. ASSUME NEW e \in Episodes, Revert(e) PROVE TypeOK'
  <2>1. org' \in State /\ knobs' \in Knobs
    BY <1>3 DEF Revert, Watched, Watch
  <2>2. QED
    BY <1>3, <2>1, CountersType DEF Revert, Actions
<1>4. ASSUME NEW e \in Episodes, Commit(e) PROVE TypeOK'
  BY <1>4, LivedType, CountersType DEF Commit, Actions
<1>5. ASSUME NEW e \in Episodes, Thrive(e) PROVE TypeOK'
  <2>1. Lived(e) \in State
    BY LivedType
  <2>2. checkpoint' \in Checkpoint
    BY <1>5, <2>1 DEF Thrive, Checkpoint
  <2>3. QED
    BY <1>5, <2>1, <2>2, CountersType DEF Thrive, Actions
<1>6. ASSUME NEW e \in Episodes, Endure(e) PROVE TypeOK'
  BY <1>6, LivedType, CountersType DEF Endure, Actions
<1>7. ASSUME NEW e \in Episodes, Refuse(e) PROVE TypeOK'
  <2>1. action' \in Actions
    BY <1>7 DEF Refuse, Actions, Verdict
  <2>2. QED
    BY <1>7, <2>1, LivedType, CountersType DEF Refuse
<1>8. ASSUME NEW e \in Episodes, Apply(e) PROVE TypeOK'
  <2>1. Lived(e) \in State /\ knobs \in Knobs /\ knobs' \in Knobs
    BY <1>8, LivedType, CandidateType DEF Apply
  <2>2. monitor' \in Watch
    BY <1>8, <2>1, WatchType, EvolutionAssumption DEF Apply
  <2>3. before' \in Checkpoint
    BY <1>8, <2>1 DEF Apply, Checkpoint
  <2>4. QED
    BY <1>8, <2>1, <2>2, <2>3, CountersType DEF Apply, Actions
<1>9. CASE Rebuild
  BY <1>9, <1>c DEF Rebuild, Actions
<1>10. CASE UNCHANGED vars
  BY <1>10 DEF vars
<1>11. QED
  BY <1>1, <1>2, <1>3, <1>4, <1>5, <1>6, <1>7, <1>8, <1>9, <1>10
     DEF Next, Observe

\* A new organism has them.
LEMMA TypeInit == Init => TypeOK
<1> SUFFICES ASSUME Init PROVE TypeOK
  OBVIOUS
<1>1. org \in State
  BY DEF Init, State, Ids
<1>2. QED
  BY <1>1, EvolutionAssumption DEF Init, TypeOK, Actions

\* Every reachable state of the controller is of the expected types, for any
\* episodes and any lengths of patience, watch and cool-down.
THEOREM EvolutionTypeCorrect == Spec => []TypeOK
<1>1. QED
  BY TypeInit, TypeStep, PTL DEF Spec

-----------------------------------------------------------------------------
(* The three promises *)

\* A watch keeps what the modification replaced; a kept state was healthy,
\* under the knobs kept with it; and the cool-down left makes up for the
\* episodes still missing since the last setback.
Bookkeeping ==
  /\ monitor # None =>
       before = [org |-> monitor.org, knobs |-> monitor.knobs]
  /\ checkpoint # None =>
       checkpoint.org.healthy /\ checkpoint.knobs = checkpoint.org.knobs
  /\ since + cooldown >= Cooldown

IInv == TypeOK /\ Bookkeeping

\* Nothing is under watch, or saved, when it begins.
LEMMA InvInit == Init => IInv
<1>1. Init => Bookkeeping
  BY EvolutionAssumption DEF Init, Bookkeeping
<1>2. QED
  BY <1>1, TypeInit DEF IInv

\* An episode lived without a setback adds to the rest what it takes from
\* the cool-down.
LEMMA RestKept ==
  ASSUME TypeOK, since + cooldown >= Cooldown
  PROVE  /\ SetBack => since' + cooldown' >= Cooldown
         /\ Ages /\ cooldown' = cooldown => since' + cooldown' >= Cooldown
         /\ Ages /\ Cools => since' + cooldown' >= Cooldown
<1>1. Cooldown \in Nat /\ cooldown \in 0..Cooldown /\ since \in 0..Cooldown
  BY EvolutionAssumption DEF TypeOK
<1>2. QED
  BY <1>1 DEF SetBack, Ages, Cools, AtMost

\* What an episode leaves of a state it lived: its health and its knobs.
LEMMA LivedHealthy ==
  ASSUME NEW e \in Episodes, Healthy(e), ~RollbackRequired(e)
  PROVE  Lived(e).healthy /\ Lived(e).knobs = knobs
  BY DEF Lived

\* No episode and no new runner breaks the bookkeeping.
LEMMA InvStep ==
  ASSUME IInv, [Next]_vars
  PROVE  IInv'
<1>t. TypeOK /\ TypeOK'
  BY TypeStep DEF IInv
<1>b. Bookkeeping
  BY DEF IInv
<1>r. since + cooldown >= Cooldown
  BY <1>b DEF Bookkeeping
<1> SUFFICES Bookkeeping'
  BY <1>t DEF IInv
<1>1. ASSUME NEW e \in Episodes, Rollback(e) PROVE Bookkeeping'
  BY <1>1, <1>b, <1>t, <1>r, RestKept DEF Rollback, Bookkeeping
<1>2. ASSUME NEW e \in Episodes, KeepWatching(e) PROVE Bookkeeping'
  <2>1. monitor \in Watch /\ monitor # None
    BY <1>2, <1>t DEF KeepWatching, Watched, TypeOK
  <2>2. monitor'.org = monitor.org /\ monitor'.knobs = monitor.knobs
    BY <1>2, <2>1 DEF KeepWatching, Watch
  <2>3. QED
    BY <1>2, <1>b, <1>t, <1>r, <2>1, <2>2, RestKept DEF KeepWatching, Bookkeeping
<1>3. ASSUME NEW e \in Episodes, Revert(e) PROVE Bookkeeping'
  BY <1>3, <1>b, <1>t, <1>r, RestKept DEF Revert, Bookkeeping
<1>4. ASSUME NEW e \in Episodes, Commit(e) PROVE Bookkeeping'
  BY <1>4, <1>b, <1>t, <1>r, RestKept DEF Commit, Bookkeeping
<1>5. ASSUME NEW e \in Episodes, Thrive(e) PROVE Bookkeeping'
  <2>1. Lived(e).healthy /\ Lived(e).knobs = knobs
    BY <1>5, LivedHealthy DEF Thrive, Unwatched
  <2>2. QED
    BY <1>5, <1>b, <1>t, <1>r, <2>1, RestKept DEF Thrive, Unwatched, Bookkeeping
<1>6. ASSUME NEW e \in Episodes, Endure(e) PROVE Bookkeeping'
  BY <1>6, <1>b, <1>t, <1>r, RestKept DEF Endure, Bookkeeping
<1>7. ASSUME NEW e \in Episodes, Refuse(e) PROVE Bookkeeping'
  BY <1>7, <1>b, <1>t, <1>r, RestKept DEF Refuse, Bookkeeping
<1>8. ASSUME NEW e \in Episodes, Apply(e) PROVE Bookkeeping'
  BY <1>8, <1>b, <1>t, <1>r, RestKept DEF Apply, Bookkeeping
<1>9. CASE Rebuild
  BY <1>9, EvolutionAssumption DEF Rebuild, Bookkeeping
<1>10. CASE UNCHANGED vars
  BY <1>10, <1>b DEF vars, Bookkeeping
<1>11. QED
  BY <1>1, <1>2, <1>3, <1>4, <1>5, <1>6, <1>7, <1>8, <1>9, <1>10
     DEF Next, Observe

\* The bookkeeping is always right.
LEMMA InvHolds == Spec => []IInv
<1>1. QED
  BY InvInit, InvStep, PTL DEF Spec

\* Which branch an action names.
LEMMA Branches ==
  ASSUME Next
  PROVE  /\ action' = "reverted" => \E e \in Episodes : Revert(e)
         /\ action' = "rollback" => \E e \in Episodes : Rollback(e)
         /\ action' = "applied" => \E e \in Episodes : Apply(e)
<1>1. ASSUME NEW e \in Episodes, Refuse(e)
      PROVE  action' \in {"blocked", "no_candidate", "quarantined", "rejected"}
  BY <1>1 DEF Refuse, Verdict
<1>2. QED
  BY <1>1 DEF Next, Observe, Rollback, KeepWatching, Revert, Commit, Thrive, Endure,
              Apply, Rebuild

\* A modification that is taken back leaves no trace, whatever was observed
\* while it was watched.
THEOREM RevertIsExact == Spec => RevertRestores
<1>1. ASSUME IInv, [Next]_vars PROVE [Reverts]_vars
  <2>1. ASSUME NEW e \in Episodes, Revert(e) PROVE Reverts
    BY <2>1, <1>1 DEF Revert, Watched, Reverts, IInv, Bookkeeping
  <2>2. QED
    BY <1>1, <2>1, Branches DEF Reverts
<1>2. QED
  BY <1>1, InvHolds, PTL DEF Spec, RevertRestores

\* A hard rollback goes to a healthy state with its own knobs, or restores
\* nothing when the runner has seen none.
THEOREM RollbackIsHealthy == Spec => RollbackToHealthy
<1>1. ASSUME IInv, [Next]_vars PROVE [Restores]_vars
  <2>1. ASSUME NEW e \in Episodes, Rollback(e) PROVE Restores
    BY <2>1, <1>1 DEF Rollback, Restores, IInv, Bookkeeping
  <2>2. QED
    BY <1>1, <2>1, Branches DEF Restores
<1>2. QED
  BY <1>1, InvHolds, PTL DEF Spec, RollbackToHealthy

\* No knob is turned within Cooldown episodes of a setback.
THEOREM SetbackIsQuiet == Spec => QuietAfterSetback
<1>1. ASSUME IInv, [Next]_vars PROVE [Rests]_vars
  <2>1. ASSUME NEW e \in Episodes, Apply(e) PROVE Rests
    <3>1. cooldown = 0 /\ since + cooldown >= Cooldown
      BY <2>1, <1>1 DEF Apply, OutOfPatience, IInv, Bookkeeping
    <3>2. since \in 0..Cooldown /\ Cooldown \in Nat
      BY <1>1, EvolutionAssumption DEF IInv, TypeOK
    <3>3. QED
      BY <3>1, <3>2 DEF Rests
  <2>2. QED
    BY <1>1, <2>1, Branches DEF Rests
<1>2. QED
  BY <1>1, InvHolds, PTL DEF Spec, QuietAfterSetback
=============================================================================
