----------------------------- MODULE ScaleControl -----------------------------
(***************************************************************************)
(* MSRC at work: the controller's step (runtime/control/msrc/controller.py)*)
(* with the transition manager and the audit log, under its two callers.   *)
(* The life kernel runs it after an episode, drops the result of a probe,  *)
(* catches what it raises and goes on with the same policy state.  The     *)
(* policy benchmark keeps the result of a probe for its next step and lets *)
(* an exception end its run.                                               *)
(*                                                                         *)
(* A step is three actions: the decision, what is done about it up to the  *)
(* one line that commits the scale, and the records of it; an append to    *)
(* the event log may fail in the last two.  The world is whatever each     *)
(* step finds.  Costs, the cross-scale memory guard and the saving of the  *)
(* policy state in checkpoints are left out.                               *)
(***************************************************************************)
EXTENDS ScalePolicy

CONSTANTS
  Setups,          \* caller, policy and executable scales of the runs considered
  Demands(_),      \* what a caller's steps may find
  ProbeOutcomes,   \* what a probe may measure
  MaxFailures      \* bound on appends that fail

VARIABLES
  setup,     \* who runs the controller, with which policy and scales
  pc,        \* "idle", "decided", "applied" or "ended"
  st,        \* ScalePolicyState
  act,       \* the action of this step and its target
  done,      \* what the transition manager returned
  pending,   \* the probe result the caller kept, or NoScale
  source,    \* source_scale_id of the last step
  outcome,   \* how the last step went
  ledger,    \* the scale the last recorded decision reports
  dwell,     \* steps since the scale last moved, counted up to MaxDwell
  failures

vars == <<setup, pc, st, act, done, pending, source, outcome, ledger, dwell,
          failures>>
-----------------------------------------------------------------------------
ProbeMeasure ==
  [gain : -100..100, viable : BOOLEAN, evidence : Percent,
   outcome : {"positive", "negative", "inconclusive"}]

ASSUME SetupsAssumption ==
  /\ Setups \subseteq [caller : {"kernel", "benchmark"}, policy : Policies,
                       runs : SUBSET Scales]
  /\ \A s \in Setups :
       /\ "1x1" \in s.runs
       /\ s.caller = "kernel" => s.policy = "baseline" /\ s.runs = Shipped
  /\ NoScale \notin Scales

ASSUME DemandsAssumption ==
  /\ \A c \in {"kernel", "benchmark"} : Demands(c) \subseteq Demand
  /\ ProbeOutcomes \subseteq ProbeMeasure
  /\ MaxFailures \in Nat

MaxDwell == 7

Phases == {"idle", "decided", "applied", "ended"}

PolicyState ==
  [scale : Scales, up : 0..EvidenceCap, down : Nat, cooldown : Nat, lock : Nat,
   inflight : Scales \cup {NoScale}, last : Actions, oscillated : BOOLEAN]

Act == [action : Actions, target : Scales]

\* A probe result names the scale it was measured at.
Measured(target, m) ==
  [target |-> target, gain |-> m.gain, viable |-> m.viable,
   evidence |-> m.evidence, outcome |-> m.outcome]

ProbeResult == {Measured(s, m) : s \in Scales, m \in ProbeOutcomes}

Done ==
  [selected : Scales, aborted : BOOLEAN, probe : ProbeResult \cup {NoScale}]

\* Each variable holds what it should.  Whether a decision can make another
\* of the state's fields leave its range is what this is checked for.
TypeOK ==
  /\ setup \in Setups
  /\ pc \in Phases
  /\ st \in PolicyState
  /\ act \in Act
  /\ done \in Done
  /\ pending \in ProbeResult \cup {NoScale}
  /\ source \in Scales
  /\ outcome \in {"none", "ok", "failed", "unrecorded"}
  /\ ledger \in Scales
  /\ dwell \in 0..MaxDwell
  /\ failures \in 0..MaxFailures

Fresh ==
  [scale |-> "1x1", up |-> 0, down |-> 0, cooldown |-> 0, lock |-> 0,
   inflight |-> NoScale, last |-> "none", oscillated |-> FALSE]

Init ==
  /\ setup \in Setups
  /\ pc = "idle"
  /\ st = Fresh
  /\ act = [action |-> "none", target |-> "1x1"]
  /\ done = [selected |-> "1x1", aborted |-> FALSE, probe |-> NoScale]
  /\ pending = NoScale
  /\ source = "1x1" /\ ledger = "1x1"
  /\ outcome = "none"
  /\ dwell = MaxDwell
  /\ failures = 0
-----------------------------------------------------------------------------
(* The step *)

\* decide: the engine weighs the demand, and what an earlier probe brought.
Weighs ==
  /\ pc = "idle"
  /\ \E e \in Demands(setup.caller) :
       LET d == Decide(setup.policy, setup.runs, e, st, pending)
       IN  /\ st' = d.state
           /\ act' = [action |-> d.action, target |-> d.target]
  /\ source' = st.scale
  /\ dwell' = AtMost(dwell + 1, MaxDwell)
  /\ pc' = "decided"
  /\ UNCHANGED <<setup, done, pending, outcome, ledger, failures>>

\* What execute_action may return: it never raises.
Kept(aborted, probe) ==
  [selected |-> source, aborted |-> aborted, probe |-> probe]

Probed == {Kept(FALSE, Measured(act.target, m)) : m \in ProbeOutcomes}

Changed ==
  [selected |-> NearestExecutable(setup.runs, act.target), aborted |-> FALSE,
   probe |-> NoScale]

Movers == {"upgrade_scale", "downgrade_scale", "commit_probe_result"}

Executed ==
  IF act.action = "fork_probe" THEN Probed \cup {Kept(TRUE, NoScale)}
  ELSE IF act.action \in Movers THEN {Changed}
  ELSE {Kept(FALSE, NoScale)}

\* The action is carried out and its result committed.
Applies ==
  /\ pc = "decided"
  /\ done' \in Executed
  /\ st' = [st EXCEPT !.scale = done'.selected]
  /\ dwell' = IF done'.selected = st.scale THEN dwell ELSE 0
  /\ pc' = "applied"
  /\ UNCHANGED <<setup, act, pending, source, outcome, ledger, failures>>

\* pending_probe_result = step_out.get("probe_result"); the kernel drops it.
KeptProbe == IF setup.caller = "kernel" THEN NoScale ELSE done.probe

\* A variant: only a step that moves the scale is recorded.
RecordsMoves ==
  /\ pc = "applied"
  /\ ledger' = IF st.scale = source THEN ledger ELSE st.scale
  /\ pending' = KeptProbe
  /\ outcome' = "ok"
  /\ pc' = "idle"
  /\ UNCHANGED <<setup, st, act, done, source, dwell, failures>>

Records ==
  /\ pc = "applied"
  /\ ledger' = st.scale
  /\ pending' = KeptProbe
  /\ outcome' = "ok"
  /\ pc' = "idle"
  /\ UNCHANGED <<setup, st, act, done, source, dwell, failures>>

\* The exception reaches the caller.
Raised == pc' = IF setup.caller = "kernel" THEN "idle" ELSE "ended"

\* An event about a probe is not appended: the step ends before the commit.
ProbeEventFails ==
  /\ pc = "decided"
  /\ act.action \in {"fork_probe", "commit_probe_result", "discard_probe_result"}
  /\ failures < MaxFailures
  /\ failures' = failures + 1
  /\ outcome' = "failed"
  /\ Raised
  /\ UNCHANGED <<setup, st, act, done, pending, source, ledger, dwell>>

\* msrc.decision or msrc.transition is not appended: the scale has moved.
RecordFails ==
  /\ pc = "applied"
  /\ failures < MaxFailures
  /\ failures' = failures + 1
  /\ ledger' \in {ledger, st.scale}
  /\ outcome' = "unrecorded"
  /\ Raised
  /\ UNCHANGED <<setup, st, act, done, pending, source, dwell>>

Next == Weighs \/ Applies \/ Records \/ ProbeEventFails \/ RecordFails

Spec == Init /\ [][Next]_vars

\* The callers are loops in one thread: a step that can be taken is taken.
\* Every step moves pc, and one is enabled wherever pc is not "ended".
Moves == pc # "ended" /\ \E p \in Phases \ {pc} : pc' = p

FairSpec == Spec /\ WF_pc(Moves)
-----------------------------------------------------------------------------
(* Properties *)

\* Hysteresis: how many steps the scale rests between two moves.
Rest == [policy \in Policies |->
           CASE policy = "baseline" -> 3
             [] policy = "aggressive" -> 2
             [] policy = "regime_v3" -> 1]

\* After the scale has moved it does not move again before the lock the
\* profile promises has run down, whatever the world does, whoever calls,
\* and although a probe result is judged before the lock is looked at
\* (scale_policy_engine.py, decide).
MoveRests == dwell >= Rest[setup.policy]
DwellHolds == [][st'.scale # st.scale => MoveRests]_vars

\* What a commit moves to is what was probed: the engine takes the target
\* from its own record and the evidence from the caller, and the two agree,
\* although a probe may have been aborted, or failed to be recorded, before
\* (_handle_probe_result, and the benchmark's pending_probe_result).
CommitIsMeasured ==
  pc = "decided" /\ act.action = "commit_probe_result" =>
    /\ pending # NoScale
    /\ pending.target = act.target
    /\ pending.outcome = "positive" /\ pending.viable

\* Atomicity: a step that ends before the commit, or that was aborted or
\* only probed, leaves the organism at the scale it started from.
FailedStepMovesNothing ==
  /\ outcome = "failed" /\ pc \in {"idle", "ended"} => st.scale = source
  /\ pc = "applied" /\ (done.aborted \/ act.action = "fork_probe") =>
       st.scale = source

\* Only the profile that reads regimes can turn an upgrade into a downgrade,
\* or back, in two consecutive steps; with the others oscillation_events
\* stays at zero.
FlipsOnlyByRegime == st.oscillated => setup.policy = "regime_v3"

\* With the scales that can run today the higher of the two is never
\* given up, however little the world asks for: its prior outweighs every
\* other term of the cognitive score.
StaysUp == setup.runs = Shipped /\ st.scale = "5x5" => st'.scale = "5x5"
NeverComesDown == [][StaysUp]_vars

\* And the kernel's organism always climbs there: the same prior is an
\* upgrade signal in every world.
KernelClimbs == setup.caller = "kernel" => <>[](st.scale = "5x5")

\* A move the log missed is recorded by a later step, unless the run ended.
LedgerCatchesUp == ledger # st.scale ~> (ledger = st.scale \/ pc = "ended")
=============================================================================
