---------------------------- MODULE AutoEvolution ----------------------------
(***************************************************************************)
(* The organism changing itself (runtime/organism/autoevolution.py): after *)
(* each episode the runner's controller may turn one of the runner's knobs,*)
(* watch what comes of it for a few episodes and take it back, or roll the *)
(* organism back to the last state it saw healthy.  The life kernel builds *)
(* a new runner, and so a new controller, whenever a block of episodes     *)
(* ends, another directive comes, or it restarts.                          *)
(*                                                                         *)
(* An episode is what the controller reads of it.  A state of the organism *)
(* is told apart from the others still referred to, and remembers what its *)
(* episode was like.  Left out: the lineage's records and the events, the  *)
(* kill switch, how the posterior is computed from the evidence (an        *)
(* episode says whether its lower bound reaches the threshold), and the    *)
(* kernel's own rollback, which gives the new runner another organism.     *)
(***************************************************************************)
EXTENDS Integers

CONSTANTS
  Episodes,         \* the episodes considered
  None,             \* no checkpoint, no watch, no candidate
  MaxLimit,         \* largest memory_retrieval_limit a runner is given
  Patience,         \* degraded episodes before a proposal
  PostWindow,       \* episodes a modification is watched for
  Cooldown,         \* episodes without a proposal after a setback
  RiskEnforcement   \* RNFE_RISK_ENFORCEMENT

VARIABLES
  org,         \* the organism's state
  knobs,       \* the runner's knobs
  degraded,    \* _consecutive_degraded
  cooldown,    \* _cooldown_left
  checkpoint,  \* the last healthy state and its knobs
  monitor,     \* _post_monitor
  action,      \* what the last episode led to
  before,      \* the state and the knobs when the last modification was applied
  since        \* episodes since this runner's last setback, counted up to Cooldown

vars == <<org, knobs, degraded, cooldown, checkpoint, monitor, action, before, since>>

Knobs == [limit : 1..MaxLimit, mode : {"strict", "cross"}]

\* States alive at once: the organism's, the checkpoint's, the watch's and
\* that of before; one more is about to come.
Ids == 1..5

State == [id : Ids, healthy : BOOLEAN, knobs : Knobs]

Episode ==
  [margin : 0..100, drift : 0..100, hard : 0..3, viable : BOOLEAN,
   retrieved : Nat, delta : -10..10, barrier : BOOLEAN, tail : BOOLEAN,
   trusted : BOOLEAN]

ASSUME EvolutionAssumption ==
  /\ Episodes \subseteq Episode
  /\ MaxLimit \in Nat \ {0} /\ Patience \in Nat /\ PostWindow \in Nat
  /\ Cooldown \in Nat
  /\ RiskEnforcement \in BOOLEAN

Checkpoint == [org : State, knobs : Knobs]

\* A modification under watch: the episodes left, what the closure gained in
\* those past, and what to go back to.
Watch == [left : Int, sum : Int, org : State, knobs : Knobs]

Actions ==
  {"none", "rollback", "monitoring", "reverted", "committed", "blocked",
   "no_candidate", "quarantined", "rejected", "applied"}

ASSUME NoneAssumption ==
  /\ None \notin Knobs /\ None \notin Checkpoint /\ None \notin Watch

\* Each variable holds what it should.
TypeOK ==
  /\ org \in State
  /\ knobs \in Knobs
  /\ degraded \in Nat
  /\ cooldown \in 0..Cooldown
  /\ checkpoint \in Checkpoint \cup {None}
  /\ monitor \in Watch \cup {None}
  /\ action \in Actions
  /\ before \in Checkpoint \cup {None}
  /\ since \in 0..Cooldown

Init ==
  /\ knobs \in Knobs
  /\ org = [id |-> 1, healthy |-> FALSE, knobs |-> knobs]
  /\ degraded = 0 /\ cooldown = 0
  /\ checkpoint = None /\ monitor = None /\ before = None
  /\ action = "none"
  /\ since = Cooldown
-----------------------------------------------------------------------------
(* What the controller reads of an episode *)

\* assess, and the constitution's verdict on three hard violations or more.
RollbackRequired(e) == e.hard >= 3 \/ e.margin <= 5 \/ ~e.viable

\* Neither degraded nor quarantined.
Healthy(e) == e.margin >= 45 /\ e.drift <= 50 /\ e.hard = 0

\* Unsafe, or with a tail risk that is enforced.
Unsafe(e) == e.hard > 0 \/ e.barrier \/ (RiskEnforcement /\ e.tail)

\* _diagnose: the knobs after the modification it proposes.
Candidate(e) ==
  IF e.retrieved >= 2 /\ knobs.limit > 1 THEN [knobs EXCEPT !.limit = @ - 1]
  ELSE IF knobs.mode = "cross" THEN [knobs EXCEPT !.mode = "strict"]
  ELSE None

\* evaluate_proposal; the sandbox changes nothing, so it assesses the state
\* the organism is in.
Verdict(e) ==
  IF RollbackRequired(e) \/ e.hard > 0 THEN "rejected"
  ELSE IF e.margin >= 15 /\ e.trusted THEN "accepted" ELSE "quarantined"

\* The state the episode leaves the organism in.
FreshId ==
  LET held(x) == IF x = None THEN {} ELSE {x.org.id}
      used == {org.id} \cup held(checkpoint) \cup held(monitor) \cup held(before)
  IN  CHOOSE i \in Ids : i \notin used /\ \A j \in Ids : j < i => j \in used

Lived(e) ==
  [id |-> FreshId, healthy |-> Healthy(e) /\ ~RollbackRequired(e), knobs |-> knobs]

AtMost(n, most) == IF n < most THEN n ELSE most

\* The cool-down is only counted in episodes without a watch.
Cools == cooldown' = IF cooldown > 0 THEN cooldown - 1 ELSE 0

Ages == since' = AtMost(since + 1, Cooldown)

\* Nothing is proposed for a while.
SetBack == cooldown' = Cooldown /\ since' = 0
-----------------------------------------------------------------------------
(* observe_episode, branch by branch *)

\* A variant: rolling back starts no cool-down.
HotRollback(e) ==
  /\ RollbackRequired(e)
  /\ IF checkpoint = None THEN org' = Lived(e) /\ knobs' = knobs
     ELSE org' = checkpoint.org /\ knobs' = checkpoint.knobs
  /\ monitor' = None
  /\ degraded' = 0
  /\ cooldown' = 0 /\ since' = 0
  /\ action' = "rollback"
  /\ UNCHANGED <<checkpoint, before>>

\* _execute_rollback; without a checkpoint nothing is restored.
Rollback(e) ==
  /\ RollbackRequired(e)
  /\ IF checkpoint = None THEN org' = Lived(e) /\ knobs' = knobs
     ELSE org' = checkpoint.org /\ knobs' = checkpoint.knobs
  /\ monitor' = None
  /\ degraded' = 0
  /\ SetBack
  /\ action' = "rollback"
  /\ UNCHANGED <<checkpoint, before>>

Watched(e) == ~RollbackRequired(e) /\ monitor # None

\* A variant: an episode that improves does not count.
KeepLooking(e) ==
  /\ Watched(e)
  /\ monitor.left > 1
  /\ monitor' = IF e.delta > 0 THEN monitor
                ELSE [monitor EXCEPT !.left = @ - 1, !.sum = @ + e.delta]
  /\ org' = Lived(e)
  /\ action' = "monitoring"
  /\ Ages
  /\ UNCHANGED <<knobs, degraded, cooldown, checkpoint, before>>

KeepWatching(e) ==
  /\ Watched(e)
  /\ monitor.left > 1
  /\ monitor' = [monitor EXCEPT !.left = @ - 1, !.sum = @ + e.delta]
  /\ org' = Lived(e)
  /\ action' = "monitoring"
  /\ Ages
  /\ UNCHANGED <<knobs, degraded, cooldown, checkpoint, before>>

\* The closure got worse on average: knobs and state are taken back.
Revert(e) ==
  /\ Watched(e)
  /\ monitor.left <= 1 /\ monitor.sum + e.delta < 0
  /\ org' = monitor.org /\ knobs' = monitor.knobs
  /\ monitor' = None
  /\ SetBack
  /\ action' = "reverted"
  /\ UNCHANGED <<degraded, checkpoint, before>>

Commit(e) ==
  /\ Watched(e)
  /\ monitor.left <= 1 /\ monitor.sum + e.delta >= 0
  /\ monitor' = None
  /\ org' = Lived(e)
  /\ action' = "committed"
  /\ Ages
  /\ UNCHANGED <<knobs, degraded, cooldown, checkpoint, before>>

Unwatched(e) == ~RollbackRequired(e) /\ monitor = None

\* The last good state is kept.
Thrive(e) ==
  /\ Unwatched(e) /\ Healthy(e)
  /\ org' = Lived(e)
  /\ checkpoint' = [org |-> Lived(e), knobs |-> knobs]
  /\ degraded' = 0
  /\ Cools /\ Ages
  /\ action' = "none"
  /\ UNCHANGED <<knobs, monitor, before>>

\* A variant: whatever state is not rolled back is kept.
EndureAndKeep(e) ==
  /\ Unwatched(e) /\ ~Healthy(e)
  /\ cooldown > 0 \/ degraded + 1 < Patience
  /\ org' = Lived(e)
  /\ checkpoint' = [org |-> Lived(e), knobs |-> knobs]
  /\ degraded' = degraded + 1
  /\ Cools /\ Ages
  /\ action' = "none"
  /\ UNCHANGED <<knobs, monitor, before>>

\* Cooling down, or not yet out of patience.  degraded is counted up to
\* Patience: past it, it is never told apart.
Endure(e) ==
  /\ Unwatched(e) /\ ~Healthy(e)
  /\ cooldown > 0 \/ degraded + 1 < Patience
  /\ org' = Lived(e)
  /\ degraded' = AtMost(degraded + 1, Patience)
  /\ Cools /\ Ages
  /\ action' = "none"
  /\ UNCHANGED <<knobs, checkpoint, monitor, before>>

OutOfPatience(e) ==
  Unwatched(e) /\ ~Healthy(e) /\ cooldown = 0 /\ degraded + 1 >= Patience

\* No proposal comes of it: the safety gate, no knob left to turn, or the
\* sandbox's verdict.
Refuse(e) ==
  /\ OutOfPatience(e)
  /\ \/ Unsafe(e) /\ action' = "blocked"
     \/ ~Unsafe(e) /\ Candidate(e) = None /\ action' = "no_candidate"
     \/ /\ ~Unsafe(e) /\ Candidate(e) # None
        /\ Verdict(e) # "accepted" /\ action' = Verdict(e)
  /\ org' = Lived(e)
  /\ degraded' = AtMost(degraded + 1, Patience)
  /\ SetBack
  /\ UNCHANGED <<knobs, checkpoint, monitor, before>>

\* A variant: the knobs are read after they were turned.
ApplyFirst(e) ==
  /\ OutOfPatience(e) /\ ~Unsafe(e)
  /\ Candidate(e) # None /\ Verdict(e) = "accepted"
  /\ org' = Lived(e)
  /\ knobs' = Candidate(e)
  /\ before' = [org |-> Lived(e), knobs |-> knobs]
  /\ monitor' = [left |-> PostWindow, sum |-> 0, org |-> Lived(e), knobs |-> knobs']
  /\ degraded' = 0
  /\ action' = "applied"
  /\ Ages
  /\ UNCHANGED <<cooldown, checkpoint>>

\* The knob is turned, and what it replaces is kept for the watch.
Apply(e) ==
  /\ OutOfPatience(e) /\ ~Unsafe(e)
  /\ Candidate(e) # None /\ Verdict(e) = "accepted"
  /\ org' = Lived(e)
  /\ knobs' = Candidate(e)
  /\ before' = [org |-> Lived(e), knobs |-> knobs]
  /\ monitor' = [left |-> PostWindow, sum |-> 0, org |-> Lived(e), knobs |-> knobs]
  /\ degraded' = 0
  /\ action' = "applied"
  /\ Ages
  /\ UNCHANGED <<cooldown, checkpoint>>

\* observe_episode takes one branch, and the runner the state it returns.
Observe ==
  \E e \in Episodes :
    \/ Rollback(e)
    \/ KeepWatching(e) \/ Revert(e) \/ Commit(e)
    \/ Thrive(e) \/ Endure(e) \/ Refuse(e) \/ Apply(e)

\* _runner_for builds a new runner for the same organism: its knobs are the
\* default ones or those of the directive, its controller knows nothing.
Rebuild ==
  /\ knobs' \in Knobs
  /\ degraded' = 0 /\ cooldown' = 0
  /\ checkpoint' = None /\ monitor' = None /\ before' = None
  /\ action' = "none"
  /\ since' = Cooldown
  /\ UNCHANGED org

Next == Observe \/ Rebuild

Spec == Init /\ [][Next]_vars

\* The kernel goes on living: there is always another episode.
FairSpec == Spec /\ WF_vars(Observe)
-----------------------------------------------------------------------------
(* Properties *)

\* A modification that is taken back leaves no trace: the knobs and the
\* organism are those it was applied to, whatever was observed in between
\* (_advance_post_monitor, "revertir mandos + estado").
Reverts == action' = "reverted" => before = [org |-> org', knobs |-> knobs']
RevertRestores == [][Reverts]_vars

\* What a hard rollback restores is a state that was healthy, with the knobs
\* it was healthy with; unless this runner has seen none, when it restores
\* nothing (_execute_rollback).
Restores ==
  action' = "rollback" =>
    \/ org'.healthy /\ knobs' = org'.knobs
    \/ checkpoint = None /\ knobs' = knobs
RollbackToHealthy == [][Restores]_vars

\* After a rollback, a reversal or a refusal a runner turns no knob for
\* Cooldown episodes, although a rollback ends a watch early and episodes
\* under watch do not count (_cooldown_left).
Rests == action' = "applied" => since = Cooldown
QuietAfterSetback == [][Rests]_vars

\* No modification is watched for ever: it is committed or taken back, or its
\* runner goes.
WatchEnds == monitor # None ~> monitor = None
=============================================================================
