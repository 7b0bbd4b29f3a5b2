-------------------------- MODULE ConjunctionCycle --------------------------
(***************************************************************************)
(* One evaluation by the operational conjunction layer, step by step:      *)
(* OperationalConjunctionLayer.evaluate in runtime/conjunction/service.py. *)
(*                                                                         *)
(* evaluate routes and validates, executes the compensations one after the *)
(* other, and routes and validates again.  Each compensation that looks    *)
(* for evidence reads the checkpoint index at that moment, and the index   *)
(* is shared with every other process on the store: a checkpoint may       *)
(* appear between two steps of one evaluation (CheckpointMoves).  Without  *)
(* such interference the outcome is Evaluate(original), the atomic form    *)
(* the life kernel's model uses; the history variable moved tells whether  *)
(* there was any.                                                          *)
(***************************************************************************)
EXTENDS Conjunction

CONSTANTS Actions,       \* the names of operational actions
          Contexts,      \* the operation contexts handed to evaluate
          Checkpoints    \* what the newest checkpoint of the run may turn into

VARIABLES stage,      \* "received", "compensating" or "decided"
          original,   \* the context as it was received
          ctx,        \* the context as the compensations leave it
          tier,       \* selected_compute_tier of the last route, as its rank
          findings,   \* what the last validation found
          pending,    \* compensations still to execute
          executed,   \* compensations executed, with their final status
          decision,   \* final_decision, or "none" before it
          moved       \* history: another process saved a checkpoint meanwhile

vars == <<stage, original, ctx, tier, findings, pending, executed, decision, moved>>

\* Every context the code can build: OperationContext, AgentPolicy and
\* OperationalConstraints with their scores as percentages.
Context ==
  [action: Actions,
   task: {"life_cycle", "maintenance", "self_modification",
          "external_consultation", "causal_decision"},
   required: SUBSET EvidenceKinds, evidence: SUBSET EvidenceKinds,
   causal: {"none", "supported", "unsupported"},
   risk: 0..100, pressure: 0..100, uncertainty: 0..100, complexity: 0..100,
   maxTier: 0..3, allowExternal: BOOLEAN, vramSaturated: BOOLEAN,
   permitted: SUBSET Actions,
   agent: [present: BOOLEAN, allowed: SUBSET Actions,
           prohibited: SUBSET Actions, exhausted: BOOLEAN, maxSteps: Nat,
           humanApproval: SUBSET Actions],
   agentSteps: Nat, toolForbidden: BOOLEAN,
   autonomy: [wantsUnbounded: BOOLEAN, active: {"bounded", "governed_unbounded"}],
   checkpoint: {"none", "unhealthy", "healthy"},
   memoryHits: BOOLEAN, scenarioKnown: BOOLEAN, humanApproved: BOOLEAN]

ASSUME ContextsAssumption ==
  /\ Contexts \subseteq Context
  /\ Checkpoints \subseteq {"none", "unhealthy", "healthy"}
-----------------------------------------------------------------------------
Init ==
  /\ stage = "received"
  /\ original \in Contexts
  /\ ctx = original
  /\ tier = 0
  /\ findings = {}
  /\ pending = {}
  /\ executed = {}
  /\ decision = "none"
  /\ moved = FALSE

\* The first pass: route, validate, and look up the compensations.
RouteAndValidate ==
  /\ stage = "received"
  /\ stage' = "compensating"
  /\ tier' = Route(ctx)
  /\ findings' = Validate(ctx, Route(ctx))
  /\ pending' = Compensate(ctx, Validate(ctx, Route(ctx)))
  /\ UNCHANGED <<original, ctx, executed, decision, moved>>

\* _execute_compensation: findings come in the order of the validators, and
\* the only order that matters is missing evidence before the agent policy.
ExecuteCompensation ==
  /\ stage = "compensating"
  /\ \E a \in pending :
       LET kind == SoughtKind(a.finding)
           found == Recoverable(ctx, kind)
           plan == a.finding.code = "critical_action_without_validated_plan"
       IN  /\ \/ a.finding.code = "missing_evidence"
              \/ \A b \in pending : b.finding.code # "missing_evidence"
           /\ ctx' = WithEvidence(ctx, When(found, kind) \cup When(plan, DraftPlan))
           /\ executed' = executed \cup {IF found THEN [a EXCEPT !.status = "applied"]
                                                  ELSE a}
           /\ pending' = pending \ {a}
  /\ UNCHANGED <<stage, original, tier, findings, decision, moved>>

\* Nothing to compensate: the first validation decides.
DecideAtOnce ==
  /\ stage = "compensating" /\ pending = {} /\ executed = {}
  /\ stage' = "decided"
  /\ decision' = FinalDecision(ctx, findings, {})
  /\ UNCHANGED <<original, ctx, tier, findings, pending, executed, moved>>

\* The second pass, on what the compensations left.
Recheck ==
  /\ stage = "compensating" /\ pending = {} /\ executed # {}
  /\ stage' = "decided"
  /\ tier' = Route(ctx)
  /\ findings' = Validate(ctx, Route(ctx))
  /\ decision' = FinalDecision(ctx, findings',
                               Merge(executed, Compensate(ctx, findings')))
  /\ UNCHANGED <<original, ctx, pending, executed, moved>>

\* Another process saves a checkpoint of the same run.
CheckpointMoves ==
  /\ stage # "decided"
  /\ \E c \in Checkpoints \ {ctx.checkpoint} : ctx' = [ctx EXCEPT !.checkpoint = c]
  /\ moved' = TRUE
  /\ UNCHANGED <<stage, original, tier, findings, pending, executed, decision>>

Next ==
  RouteAndValidate \/ ExecuteCompensation \/ DecideAtOnce \/ Recheck \/ CheckpointMoves

Spec == Init /\ [][Next]_vars
-----------------------------------------------------------------------------
Stages == {"received", "compensating", "decided"}

FindingCodes ==
  {"missing_evidence", "contradictory_evidence", "unsupported_causal_assumption",
   "compute_tier_exceeds_policy", "external_not_allowed", "resource_pressure_limit",
   "high_risk_action", "action_not_permitted",
   "unbounded_autonomy_without_agent_policy", "autonomy_degraded_by_policy",
   "critical_action_without_policy", "agent_action_forbidden",
   "agent_tool_forbidden", "agent_budget_exhausted", "agent_step_limit_exceeded",
   "human_approval_required", "critical_action_without_validated_plan",
   "critical_action_without_rollback_plan"}

FindingType ==
  [code: FindingCodes, status: {"warn", "fail"}, kind: EvidenceKinds \cup {"none"}]

ActionType == [finding: FindingType, status: {"applied", "blocked"}]

Failing(fs) == {f \in fs : f.status = "fail"}

TypeOK ==
  /\ stage \in Stages
  /\ original \in Contexts
  /\ ctx \in Context
  /\ ctx = [original EXCEPT !.evidence = ctx.evidence, !.checkpoint = ctx.checkpoint]
  /\ tier \in 0..3
  /\ findings \subseteq FindingType
  /\ pending \cup executed \subseteq ActionType
  /\ decision \in Decisions \cup {"none"}
  /\ moved \in BOOLEAN

\* A critical action goes ahead only with every piece of evidence it requires,
\* no contradictory evidence, an agent policy and, unless it is itself the way
\* back, a validated plan and a rollback plan; whatever the compensations did
\* and whatever other processes saved meanwhile (validators.py, evaluate).
CriticalNeedsProof ==
  stage = "decided" /\ IsCritical(ctx) /\ decision # "block" =>
    /\ original.required \subseteq ctx.evidence
    /\ "conflict" \notin ctx.evidence
    /\ ctx.agent.present
    /\ ctx.action \notin {"rollback", "shutdown"} =>
         {"validated_plan", "rollback_plan"} \subseteq ctx.evidence

\* No compensation can talk the layer into a high-risk action: it is blocked
\* on every path through the two passes (validators._risk, compensations._blocks).
HighRiskBlocked ==
  stage = "decided" /\ original.risk >= 80 /\ original.action \notin RiskExemptActions
    => decision = "block"

\* Compensations never manufacture proof: a validated plan, vital signs or the
\* absence of a conflict cannot come from _execute_compensations, and the draft
\* plan it writes is not taken for a validated one.
NoFabricatedProof ==
  /\ ctx.evidence \cap {"validated_plan", "vital_signs", "conflict"}
       = original.evidence \cap {"validated_plan", "vital_signs", "conflict"}
  /\ "human_approval" \in ctx.evidence \ original.evidence => original.humanApproved

\* The route never leaves the policy: the tier is within the ceiling, the
\* external tier needs permission, and under pressure only tier 0 runs.  The
\* validators' compute_tier_exceeds_policy and external_not_allowed, and the
\* compensations that answer them, are therefore never reached (router.route).
RouteWithinPolicy ==
  stage # "received" =>
    /\ tier <= original.maxTier
    /\ tier = 3 => original.allowExternal
    /\ original.pressure >= 85 => tier = 0

\* A non-critical action is blocked only for a reason the matrix names as
\* blocking, already found by the first validation: what the compensations
\* change never turns a degraded action into a blocked one.
BlockedOnlyForCause ==
  stage = "decided" /\ decision = "block" /\ ~IsCritical(original) =>
    \E f \in Validate(original, Route(original)) : Blocks(original, f)

\* The second validation finds no failure the first one did not find: recovering
\* evidence, and the new route it leads to, only removes failures (evaluate).
RecheckOnlyImproves ==
  [][stage = "compensating" /\ stage' = "decided" => Failing(findings') \subseteq Failing(findings)]_vars

\* Executed one compensation at a time, the evaluation decides what the atomic
\* form decides, as long as no other process saves a checkpoint meanwhile.
AgreesWithEvaluate ==
  stage = "decided" /\ ~moved => decision = Evaluate(original)

\* The compensation for missing evidence is to reject the action if the evidence
\* is still missing (compensations.py, reject_if_still_missing): an action whose
\* second validation finds no failure at all is not blocked.
RecoveredEvidenceUnblocks ==
  stage = "decided" /\ Failing(findings) = {} => decision # "block"
=============================================================================
