----------------------------- MODULE Conjunction -----------------------------
(***************************************************************************)
(* The operational conjunction layer, runtime/conjunction: the compute     *)
(* router, the validator stack, the compensation matrix and the decision   *)
(* that the service derives from them.  evaluate(context) keeps no state   *)
(* of its own, so the layer is a set of operators on a context; the state  *)
(* machine that runs it stage by stage is module ConjunctionCycle.         *)
(*                                                                         *)
(* Evidence is its kind; the conflict flag of a payload counts as an item  *)
(* of kind "conflict".  Confidence scores, traces, reasons and cost        *)
(* estimates are left out: no decision reads them.  A tier is its rank.    *)
(***************************************************************************)
EXTENDS Integers

EvidenceKinds ==
  {"vital_signs", "causal_signature", "memory_rag", "healthy_checkpoint",
   "rollback_plan", "validated_plan", "human_approval", "execution_plan",
   "conflict"}

CriticalActions == {"self_modify", "consult_external", "rollback", "shutdown"}

RiskExemptActions == {"observe", "sleep", "rollback", "quarantine", "shutdown"}

Decisions == {"allow", "allow_with_compensation", "degrade", "block"}

\* is_critical_action
IsCritical(ctx) == ctx.action \in CriticalActions

MissingEvidence(ctx) == ctx.required \ ctx.evidence
-----------------------------------------------------------------------------
(* Compute router *)

\* The policy ceiling, lowered when the GPU has no memory left.
EffectiveMaxTier(ctx) ==
  IF ctx.vramSaturated /\ ctx.maxTier > 1 THEN 1 ELSE ctx.maxTier

\* A variant: the preferred tier is taken as it is.
Unbounded(ctx, preferred) == preferred

Bounded(ctx, preferred) ==
  IF preferred > EffectiveMaxTier(ctx) THEN EffectiveMaxTier(ctx) ELSE preferred

Route(ctx) ==
  IF ctx.pressure >= 85 THEN 0
  ELSE IF MissingEvidence(ctx) # {} THEN Bounded(ctx, 1)
  ELSE IF IsCritical(ctx) THEN Bounded(ctx, 0)
  ELSE IF ctx.causal = "unsupported" THEN Bounded(ctx, 1)
  ELSE IF ctx.causal = "supported" \/ ctx.task = "causal_decision"
         THEN Bounded(ctx, 2)
  ELSE IF ctx.uncertainty >= 75 /\ ctx.allowExternal /\ EffectiveMaxTier(ctx) >= 3
         THEN 3
  ELSE IF ctx.complexity <= 25 /\ ctx.uncertainty <= 45 THEN 0
  ELSE Bounded(ctx, 1)
-----------------------------------------------------------------------------
(* Validator stack.  A finding is its code, its status and, for missing    *)
(* evidence, the kind that is missing.                                     *)

Finding(code, status) == [code |-> code, status |-> status, kind |-> "none"]

When(condition, finding) == IF condition THEN {finding} ELSE {}

\* A variant: missing evidence is never more than a warning.
EvidenceWarnings(ctx) ==
  {[code |-> "missing_evidence", status |-> "warn", kind |-> k] : k \in MissingEvidence(ctx)}
  \cup When("conflict" \in ctx.evidence, Finding("contradictory_evidence", "fail"))

EvidenceFindings(ctx) ==
  {[code   |-> "missing_evidence",
    status |-> IF IsCritical(ctx) THEN "fail" ELSE "warn",
    kind   |-> k] : k \in MissingEvidence(ctx)}
  \cup When("conflict" \in ctx.evidence, Finding("contradictory_evidence", "fail"))

CausalFindings(ctx) ==
  When(ctx.causal = "unsupported",
       Finding("unsupported_causal_assumption",
               IF ctx.task \in {"causal_decision", "self_modification"}
                 THEN "fail" ELSE "warn"))

ConstraintFindings(ctx, tier) ==
  When(tier > ctx.maxTier, Finding("compute_tier_exceeds_policy", "fail"))
  \cup When(tier = 3 /\ ~ctx.allowExternal, Finding("external_not_allowed", "fail"))
  \cup When(ctx.pressure >= 85,
            Finding("resource_pressure_limit", IF tier = 0 THEN "warn" ELSE "fail"))

RiskFindings(ctx) ==
  When(ctx.risk >= 80 /\ ctx.action \notin RiskExemptActions,
       Finding("high_risk_action", "fail"))
  \cup When(ctx.action \notin ctx.permitted, Finding("action_not_permitted", "fail"))

\* active_mode is governed_unbounded only if policy_authorized: resolve sets both.
AutonomyFindings(ctx) ==
  When(ctx.autonomy.active = "governed_unbounded" /\ ~ctx.agent.present,
       Finding("unbounded_autonomy_without_agent_policy", "fail"))
  \cup When(ctx.autonomy.wantsUnbounded /\ ctx.autonomy.active = "bounded",
            Finding("autonomy_degraded_by_policy", "warn"))

\* _agent_execution
AgentFindings(ctx) ==
  LET planExempt == {"rollback", "shutdown"}
      agent == ctx.agent
  IN  IF ~agent.present
        THEN When(IsCritical(ctx), Finding("critical_action_without_policy", "fail"))
        ELSE When(ctx.action \in agent.prohibited \/ ctx.action \notin agent.allowed,
                  Finding("agent_action_forbidden", "fail"))
             \cup When(ctx.toolForbidden, Finding("agent_tool_forbidden", "fail"))
             \cup When(agent.exhausted, Finding("agent_budget_exhausted", "fail"))
             \cup When(agent.maxSteps > 0 /\ ctx.agentSteps > agent.maxSteps,
                       Finding("agent_step_limit_exceeded", "fail"))
             \cup When(ctx.action \in agent.humanApproval
                         /\ "human_approval" \notin ctx.evidence,
                       Finding("human_approval_required", "fail"))
             \cup When(IsCritical(ctx) /\ ctx.action \notin planExempt
                         /\ "validated_plan" \notin ctx.evidence,
                       Finding("critical_action_without_validated_plan", "fail"))
             \cup When(IsCritical(ctx) /\ ctx.action \notin planExempt
                         /\ "rollback_plan" \notin ctx.evidence,
                       Finding("critical_action_without_rollback_plan", "fail"))

\* validate: the findings that are not "validation_passed".
Validate(ctx, tier) ==
  EvidenceFindings(ctx) \cup CausalFindings(ctx) \cup ConstraintFindings(ctx, tier)
  \cup RiskFindings(ctx) \cup AutonomyFindings(ctx) \cup AgentFindings(ctx)
-----------------------------------------------------------------------------
(* Compensation matrix.  The compensation code is a function of the        *)
(* finding's code, so an action is the finding it answers and a status.    *)

\* A variant: only what speaks against a critical action blocks.
BlocksCritical(ctx, finding) == finding.status = "fail" /\ IsCritical(ctx)

Blocks(ctx, finding) ==
  \/ finding.status = "fail" /\ IsCritical(ctx)
  \/ finding.code \in {"contradictory_evidence", "high_risk_action",
                       "action_not_permitted", "agent_action_forbidden",
                       "agent_tool_forbidden", "agent_budget_exhausted",
                       "agent_step_limit_exceeded", "human_approval_required"}

Compensate(ctx, findings) ==
  {[finding |-> f, status |-> IF Blocks(ctx, f) THEN "blocked" ELSE "applied"] :
     f \in findings}

\* _recover_evidence: what the storage can still supply.  ctx.checkpoint is
\* the newest life checkpoint of the run: "none", "unhealthy" or "healthy".
Recoverable(ctx, kind) ==
  /\ kind \notin ctx.evidence
  /\ \/ kind = "memory_rag" /\ ctx.memoryHits
     \/ kind = "causal_signature" /\ ctx.scenarioKnown
     \/ kind = "healthy_checkpoint" /\ ctx.checkpoint = "healthy"
     \/ kind = "rollback_plan" /\ ctx.checkpoint # "none"
     \/ kind = "human_approval" /\ ctx.humanApproved

\* Variants: what is found replaces the evidence; what is found is no longer
\* required.
OnlyEvidence(ctx, kinds) == IF kinds = {} THEN ctx ELSE [ctx EXCEPT !.evidence = kinds]
WithoutRequired(ctx, kinds) == [ctx EXCEPT !.required = @ \ kinds]

WithEvidence(ctx, kinds) == [ctx EXCEPT !.evidence = @ \cup kinds]

\* A variant: the draft passes for a validated plan.
ValidatedDraft == "validated_plan"

\* The kind of the draft plan require_plan_validation leaves behind.
DraftPlan == "execution_plan"

\* The kind of evidence a compensation looks up, if it looks one up.
SoughtKind(finding) ==
  CASE finding.code = "missing_evidence" -> finding.kind
    [] finding.code = "critical_action_without_rollback_plan" -> "rollback_plan"
    [] finding.code = "human_approval_required" -> "human_approval"
    [] OTHER -> "none"

\* _execute_compensations runs the actions in the order of the validators, so
\* missing evidence is recovered before the agent policy's actions look.  The
\* actions that lower the compute policy are left out: they answer findings
\* that no context gets (RouteWithinPolicy, module ConjunctionCycle).
Expanded(ctx, actions) ==
  WithEvidence(ctx, {k \in EvidenceKinds :
    /\ Recoverable(ctx, k)
    /\ \E a \in actions : a.finding.code = "missing_evidence" /\ a.finding.kind = k})

\* A variant: every compensation looks at the context as it was received.
ExecutedAtOnce(ctx, actions) ==
  {IF Recoverable(ctx, SoughtKind(a.finding))
     THEN [a EXCEPT !.status = "applied"] ELSE a : a \in actions}

Executed(ctx, actions) ==
  LET expanded == Expanded(ctx, actions)
      At(f) == IF f.code = "missing_evidence" THEN ctx ELSE expanded
  IN  {IF Recoverable(At(a.finding), SoughtKind(a.finding))
         THEN [a EXCEPT !.status = "applied"] ELSE a : a \in actions}

Compensated(ctx, actions) ==
  LET codes == {a.finding.code : a \in actions}
      sought == {SoughtKind(a.finding) : a \in actions}
      draft == IF "critical_action_without_validated_plan" \in codes
                 THEN {DraftPlan} ELSE {}
  IN  WithEvidence(ctx, draft \cup {k \in sought : Recoverable(ctx, k)})
-----------------------------------------------------------------------------
(* The service *)

\* _merge_compensation_actions merges by code and finding code and keeps a
\* "blocked" of either side.  Of several missing_evidence actions only the last
\* executed one is kept, but one that stays blocked is blocked again in the
\* followup, so the union of the two sides has the same statuses.
Merge(executed, followup) == executed \cup followup

\* A variant: a failed validation blocks every action.
StrictDecision(ctx, findings, actions) ==
  IF \/ \E a \in actions : a.status = "blocked"
     \/ \E f \in findings : f.status = "fail"
    THEN "block"
  ELSE IF actions # {} THEN "allow_with_compensation" ELSE "allow"

FinalDecision(ctx, findings, actions) ==
  IF \E a \in actions : a.status = "blocked" THEN "block"
  ELSE IF \E f \in findings : f.status = "fail"
         THEN IF IsCritical(ctx) THEN "block" ELSE "degrade"
  ELSE IF actions # {} THEN "allow_with_compensation"
  ELSE "allow"

\* evaluate: route, validate, compensate, then route and validate again on
\* what the compensations left.
Evaluate(ctx) ==
  LET actions  == Compensate(ctx, Validate(ctx, Route(ctx)))
      after    == Compensated(ctx, actions)
      findings == Validate(after, Route(after))
      merged   == Merge(Executed(ctx, actions), Compensate(after, findings))
  IN  IF actions = {} THEN "allow" ELSE FinalDecision(after, findings, merged)
-----------------------------------------------------------------------------
(* AutonomyPolicy.resolve *)

Autonomy(wantsUnbounded, risk, pressure, purity) ==
  [wantsUnbounded |-> wantsUnbounded,
   active |-> IF wantsUnbounded /\ risk < 80 /\ pressure < 85 /\ purity >= 65
                THEN "governed_unbounded" ELSE "bounded"]
=============================================================================
