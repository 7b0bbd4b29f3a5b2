-------------------------- MODULE ConjunctionProofs --------------------------
(***************************************************************************)
(* What one evaluation by the operational conjunction layer guarantees for *)
(* every set of actions, every set of contexts and whatever checkpoints    *)
(* other processes save meanwhile.                                         *)
(***************************************************************************)
EXTENDS ConjunctionCycle, TLAPS

-----------------------------------------------------------------------------
(* The router *)

\* The route never leaves the policy of the context it is given (router.route).
LEMMA RouteLemma ==
  ASSUME NEW c \in Context
  PROVE  /\ Route(c) \in 0..3
         /\ Route(c) <= c.maxTier
         /\ Route(c) = 3 => c.allowExternal
         /\ c.pressure >= 85 => Route(c) = 0
<1>1. /\ c.maxTier \in 0..3 /\ c.pressure \in 0..100 /\ c.uncertainty \in 0..100
      /\ c.complexity \in 0..100 /\ c.allowExternal \in BOOLEAN
      /\ c.vramSaturated \in BOOLEAN
  BY DEF Context
<1>2. EffectiveMaxTier(c) \in 0..3 /\ EffectiveMaxTier(c) <= c.maxTier
  BY <1>1 DEF EffectiveMaxTier
<1>3. \A n \in 0..2 : Bounded(c, n) \in 0..2 /\ Bounded(c, n) <= c.maxTier
  BY <1>1, <1>2 DEF Bounded
<1>4. QED
  BY <1>1, <1>2, <1>3 DEF Route

-----------------------------------------------------------------------------
(* Types *)

\* Every finding of the validator stack is a well-formed finding.
LEMMA ValidateType ==
  ASSUME NEW c \in Context, NEW t \in 0..3
  PROVE  Validate(c, t) \subseteq FindingType
<1>1. \A code \in FindingCodes, status \in {"warn", "fail"} :
        Finding(code, status) \in FindingType
  BY DEF Finding, FindingType
<1>2. EvidenceFindings(c) \subseteq FindingType
  <2>1. MissingEvidence(c) \subseteq EvidenceKinds
    BY DEF MissingEvidence, Context
  <2>2. \A k \in EvidenceKinds, s \in {"warn", "fail"} :
          [code |-> "missing_evidence", status |-> s, kind |-> k] \in FindingType
    BY DEF FindingType, FindingCodes
  <2>3. Finding("contradictory_evidence", "fail") \in FindingType
    BY <1>1 DEF FindingCodes
  <2>4. QED
    BY <2>1, <2>2, <2>3 DEF EvidenceFindings, When
<1>3. CausalFindings(c) \subseteq FindingType
  BY <1>1 DEF CausalFindings, When, FindingCodes
<1>4. ConstraintFindings(c, t) \subseteq FindingType
  BY <1>1 DEF ConstraintFindings, When, FindingCodes
<1>5. RiskFindings(c) \subseteq FindingType
  BY <1>1 DEF RiskFindings, When, FindingCodes
<1>6. AutonomyFindings(c) \subseteq FindingType
  BY <1>1 DEF AutonomyFindings, When, FindingCodes
<1>7. AgentFindings(c) \subseteq FindingType
  BY <1>1 DEF AgentFindings, When, FindingCodes
<1>8. QED
  BY <1>2, <1>3, <1>4, <1>5, <1>6, <1>7 DEF Validate

\* The compensations of well-formed findings are well-formed.
LEMMA CompensateType ==
  ASSUME NEW c, NEW fs \in SUBSET FindingType
  PROVE  Compensate(c, fs) \subseteq ActionType
  BY DEF Compensate, ActionType

\* A compensation looks for a kind of evidence, and leaves a context behind.
LEMMA SoughtType ==
  ASSUME NEW f \in FindingType
  PROVE  SoughtKind(f) \in EvidenceKinds \cup {"none"}
  BY DEF SoughtKind, FindingType, EvidenceKinds

\* Evidence added to a context makes a context.
LEMMA WithEvidenceType ==
  ASSUME NEW c \in Context, NEW kinds \in SUBSET EvidenceKinds
  PROVE  WithEvidence(c, kinds) \in Context
<1> DEFINE d == WithEvidence(c, kinds)
<1>1. d = [c EXCEPT !.evidence = c.evidence \cup kinds]
  BY DEF WithEvidence
<1>2. c.evidence \cup kinds \in SUBSET EvidenceKinds
  BY DEF Context
<1>3. QED
  BY <1>1, <1>2 DEF Context

\* Nothing is recovered for a finding that is not answered by a look-up.
LEMMA NothingSought ==
  ASSUME NEW c PROVE ~Recoverable(c, "none")
  BY DEF Recoverable

\* The evidence one compensation adds: what it finds and the draft it writes.
LEMMA GainedType ==
  ASSUME NEW c, NEW f \in FindingType, NEW plan \in BOOLEAN
  PROVE  When(Recoverable(c, SoughtKind(f)), SoughtKind(f)) \cup When(plan, DraftPlan)
           \in SUBSET EvidenceKinds
<1>1. Recoverable(c, SoughtKind(f)) => SoughtKind(f) \in EvidenceKinds
  BY SoughtType, NothingSought
<1>2. DraftPlan \in EvidenceKinds
  BY DEF DraftPlan, EvidenceKinds
<1>3. QED
  BY <1>1, <1>2 DEF When

\* The variables keep their types, and the compensations touch nothing of the
\* context but its evidence (evaluate, _execute_compensation).
THEOREM TypeCorrect == Spec => []TypeOK
<1>1. Init => TypeOK
  <2> SUFFICES ASSUME Init PROVE TypeOK
    OBVIOUS
  <2>1. original \in Context /\ ctx = original
    BY ContextsAssumption DEF Init
  <2>2. ctx = [original EXCEPT !.evidence = ctx.evidence, !.checkpoint = ctx.checkpoint]
    BY <2>1 DEF Context
  <2>3. findings \subseteq FindingType /\ pending \cup executed \subseteq ActionType
    BY DEF Init
  <2>4. QED
    <3>1. moved \in BOOLEAN
      BY DEF Init
    <3>2. QED
      BY <2>1, <2>2, <2>3, <3>1 DEF Init, TypeOK, Stages
<1>2. TypeOK /\ [Next]_vars => TypeOK'
  <2> SUFFICES ASSUME TypeOK, [Next]_vars PROVE TypeOK'
    OBVIOUS
  <2> USE DEF TypeOK
  <2>1. CASE RouteAndValidate
    <3>1. Route(ctx) \in 0..3
      BY RouteLemma
    <3>2. Validate(ctx, Route(ctx)) \subseteq FindingType
      BY <3>1, ValidateType
    <3>3. Compensate(ctx, Validate(ctx, Route(ctx))) \subseteq ActionType
      BY <3>2, CompensateType
    <3>4. QED
      BY <2>1, <3>1, <3>2, <3>3 DEF RouteAndValidate, Stages
  <2>2. CASE ExecuteCompensation
    <3>1. PICK a \in pending :
            LET kind == SoughtKind(a.finding)
                found == Recoverable(ctx, kind)
                plan == a.finding.code = "critical_action_without_validated_plan"
            IN  /\ ctx' = WithEvidence(ctx, When(found, kind) \cup When(plan, DraftPlan))
                /\ executed' = executed \cup
                     {IF found THEN [a EXCEPT !.status = "applied"] ELSE a}
                /\ pending' = pending \ {a}
      BY <2>2 DEF ExecuteCompensation
    <3>2. a \in ActionType /\ a.finding \in FindingType
      BY DEF ActionType
    <3>3. PICK kinds \in SUBSET EvidenceKinds : ctx' = WithEvidence(ctx, kinds)
      <4>1. (a.finding.code = "critical_action_without_validated_plan") \in BOOLEAN
        OBVIOUS
      <4>2. QED
        BY <3>1, <3>2, <4>1, GainedType
    <3>4. ctx' \in Context
      BY <3>3, WithEvidenceType
    <3>5. ctx' = [original EXCEPT !.evidence = ctx'.evidence, !.checkpoint = ctx'.checkpoint]
      BY <3>3, ContextsAssumption DEF WithEvidence, Context
    <3>6. pending' \cup executed' \subseteq ActionType
      BY <3>1, <3>2 DEF ActionType
    <3>7. QED
      BY <2>2, <3>4, <3>5, <3>6 DEF ExecuteCompensation
  <2>3. CASE DecideAtOnce
    <3>1. decision' \in Decisions
      BY <2>3 DEF DecideAtOnce, FinalDecision, Decisions
    <3>2. QED
      BY <2>3, <3>1 DEF DecideAtOnce, Stages
  <2>4. CASE Recheck
    <3>1. Route(ctx) \in 0..3
      BY RouteLemma
    <3>2. Validate(ctx, Route(ctx)) \subseteq FindingType
      BY <3>1, ValidateType
    <3>3. decision' \in Decisions
      BY <2>4 DEF Recheck, FinalDecision, Decisions
    <3>4. QED
      BY <2>4, <3>1, <3>2, <3>3 DEF Recheck, Stages
  <2>5. CASE CheckpointMoves
    <3>1. PICK k \in Checkpoints : ctx' = [ctx EXCEPT !.checkpoint = k]
      BY <2>5 DEF CheckpointMoves
    <3>2. ctx' \in Context
      BY <3>1, ContextsAssumption DEF Context
    <3>3. ctx' = [original EXCEPT !.evidence = ctx'.evidence, !.checkpoint = ctx'.checkpoint]
      BY <3>1, ContextsAssumption DEF Context
    <3>4. QED
      BY <2>5, <3>2, <3>3 DEF CheckpointMoves
  <2>6. CASE UNCHANGED vars
    BY <2>6 DEF vars
  <2>7. QED
    BY <2>1, <2>2, <2>3, <2>4, <2>5, <2>6 DEF Next
<1>3. QED
  BY <1>1, <1>2, PTL DEF Spec

-----------------------------------------------------------------------------
(* The policy *)

\* What the compensations leave alone of the context they were given.
LEMMA FieldsKept ==
  ASSUME TypeOK
  PROVE  /\ original \in Context
         /\ ctx.action = original.action /\ ctx.task = original.task
         /\ ctx.required = original.required /\ ctx.causal = original.causal
         /\ ctx.risk = original.risk /\ ctx.pressure = original.pressure
         /\ ctx.uncertainty = original.uncertainty
         /\ ctx.complexity = original.complexity
         /\ ctx.vramSaturated = original.vramSaturated
         /\ ctx.maxTier = original.maxTier
         /\ ctx.allowExternal = original.allowExternal
         /\ ctx.permitted = original.permitted /\ ctx.agent = original.agent
         /\ ctx.agentSteps = original.agentSteps
         /\ ctx.toolForbidden = original.toolForbidden
         /\ ctx.autonomy = original.autonomy
         /\ ctx.humanApproved = original.humanApproved
<1>1. /\ original \in Context
      /\ ctx = [original EXCEPT !.evidence = ctx.evidence,
                                !.checkpoint = ctx.checkpoint]
  BY ContextsAssumption DEF TypeOK
<1>2. QED
  BY <1>1 DEF Context

\* The tier stays within the policy the evaluation was asked under, for every
\* context and through every compensation (router.route).
THEOREM PolicyHolds == Spec => []RouteWithinPolicy
<1>1. Init => RouteWithinPolicy
  BY DEF Init, RouteWithinPolicy
<1>2. TypeOK /\ RouteWithinPolicy /\ [Next]_vars => RouteWithinPolicy'
  <2> SUFFICES ASSUME TypeOK, RouteWithinPolicy, [Next]_vars
               PROVE  RouteWithinPolicy'
    OBVIOUS
  <2>1. ctx \in Context
    BY DEF TypeOK
  <2>2. CASE RouteAndValidate
    BY <2>1, <2>2, RouteLemma, FieldsKept DEF RouteAndValidate, RouteWithinPolicy
  <2>3. CASE Recheck
    BY <2>1, <2>3, RouteLemma, FieldsKept DEF Recheck, RouteWithinPolicy
  <2>4. CASE ExecuteCompensation
    BY <2>4 DEF ExecuteCompensation, RouteWithinPolicy
  <2>5. CASE DecideAtOnce
    BY <2>5 DEF DecideAtOnce, RouteWithinPolicy
  <2>6. CASE CheckpointMoves
    BY <2>6 DEF CheckpointMoves, RouteWithinPolicy
  <2>7. CASE UNCHANGED vars
    BY <2>7 DEF vars, RouteWithinPolicy
  <2>8. QED
    BY <2>2, <2>3, <2>4, <2>5, <2>6, <2>7 DEF Next
<1>3. QED
  BY <1>1, <1>2, TypeCorrect, PTL DEF Spec

-----------------------------------------------------------------------------
(* No compensation talks the layer into a high-risk action *)

HighRisk(c) == c.risk >= 80 /\ c.action \notin RiskExemptActions

\* While it compensates, the layer holds a compensation that stays blocked.
HighRiskHeld ==
  stage = "compensating" /\ HighRisk(original) =>
    \E a \in pending \cup executed :
      a.finding.code = "high_risk_action" /\ a.status = "blocked"

\* A high-risk action yields a blocked compensation in every validation.
LEMMA HighRiskCompensated ==
  ASSUME NEW c, HighRisk(c), NEW t
  PROVE  \E a \in Compensate(c, Validate(c, t)) :
           a.finding.code = "high_risk_action" /\ a.status = "blocked"
<1> DEFINE f == Finding("high_risk_action", "fail")
           a == [finding |-> f, status |-> "blocked"]
<1>1. f \in Validate(c, t)
  BY DEF HighRisk, Validate, RiskFindings, When
<1>2. Blocks(c, f)
  BY DEF Blocks, Finding
<1>3. a \in Compensate(c, Validate(c, t))
  BY <1>1, <1>2 DEF Compensate
<1>4. a.finding.code = "high_risk_action" /\ a.status = "blocked"
  BY DEF Finding
<1>5. QED
  BY <1>3, <1>4

\* Whatever the compensations find, a high-risk action that is not exempt is
\* blocked (validators._risk, compensations._blocks, _final_decision).
THEOREM HighRiskIsBlocked == Spec => []HighRiskBlocked
<1> DEFINE Inv == HighRiskHeld /\ HighRiskBlocked
<1>1. Init => Inv
  BY DEF Init, HighRiskHeld, HighRiskBlocked
<1>2. TypeOK /\ Inv /\ [Next]_vars => Inv'
  <2> SUFFICES ASSUME TypeOK, HighRiskHeld, HighRiskBlocked, [Next]_vars
               PROVE  HighRiskHeld' /\ HighRiskBlocked'
    OBVIOUS
  <2>1. HighRisk(ctx) <=> HighRisk(original)
    BY FieldsKept DEF HighRisk
  <2>2. CASE RouteAndValidate
    BY <2>1, <2>2, HighRiskCompensated
    DEF RouteAndValidate, HighRiskHeld, HighRiskBlocked, HighRisk
  <2>3. CASE ExecuteCompensation
    <3>1. PICK a \in pending :
            /\ executed' = executed \cup
                 {IF Recoverable(ctx, SoughtKind(a.finding))
                    THEN [a EXCEPT !.status = "applied"] ELSE a}
            /\ pending' = pending \ {a}
      BY <2>3 DEF ExecuteCompensation
    <3>2. a.finding.code = "high_risk_action" => a \in executed'
      <4>1. a.finding.code = "high_risk_action" => SoughtKind(a.finding) = "none"
        BY DEF SoughtKind
      <4>2. QED
        BY <3>1, <4>1, NothingSought
    <3>3. QED
      BY <2>3, <3>1, <3>2 DEF ExecuteCompensation, HighRiskHeld, HighRiskBlocked, HighRisk
  <2>4. CASE DecideAtOnce
    BY <2>4 DEF DecideAtOnce, HighRiskHeld, HighRiskBlocked, HighRisk
  <2>5. CASE Recheck
    <3>1. HighRisk(original) => decision' = "block"
      BY <2>5 DEF Recheck, HighRiskHeld, FinalDecision, Merge
    <3>2. QED
      BY <2>5, <3>1 DEF Recheck, HighRiskHeld, HighRiskBlocked, HighRisk
  <2>6. CASE CheckpointMoves
    BY <2>6 DEF CheckpointMoves, HighRiskHeld, HighRiskBlocked
  <2>7. CASE UNCHANGED vars
    BY <2>7 DEF vars, HighRiskHeld, HighRiskBlocked
  <2>8. QED
    BY <2>2, <2>3, <2>4, <2>5, <2>6, <2>7 DEF Next
<1>3. QED
  BY <1>1, <1>2, TypeCorrect, PTL DEF Spec

-----------------------------------------------------------------------------
(* A critical action needs its proof *)

\* What a critical action that goes ahead must have.
Proof(c) ==
  /\ c.required \subseteq c.evidence
  /\ "conflict" \notin c.evidence
  /\ c.agent.present
  /\ c.action \notin {"rollback", "shutdown"} =>
       {"validated_plan", "rollback_plan"} \subseteq c.evidence

\* If nothing was found to compensate, a critical action has its proof.
NothingFound ==
  stage = "compensating" /\ pending = {} /\ executed = {} /\ IsCritical(ctx)
    => Proof(ctx)

\* A validation of a critical action that fails nothing has seen its proof.
LEMMA ValidationDemandsProof ==
  ASSUME NEW c \in Context, NEW t, IsCritical(c), Failing(Validate(c, t)) = {}
  PROVE  Proof(c)
<1>1. \A f \in Validate(c, t) : f.status # "fail"
  BY DEF Failing
<1>2. c.required \subseteq c.evidence
  <2> SUFFICES ASSUME NEW k \in c.required, k \notin c.evidence PROVE FALSE
    OBVIOUS
  <2> DEFINE f == [code |-> "missing_evidence", status |-> "fail", kind |-> k]
  <2>1. f \in EvidenceFindings(c)
    BY DEF EvidenceFindings, MissingEvidence
  <2>2. f \in Validate(c, t)
    BY <2>1 DEF Validate
  <2>3. QED
    BY <1>1, <2>2
<1>3. \A code \in FindingCodes : Finding(code, "fail") \notin Validate(c, t)
  BY <1>1 DEF Finding
<1>4. "conflict" \notin c.evidence
  BY <1>3 DEF Validate, EvidenceFindings, When, FindingCodes
<1>5. c.agent.present
  BY <1>3 DEF Validate, AgentFindings, When, FindingCodes
<1>6. c.action \notin {"rollback", "shutdown"} =>
        {"validated_plan", "rollback_plan"} \subseteq c.evidence
  BY <1>3, <1>5 DEF Validate, AgentFindings, When, FindingCodes
<1>7. QED
  BY <1>2, <1>4, <1>5, <1>6 DEF Proof

\* A critical action is not let through without its proof, whatever the
\* compensations recovered and other processes saved meanwhile (evaluate).
THEOREM CriticalHasProof == Spec => []CriticalNeedsProof
<1> DEFINE Inv == NothingFound /\ CriticalNeedsProof
<1>1. Init => Inv
  BY DEF Init, NothingFound, CriticalNeedsProof
<1>2. TypeOK /\ Inv /\ [Next]_vars => Inv'
  <2> SUFFICES ASSUME TypeOK, NothingFound, CriticalNeedsProof, [Next]_vars
               PROVE  NothingFound' /\ CriticalNeedsProof'
    OBVIOUS
  <2>1. ctx \in Context
    BY DEF TypeOK
  <2>2. CASE RouteAndValidate
    <3>1. pending' = {} => Failing(Validate(ctx, Route(ctx))) = {}
      BY <2>2 DEF RouteAndValidate, Compensate, Failing
    <3>2. QED
      BY <2>1, <2>2, <3>1, ValidationDemandsProof
      DEF RouteAndValidate, NothingFound, CriticalNeedsProof
  <2>3. CASE ExecuteCompensation
    BY <2>3 DEF ExecuteCompensation, NothingFound, CriticalNeedsProof
  <2>4. CASE DecideAtOnce
    <3>1. IsCritical(ctx) => Proof(ctx)
      BY <2>4 DEF DecideAtOnce, NothingFound
    <3>2. QED
      BY <2>4, <3>1, FieldsKept
      DEF DecideAtOnce, NothingFound, CriticalNeedsProof, Proof
  <2>5. CASE Recheck
    <3>1. IsCritical(ctx) /\ decision' # "block" => Failing(Validate(ctx, Route(ctx))) = {}
      BY <2>5 DEF Recheck, FinalDecision, Failing
    <3>2. IsCritical(ctx) /\ decision' # "block" => Proof(ctx)
      BY <2>1, <3>1, ValidationDemandsProof
    <3>3. QED
      BY <2>5, <3>2, FieldsKept DEF Recheck, NothingFound, CriticalNeedsProof, Proof
  <2>6. CASE CheckpointMoves
    <3>1. PICK k \in Checkpoints : ctx' = [ctx EXCEPT !.checkpoint = k]
      BY <2>6 DEF CheckpointMoves
    <3>2. /\ ctx'.action = ctx.action /\ ctx'.required = ctx.required
          /\ ctx'.evidence = ctx.evidence /\ ctx'.agent = ctx.agent
      BY <2>1, <3>1 DEF Context
    <3>3. QED
      BY <2>6, <3>2
      DEF CheckpointMoves, NothingFound, CriticalNeedsProof, Proof, IsCritical
  <2>7. CASE UNCHANGED vars
    BY <2>7 DEF vars, NothingFound, CriticalNeedsProof, Proof, IsCritical
  <2>8. QED
    BY <2>2, <2>3, <2>4, <2>5, <2>6, <2>7 DEF Next
<1>3. QED
  BY <1>1, <1>2, TypeCorrect, PTL DEF Spec

-----------------------------------------------------------------------------
(* Compensations only add evidence, and never a proof *)

\* What a look-up can supply.
LEMMA RecoverableKinds ==
  ASSUME NEW c, NEW k, Recoverable(c, k)
  PROVE  /\ k \in {"memory_rag", "causal_signature", "healthy_checkpoint",
                   "rollback_plan", "human_approval"}
         /\ k = "human_approval" => c.humanApproved
  BY DEF Recoverable

EvidenceGrows == original.evidence \subseteq ctx.evidence

\* Neither a validated plan, nor vital signs, nor the absence of a conflict ever
\* comes out of the compensations, and evidence found is never lost again
\* (_recover_evidence, _with_evidence).
THEOREM NothingFabricated == Spec => [](NoFabricatedProof /\ EvidenceGrows)
<1> DEFINE Inv == NoFabricatedProof /\ EvidenceGrows
<1>1. Init => Inv
  BY DEF Init, NoFabricatedProof, EvidenceGrows
<1>2. TypeOK /\ Inv /\ [Next]_vars => Inv'
  <2> SUFFICES ASSUME TypeOK, NoFabricatedProof, EvidenceGrows, [Next]_vars
               PROVE  NoFabricatedProof' /\ EvidenceGrows'
    OBVIOUS
  <2>1. ctx \in Context
    BY DEF TypeOK
  <2>2. CASE ExecuteCompensation
    <3>1. PICK a \in pending :
            ctx' = WithEvidence(ctx,
                     When(Recoverable(ctx, SoughtKind(a.finding)), SoughtKind(a.finding))
                     \cup When(a.finding.code = "critical_action_without_validated_plan",
                               DraftPlan))
      BY <2>2 DEF ExecuteCompensation
    <3> DEFINE gain ==
          When(Recoverable(ctx, SoughtKind(a.finding)), SoughtKind(a.finding))
          \cup When(a.finding.code = "critical_action_without_validated_plan", DraftPlan)
    <3>2. /\ gain \subseteq {"memory_rag", "causal_signature", "healthy_checkpoint",
                            "rollback_plan", "human_approval", "execution_plan"}
          /\ "human_approval" \in gain => ctx.humanApproved
      BY RecoverableKinds DEF When, DraftPlan
    <3>3. ctx'.evidence = ctx.evidence \cup gain
      BY <2>1, <3>1 DEF WithEvidence, Context
    <3>4. original' = original
      BY <2>2 DEF ExecuteCompensation
    <3> HIDE DEF gain
    <3>5. QED
      BY <3>2, <3>3, <3>4, FieldsKept DEF NoFabricatedProof, EvidenceGrows
  <2>3. CASE CheckpointMoves
    <3>1. ctx'.evidence = ctx.evidence /\ original' = original
      BY <2>1, <2>3 DEF CheckpointMoves, Context
    <3>2. QED
      BY <3>1 DEF NoFabricatedProof, EvidenceGrows
  <2>4. CASE RouteAndValidate \/ DecideAtOnce \/ Recheck \/ UNCHANGED vars
    <3>1. ctx' = ctx /\ original' = original
      BY <2>4 DEF RouteAndValidate, DecideAtOnce, Recheck, vars
    <3>2. QED
      BY <3>1 DEF NoFabricatedProof, EvidenceGrows
  <2>5. QED
    BY <2>2, <2>3, <2>4 DEF Next
<1>3. QED
  BY <1>1, <1>2, TypeCorrect, PTL DEF Spec

-----------------------------------------------------------------------------
(* The second validation against the first *)

\* A context with at least the evidence of another one, and otherwise like it as
\* far as the validators look.
Supports(d, c) ==
  /\ c.evidence \subseteq d.evidence
  /\ "conflict" \in d.evidence => "conflict" \in c.evidence
  /\ d.action = c.action /\ d.task = c.task /\ d.required = c.required
  /\ d.causal = c.causal /\ d.risk = c.risk /\ d.pressure = c.pressure
  /\ d.maxTier = c.maxTier /\ d.allowExternal = c.allowExternal
  /\ d.permitted = c.permitted /\ d.agent = c.agent
  /\ d.agentSteps = c.agentSteps /\ d.toolForbidden = c.toolForbidden
  /\ d.autonomy = c.autonomy

\* A finding that fails on the better supported context was a finding already.
\* The route may have changed, but no route fails (RouteLemma).
LEMMA FailuresShrink ==
  ASSUME NEW c \in Context, NEW d \in Context, Supports(d, c),
         NEW f \in Validate(d, Route(d)), f.status = "fail"
  PROVE  f \in Validate(c, Route(c))
<1>1. IsCritical(d) <=> IsCritical(c)
  BY DEF Supports, IsCritical
<1>2. CASE f \in EvidenceFindings(d)
  <2>1. MissingEvidence(d) \subseteq MissingEvidence(c)
    BY DEF Supports, MissingEvidence
  <2>2. f \in EvidenceFindings(c)
    BY <1>1, <1>2, <2>1 DEF EvidenceFindings, When, Supports
  <2>3. QED
    BY <2>2 DEF Validate
<1>3. CASE f \in CausalFindings(d)
  BY <1>3 DEF CausalFindings, When, Supports, Validate
<1>4. CASE f \in ConstraintFindings(d, Route(d))
  <2>1. \A code : Finding(code, "warn").status = "warn"
    BY DEF Finding
  <2>2. Route(d) \in 0..3 /\ d.maxTier \in 0..3
    BY RouteLemma DEF Context
  <2>3. QED
    BY <1>4, <2>1, <2>2, RouteLemma DEF ConstraintFindings, When
<1>5. CASE f \in RiskFindings(d)
  BY <1>5 DEF RiskFindings, When, Supports, Validate
<1>6. CASE f \in AutonomyFindings(d)
  BY <1>6 DEF AutonomyFindings, When, Supports, Validate
<1>7. CASE f \in AgentFindings(d)
  <2>1. f \in AgentFindings(c)
    BY <1>1, <1>7 DEF AgentFindings, When, Supports
  <2>2. QED
    BY <2>1 DEF Validate
<1>8. QED
  BY <1>2, <1>3, <1>4, <1>5, <1>6, <1>7 DEF Validate

\* Throughout an evaluation the context supports the one that was received.
LEMMA StillSupports ==
  ASSUME TypeOK, NoFabricatedProof, EvidenceGrows
  PROVE  Supports(ctx, original)
  BY FieldsKept DEF Supports, NoFabricatedProof, EvidenceGrows

\* While it compensates, the layer remembers what the first validation found.
FirstFindings ==
  stage = "compensating" => findings = Validate(original, Route(original))

\* Until the first validation nothing but the checkpoint moves.
NothingGained == stage = "received" => ctx.evidence = original.evidence

\* Route and validate do not read the checkpoint.
LEMMA SameFindings ==
  ASSUME TypeOK, ctx.evidence = original.evidence
  PROVE  Validate(ctx, Route(ctx)) = Validate(original, Route(original))
<1>1. /\ IsCritical(ctx) = IsCritical(original)
      /\ MissingEvidence(ctx) = MissingEvidence(original)
      /\ EffectiveMaxTier(ctx) = EffectiveMaxTier(original)
  BY FieldsKept DEF IsCritical, MissingEvidence, EffectiveMaxTier
<1>2. \A n : Bounded(ctx, n) = Bounded(original, n)
  BY <1>1 DEF Bounded
<1>3. Route(ctx) = Route(original)
  BY <1>1, <1>2, FieldsKept DEF Route
<1>4. EvidenceFindings(ctx) = EvidenceFindings(original)
  BY <1>1 DEF EvidenceFindings
<1>5. CausalFindings(ctx) = CausalFindings(original)
  BY FieldsKept DEF CausalFindings
<1>6. \A t : ConstraintFindings(ctx, t) = ConstraintFindings(original, t)
  BY FieldsKept DEF ConstraintFindings
<1>7. RiskFindings(ctx) = RiskFindings(original)
  BY FieldsKept DEF RiskFindings
<1>8. AutonomyFindings(ctx) = AutonomyFindings(original)
  BY FieldsKept DEF AutonomyFindings
<1>9. AgentFindings(ctx) = AgentFindings(original)
  BY <1>1, FieldsKept DEF AgentFindings
<1>10. QED
  BY <1>3, <1>4, <1>5, <1>6, <1>7, <1>8, <1>9, Zenon DEF Validate

\* Nothing is gained before the compensations, and the first findings stay what they were.
LEMMA FirstFindingsKept == Spec => [](NothingGained /\ FirstFindings)
<1> DEFINE Inv == NothingGained /\ FirstFindings
<1>1. Init => Inv
  BY DEF Init, NothingGained, FirstFindings
<1>2. TypeOK /\ Inv /\ [Next]_vars => Inv'
  <2> SUFFICES ASSUME TypeOK, NothingGained, FirstFindings, [Next]_vars
               PROVE  NothingGained' /\ FirstFindings'
    OBVIOUS
  <2>1. CASE RouteAndValidate
    BY <2>1, SameFindings DEF RouteAndValidate, NothingGained, FirstFindings
  <2>2. CASE ExecuteCompensation
    BY <2>2 DEF ExecuteCompensation, NothingGained, FirstFindings
  <2>3. CASE DecideAtOnce \/ Recheck
    BY <2>3 DEF DecideAtOnce, Recheck, NothingGained, FirstFindings
  <2>4. CASE CheckpointMoves
    <3>1. ctx'.evidence = ctx.evidence
      BY <2>4 DEF CheckpointMoves, TypeOK, Context
    <3>2. QED
      BY <2>4, <3>1 DEF CheckpointMoves, NothingGained, FirstFindings
  <2>5. CASE UNCHANGED vars
    BY <2>5 DEF vars, NothingGained, FirstFindings
  <2>6. QED
    BY <2>1, <2>2, <2>3, <2>4, <2>5 DEF Next
<1>3. QED
  BY <1>1, <1>2, TypeCorrect, PTL DEF Spec

\* The second validation finds no failure the first one did not find: recovering
\* evidence, and the new route it leads to, only removes failures (evaluate).
THEOREM RecheckImproves == Spec => RecheckOnlyImproves
<1> DEFINE Inv == TypeOK /\ NoFabricatedProof /\ EvidenceGrows /\ FirstFindings
<1>1. Inv /\ [Next]_vars =>
        (stage = "compensating" /\ stage' = "decided"
           => Failing(findings') \subseteq Failing(findings))
  <2> SUFFICES ASSUME TypeOK, NoFabricatedProof, EvidenceGrows, FirstFindings,
                      [Next]_vars, stage = "compensating", stage' = "decided"
               PROVE  Failing(findings') \subseteq Failing(findings)
    OBVIOUS
  <2>1. ctx \in Context /\ original \in Context
    BY FieldsKept DEF TypeOK
  <2>2. CASE Recheck
    <3>1. findings' = Validate(ctx, Route(ctx))
      BY <2>2 DEF Recheck
    <3>2. QED
      BY <2>1, <3>1, StillSupports, FailuresShrink DEF Failing, FirstFindings
  <2>3. CASE DecideAtOnce
    BY <2>3 DEF DecideAtOnce
  <2>4. QED
    BY <2>2, <2>3
    DEF Next, RouteAndValidate, ExecuteCompensation, CheckpointMoves, vars
<1>2. QED
  BY <1>1, TypeCorrect, NothingFabricated, FirstFindingsKept, PTL
  DEF Spec, RecheckOnlyImproves

-----------------------------------------------------------------------------
(* An action that is not critical is blocked only for cause *)

\* Of the findings on an action that is not critical, those that block are
\* failures: no warning is in the matrix's list of blocking codes (_blocks).
LEMMA BlockingFindingsFail ==
  ASSUME NEW c \in Context, NEW t, NEW f \in Validate(c, t),
         Blocks(c, f), ~IsCritical(c)
  PROVE  f.status = "fail"
<1> DEFINE blocking == {"contradictory_evidence", "high_risk_action",
                        "action_not_permitted", "agent_action_forbidden",
                        "agent_tool_forbidden", "agent_budget_exhausted",
                        "agent_step_limit_exceeded", "human_approval_required"}
<1>1. f.code \in blocking
  BY DEF Blocks
<1>2. \A code, status : Finding(code, status).code = code
                         /\ Finding(code, status).status = status
  BY DEF Finding
<1>3. CASE f \in EvidenceFindings(c)
  <2>1. \A k : [code |-> "missing_evidence", status |-> "warn", kind |-> k].code
                \notin blocking
    OBVIOUS
  <2>2. QED
    BY <1>1, <1>2, <1>3, <2>1 DEF EvidenceFindings, When
<1>4. CASE f \in CausalFindings(c) \cup ConstraintFindings(c, t)
  BY <1>1, <1>2, <1>4 DEF CausalFindings, ConstraintFindings, When
<1>5. CASE f \in RiskFindings(c) \cup AutonomyFindings(c)
  BY <1>1, <1>2, <1>5 DEF RiskFindings, AutonomyFindings, When
<1>6. CASE f \in AgentFindings(c)
  BY <1>2, <1>6 DEF AgentFindings, When
<1>7. QED
  BY <1>3, <1>4, <1>5, <1>6 DEF Validate

\* What is blocked while compensating was found by the first validation.
Causes ==
  /\ stage = "received" => executed = {}
  /\ stage = "compensating" =>
       \A a \in pending \cup executed : a.status = "blocked" =>
         /\ a.finding \in Validate(original, Route(original))
         /\ Blocks(original, a.finding)

\* An action that is not critical is blocked only for a reason the matrix names
\* as blocking and the first validation already found: the compensations never
\* turn a degraded action into a blocked one (_blocks, _final_decision).
THEOREM BlockedForCause == Spec => []BlockedOnlyForCause
<1> DEFINE Inv == Causes /\ BlockedOnlyForCause
<1>1. Init => Inv
  BY DEF Init, Causes, BlockedOnlyForCause
<1>2. TypeOK /\ NoFabricatedProof /\ EvidenceGrows /\ NothingGained /\ Inv
        /\ [Next]_vars => Inv'
  <2> SUFFICES ASSUME TypeOK, NoFabricatedProof, EvidenceGrows, NothingGained,
                      Causes, BlockedOnlyForCause, [Next]_vars
               PROVE  Causes' /\ BlockedOnlyForCause'
    OBVIOUS
  <2> DEFINE first == Validate(original, Route(original))
  <2>1. ctx \in Context /\ original \in Context
    BY FieldsKept DEF TypeOK
  <2>2. /\ IsCritical(ctx) <=> IsCritical(original)
        /\ \A f : Blocks(ctx, f) <=> Blocks(original, f)
    BY FieldsKept DEF IsCritical, Blocks
  <2>3. CASE RouteAndValidate
    <3>1. /\ original' = original /\ executed' = {} /\ stage' = "compensating"
          /\ pending' = Compensate(ctx, first)
      BY <2>3, SameFindings DEF RouteAndValidate, NothingGained, Causes
    <3>2. \A a \in pending' : a.status = "blocked" =>
            a.finding \in first /\ Blocks(original, a.finding)
      BY <2>2, <3>1 DEF Compensate
    <3>3. QED
      BY <3>1, <3>2 DEF Causes, BlockedOnlyForCause
  <2>4. CASE ExecuteCompensation
    <3>1. PICK a \in pending :
            /\ executed' = executed \cup
                 {IF Recoverable(ctx, SoughtKind(a.finding))
                    THEN [a EXCEPT !.status = "applied"] ELSE a}
            /\ pending' = pending \ {a}
      BY <2>4 DEF ExecuteCompensation
    <3>2. [a EXCEPT !.status = "applied"].status = "applied"
      BY DEF TypeOK, ActionType
    <3>3. QED
      BY <2>4, <3>1, <3>2 DEF ExecuteCompensation, Causes, BlockedOnlyForCause
  <2>5. CASE DecideAtOnce
    BY <2>2, <2>5 DEF DecideAtOnce, FinalDecision, Causes, BlockedOnlyForCause
  <2>6. CASE Recheck
    <3>1. ASSUME decision' = "block", ~IsCritical(original)
          PROVE  \E f \in first : Blocks(original, f)
      <4>1. \E a \in executed \cup Compensate(ctx, findings') : a.status = "blocked"
        BY <2>2, <2>6, <3>1 DEF Recheck, FinalDecision, Merge
      <4>2. CASE \E a \in executed : a.status = "blocked"
        BY <2>6, <4>2 DEF Recheck, Causes
      <4>3. CASE \E a \in Compensate(ctx, findings') : a.status = "blocked"
        <5>1. PICK f \in Validate(ctx, Route(ctx)) : Blocks(ctx, f)
          BY <2>6, <4>3 DEF Recheck, Compensate
        <5>2. f.status = "fail"
          BY <2>1, <2>2, <3>1, <5>1, BlockingFindingsFail
        <5>3. f \in first
          BY <2>1, <5>1, <5>2, StillSupports, FailuresShrink
        <5>4. QED
          BY <2>2, <5>1, <5>3
      <4>4. QED
        BY <4>1, <4>2, <4>3
    <3>2. QED
      BY <2>6, <3>1 DEF Recheck, Causes, BlockedOnlyForCause
  <2>7. CASE CheckpointMoves
    BY <2>7 DEF CheckpointMoves, Causes, BlockedOnlyForCause
  <2>8. CASE UNCHANGED vars
    BY <2>8 DEF vars, Causes, BlockedOnlyForCause
  <2>9. QED
    BY <2>3, <2>4, <2>5, <2>6, <2>7, <2>8 DEF Next
<1>3. QED
  BY <1>1, <1>2, TypeCorrect, NothingFabricated, FirstFindingsKept, PTL DEF Spec

-----------------------------------------------------------------------------
(* One at a time, the compensations come to what they come to at once *)

\* Evidence added twice is evidence added once.
LEMMA WithEvidenceTwice ==
  ASSUME NEW c \in Context, NEW K, NEW L
  PROVE  /\ WithEvidence(WithEvidence(c, K), L) = WithEvidence(c, K \cup L)
         /\ WithEvidence(c, {}) = c
<1> DEFINE d == WithEvidence(c, K)
<1>1. d = [c EXCEPT !.evidence = c.evidence \cup K]
  BY DEF WithEvidence
<1>2. d.evidence = c.evidence \cup K
  BY <1>1 DEF Context
<1>3. WithEvidence(d, L) = [d EXCEPT !.evidence = c.evidence \cup K \cup L]
  BY <1>2 DEF WithEvidence
<1>4. WithEvidence(d, L) = [c EXCEPT !.evidence = c.evidence \cup (K \cup L)]
  <2>1. c.evidence \cup K \cup L = c.evidence \cup (K \cup L)
    OBVIOUS
  <2>2. [d EXCEPT !.evidence = c.evidence \cup K \cup L]
          = [c EXCEPT !.evidence = c.evidence \cup K \cup L]
    BY <1>1 DEF Context
  <2>3. QED
    BY <1>3, <2>1, <2>2
<1>5. WithEvidence(c, {}) = c
  <2>1. c.evidence \cup {} = c.evidence
    OBVIOUS
  <2>2. [c EXCEPT !.evidence = c.evidence] = c
    BY DEF Context
  <2>3. QED
    BY <2>1, <2>2 DEF WithEvidence
<1>6. QED
  BY <1>4, <1>5 DEF WithEvidence

\* What can still be recovered is what could be, less what has been.
LEMMA RecoverableAfter ==
  ASSUME NEW c \in Context, NEW K, NEW k
  PROVE  Recoverable(WithEvidence(c, K), k) <=> k \notin K /\ Recoverable(c, k)
<1> DEFINE d == WithEvidence(c, K)
<1>1. /\ d.evidence = c.evidence \cup K
      /\ d.memoryHits = c.memoryHits /\ d.scenarioKnown = c.scenarioKnown
      /\ d.checkpoint = c.checkpoint /\ d.humanApproved = c.humanApproved
  BY DEF WithEvidence, Context
<1> HIDE DEF d
<1>2. Recoverable(d, k) <=> k \notin K /\ Recoverable(c, k)
  BY <1>1 DEF Recoverable
<1>3. QED
  BY <1>2 DEF d

\* The draft plan is never something that is looked up.
LEMMA DraftIsNotSought ==
  ASSUME NEW c, NEW k, Recoverable(c, k) PROVE k # DraftPlan
  BY DEF Recoverable, DraftPlan

IsMissing(a) == a.finding.code = "missing_evidence"

WritesPlan(a) == a.finding.code = "critical_action_without_validated_plan"

\* What some compensations of c add to its evidence.
Gain(c, S) ==
  When(\E a \in S : WritesPlan(a), DraftPlan)
  \cup {k \in {SoughtKind(a.finding) : a \in S} : Recoverable(c, k)}

\* What those of them that answer missing evidence add.
FirstGain(c, S) ==
  {k \in EvidenceKinds : /\ Recoverable(c, k)
                         /\ \E a \in S : IsMissing(a) /\ a.finding.kind = k}

\* The status one of them ends with.
Ended(c, S, a) ==
  IF Recoverable(IF IsMissing(a) THEN c ELSE WithEvidence(c, FirstGain(c, S)),
                 SoughtKind(a.finding))
    THEN [a EXCEPT !.status = "applied"] ELSE a

\* The operators of the matrix, in these terms.
LEMMA AtOnce ==
  ASSUME NEW c, NEW S
  PROVE  /\ Compensated(c, S) = WithEvidence(c, Gain(c, S))
         /\ Expanded(c, S) = WithEvidence(c, FirstGain(c, S))
         /\ Executed(c, S) = {Ended(c, S, a) : a \in S}
<1>1. Compensated(c, S) = WithEvidence(c, Gain(c, S))
  BY DEF Compensated, Gain, When, WritesPlan
<1>2. Expanded(c, S) = WithEvidence(c, FirstGain(c, S))
  BY DEF Expanded, FirstGain, IsMissing
<1>3. Executed(c, S) = {Ended(c, S, a) : a \in S}
  BY <1>2 DEF Executed, Ended, IsMissing
<1>4. QED
  BY <1>1, <1>2, <1>3

\* The compensations the first pass calls for.
Called(c) == Compensate(c, Validate(c, Route(c)))

\* No two of them look for the same thing, unless one answers missing evidence
\* and the other does not.
LEMMA SoughtOnce ==
  ASSUME NEW c \in Context, NEW a \in Called(c), NEW b \in Called(c),
         IsMissing(a) <=> IsMissing(b),
         SoughtKind(a.finding) = SoughtKind(b.finding),
         SoughtKind(a.finding) # "none"
  PROVE  a = b
<1> DEFINE F == Validate(c, Route(c))
<1>1. a.finding \in F /\ b.finding \in F
      /\ (a.finding = b.finding => a = b)
  BY DEF Called, Compensate
<1>2. \A f \in F : f.code = "missing_evidence" =>
        f = [code |-> "missing_evidence",
             status |-> IF IsCritical(c) THEN "fail" ELSE "warn", kind |-> f.kind]
  BY DEF Validate, EvidenceFindings, CausalFindings, ConstraintFindings, RiskFindings,
         AutonomyFindings, AgentFindings, When, Finding
<1>3. \A f \in F :
        f.code \in {"critical_action_without_rollback_plan", "human_approval_required"}
          => f = Finding(f.code, "fail")
  BY DEF Validate, EvidenceFindings, CausalFindings, ConstraintFindings, RiskFindings,
         AutonomyFindings, AgentFindings, When, Finding
<1> HIDE DEF F
<1>4. CASE IsMissing(a)
  BY <1>1, <1>2, <1>4 DEF IsMissing, SoughtKind
<1>5. CASE ~IsMissing(a)
  BY <1>1, <1>3, <1>5 DEF IsMissing, SoughtKind
<1>6. QED
  BY <1>4, <1>5

\* What a compensation does to the context it finds, and how it ends there.
After(d, a) ==
  WithEvidence(d, When(Recoverable(d, SoughtKind(a.finding)), SoughtKind(a.finding))
                    \cup When(WritesPlan(a), DraftPlan))

EndedIn(d, a) ==
  IF Recoverable(d, SoughtKind(a.finding)) THEN [a EXCEPT !.status = "applied"] ELSE a

\* One more compensation, executed on what the others left, adds and ends as it
\* does among them.
LEMMA OneMore ==
  ASSUME NEW c \in Context, NEW X \in SUBSET Called(c), NEW a \in Called(c) \ X,
         IsMissing(a) => \A b \in X : IsMissing(b),
         ~IsMissing(a) => \A b \in Called(c) \ X : ~IsMissing(b)
  PROVE  /\ After(Compensated(c, X), a) = Compensated(c, X \cup {a})
         /\ Executed(c, X) \cup {EndedIn(Compensated(c, X), a)} = Executed(c, X \cup {a})
<1> DEFINE d == Compensated(c, X)
           kind == SoughtKind(a.finding)
           found == Recoverable(d, kind)
           Y == X \cup {a}
<1>1. found <=> kind \notin Gain(c, X) /\ Recoverable(c, kind)
  BY AtOnce, RecoverableAfter
<1>2. Gain(c, X) \cup When(found, kind) \cup When(WritesPlan(a), DraftPlan) = Gain(c, Y)
  BY <1>1 DEF Gain, When
<1>3. WithEvidence(d, When(found, kind) \cup When(WritesPlan(a), DraftPlan))
        = Compensated(c, Y)
  <2> DEFINE more == When(found, kind) \cup When(WritesPlan(a), DraftPlan)
  <2>1. Gain(c, X) \cup more = Gain(c, Y)
    BY <1>2
  <2>2. d = WithEvidence(c, Gain(c, X)) /\ Compensated(c, Y) = WithEvidence(c, Gain(c, Y))
    BY AtOnce
  <2> HIDE DEF more, Y, d
  <2>3. WithEvidence(d, more) = Compensated(c, Y)
    BY <2>1, <2>2, WithEvidenceTwice
  <2>4. QED
    BY <2>3 DEF more
<1>4. \A b \in Y : IsMissing(b) \/ FirstGain(c, Y) = FirstGain(c, X)
  BY DEF FirstGain
<1>5. \A b \in X : Ended(c, Y, b) = Ended(c, X, b)
  BY <1>4 DEF Ended
<1>6. ASSUME Recoverable(c, kind)
      PROVE  kind \in Gain(c, X) <=> ~IsMissing(a) /\ kind \in FirstGain(c, Y)
  <2>1. kind # "none" /\ kind # DraftPlan /\ kind \in EvidenceKinds
    BY <1>6, NothingSought, DraftIsNotSought DEF Recoverable, EvidenceKinds
  <2>2. kind \in Gain(c, X) <=> \E b \in X : SoughtKind(b.finding) = kind
    BY <1>6, <2>1 DEF Gain, When
  <2>3. \A b \in X : SoughtKind(b.finding) = kind => ~(IsMissing(a) <=> IsMissing(b))
    BY <2>1, SoughtOnce
  <2>4. \A b \in Y : IsMissing(b) => SoughtKind(b.finding) = b.finding.kind
    BY DEF IsMissing, SoughtKind
  <2>5. CASE IsMissing(a)
    BY <2>2, <2>3, <2>5
  <2>6. CASE ~IsMissing(a)
    <3>1. kind \in FirstGain(c, Y) <=> \E b \in X : IsMissing(b) /\ b.finding.kind = kind
      BY <1>6, <2>1, <2>6 DEF FirstGain
    <3>2. QED
      BY <2>2, <2>3, <2>4, <2>6, <3>1
  <2>7. QED
    BY <2>5, <2>6
<1>7. found <=> Recoverable(IF IsMissing(a) THEN c ELSE WithEvidence(c, FirstGain(c, Y)), kind)
  BY <1>1, <1>6, RecoverableAfter
<1>8. Ended(c, Y, a) = IF found THEN [a EXCEPT !.status = "applied"] ELSE a
  BY <1>7 DEF Ended
<1>9. Executed(c, X) \cup {IF found THEN [a EXCEPT !.status = "applied"] ELSE a}
        = Executed(c, Y)
  <2> HIDE DEF found, kind, d
  <2>1. {Ended(c, X, b) : b \in X} = {Ended(c, Y, b) : b \in X}
    BY <1>5
  <2>2. {Ended(c, Y, b) : b \in X} \cup {Ended(c, Y, a)} = {Ended(c, Y, b) : b \in Y}
    OBVIOUS
  <2>3. Executed(c, X) \cup {Ended(c, Y, a)} = Executed(c, Y)
    BY <2>1, <2>2, AtOnce
  <2>4. QED
    BY <1>8, <2>3
<1>10. QED
  BY <1>3, <1>9 DEF After, EndedIn

\* Left alone, an evaluation has always come as far as the compensations it has
\* executed come at once.
InStep ==
  ~moved =>
    /\ stage = "received" => ctx = original /\ executed = {}
    /\ stage = "compensating" =>
         LET X == Called(original) \ pending
         IN  /\ findings = Validate(original, Route(original))
             /\ pending \subseteq Called(original)
             /\ (\E a \in X : ~IsMissing(a)) => \A b \in pending : ~IsMissing(b)
             /\ ctx = Compensated(original, X)
             /\ executed = Executed(original, X)
    /\ stage = "decided" => decision = Evaluate(original)

\* Every step keeps it there.
LEMMA InStepKept == Spec => []InStep
<1>1. Init => InStep
  BY DEF Init, InStep
<1>2. TypeOK /\ InStep /\ [Next]_vars => InStep'
  <2> SUFFICES ASSUME TypeOK, InStep, [Next]_vars, ~moved' PROVE InStep'
    BY DEF InStep
  <2>1. original \in Context
    BY ContextsAssumption DEF TypeOK
  <2>2. CASE RouteAndValidate
    <3>1. /\ ~moved /\ ctx = original /\ executed = {} /\ UNCHANGED <<original, ctx, executed>>
          /\ stage' = "compensating"
          /\ pending' = Called(original)
          /\ findings' = Validate(original, Route(original))
      BY <2>2 DEF RouteAndValidate, InStep, Called
    <3>2. Compensated(original, {}) = original /\ Executed(original, {}) = {}
      <4>1. Gain(original, {}) = {}
        BY DEF Gain, When
      <4>2. QED
        BY <2>1, <4>1, AtOnce, WithEvidenceTwice
    <3>3. Called(original) \ pending' = {}
      BY <3>1
    <3>4. QED
      BY <3>1, <3>2, <3>3 DEF InStep
  <2>3. CASE ExecuteCompensation
    <3> DEFINE X == Called(original) \ pending
    <3>1. /\ ~moved /\ stage = "compensating" /\ stage' = "compensating"
          /\ UNCHANGED <<original, findings>>
      BY <2>3 DEF ExecuteCompensation
    <3>2. /\ findings = Validate(original, Route(original))
          /\ pending \subseteq Called(original)
          /\ (\E a \in X : ~IsMissing(a)) => \A b \in pending : ~IsMissing(b)
          /\ ctx = Compensated(original, X)
          /\ executed = Executed(original, X)
      BY <3>1 DEF InStep
    <3>3. PICK a \in pending :
            /\ IsMissing(a) \/ \A b \in pending : ~IsMissing(b)
            /\ ctx' = After(ctx, a)
            /\ executed' = executed \cup {EndedIn(ctx, a)}
            /\ pending' = pending \ {a}
      BY <2>3 DEF ExecuteCompensation, IsMissing, WritesPlan, After, EndedIn
    <3>4. /\ X \in SUBSET Called(original) /\ a \in Called(original) \ X
          /\ Called(original) \ pending' = X \cup {a}
          /\ Called(original) \ X = pending
      BY <3>2, <3>3
    <3>5. /\ IsMissing(a) => \A b \in X : IsMissing(b)
          /\ ~IsMissing(a) => \A b \in Called(original) \ X : ~IsMissing(b)
      BY <3>2, <3>3, <3>4
    <3>6. ctx' = Compensated(original, X \cup {a}) /\ executed' = Executed(original, X \cup {a})
      <4> HIDE DEF X
      <4>1. /\ After(Compensated(original, X), a) = Compensated(original, X \cup {a})
            /\ Executed(original, X) \cup {EndedIn(Compensated(original, X), a)}
                 = Executed(original, X \cup {a})
        BY <2>1, <3>4, <3>5, OneMore
      <4>2. QED
        BY <3>2, <3>3, <4>1
    <3>7. (\E b \in X \cup {a} : ~IsMissing(b)) => \A b \in pending' : ~IsMissing(b)
      BY <3>2, <3>3
    <3>8. pending' \subseteq Called(original)
      BY <3>2, <3>3
    <3> HIDE DEF X
    <3>9. QED
      BY <3>1, <3>2, <3>4, <3>6, <3>7, <3>8 DEF InStep
  <2>4. CASE DecideAtOnce
    <3>1. /\ ~moved /\ stage' = "decided" /\ UNCHANGED original
          /\ findings = Validate(original, Route(original))
          /\ Executed(original, Called(original)) = {}
          /\ decision' = FinalDecision(ctx, findings, {})
      BY <2>4 DEF DecideAtOnce, InStep
    <3>2. Called(original) = {}
      BY <3>1, AtOnce
    <3>3. findings = {}
      BY <3>1, <3>2 DEF Called, Compensate
    <3>4. decision' = "allow"
      BY <3>1, <3>3 DEF FinalDecision
    <3>5. Evaluate(original) = "allow"
      BY <3>2 DEF Evaluate, Called
    <3>6. QED
      BY <3>1, <3>4, <3>5 DEF InStep
  <2>5. CASE Recheck
    <3>1. /\ ~moved /\ stage' = "decided" /\ UNCHANGED original
          /\ ctx = Compensated(original, Called(original))
          /\ executed = Executed(original, Called(original)) /\ executed # {}
          /\ findings' = Validate(ctx, Route(ctx))
          /\ decision' = FinalDecision(ctx, findings',
                                       Merge(executed, Compensate(ctx, findings')))
      BY <2>5 DEF Recheck, InStep
    <3>2. Called(original) # {}
      BY <3>1, AtOnce
    <3>3. decision' = Evaluate(original)
      BY <3>1, <3>2 DEF Evaluate, Called
    <3>4. QED
      BY <3>1, <3>3 DEF InStep
  <2>6. ~CheckpointMoves
    BY DEF CheckpointMoves
  <2>7. CASE UNCHANGED vars
    BY <2>7 DEF vars, InStep
  <2>8. QED
    BY <2>2, <2>3, <2>4, <2>5, <2>6, <2>7 DEF Next
<1>3. QED
  BY <1>1, <1>2, TypeCorrect, PTL DEF Spec

\* Executed one compensation at a time, in any order the validators allow, an
\* evaluation decides what the atomic form decides, as long as no other process
\* saves a checkpoint meanwhile: LifeKernel's use of Evaluate is sound
\* (_execute_compensations).
THEOREM EvaluationIsAtomic == Spec => []AgreesWithEvaluate
<1>1. InStep => AgreesWithEvaluate
  BY DEF InStep, AgreesWithEvaluate
<1>2. QED
  BY <1>1, InStepKept, PTL
=============================================================================
