------------------------- MODULE MCConjunctionCycle -------------------------
(***************************************************************************)
(* Small instances of ConjunctionCycle.  The contexts come in two          *)
(* families that vary what one part of the layer reads and fix the rest:   *)
(* Routed varies what the router and the constraint and risk validators    *)
(* read, Proven what the evidence and agent validators read.               *)
(***************************************************************************)
EXTENDS ConjunctionCycle

MCActions == {"act", "sleep", "self_modify", "consult_external", "rollback"}

\* An action nothing speaks against, proposed by an agent with a policy.
Plain ==
  [action |-> "act", task |-> "life_cycle",
   required |-> {"vital_signs", "causal_signature"},
   evidence |-> {"vital_signs", "causal_signature"},
   causal |-> "supported", risk |-> 10, pressure |-> 0, uncertainty |-> 30,
   complexity |-> 20, maxTier |-> 2, allowExternal |-> FALSE,
   vramSaturated |-> FALSE, permitted |-> MCActions,
   agent |-> [present |-> TRUE, allowed |-> MCActions, prohibited |-> {},
              exhausted |-> FALSE, maxSteps |-> 1, humanApproval |-> {}],
   agentSteps |-> 0, toolForbidden |-> FALSE,
   autonomy |-> [wantsUnbounded |-> FALSE, active |-> "bounded"],
   checkpoint |-> "none", memoryHits |-> FALSE, scenarioKnown |-> TRUE,
   humanApproved |-> FALSE]

Routed ==
  {[Plain EXCEPT !.action = a, !.task = k, !.causal = c, !.evidence = e, !.risk = r,
                 !.pressure = p, !.uncertainty = u, !.maxTier = t,
                 !.allowExternal = x, !.vramSaturated = v] :
     a \in {"act", "rollback"}, k \in {"life_cycle", "causal_decision"},
     c \in {"none", "supported", "unsupported"},
     e \in {{"vital_signs"}, {"vital_signs", "causal_signature"}},
     r \in {10, 80}, p \in {0, 85}, u \in {30, 80}, t \in {0, 1, 3},
     x \in BOOLEAN, v \in BOOLEAN}

Agents ==
  {[Plain.agent EXCEPT !.present = p, !.humanApproval = h, !.prohibited = f] :
     p \in BOOLEAN, h \in {{}, {"self_modify", "act"}},
     f \in {{}, {"consult_external"}}}

Proven ==
  {[Plain EXCEPT !.action = a,
                 !.required = {"vital_signs"} \cup q[1], !.memoryHits = q[2],
                 !.evidence = {"vital_signs"} \cup e,
                 !.agent = g, !.humanApproved = h, !.checkpoint = c] :
     a \in {"act", "self_modify", "consult_external", "rollback"},
     q \in {<<{"memory_rag"}, TRUE>>, <<{"memory_rag"}, FALSE>>,
            <<{"healthy_checkpoint", "validated_plan", "rollback_plan"}, FALSE>>},
     e \in {{}, {"validated_plan"}, {"rollback_plan"}, {"validated_plan", "rollback_plan"},
            {"validated_plan", "conflict"}},
     g \in Agents, h \in BOOLEAN, c \in {"none", "unhealthy", "healthy"}}

MCContexts == Routed \cup Proven
AllCheckpoints == {"none", "unhealthy", "healthy"}
NoCheckpoints == {}
=============================================================================
