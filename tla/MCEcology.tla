------------------------------ MODULE MCEcology ------------------------------
(***************************************************************************)
(* Small instances of Ecology: one organism that meets every regime under  *)
(* every kind of profile, and small colonies whose members learn from one  *)
(* another.  Measurements sit on both sides of the thresholds.             *)
(***************************************************************************)
EXTENDS Ecology

MCScenarios == {"thermal_homeostasis", "grid_thermal_5x5", "resource_management",
                "deferred_load_trap"}

\* Resources are the adversary of everything else.
MCIncomparable ==
  {pair \in MCScenarios \X MCScenarios :
     pair[1] # pair[2] /\ "resource_management" \in {pair[1], pair[2]}}

MCCandidates == {"heur", "dia_adv", "fal_guard", "ind", "plan", "opt"}

-----------------------------------------------------------------------------
Calm ==
  [uncertainty |-> 25, contradiction |-> 0, continuity |-> 100, edge |-> 10,
   regularity |-> 0, lawFit |-> 0, margin |-> 75, vram |-> 0, gap |-> 0,
   spread |-> 0, level |-> 25, alarm |-> FALSE, causal |-> "pass",
   memory |-> "pass", structured |-> TRUE, pressure |-> 0, thermal |-> 0,
   gpu |-> 0]

Uneven == [Calm EXCEPT !.spread = 60, !.level = 60, !.structured = FALSE]
Warned == [Calm EXCEPT !.spread = 75, !.level = 85, !.gap = 80]
Edge == [Calm EXCEPT !.edge = 90, !.margin = 10, !.level = 90, !.alarm = TRUE]
Ample == [Calm EXCEPT !.vram = 80, !.gpu = 80, !.structured = FALSE, !.spread = 20]
Torn == [Calm EXCEPT !.uncertainty = 80, !.contradiction = 70, !.gap = 60,
                     !.continuity = 40]
Lawful == [Calm EXCEPT !.regularity = 60, !.lawFit = 50, !.gpu = 75]
Hot == [Torn EXCEPT !.pressure = 90, !.thermal = 85, !.gpu = 90]
Unsure == [Calm EXCEPT !.causal = "fail", !.memory = "warn", !.pressure = 70]
Broken == [Edge EXCEPT !.causal = "warn", !.memory = "fail", !.contradiction = 60,
                       !.spread = 100, !.uncertainty = 90]

Contexts == {Calm, Uneven, Warned, Edge, Ample, Torn, Lawful, Hot, Unsure, Broken}

Asked(context, mode, hint, override, experimental) ==
  [context |-> context, mode |-> mode, hint |-> hint, override |-> override,
   experimental |-> experimental]

Episode(ask, reward, certified, rolledBack) ==
  [ask |-> ask, failing |-> {}, deduced |-> TRUE, reward |-> reward,
   certified |-> certified, rolledBack |-> rolledBack]

\* What a lone organism meets.
Adapting == {Asked(c, "adaptive", "none", o, TRUE) : c \in Contexts, o \in {0, 8, 10}}
FixedAsks == {Asked(c, "fixed", "causal_counterfactual_conflict", o, FALSE) :
                c \in {Calm, Broken}, o \in {0, 4, 10}}
Hinted == {Asked(Torn, "adaptive", h, 9, FALSE) :
             h \in {"vram_favorable", "causal_counterfactual_conflict"}}
Wide == {Episode(a, 10, TRUE, FALSE) : a \in Adapting \cup FixedAsks \cup Hinted}
        \cup {[Episode(Asked(c, m, "none", 0, TRUE), 10, TRUE, FALSE)
                 EXCEPT !.failing = {"ctf", "fal_guard"}, !.deduced = d] :
                c \in {Edge, Hot}, m \in {"fixed", "adaptive"}, d \in BOOLEAN}

\* What a member of a colony meets: an episode pays or not, is certified or
\* not, is rolled back or not.
Colonial(context, reward, certified, rolledBack) ==
  Episode(Asked(context, "adaptive", "none", 10, FALSE), reward, certified, rolledBack)

MCSituations ==
  [thermal_homeostasis |-> {Colonial(Uneven, 20, TRUE, FALSE),
                            Colonial(Uneven, 0, FALSE, FALSE)},
   grid_thermal_5x5    |-> {Colonial(Warned, 0, TRUE, FALSE)},
   resource_management |-> {Colonial(Torn, 20, TRUE, FALSE),
                            Colonial(Torn, 0, FALSE, FALSE),
                            Colonial(Torn, 20, TRUE, TRUE)},
   deferred_load_trap  |-> Wide]

-----------------------------------------------------------------------------
LoneProfiles ==
  {"core_only", "core_plus_heur", "core_plus_triple_optional",
   "core_plus_external_reasoner_gated_v1", "adaptive_family_ecology",
   "adaptive_family_ecology_v2", "full_family_exploration",
   "core_plus_deliberative", "core_plus_plan", "full_family_deep_v1",
   "core_plus_imagination_a12"}

Twins == <<Founder(0, "resource_management", "full_family_exploration"),
           Founder(1, "resource_management", "full_family_exploration")>>
Mixed == <<Founder(0, "thermal_homeostasis", "full_family_exploration"),
           Founder(1, "resource_management", "adaptive_family_ecology_v2"),
           Founder(2, "grid_thermal_5x5", "adaptive_family_ecology")>>

MCColonies ==
  {<<Founder(0, "deferred_load_trap", p)>> : p \in LoneProfiles} \cup {Twins, Mixed}
=============================================================================
