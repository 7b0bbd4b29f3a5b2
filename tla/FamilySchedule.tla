--------------------------- MODULE FamilySchedule ---------------------------
(***************************************************************************)
(* Which families of reasoning an episode runs, and in which order         *)
(* (runtime/reasoning/scheduler_meta): the features of a context, its      *)
(* regime, the budget of steps, the scores, the overlays a profile         *)
(* proposes, the validation and correction of the proposal, and what the   *)
(* scheduler then executes.                                                *)
(*                                                                         *)
(* A measurement of a context is a percentage, a feature a number of       *)
(* hundredths of a percent, a score of millionths.  The spatial            *)
(* measurements are one, the spread; so are the three of the video         *)
(* memory.  Reports, reasons and the order of a proposal's audit lists     *)
(* are left out.                                                           *)
(***************************************************************************)
EXTENDS Integers, Sequences, FiniteSets, SequencesExt, FiniteSetsExt

Core == <<"abd", "ana", "cau", "ctf", "ded", "prob">>
Augmenters == {"heur", "dia_adv", "fal_guard"}
Shadows == <<"ind", "eml_sr">>
Deliberatives == <<"plan", "opt">>
InsertionOrder == <<"heur", "ind", "dia_adv", "plan", "opt", "eml_sr",
                    "ext_open_thinker", "fal_guard">>
HardMaxSteps == 10

\* The families by name, which is how equal scores are told apart.
ByName == <<"a12", "abd", "ana", "cau", "ctf", "ded", "dia_adv", "eml_sr",
            "evo_search", "ext_open_thinker", "fal_guard", "heur",
            "imagination", "ind", "nesy", "opt", "plan", "prob">>
Place(s, family) == SelectInSeq(s, LAMBDA x : x = family)
NamedBefore(a, b) == Place(ByName, a) < Place(ByName, b)

\* The members of a set in the order Precedes.
Ordered(elements, Precedes(_, _)) ==
  [i \in 1 .. Cardinality(elements) |->
     CHOOSE x \in elements :
       Cardinality({y \in elements : Precedes(y, x)}) = i - 1]

\* What a sequence has of the families K, as it comes.
Only(s, K) ==
  LET at == Ordered({i \in DOMAIN s : s[i] \in K}, <)
  IN  [n \in DOMAIN at |-> s[at[n]]]

Fixed(optional) == [optional |-> optional, adaptive |-> FALSE]
Adaptive(optional) == [optional |-> optional, adaptive |-> TRUE]
Profiles ==
  [core_only |-> Fixed(<<>>),
   core_plus_heur |-> Fixed(<<"heur">>),
   core_plus_dialectic |-> Fixed(<<"dia_adv">>),
   core_plus_guard |-> Fixed(<<"fal_guard">>),
   core_plus_heur_guard |-> Fixed(<<"heur", "fal_guard">>),
   core_plus_heur_dialectic |-> Fixed(<<"heur", "dia_adv">>),
   core_plus_guard_dialectic |-> Fixed(<<"fal_guard", "dia_adv">>),
   core_plus_triple_optional |-> Fixed(<<"heur", "dia_adv", "fal_guard">>),
   core_plus_external_reasoner_gated_v1 |->
     Fixed(<<"ext_open_thinker", "fal_guard">>),
   adaptive_family_ecology |->
     Adaptive(<<"heur", "dia_adv", "fal_guard", "eml_sr">>),
   adaptive_family_ecology_v2 |->
     Adaptive(<<"heur", "dia_adv", "fal_guard", "ind", "eml_sr">>),
   full_family_exploration |->
     Adaptive(<<"heur", "dia_adv", "fal_guard", "ind", "eml_sr", "plan", "opt">>),
   core_plus_deliberative |-> Fixed(Deliberatives),
   core_plus_ind |-> Fixed(<<"ind">>),
   core_plus_plan |-> Fixed(<<"plan">>),
   core_plus_opt |-> Fixed(<<"opt">>),
   full_family_deep_v1 |->
     Fixed(<<"heur", "dia_adv", "fal_guard", "ind", "plan", "opt", "eml_sr",
             "nesy", "evo_search">>),
   core_plus_imagination |-> Fixed(<<"imagination">>),
   core_plus_a12 |-> Fixed(<<"a12">>),
   core_plus_imagination_a12 |-> Fixed(<<"imagination", "a12">>)]

\* Fixed profiles whose overlays go where the core-protected composition puts
\* them, and not right after abd.
Composing == {"core_plus_deliberative", "core_plus_ind", "core_plus_plan",
              "core_plus_opt"}

-----------------------------------------------------------------------------
(* What a context says: its features, its regime, its budget.              *)

\* What the scheduler is told of the organism's state: measurements in percent,
\* two verdicts, and whether there is an alarm.
Context ==
  [uncertainty : Int, contradiction : Int, continuity : Int, edge : Int,
   regularity : Int, lawFit : Int, margin : Int, vram : Int, gap : Int,
   spread : Int, level : Int, alarm : BOOLEAN, causal : {"pass", "warn", "fail"},
   memory : {"pass", "warn", "fail"}, structured : BOOLEAN, pressure : Int,
   thermal : Int, gpu : Int]

AtLeast(x, least) == Max({x, least})
Unit(x) == Min({x, 10000})

Features(c) ==
  LET contradiction == IF c.alarm THEN AtLeast(c.contradiction, 40)
                                  ELSE c.contradiction
      edge == IF c.alarm THEN AtLeast(c.edge, 30) ELSE c.edge
      level == IF c.alarm THEN AtLeast(c.level, 86) ELSE c.level
      ambiguity == 45 * c.uncertainty + 30 * contradiction + 25 * c.gap
      fragility == Unit(45 * contradiction + 35 * (100 - c.continuity)
                        + (IF c.alarm THEN 2000 ELSE 0))
      Caused(x, onFail, onWarn) ==
        CASE c.causal = "fail" -> AtLeast(x, onFail)
          [] c.causal = "warn" -> AtLeast(x, onWarn)
          [] OTHER             -> x
      Remembered(x, onFail, onWarn) ==
        CASE c.memory = "fail" -> AtLeast(x, onFail)
          [] c.memory = "warn" -> AtLeast(x, onWarn)
          [] OTHER             -> x
  IN  [uncertainty |-> Remembered(100 * c.uncertainty, 5500, 4000),
       contradiction |-> Caused(100 * contradiction, 7500, 5000),
       continuity |-> 100 * c.continuity,
       edge |-> 100 * edge,
       causalRisk |-> Caused(100 * c.gap, 8500, 5500),
       regularity |-> 100 * c.regularity,
       lawFit |-> 100 * c.lawFit,
       heterogeneity |-> 100 * c.spread,
       level |-> 100 * level,
       viabilityEdge |-> Unit(40 * edge + 35 * level + 20 * (100 - c.margin)
                              + (IF c.alarm THEN 1500 ELSE 0)),
       ambiguity |-> Caused(ambiguity, 7000, 5000),
       fragility |-> Remembered(Caused(fragility, 7500, 5500), 7000, 5000),
       pattern |-> 70 * c.spread + (IF c.structured THEN 0 ELSE 3000),
       vram |-> 100 * c.vram,
       gpu |-> IF c.thermal >= 85 THEN Min({100 * c.gpu, 2500}) ELSE 100 * c.gpu,
       hardware |-> 100 * AtLeast(c.pressure, c.thermal)]

\* The regime of a hint that names one, and of the features otherwise.
Regimes == {"viability_edge", "heterogeneous_warning", "heterogeneous_elevated",
            "homogeneous_safe", "vram_favorable"}

NormalizeRegime(hint, f, ignoreVram) ==
  IF hint \in Regimes /\ ~(ignoreVram /\ hint = "vram_favorable") THEN hint
  ELSE IF f.viabilityEdge >= 7000 THEN "viability_edge"
  ELSE IF f.heterogeneity >= 5500 /\ f.level >= 8200 THEN "heterogeneous_warning"
  ELSE IF f.heterogeneity >= 4000 THEN "heterogeneous_elevated"
  ELSE IF ~ignoreVram /\ f.vram >= 6200 THEN "vram_favorable"
  ELSE "homogeneous_safe"

RegimeLabels(hint, f) ==
  LET primary == NormalizeRegime(hint, f, FALSE)
      cognitive == IF primary = "vram_favorable"
                   THEN NormalizeRegime("none", f, TRUE) ELSE primary
  IN  [primary |-> primary, cognitive |-> cognitive, floor |-> cognitive]

MandatoryFloor(label) ==
  CASE label = "heterogeneous_elevated" -> {"abd", "ana", "cau", "ctf"}
    [] label = "heterogeneous_warning"  -> {"abd", "ana", "cau", "ctf", "ded"}
    [] label = "viability_edge"         -> {"cau", "ctf", "ded", "prob"}
    [] OTHER                            -> {"abd", "ded", "prob"}

SafeFallback(label) ==
  CASE label = "heterogeneous_elevated" -> "core_plus_heur"
    [] label = "heterogeneous_warning"  -> "core_plus_guard"
    [] label = "viability_edge"         -> "core_plus_guard"
    [] OTHER                            -> "core_only"

Clipped(x) == Max({4, Min({10, x})})

\* The steps asked for; an override of 0 is none.
MaxSteps(f, override) ==
  LET If(p) == IF p THEN 1 ELSE 0
      bonus == If(f.uncertainty >= 6000) + If(f.contradiction >= 5000)
               + If(f.causalRisk >= 5000) - If(f.edge >= 8000)
               + (IF f.hardware >= 8500 THEN -2
                  ELSE IF f.hardware >= 7000 THEN -1
                  ELSE If(f.gpu >= 7000))
  IN  IF override = 0 THEN Clipped(6 + bonus) ELSE Clipped(override)

-----------------------------------------------------------------------------
(* Scores and the conditions under which a family is worth running.        *)

BaseScore(family, f) ==
  CASE family = "abd"       -> 300000 + 22 * f.ambiguity
    [] family = "ana"       -> 220000 + 30 * f.heterogeneity
    [] family = "cau"       -> 220000 + 30 * f.causalRisk
    [] family = "ctf"       -> 200000 + 32 * f.causalRisk
    [] family = "ded"       -> 180000 + 20 * (10000 - f.continuity)
    [] family = "prob"      -> 250000 + 25 * f.uncertainty
    [] family = "heur"      -> 120000 + 30 * f.edge
    [] family = "dia_adv"   -> 100000 + 30 * f.contradiction
    [] family = "fal_guard" -> 100000 + 30 * f.fragility
    [] family = "ind"       -> 80000 + 32 * f.pattern
    [] family = "eml_sr"    -> 80000 + 30 * f.regularity + 22 * f.lawFit
    [] family = "ext_open_thinker" ->
         80000 + 24 * f.ambiguity + 24 * f.contradiction + 18 * f.viabilityEdge
    [] family = "plan"      -> 100000 + 30 * f.viabilityEdge + 12 * f.level
    [] family = "opt"       -> 100000 + 28 * f.causalRisk + 12 * f.viabilityEdge
    [] OTHER                -> 100000

Heterogeneous(label) == label \in {"heterogeneous_elevated", "heterogeneous_warning"}

\* What one condition adds to the score of a family.
Adds(p, gains, family) ==
  IF p /\ family \in DOMAIN gains THEN gains[family] ELSE 0

RegimeBoost(family, f, label) ==
    Adds(Heterogeneous(label),
         [ana |-> 250000, cau |-> 200000, ctf |-> 200000, heur |-> 280000], family)
  + Adds(label = "viability_edge",
         [cau |-> 240000, ctf |-> 240000, dia_adv |-> 220000, fal_guard |-> 280000],
         family)
  + Adds(label = "vram_favorable",
         [heur |-> 180000, ana |-> 140000, ind |-> 180000], family)
  + Adds(f.ambiguity >= 5500,
         [abd |-> 220000, ana |-> 120000, dia_adv |-> 220000], family)
  + Adds(f.fragility >= 5000, [fal_guard |-> 300000, dia_adv |-> 200000], family)
  + Adds(f.pattern >= 4500,
         [heur |-> 180000, ana |-> 120000, ind |-> 200000], family)
  + Adds(f.gpu >= 7000, [ind |-> 180000, eml_sr |-> 180000, heur |-> 80000], family)
  - Adds(f.hardware >= 7000,
         [x \in {"ind", "eml_sr", "plan", "opt", "ext_open_thinker", "heur"} |->
            IF x = "heur" THEN 10 * f.hardware ELSE 180000 + 22 * f.hardware],
         family)

Score(family, f, label) ==
  Max({0, Min({3000000, BaseScore(family, f) + RegimeBoost(family, f, label)})})

\* a comes before b, whose score is sb; equal scores are told apart by name.
ByScore(a, sa, b, sb) == sa > sb \/ (sa = sb /\ NamedBefore(a, b))
Better(a, b, f, label) == ByScore(a, Score(a, f, label), b, Score(b, f, label))
Worse(a, b, f, label) == ByScore(a, -Score(a, f, label), b, -Score(b, f, label))

\* Best first, and worst first.
Ranked(families, f, label) ==
  Ordered(families, LAMBDA a, b : Better(a, b, f, label))
Expendable(families, f, label) ==
  Ordered(families, LAMBDA a, b : Worse(a, b, f, label))

EmlWorthwhile(f, experimental) ==
  experimental /\ (f.regularity >= 4000 \/ f.lawFit >= 4000)

ShouldActivateOptional(family, f, label, experimental) ==
  CASE family = "heur" ->
         Heterogeneous(label) \/ label = "vram_favorable" \/ f.edge >= 5800
           \/ f.pattern >= 4500
    [] family = "dia_adv" ->
         label = "viability_edge" \/ f.ambiguity >= 5500 \/ f.contradiction >= 4500
    [] family = "fal_guard" ->
         label = "viability_edge" \/ f.fragility >= 5000 \/ f.contradiction >= 5500
    [] family = "eml_sr" -> EmlWorthwhile(f, experimental)
    [] family = "plan" -> label = "viability_edge" \/ f.viabilityEdge >= 6000
    [] family = "opt" -> label = "viability_edge" \/ f.causalRisk >= 5000
    [] OTHER -> FALSE

-----------------------------------------------------------------------------
(* Overlays around a core that is never given up.                          *)

Anchor(s, family) ==
  CASE family = "ind"       -> IF Contains(s, "heur") THEN "heur" ELSE "abd"
    [] family = "dia_adv"   -> "ana"
    [] family = "fal_guard" -> "ded"
    [] family = "opt"       -> IF Contains(s, "plan") THEN "plan" ELSE "ctf"
    [] family \in {"eml_sr", "ext_open_thinker", "plan"} -> "ctf"
    [] OTHER                -> "abd"

ProbLast(s) ==
  IF Contains(s, "prob") /\ Last(s) # "prob"
  THEN Append(Only(s, ToSet(s) \ {"prob"}), "prob") ELSE s

InsertOverlay(s, family) ==
  ProbLast(InsertAt(s, Place(s, Anchor(s, family)) + 1, family))

With(s, family, overlays) ==
  IF family \in overlays THEN InsertOverlay(s, family) ELSE s

Composed(overlays) ==
  LET built[n \in 0 .. Len(InsertionOrder)] ==
        IF n = 0 THEN Core ELSE With(built[n - 1], InsertionOrder[n], overlays)
  IN  built[Len(InsertionOrder)]

\* In this order overlays give way to the budget: shadows, deliberatives,
\* augmenters that are not the regime's own, the rest.
DropPriority(overlays, defaults, f, label) ==
  Only(Shadows \o Deliberatives, overlays)
  \o Expendable((overlays \cap Augmenters) \ defaults, f, label)
  \o Expendable(overlays \cap defaults, f, label)

Trimmed(overlays, drops, limit) ==
  LET Left(n) == overlays \ ToSet(SubSeq(drops, 1, n))
      enough == {n \in 0 .. Len(drops) :
                   n = Len(drops) \/ Len(Core) + Cardinality(Left(n)) <= limit}
  IN  Left(Min(enough))

Retained(overlays, limit, defaults, f, label) ==
  Trimmed(overlays, DropPriority(overlays, defaults, f, label), limit)

\* The core with the overlays the budget leaves.
ComposeCoreProtected(overlays, limit, defaults, f, label) ==
  IF Len(Composed(overlays)) > limit
  THEN Composed(Retained(overlays, limit, defaults, f, label))
  ELSE Composed(overlays)

\* After which and before which families an overlay belongs.
Between(s, family) ==
  CASE family = "heur"      -> <<"abd", "ana">>
    [] family = "ind"       -> <<IF Contains(s, "heur") THEN "heur" ELSE "abd", "ana">>
    [] family = "dia_adv"   -> <<"ana", "cau">>
    [] family = "eml_sr"    -> <<"ctf", "ded">>
    [] family = "ext_open_thinker" -> <<"ctf", "ded">>
    [] family = "fal_guard" -> <<"ded", "prob">>
    [] family = "plan"      -> <<"ctf", "prob">>
    [] OTHER                -> <<IF Contains(s, "plan") THEN "plan" ELSE "ctf", "prob">>

Before(s, a, b) ==
  Contains(s, a) /\ Contains(s, b) => Place(s, a) < Place(s, b)

PartialOrder(s, anchored) ==
  /\ \A i, j \in 1 .. Len(Core) : i < j => Before(s, Core[i], Core[j])
  /\ anchored =>
       \A family \in ToSet(s) \cap ToSet(InsertionOrder) :
         /\ Before(s, Between(s, family)[1], family)
         /\ Before(s, family, Between(s, family)[2])

\* What the validator asks of a sequence.
Passes(s, floor, allowed, limit, anchored) ==
  /\ floor \cup ToSet(Core) \subseteq ToSet(s)
  /\ ToSet(s) \subseteq allowed
  /\ PartialOrder(s, anchored)
  /\ Contains(s, "prob") => Last(s) = "prob"
  /\ Len(s) \in Len(Core) .. limit

FallbackSequence(labels, allowed, limit, experimental, f) ==
  LET profile == Profiles[SafeFallback(labels.floor)]
      overlays == (ToSet(profile.optional)
                   \cup (IF labels.primary = "vram_favorable" THEN {"heur"} ELSE {})
                   \cup (IF EmlWorthwhile(f, experimental) THEN {"eml_sr"} ELSE {}))
                  \cap allowed
  IN  ComposeCoreProtected(overlays, limit, overlays, f, labels.primary)

EffectiveSteps(requested) == Max({Len(Core), Min({HardMaxSteps, requested})})

\* The first of the candidates that passes, or the last one as it is.
FirstToPass(candidates, floor, allowed, limit, anchored) ==
  LET fine == {i \in DOMAIN candidates :
                 Passes(candidates[i], floor, allowed, limit, anchored)}
  IN  [validated |-> candidates[Min(fine \cup {Len(candidates)})],
       passed |-> fine # {}, limit |-> limit]

\* The proposal if it passes, the core with its overlays if that does, the
\* regime's safe profile otherwise.
Validate(proposed, allowed, requested, labels, defaults, experimental, f, anchored) ==
  LET limit == EffectiveSteps(requested)
      corrected ==
        ComposeCoreProtected((ToSet(proposed) \ ToSet(Core)) \cap allowed, limit,
                             defaults, f, labels.primary)
      safe == FallbackSequence(labels, allowed, limit, experimental, f)
  IN  FirstToPass(<<proposed, corrected, safe>>, MandatoryFloor(labels.floor),
                  allowed, limit, anchored)

-----------------------------------------------------------------------------
(* The three ways a profile proposes a sequence.  Directives switch        *)
(* optional families on and off: a function on the families they concern.  *)

Directed(directives, family, to) ==
  family \in DOMAIN directives /\ directives[family] = to

\* A variant: the directives are not consulted.
EnabledAnyway(optional, directives) == optional

Enabled(optional, directives) ==
  Only(optional, {x \in ToSet(optional) : ~Directed(directives, x, "off")})

NonAdaptiveSequence(profile, optional) ==
  IF profile \in Composing THEN Composed(ToSet(optional))
                           ELSE <<Head(Core)>> \o optional \o Tail(Core)

\* The sequence cut to the budget, with prob put last.
CutShort(all, limit) ==
  LET cut == SubSeq(all, 1, Min({limit, Len(all)}))
  IN  IF Contains(cut, "prob") THEN ProbLast(cut) ELSE Front(cut) \o <<"prob">>

LegacySequence(profile, optional, f, label, experimental, limit, directives) ==
  LET active == {x \in ToSet(optional) :
                   \/ profile = "full_family_exploration"
                   \/ Directed(directives, x, "on")
                   \/ ShouldActivateOptional(x, f, label, experimental)}
  IN  CutShort(<<Head(Core)>> \o Ranked(active, f, label) \o Tail(Core)
                 \o Ranked(ToSet(optional) \ active, f, label),
               limit)

\* The overlays the adaptive ecology admits in a regime: those of the regime
\* itself, those that a spike calls for, those in the shadow.
DefaultOverlays(labels) ==
  LET regime == labels.cognitive
  IN  (CASE regime = "heterogeneous_elevated" -> {"heur"}
         [] regime = "heterogeneous_warning"  -> {"heur", "fal_guard"}
         [] regime = "viability_edge"         -> {"fal_guard", "dia_adv"}
         [] OTHER                             -> {})
      \cup (IF labels.primary = "vram_favorable" THEN {"heur"} ELSE {})

ConditionalOverlays(labels, f, requested) ==
  LET spike == f.contradiction >= 4500 \/ f.ambiguity >= 5500
      fragile == f.fragility >= 5000 \/ f.contradiction >= 5500
      roomy == requested >= Len(Core) + Cardinality(DefaultOverlays(labels)) + 1
  IN  (IF spike /\ f.hardware < 8500 THEN {"dia_adv"} ELSE {})
      \cup (IF fragile THEN {"fal_guard"} ELSE {})
      \cup (IF f.hardware < 7000
               /\ \/ /\ labels.primary = "viability_edge"
                     /\ roomy
                     /\ f.edge >= 7500 \/ f.pattern >= 4500
                  \/ /\ labels.primary = "homogeneous_safe"
                     /\ f.edge >= 7500
            THEN {"heur"} ELSE {})

ShadowOverlays(labels, f, experimental) ==
  IF f.hardware >= 7000 THEN {}
  ELSE (IF f.pattern >= 4000 /\ (labels.primary = "vram_favorable" \/ f.gpu >= 7000)
        THEN {"ind"} ELSE {})
       \cup (IF EmlWorthwhile(f, experimental) THEN {"eml_sr"} ELSE {})

EcologySequence(allowed, requested, labels, experimental, f) ==
  LET defaults == DefaultOverlays(labels)
      admitted == (defaults \cup ConditionalOverlays(labels, f, requested)
                   \cup ShadowOverlays(labels, f, experimental)) \cap allowed
      steps == Min({HardMaxSteps, Max({requested, Len(Core) + Cardinality(admitted)})})
  IN  Validate(Composed(admitted), allowed, steps, labels, defaults, experimental,
               f, TRUE)

\* An external reasoner runs in the one regime it has been validated in.
ExternalAdmitted(hint) == hint = "causal_counterfactual_conflict"

Optional(ask) ==
  LET own == Profiles[ask.profile].optional
  IN  Only(own, {x \in ToSet(own) :
                   /\ x = "ext_open_thinker" => ExternalAdmitted(ask.hint)
                   /\ x = "eml_sr" => ask.experimental})

SequenceFor(ask, admitted, enabled, f, labels, requested, directives) ==
  LET allowed == ToSet(Core) \cup ToSet(admitted)
      legacy == Max({requested, Len(Core)})
  IN  IF ask.mode # "adaptive" /\ ~Profiles[ask.profile].adaptive
      THEN Validate(NonAdaptiveSequence(ask.profile, enabled), allowed,
                    Max({requested, Len(Core) + Len(enabled)}), labels,
                    ToSet(enabled), ask.experimental, f, FALSE)
      ELSE IF ask.profile = "adaptive_family_ecology_v2"
      THEN EcologySequence(allowed, requested, labels, ask.experimental, f)
      ELSE Validate(LegacySequence(ask.profile, enabled, f, labels.primary,
                                   ask.experimental, legacy, directives),
                    allowed, legacy, labels, {}, ask.experimental, f, FALSE)

\* What is asked of the scheduler, but for the profile and the directives: a
\* context, a mode, a hint at the regime, an override of the budget, whether
\* experiments are on.
Asks ==
  [context : Context, mode : {"adaptive", "fixed"}, hint : STRING, override : Int,
   experimental : BOOLEAN]

SelectSequence(ask, directives) ==
  LET f == Features(ask.context)
  IN  SequenceFor(ask, Optional(ask), Enabled(Optional(ask), directives), f,
                  RegimeLabels(ask.hint, f), MaxSteps(f, ask.override), directives)

-----------------------------------------------------------------------------
(* The execution of the validated sequence.                                *)

\* A family that fails critically, the last step of the budget and pressure
\* after a valid deduction ask for an early stop.
EarlyStop(plan, i, ask, failing, deduced) ==
  LET f == Features(ask.context)
  IN  \/ plan[i] \in failing
      \/ i >= MaxSteps(f, ask.override)
      \/ /\ f.edge >= 8500
         /\ deduced
         /\ Contains(SubSeq(plan, 1, i), "ded")

\* A variant: a stop is not put off until prob has run.
BreaksAtOnce(plan, i, ask, failing, deduced) ==
  ask.mode = "adaptive" /\ EarlyStop(plan, i, ask, failing, deduced)

\* In adaptive mode a stop is put off until prob has run.
Breaks(plan, i, ask, failing, deduced) ==
  /\ ask.mode = "adaptive"
  /\ EarlyStop(plan, i, ask, failing, deduced)
  /\ ~Contains(SubSeq(plan, i + 1, Len(plan)), "prob")

Executed(plan, ask, failing, deduced) ==
  LET ends == {i \in 1 .. Len(plan) : Breaks(plan, i, ask, failing, deduced)}
  IN  SubSeq(plan, 1, Min(ends \cup {Len(plan)}))
=============================================================================
