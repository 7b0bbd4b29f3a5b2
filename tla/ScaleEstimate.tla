---------------------------- MODULE ScaleEstimate ----------------------------
(***************************************************************************)
(* What MSRC thinks of the scales it may run at: the demand the estimator  *)
(* reads from the world, the scales it recommends, the one the policy      *)
(* engine's lexicographic objective picks, and the regime (msrc/           *)
(* scale_estimator.py, scale_catalog.py, regime_classifier.py and the      *)
(* evaluation half of scale_policy_engine.py).                             *)
(*                                                                         *)
(* Signals are percentages; how heterogeneity, epistemic insufficiency and *)
(* operational pressure are measured is left out.  Scores are integers:    *)
(* Risk counts 1/10^4, Required 1/10^6 and cognitive scores 1/(3 * 10^8),  *)
(* the units in which the code's weights are whole.  recent_oscillation is *)
(* left out because the estimator never writes it.                         *)
(***************************************************************************)
EXTENDS Integers

Percent == 0..100

\* What a step knows of the world and of the device.
Demand ==
  [het : Percent, epi : Percent, op : Percent, prox : Percent, low : Percent,
   failed : BOOLEAN, complexity : Percent, blind : Percent,
   opp : Percent, pressure : Percent, frag : Percent]

\* An entry of the catalog: costs in tenths; a scale has all three spatial
\* abilities or none.
ScaleSpec(rank, spatial, time, artifact, prior) ==
  [rank |-> rank, spatial |-> spatial, time |-> time, artifact |-> artifact,
   prior |-> prior]

\* ScaleCatalog.default.  Which of its scales can run is a parameter of the
\* operators below: the catalog is meant to be extended.
Catalog ==
  [s \in {"1x1", "2x2", "3x3", "5x5", "10x10", "30x30"} |->
     CASE s = "1x1"   -> ScaleSpec(1, FALSE, 10, 10, 35)
       [] s = "2x2"   -> ScaleSpec(2, TRUE, 12, 13, 45)
       [] s = "3x3"   -> ScaleSpec(3, TRUE, 15, 17, 58)
       [] s = "5x5"   -> ScaleSpec(5, TRUE, 22, 22, 72)
       [] s = "10x10" -> ScaleSpec(10, TRUE, 45, 55, 83)
       [] s = "30x30" -> ScaleSpec(30, TRUE, 120, 160, 92)]

Scales == DOMAIN Catalog

\* The scales that are executable in the default catalog.
Shipped == {"1x1", "5x5"}

AtMost(x, bound) == IF x <= bound THEN x ELSE bound
Distance(x, y) == IF x <= y THEN y - x ELSE x - y
-----------------------------------------------------------------------------
(* The estimator *)

Risk(e) == 52 * e.prox + 38 * e.low + IF e.failed THEN 500 ELSE 0

Required(e) ==
  34 * Risk(e) + 100 * (33 * e.het + 28 * e.epi + 5 * (100 - e.op))

MinimumRank(e) ==
  LET r == Required(e)
  IN  IF r < 250000 THEN 1 ELSE IF r < 450000 THEN 2 ELSE IF r < 600000 THEN 3
      ELSE IF r < 800000 THEN 5 ELSE IF r < 900000 THEN 10 ELSE 30

Recommended(e) == {s \in Scales : Catalog[s].rank >= MinimumRank(e)}

\* The order of the recommended scales, which decides when nothing is viable.
Priority(spec, e) ==
  550 * spec.prior - 1000 * Distance(spec.rank, MinimumRank(e))
    + 25 * e.opp * AtMost(spec.rank, 10)
-----------------------------------------------------------------------------
(* The candidates and their evaluation *)

NearestExecutable(runs, s) ==
  LET Gap(t) == Distance(Catalog[t].rank, Catalog[s].rank)
  IN  CHOOSE t \in runs :
        \A u \in runs :
          \/ Gap(t) < Gap(u)
          \/ Gap(t) = Gap(u) /\ Catalog[t].rank <= Catalog[u].rank

Candidates(runs, e) == {NearestExecutable(runs, s) : s \in Recommended(e)}

\* One percent of a cognitive score.
Pc(p) == 3000000 * p

\* A variant: the prior of a scale counts for a tenth.
WeakPrior(spec, e, eager) ==
  AtMost(
    5 * 30000 * spec.prior
      + 20 * (3000000 - Distance(3 * Required(e), 100000 * spec.rank))
      + 66000 * e.opp * AtMost(spec.rank, 10),
    Pc(150))

\* _estimate_cognitive_gain; eager is the aggressive and regime_v3 profiles.
Cognitive(spec, e, eager) ==
  AtMost(
    55 * 30000 * spec.prior
      + 20 * (3000000 - Distance(3 * Required(e), 100000 * spec.rank))
      + 66000 * e.opp * AtMost(spec.rank, 10)
      + (IF spec.spatial THEN 540000 * e.het + 420000 * e.epi + 3000 * Risk(e)
                         ELSE 0)
      + (IF eager THEN 240000 * e.het + 210000 * e.epi + 1800 * Risk(e)
                  ELSE 0),
    Pc(150))

\* _estimate_viability is above zero.
ViableAt(spec, e) ==
  /\ ~(Risk(e) >= 9200 /\ ~spec.spatial)
  /\ spec.rank > 5 => /\ ~(e.pressure > 95 /\ e.opp < 25)
                      /\ ~(e.pressure > 90 /\ e.frag > 90)

\* What of _estimate_meta_cost_penalty differs between scales.
MetaCost(spec) == 90 * AtMost(spec.time, 100) + 40 * AtMost(spec.artifact, 150)

Equivalence(eager) == IF eager THEN Pc(2) ELSE Pc(3)

\* _select_lexicographic: cognition, then viability, then cost.
Selected(runs, e, eager) ==
  LET all == Candidates(runs, e)
      viable == {s \in all : ViableAt(Catalog[s], e)}
      top == {s \in viable : \A t \in viable :
                Cognitive(Catalog[t], e, eager) - Cognitive(Catalog[s], e, eager)
                  <= Equivalence(eager)}
  IN  IF viable = {}
        THEN CHOOSE s \in all :
               \A t \in all : Priority(Catalog[s], e) >= Priority(Catalog[t], e)
        ELSE CHOOSE s \in top :
               \A t \in top : MetaCost(Catalog[s]) <= MetaCost(Catalog[t])

\* A scale that is not a candidate counts as worth nothing.
CurrentScore(runs, e, eager, scale) ==
  IF scale \in Candidates(runs, e) THEN Cognitive(Catalog[scale], e, eager) ELSE 0

SelectedScore(runs, e, eager) ==
  Cognitive(Catalog[Selected(runs, e, eager)], e, eager)
-----------------------------------------------------------------------------
(* The regime *)

AtViabilityEdge(e) ==
  \/ Risk(e) >= 7200
  \/ e.low >= 72 /\ e.prox >= 82
  \/ e.prox >= 95 /\ e.complexity < 50 /\ Risk(e) >= 4500
  \/ Risk(e) >= 6200 /\ Required(e) >= 720000

IsHeterogeneous(e) ==
  \/ e.het >= 24
  \/ e.complexity >= 50
  \/ e.blind >= 45
  \/ e.epi >= 34 /\ e.complexity >= 35

RegimeOf(e) ==
  IF AtViabilityEdge(e) THEN "viability_edge"
  ELSE IF IsHeterogeneous(e) THEN "heterogeneous"
  ELSE "homogeneous"

CriticalHighSignal(e) == Risk(e) >= 7800 /\ Required(e) >= 700000
ProbeFavorable(e) == e.opp >= 62 /\ e.pressure < 88 /\ e.epi >= 22
=============================================================================
