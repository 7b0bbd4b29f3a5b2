----------------------------- MODULE ScaleProofs -----------------------------
(***************************************************************************)
(* What the scale controller guarantees for any policies, executable       *)
(* scales, worlds and probe measurements: proofs for module ScaleControl.  *)
(* The first half says what each function of the engine returns, the       *)
(* second what a step of the controller does, and the last draws the       *)
(* invariant and the theorems from that.                                   *)
(***************************************************************************)
EXTENDS ScaleControl, Extremes, TLAPS

-----------------------------------------------------------------------------
(* Policy states and the catalog *)

\* A policy state, field by field.
PS(scale, up, down, cooldown, lock, inflight, last, oscillated) ==
  [scale |-> scale, up |-> up, down |-> down, cooldown |-> cooldown,
   lock |-> lock, inflight |-> inflight, last |-> last,
   oscillated |-> oscillated]

\* A policy state is the record of its eight fields.
LEMMA StateFields ==
  ASSUME NEW s \in PolicyState
  PROVE  /\ s.scale \in Scales /\ s.up \in 0..EvidenceCap /\ s.down \in Nat
         /\ s.cooldown \in Nat /\ s.lock \in Nat
         /\ s.inflight \in Scales \cup {NoScale} /\ s.last \in Actions
         /\ s.oscillated \in BOOLEAN
         /\ s = PS(s.scale, s.up, s.down, s.cooldown, s.lock, s.inflight, s.last,
                   s.oscillated)
  BY DEF PolicyState, PS

\* Eight fields of the right types make a policy state.
LEMMA StateType ==
  ASSUME NEW a \in Scales, NEW b \in 0..EvidenceCap, NEW c \in Nat, NEW d \in Nat,
         NEW e \in Nat, NEW f \in Scales \cup {NoScale}, NEW g \in Actions,
         NEW h \in BOOLEAN
  PROVE  PS(a, b, c, d, e, f, g, h) \in PolicyState
  BY DEF PolicyState, PS

\* The fields of such a record.
LEMMA StateValues ==
  ASSUME NEW a, NEW b, NEW c, NEW d, NEW e, NEW f, NEW g, NEW h
  PROVE  LET s == PS(a, b, c, d, e, f, g, h)
         IN  /\ s.scale = a /\ s.up = b /\ s.down = c /\ s.cooldown = d /\ s.lock = e
             /\ s.inflight = f /\ s.last = g /\ s.oscillated = h
  BY DEF PS

\* The scales of the catalog.
LEMMA CatalogDomain == Scales = {"1x1", "2x2", "3x3", "5x5", "10x10", "30x30"}
  BY DEF Scales, Catalog

\* Its six entries.
LEMMA CatalogEntries ==
  /\ Catalog["1x1"] = ScaleSpec(1, FALSE, 10, 10, 35)
  /\ Catalog["2x2"] = ScaleSpec(2, TRUE, 12, 13, 45)
  /\ Catalog["3x3"] = ScaleSpec(3, TRUE, 15, 17, 58)
  /\ Catalog["5x5"] = ScaleSpec(5, TRUE, 22, 22, 72)
  /\ Catalog["10x10"] = ScaleSpec(10, TRUE, 45, 55, 83)
  /\ Catalog["30x30"] = ScaleSpec(30, TRUE, 120, 160, 92)
  BY DEF Catalog

\* The ranges of their fields.
LEMMA CatalogFields ==
  ASSUME NEW s \in Scales
  PROVE  /\ Catalog[s].rank \in 1..30 /\ Catalog[s].prior \in 35..92
         /\ Catalog[s].time \in 10..120 /\ Catalog[s].artifact \in 10..160
         /\ Catalog[s].spatial \in BOOLEAN
<1>1. CASE s = "1x1"
  BY <1>1, CatalogEntries, SMT DEF ScaleSpec
<1>2. CASE s = "2x2"
  BY <1>2, CatalogEntries, SMT DEF ScaleSpec
<1>3. CASE s = "3x3"
  BY <1>3, CatalogEntries, SMT DEF ScaleSpec
<1>4. CASE s = "5x5"
  BY <1>4, CatalogEntries, SMT DEF ScaleSpec
<1>5. CASE s = "10x10"
  BY <1>5, CatalogEntries, SMT DEF ScaleSpec
<1>6. CASE s = "30x30"
  BY <1>6, CatalogEntries, SMT DEF ScaleSpec
<1>7. QED
  BY <1>1, <1>2, <1>3, <1>4, <1>5, <1>6, CatalogDomain

\* The ranks that the arguments below use.
LEMMA Ranks ==
  /\ Catalog["1x1"].rank = 1
  /\ Catalog["5x5"].rank = 5
  /\ Catalog["30x30"].rank = 30
<1>1. Catalog["1x1"].rank = 1
  BY CatalogEntries DEF ScaleSpec
<1>2. Catalog["5x5"].rank = 5
  BY CatalogEntries DEF ScaleSpec
<1>3. Catalog["30x30"].rank = 30
  BY CatalogEntries DEF ScaleSpec
<1>4. QED
  BY <1>1, <1>2, <1>3

RequiredMax == 1000000

\* Every figure of a world is a percentage.
LEMMA DemandFields ==
  ASSUME NEW e \in Demand
  PROVE  /\ e.het \in Nat /\ e.het <= 100 /\ e.epi \in Nat /\ e.epi <= 100
         /\ e.op \in Nat /\ e.op <= 100 /\ e.prox \in Nat /\ e.prox <= 100
         /\ e.low \in Nat /\ e.low <= 100 /\ e.failed \in BOOLEAN
         /\ e.opp \in Nat /\ e.opp <= 100
  BY DEF Demand, Percent

\* The range of the degradation risk.
LEMMA RiskValue ==
  ASSUME NEW e \in Demand
  PROVE  Risk(e) \in Nat /\ Risk(e) <= 9500
<1> DEFINE f == IF e.failed THEN 500 ELSE 0
           x == e.prox
           y == e.low
<1>1. f \in Nat /\ f <= 500 /\ x \in Nat /\ x <= 100 /\ y \in Nat /\ y <= 100
  BY DemandFields
<1>2. Risk(e) = 52 * x + 38 * y + f
  BY DEF Risk
<1> HIDE DEF f, x, y
<1>3. 52 * x + 38 * y + f \in Nat /\ 52 * x + 38 * y + f <= 9500
  BY <1>1, SMT
<1>4. QED
  BY <1>2, <1>3

\* The range of the required rank's score.
LEMMA RequiredValue ==
  ASSUME NEW e \in Demand
  PROVE  Required(e) \in Nat /\ Required(e) <= RequiredMax
<1> DEFINE r == Risk(e)
           x == e.het
           y == e.epi
           z == e.op
           q == 34 * r + 100 * (33 * x + 28 * y + 5 * (100 - z))
<1>1. /\ r \in Nat /\ r <= 9500 /\ x \in Nat /\ x <= 100 /\ y \in Nat /\ y <= 100
      /\ z \in Nat /\ z <= 100
  BY RiskValue, DemandFields
<1>2. Required(e) = q
  BY DEF Required
<1> HIDE DEF r, x, y, z
<1>3. q \in Nat
  BY <1>1, SMT
<1>4. q <= RequiredMax
  BY <1>1, SMT DEF RequiredMax
<1>5. QED
  BY <1>2, <1>3, <1>4

\* The minimum rank is that of a scale.
LEMMA MinimumRanks ==
  ASSUME NEW e \in Demand
  PROVE  MinimumRank(e) \in {1, 2, 3, 5, 10, 30}
  BY RequiredValue, SMT DEF MinimumRank

-----------------------------------------------------------------------------
(* What the choices return *)

\* The nearest executable scale is executable.
LEMMA NearestRuns ==
  ASSUME NEW runs \in SUBSET Scales, runs # {}, NEW s \in Scales
  PROVE  NearestExecutable(runs, s) \in runs
<1> DEFINE G(t) == Distance(Catalog[t].rank, Catalog[s].rank)
           f == [t \in runs |-> 0 - (31 * G(t) + Catalog[t].rank)]
<1>1. \A t \in runs : /\ Catalog[t].rank \in Int /\ 1 <= Catalog[t].rank
                      /\ Catalog[t].rank <= 30
  BY CatalogFields
<1>2. Catalog[s].rank \in Int
  BY CatalogFields
<1>3. \A t \in runs : G(t) \in Int /\ 0 <= G(t)
  BY <1>1, <1>2 DEF Distance
<1>4. f \in [runs -> Int] /\ \A t \in runs : f[t] <= 0
  BY <1>1, <1>3
<1>5. PICK t \in runs : \A u \in runs : f[u] <= f[t]
  <2> HIDE DEF f
  <2>1. QED
    BY <1>4, Greatest
<1>6. ASSUME NEW u \in runs
      PROVE  \/ G(t) < G(u)
             \/ G(t) = G(u) /\ Catalog[t].rank <= Catalog[u].rank
  <2>1. 31 * G(t) + Catalog[t].rank <= 31 * G(u) + Catalog[u].rank
    BY <1>1, <1>3, <1>5
  <2> HIDE DEF G
  <2>2. QED
    BY <1>1, <1>3, <2>1
<1>7. \E r \in runs : \A u \in runs :
        \/ G(r) < G(u)
        \/ G(r) = G(u) /\ Catalog[r].rank <= Catalog[u].rank
  BY <1>6
<1>8. QED
  BY <1>7 DEF NearestExecutable

\* The candidates are executable, and there is one.
LEMMA CandidatesRun ==
  ASSUME NEW runs \in SUBSET Scales, runs # {}, NEW e \in Demand
  PROVE  /\ Candidates(runs, e) \in SUBSET runs
         /\ NearestExecutable(runs, "30x30") \in Candidates(runs, e)
<1>1. Recommended(e) \subseteq Scales
  BY DEF Recommended
<1>2. "30x30" \in Recommended(e)
  <2>1. MinimumRank(e) <= 30
    BY MinimumRanks
  <2>2. QED
    BY <2>1, Ranks, CatalogDomain DEF Recommended
<1>3. QED
  BY <1>1, <1>2, NearestRuns DEF Candidates

\* The cognitive value of a scale is bounded.
LEMMA CognitiveValue ==
  ASSUME NEW s \in Scales, NEW e \in Demand, NEW eager \in BOOLEAN
  PROVE  /\ Cognitive(Catalog[s], e, eager) \in Int
         /\ Cognitive(Catalog[s], e, eager) <= Pc(150)
<1> DEFINE p == Catalog[s].prior
           k == Catalog[s].rank
           r == Required(e)
           d == Distance(3 * r, 100000 * k)
           o == e.opp * AtMost(k, 10)
           x == IF Catalog[s].spatial
                THEN 540000 * e.het + 420000 * e.epi + 3000 * Risk(e)
                         ELSE 0
           y == IF eager THEN 240000 * e.het + 210000 * e.epi + 1800 * Risk(e)
                  ELSE 0
           v == 55 * 30000 * p + 20 * (3000000 - d)
                  + 66000 * e.opp * AtMost(k, 10) + x + y
<1>1. /\ p \in Int /\ k \in Int /\ Catalog[s].spatial \in BOOLEAN /\ r \in Int
      /\ Risk(e) \in Int /\ e.het \in Int /\ e.epi \in Int /\ e.opp \in Int
  BY CatalogFields, DemandFields, RiskValue, RequiredValue
<1>2. x \in Int
  BY <1>1, SMT
<1>3. y \in Int
  BY <1>1, SMT
<1>4. d \in Int
  BY <1>1, SMT DEF Distance
<1>5. AtMost(k, 10) \in Int
  BY <1>1, SMT DEF AtMost
<1>6. Cognitive(Catalog[s], e, eager) = AtMost(v, Pc(150))
  BY SMT DEF Cognitive
<1>7. v \in Int
  <2> HIDE DEF p, d, x, y
  <2>1. 66000 * e.opp * AtMost(k, 10) \in Int
    BY <1>1, <1>5, SMT
  <2>2. QED
   BY <1>1, <1>2, <1>3, <1>4, <2>1, SMT
<1> HIDE DEF v
<1>8. Pc(150) \in Int
  BY SMT DEF Pc
<1>9. QED
  BY <1>6, <1>7, <1>8, SMT DEF AtMost

\* So is its priority.
LEMMA PriorityValue ==
  ASSUME NEW s \in Scales, NEW e \in Demand
  PROVE  Priority(Catalog[s], e) \in Int /\ Priority(Catalog[s], e) <= 1000 * 1000
<1> DEFINE p == Catalog[s].prior
           d == Distance(Catalog[s].rank, MinimumRank(e))
           a == AtMost(Catalog[s].rank, 10)
           o == 25 * e.opp * a
<1>1. p \in Int /\ p <= 92 /\ Catalog[s].rank \in Int /\ 1 <= Catalog[s].rank
  BY CatalogFields
<1>2. MinimumRank(e) \in Int
  BY MinimumRanks
<1>3. d \in Int /\ 0 <= d
  BY <1>1, <1>2 DEF Distance
<1>4. a \in 1..10
  BY <1>1 DEF AtMost
<1>5. e.opp \in Int /\ 0 <= e.opp /\ e.opp <= 100
  BY DemandFields
<1>6. o \in Int /\ o <= 25000
  <2> HIDE DEF a
  <2>1. a \in {1, 2, 3, 4, 5, 6, 7, 8, 9, 10}
    BY <1>4
  <2>2. QED
    BY <1>5, <2>1, SMT
<1>7. Priority(Catalog[s], e) = 550 * p - 1000 * d + o
  BY SMT DEF Priority
<1> HIDE DEF p, d, o
<1>8. QED
  BY <1>1, <1>3, <1>6, <1>7, SMT

\* So is its cost.
LEMMA CostValue ==
  ASSUME NEW s \in Scales
  PROVE  MetaCost(Catalog[s]) \in Int /\ 0 <= MetaCost(Catalog[s])
<1>1. Catalog[s].time \in 10..120 /\ Catalog[s].artifact \in 10..160
  BY CatalogFields
<1> DEFINE x == AtMost(Catalog[s].time, 100)
           y == AtMost(Catalog[s].artifact, 150)
<1>2. x \in Int /\ 0 <= x /\ y \in Int /\ 0 <= y
  BY <1>1 DEF AtMost
<1>3. MetaCost(Catalog[s]) = 90 * x + 40 * y
  BY SMT DEF MetaCost
<1> HIDE DEF x, y
<1>4. QED
  BY <1>2, <1>3, SMT

\* The larger of the two scales that can run is worth more in every world.
LEMMA LargerIsWorthMore ==
  ASSUME NEW e \in Demand, NEW eager \in BOOLEAN
  PROVE  Cognitive(Catalog["5x5"], e, eager) - Cognitive(Catalog["1x1"], e, eager)
           > Equivalence(eager)
<1> DEFINE r == Required(e)
           k == Risk(e)
           h == e.het
           p == e.epi
           o == e.opp
           d1 == Distance(3 * r, 100000)
           d5 == Distance(3 * r, 500000)
           x == IF eager THEN 240000 * h + 210000 * p + 1800 * k ELSE 0
           y == 540000 * h + 420000 * p + 3000 * k
           low == 55 * 30000 * 35 + 20 * (3000000 - d1) + 66000 * o * 1 + 0 + x
           high == 55 * 30000 * 72 + 20 * (3000000 - d5) + 66000 * o * 5 + y + x
           q == Equivalence(eager)
<1>1. /\ r \in Nat /\ k \in Nat /\ k <= 9500
      /\ h \in Nat /\ h <= 100 /\ p \in Nat /\ p <= 100 /\ o \in Nat /\ o <= 100
  BY DemandFields, RiskValue, RequiredValue
<1>2. Cognitive(Catalog["1x1"], e, eager) = AtMost(low, Pc(150))
  <2>1. AtMost(1, 10) = 1
    BY DEF AtMost
  <2>2. Catalog["1x1"].prior = 35 /\ Catalog["1x1"].rank = 1 /\ ~Catalog["1x1"].spatial
    BY CatalogEntries DEF ScaleSpec
  <2>3. QED
    BY <1>1, <2>1, <2>2, SMT DEF Cognitive
<1>3. Cognitive(Catalog["5x5"], e, eager) = AtMost(high, Pc(150))
  <2>1. AtMost(5, 10) = 5
    BY DEF AtMost
  <2>2. Catalog["5x5"].prior = 72 /\ Catalog["5x5"].rank = 5 /\ Catalog["5x5"].spatial
    BY CatalogEntries DEF ScaleSpec
  <2>3. QED
    BY <1>1, <2>1, <2>2, SMT DEF Cognitive
<1>4. /\ d1 \in Int /\ d5 \in Int /\ 0 <= d1 /\ d5 - d1 <= 400000
  BY <1>1, SMT DEF Distance
<1>5. x \in Int /\ 0 <= x /\ x <= 63000000
  BY <1>1, SMT
<1>6. y \in Int /\ 0 <= y
  BY <1>1, SMT
<1>7. q \in Int /\ q <= 9000000
  BY SMT DEF Equivalence, Pc
<1>8. Pc(150) = 450000000
  BY SMT DEF Pc
<1> HIDE DEF r, k, h, p, o, d1, d5, x, y, q
<1>9. low \in Int /\ high \in Int
  BY <1>1, <1>4, <1>5, <1>6, SMT
<1>10. high - low > q
  BY <1>1, <1>4, <1>5, <1>6, <1>7, SMT
<1>11. 450000000 - low > q
  BY <1>1, <1>4, <1>5, <1>7, SMT
<1> HIDE DEF low, high
<1>12. AtMost(high, 450000000) - AtMost(low, 450000000) > q
  BY <1>7, <1>9, <1>10, <1>11, SMT DEF AtMost
<1>13. QED
  BY <1>2, <1>3, <1>8, <1>12, SMT DEF q

\* The scale the estimator recommends is executable.
LEMMA SelectedRuns ==
  ASSUME NEW runs \in SUBSET Scales, runs # {}, NEW e \in Demand, NEW eager \in BOOLEAN
  PROVE  Selected(runs, e, eager) \in runs
<1> DEFINE all == Candidates(runs, e)
           viable == {s \in all : ViableAt(Catalog[s], e)}
           top == {s \in viable : \A t \in viable :
                     Cognitive(Catalog[t], e, eager) - Cognitive(Catalog[s], e, eager)
                       <= Equivalence(eager)}
           best == CHOOSE s \in all :
                     \A t \in all : Priority(Catalog[s], e) >= Priority(Catalog[t], e)
           cheapest == CHOOSE s \in top :
                         \A t \in top : MetaCost(Catalog[s]) <= MetaCost(Catalog[t])
<1>1. all \in SUBSET runs /\ all # {} /\ all \in SUBSET Scales
  BY CandidatesRun
<1>2. Selected(runs, e, eager) = IF viable = {} THEN best ELSE cheapest
  BY DEF Selected
<1> HIDE DEF all
<1>3. best \in all
  <2> DEFINE f == [s \in all |-> Priority(Catalog[s], e)]
             b == 1000 * 1000
  <2>1. f \in [all -> Int] /\ \A s \in all : f[s] <= b
    BY <1>1, PriorityValue
  <2>2. b \in Int
    BY SMT
  <2>3. PICK s \in all : \A t \in all : f[t] <= f[s]
    <3> HIDE DEF f, b
    <3>1. QED
      BY <1>1, <2>1, <2>2, Greatest
  <2>4. \A t \in all : Priority(Catalog[s], e) >= Priority(Catalog[t], e)
    BY <1>1, <2>3, PriorityValue
  <2>5. QED
    BY <2>4
<1>4. ASSUME viable # {} PROVE cheapest \in top
  <2>1. top # {}
    <3> DEFINE f == [s \in viable |-> Cognitive(Catalog[s], e, eager)]
               b == Pc(150)
    <3>1. f \in [viable -> Int] /\ \A s \in viable : f[s] <= b
      BY <1>1, CognitiveValue
    <3>2. b \in Int
      BY SMT DEF Pc
    <3>3. PICK s \in viable : \A t \in viable : f[t] <= f[s]
      <4> HIDE DEF f, b, viable
      <4>1. QED
        BY <1>4, <3>1, <3>2, Greatest
    <3>4. Equivalence(eager) \in Int /\ 0 <= Equivalence(eager)
      BY SMT DEF Equivalence, Pc
    <3>5. \A t \in viable :
            Cognitive(Catalog[t], e, eager) - Cognitive(Catalog[s], e, eager)
              <= Equivalence(eager)
      BY <1>1, <3>3, <3>4, CognitiveValue
    <3>6. QED
      BY <3>5
  <2> DEFINE f == [s \in top |-> 0 - MetaCost(Catalog[s])]
  <2>2. top \in SUBSET Scales
    BY <1>1
  <2> HIDE DEF top
  <2>3. f \in [top -> Int] /\ \A s \in top : f[s] <= 0
    BY <2>2, CostValue
  <2>4. PICK s \in top : \A t \in top : f[t] <= f[s]
    <3> HIDE DEF f
    <3>1. QED
      BY <2>1, <2>3, Greatest
  <2>5. \A t \in top : MetaCost(Catalog[s]) <= MetaCost(Catalog[t])
    BY <2>2, <2>4, CostValue
  <2>6. QED
    BY <2>5
<1>5. QED
  BY <1>1, <1>2, <1>3, <1>4

\* With the scales that can run today, every world's best is the larger one.
LEMMA SelectedShipped ==
  ASSUME NEW e \in Demand, NEW eager \in BOOLEAN
  PROVE  Selected(Shipped, e, eager) = "5x5"
<1> DEFINE all == Candidates(Shipped, e)
           viable == {s \in all : ViableAt(Catalog[s], e)}
           top == {s \in viable : \A t \in viable :
                     Cognitive(Catalog[t], e, eager) - Cognitive(Catalog[s], e, eager)
                       <= Equivalence(eager)}
           low == Cognitive(Catalog["1x1"], e, eager)
           high == Cognitive(Catalog["5x5"], e, eager)
<1>1. Shipped \in SUBSET Scales /\ Shipped = {"1x1", "5x5"}
  BY CatalogDomain DEF Shipped
<1>2. NearestExecutable(Shipped, "30x30") = "5x5"
  BY <1>1, Ranks DEF NearestExecutable, Distance
<1>3. "5x5" \in all /\ all \subseteq {"1x1", "5x5"}
  BY <1>1, <1>2, CandidatesRun
<1>4. "5x5" \in viable
  BY <1>3, CatalogEntries, SMT DEF ViableAt, ScaleSpec
<1>5. low \in Int /\ high \in Int /\ high - low > Equivalence(eager)
  BY <1>1, CognitiveValue, LargerIsWorthMore
<1>6. Equivalence(eager) \in Int /\ 0 <= Equivalence(eager)
  BY SMT DEF Equivalence, Pc
<1>7. top = {"5x5"}
  BY <1>3, <1>4, <1>5, <1>6
<1>8. Selected(Shipped, e, eager) = CHOOSE s \in top :
                         \A t \in top : MetaCost(Catalog[s]) <= MetaCost(Catalog[t])
  BY <1>4 DEF Selected
<1>9. MetaCost(Catalog["5x5"]) \in Int
  BY <1>1, CostValue
<1>10. QED
  BY <1>7, <1>8, <1>9

-----------------------------------------------------------------------------
(* What a decision does to the policy state *)

\* The ranges of a profile's thresholds, in any world.
LEMMA ProfileFields ==
  ASSUME NEW policy \in Policies, NEW e
  PROVE  /\ ProfileAt(policy, e).nUp \in 1..4 /\ ProfileAt(policy, e).nDown \in 4..6
         /\ ProfileAt(policy, e).lock \in 2..3 /\ ProfileAt(policy, e).cooldown \in 1..2
         /\ policy = "baseline" => /\ ProfileAt(policy, e).nUp = 3
                                   /\ ProfileAt(policy, e).lock = 3
         /\ policy = "aggressive" => /\ ProfileAt(policy, e).nUp = 2
                                     /\ ProfileAt(policy, e).lock = 2
<1>1. policy \in {"baseline", "aggressive", "regime_v3"}
  BY PoliciesAssumption
<1>2. CASE policy = "baseline"
  BY <1>2, SMT DEF ProfileAt, Profile
<1>3. CASE policy = "aggressive"
  BY <1>3, SMT DEF ProfileAt, Profile
<1>4. CASE policy = "regime_v3"
  <2>1. ProfileAt(policy, e) = RegimeProfile(RegimeOf(e))
    BY <1>4 DEF ProfileAt
  <2>2. RegimeOf(e) \in {"homogeneous", "heterogeneous", "viability_edge"}
    BY DEF RegimeOf
  <2>3. CASE RegimeOf(e) = "homogeneous"
    BY <1>4, <2>1, <2>3, SMT DEF RegimeProfile, Profile
  <2>4. CASE RegimeOf(e) = "heterogeneous"
    BY <1>4, <2>1, <2>4, SMT DEF RegimeProfile, Profile
  <2>5. CASE RegimeOf(e) = "viability_edge"
    BY <1>4, <2>1, <2>5, SMT DEF RegimeProfile, Profile
  <2>6. QED
    BY <2>2, <2>3, <2>4, <2>5
<1>5. QED
  BY <1>1, <1>2, <1>3, <1>4

\* What consuming a positive probe result does.
LEMMA CommitIs ==
  ASSUME NEW a, NEW b, NEW c, NEW d, NEW l, NEW i, NEW g, NEW h, NEW p
  PROVE  CommitProbe(PS(a, b, c, d, l, i, g, h), p) =
           Decision(PS(a, b, c, p.cooldown, p.lock, NoScale, g, h),
                    "commit_probe_result", i)
<1> DEFINE s == PS(a, b, c, d, l, i, g, h)
<1>1. [s EXCEPT !.inflight = NoScale] = PS(a, b, c, d, l, NoScale, g, h)
  BY DEF PS
<1>2. [PS(a, b, c, d, l, NoScale, g, h) EXCEPT !.cooldown = p.cooldown] =
        PS(a, b, c, p.cooldown, l, NoScale, g, h)
  BY DEF PS
<1>3. [PS(a, b, c, p.cooldown, l, NoScale, g, h) EXCEPT !.lock = p.lock] =
        PS(a, b, c, p.cooldown, p.lock, NoScale, g, h)
  BY DEF PS
<1>4. s.inflight = i
  BY StateValues
<1> HIDE DEF s
<1>5. [s EXCEPT !.inflight = NoScale, !.cooldown = p.cooldown, !.lock = p.lock] =
        PS(a, b, c, p.cooldown, p.lock, NoScale, g, h)
  BY <1>1, <1>2, <1>3
<1>6. QED
  BY <1>4, <1>5 DEF CommitProbe, s

\* What consuming any other probe result does.
LEMMA DiscardIs ==
  ASSUME NEW a, NEW b, NEW c, NEW d, NEW l, NEW i, NEW g, NEW h
  PROVE  DiscardProbe(PS(a, b, c, d, l, i, g, h)) =
           Decision(PS(a, b, c, d, l, NoScale, g, h), "discard_probe_result", a)
<1>1. PS(a, b, c, d, l, i, g, h).scale = a
  BY StateValues
<1>2. [PS(a, b, c, d, l, i, g, h) EXCEPT !.inflight = NoScale] =
        PS(a, b, c, d, l, NoScale, g, h)
  BY DEF PS
<1>3. QED
  BY <1>1, <1>2 DEF DiscardProbe

\* What evidence for a larger scale does.
LEMMA UpgradeIs ==
  ASSUME NEW policy, NEW e, NEW a, NEW b \in Nat, NEW c \in Nat, NEW d, NEW l, NEW i,
         NEW g, NEW h, NEW selected, NEW gain,
         ProfileAt(policy, e).nUp \in Int
  PROVE  LET U == Upgrade(policy, e, PS(a, b, c, d, l, i, g, h), selected, gain)
             p == ProfileAt(policy, e)
         IN  \E u \in 0..EvidenceCap, v \in Nat :
               /\ u <= b + 1
               /\ \/ U = Decision(PS(a, u, v, d, l, i, g, h), "keep_scale", a)
                  \/ /\ p.nUp <= u
                     /\ U = Decision(PS(a, u, v, p.cooldown, l, selected, g, h),
                                     "fork_probe", selected)
                  \/ /\ p.nUp <= u
                     /\ U = Decision(PS(a, 0, v, p.cooldown, p.lock, i, g, h),
                                     "upgrade_scale", selected)
<1> DEFINE s == PS(a, b, c, d, l, i, g, h)
           p == ProfileAt(policy, e)
           signal == WantsUpgrade(policy, e, gain)
           u == IF signal THEN AtMost(s.up + 1, EvidenceCap) ELSE 0
           v == IF signal THEN 0 ELSE s.down
           w == [s EXCEPT !.up = u, !.down = v]
           U == Upgrade(policy, e, s, selected, gain)
<1>1. s.up = b /\ s.down = c
  BY StateValues
<1>2. u \in 0..EvidenceCap /\ v \in Nat /\ u <= b + 1
  BY <1>1 DEF AtMost, EvidenceCap
<1>3. U = IF u < p.nUp THEN Keep(w)
          ELSE IF WantsProbe(policy, e, gain)
            THEN Decision([w EXCEPT !.inflight = selected, !.cooldown = p.cooldown],
                          "fork_probe", selected)
            ELSE Decision([w EXCEPT !.cooldown = p.cooldown, !.lock = p.lock, !.up = 0],
                          "upgrade_scale", selected)
  BY DEF Upgrade
<1>4. w = PS(a, u, v, d, l, i, g, h)
  <2> HIDE DEF s, u, v
  <2>1. [s EXCEPT !.up = u] = PS(a, u, c, d, l, i, g, h)
    BY DEF PS, s
  <2>2. [PS(a, u, c, d, l, i, g, h) EXCEPT !.down = v] = PS(a, u, v, d, l, i, g, h)
    BY DEF PS
  <2>3. QED
    BY <2>1, <2>2
<1> HIDE DEF w, U, u, v, p, s
<1>5. Keep(w) = Decision(PS(a, u, v, d, l, i, g, h), "keep_scale", a)
  BY <1>4, StateValues DEF Keep
<1>6. [w EXCEPT !.inflight = selected, !.cooldown = p.cooldown] =
        PS(a, u, v, p.cooldown, l, selected, g, h)
  <2>1. [w EXCEPT !.inflight = selected] = PS(a, u, v, d, l, selected, g, h)
    BY <1>4 DEF PS
  <2>2. [PS(a, u, v, d, l, selected, g, h) EXCEPT !.cooldown = p.cooldown] =
          PS(a, u, v, p.cooldown, l, selected, g, h)
    BY DEF PS
  <2>3. QED
    BY <2>1, <2>2
<1>7. [w EXCEPT !.cooldown = p.cooldown, !.lock = p.lock, !.up = 0] =
        PS(a, 0, v, p.cooldown, p.lock, i, g, h)
  <2>1. [w EXCEPT !.cooldown = p.cooldown] = PS(a, u, v, p.cooldown, l, i, g, h)
    BY <1>4 DEF PS
  <2>2. [PS(a, u, v, p.cooldown, l, i, g, h) EXCEPT !.lock = p.lock] =
          PS(a, u, v, p.cooldown, p.lock, i, g, h)
    BY DEF PS
  <2>3. [PS(a, u, v, p.cooldown, p.lock, i, g, h) EXCEPT !.up = 0] =
          PS(a, 0, v, p.cooldown, p.lock, i, g, h)
    BY DEF PS
  <2>4. QED
    BY <2>1, <2>2, <2>3
<1>8. p.nUp \in Int
  BY DEF p
<1>9. /\ u \in 0..EvidenceCap /\ v \in Nat /\ u <= b + 1
      /\ \/ U = Decision(PS(a, u, v, d, l, i, g, h), "keep_scale", a)
         \/ /\ p.nUp <= u
            /\ U = Decision(PS(a, u, v, p.cooldown, l, selected, g, h),
                            "fork_probe", selected)
         \/ /\ p.nUp <= u
            /\ U = Decision(PS(a, 0, v, p.cooldown, p.lock, i, g, h),
                            "upgrade_scale", selected)
  BY <1>2, <1>3, <1>5, <1>6, <1>7, <1>8 DEF EvidenceCap
<1>10. QED
  BY <1>9 DEF U, p, s

\* What evidence for a smaller scale does.
LEMMA DowngradeIs ==
  ASSUME NEW policy, NEW e, NEW a, NEW b, NEW c \in Nat, NEW d, NEW l, NEW i, NEW g,
         NEW h, NEW selected, NEW loss, ProfileAt(policy, e).lock \in Nat
  PROVE  LET D == Downgrade(policy, e, PS(a, b, c, d, l, i, g, h), selected, loss)
             p == ProfileAt(policy, e)
         IN  \/ D = Decision(PS(a, b, 0, d, l, i, g, h), "keep_scale", a)
             \/ D = Decision(PS(a, 0, c + 1, d, l, i, g, h), "keep_scale", a)
             \/ \E m \in Nat :
                  /\ p.lock - 1 <= m /\ 1 <= m
                  /\ ~(c + 1 < p.nDown)
                  /\ D = Decision(PS(a, 0, 0, p.cooldown, m, i, g, h),
                                  "downgrade_scale", selected)
<1> DEFINE s == PS(a, b, c, d, l, i, g, h)
           p == ProfileAt(policy, e)
           m == IF p.lock > 1 THEN p.lock - 1 ELSE 1
           down == s.down + 1
           w == [s EXCEPT !.down = down, !.up = 0]
           D == Downgrade(policy, e, s, selected, loss)
           blocked == BlocksDowngrade(policy, e, loss)
<1>1. s.down = c
  BY StateValues
<1>2. D = IF blocked THEN Keep([s EXCEPT !.down = 0])
          ELSE IF down < p.nDown THEN Keep(w)
          ELSE Decision([w EXCEPT !.cooldown = p.cooldown, !.down = 0, !.lock = m],
                        "downgrade_scale", selected)
  BY DEF Downgrade
<1>3. Keep([s EXCEPT !.down = 0]) = Decision(PS(a, b, 0, d, l, i, g, h), "keep_scale", a)
  <2>1. [s EXCEPT !.down = 0] = PS(a, b, 0, d, l, i, g, h)
    BY DEF PS
  <2>2. QED
    BY <2>1, StateValues DEF Keep
<1>4. w = PS(a, 0, c + 1, d, l, i, g, h)
  <2>1. [s EXCEPT !.down = down] = PS(a, b, c + 1, d, l, i, g, h)
    BY <1>1 DEF PS
  <2>2. [PS(a, b, c + 1, d, l, i, g, h) EXCEPT !.up = 0] = PS(a, 0, c + 1, d, l, i, g, h)
    BY DEF PS
  <2> HIDE DEF s, down
  <2>3. QED
    BY <2>1, <2>2
<1>5. m \in Nat /\ p.lock - 1 <= m /\ 1 <= m
  OBVIOUS
<1>6. down = c + 1
  BY <1>1
<1> HIDE DEF w, D, blocked, m, p, s, down
<1>7. Keep(w) = Decision(PS(a, 0, c + 1, d, l, i, g, h), "keep_scale", a)
  BY <1>4, StateValues DEF Keep
<1>8. [w EXCEPT !.cooldown = p.cooldown, !.down = 0, !.lock = m] =
        PS(a, 0, 0, p.cooldown, m, i, g, h)
  <2>1. [w EXCEPT !.cooldown = p.cooldown] = PS(a, 0, c + 1, p.cooldown, l, i, g, h)
    BY <1>4 DEF PS
  <2>2. [PS(a, 0, c + 1, p.cooldown, l, i, g, h) EXCEPT !.down = 0] =
          PS(a, 0, 0, p.cooldown, l, i, g, h)
    BY DEF PS
  <2>3. [PS(a, 0, 0, p.cooldown, l, i, g, h) EXCEPT !.lock = m] =
          PS(a, 0, 0, p.cooldown, m, i, g, h)
    BY DEF PS
  <2>4. QED
    BY <2>1, <2>2, <2>3
<1>9. \/ D = Decision(PS(a, b, 0, d, l, i, g, h), "keep_scale", a)
      \/ D = Decision(PS(a, 0, c + 1, d, l, i, g, h), "keep_scale", a)
      \/ /\ ~(c + 1 < p.nDown)
         /\ D = Decision(PS(a, 0, 0, p.cooldown, m, i, g, h),
                         "downgrade_scale", selected)
  BY <1>2, <1>3, <1>6, <1>7, <1>8
<1>10. QED
  BY <1>5, <1>9 DEF D, p, s

\* What agreement with the current scale does.
LEMMA SettledIs ==
  ASSUME NEW policy, NEW a, NEW b \in Nat, NEW c \in Nat, NEW d, NEW l, NEW i, NEW g, NEW h
  PROVE  \E u \in {0, b}, v \in {0, c} :
           Settled(policy, PS(a, b, c, d, l, i, g, h)) =
             Decision(PS(a, u, v, d, l, i, g, h), "keep_scale", a)
<1> DEFINE s == PS(a, b, c, d, l, i, g, h)
<1>1. [s EXCEPT !.up = 0] = PS(a, 0, c, d, l, i, g, h)
  BY DEF PS
<1>2. [PS(a, 0, c, d, l, i, g, h) EXCEPT !.down = 0] = PS(a, 0, 0, d, l, i, g, h)
  BY DEF PS
<1>3. \A u, v : Keep(PS(a, u, v, d, l, i, g, h)) =
                Decision(PS(a, u, v, d, l, i, g, h), "keep_scale", a)
  BY StateValues DEF Keep
<1>4. Settled(policy, s) = IF policy = "regime_v3" THEN Keep(s)
                           ELSE Keep([s EXCEPT !.up = 0, !.down = 0])
  BY DEF Settled
<1>5. [s EXCEPT !.up = 0, !.down = 0] = PS(a, 0, 0, d, l, i, g, h)
  <2> HIDE DEF s
  <2>1. QED
    BY <1>1, <1>2
<1>6. QED
  BY <1>3, <1>4, <1>5

\* What the counting at the start of a decision does.
LEMMA TickedIs ==
  ASSUME NEW a, NEW b, NEW c, NEW d \in Nat, NEW l \in Nat, NEW i, NEW g, NEW h
  PROVE  \E k \in Nat :
           Ticked(PS(a, b, c, d, l, i, g, h)) =
             PS(a, b, c, k, Positive(l - 1), i, g, h)
<1> DEFINE s == PS(a, b, c, d, l, i, g, h)
           k == Positive(s.cooldown - 1)
           m == Positive(s.lock - 1)
<1>1. s.cooldown = d /\ s.lock = l
  BY StateValues
<1>2. k \in Nat /\ m = Positive(l - 1)
  BY <1>1 DEF Positive
<1>3. Ticked(s) = [s EXCEPT !.cooldown = k, !.lock = m]
  BY DEF Ticked
<1> HIDE DEF k, m
<1>4. [s EXCEPT !.cooldown = k] = PS(a, b, c, k, l, i, g, h)
  BY DEF PS
<1>5. [PS(a, b, c, k, l, i, g, h) EXCEPT !.lock = m] = PS(a, b, c, k, m, i, g, h)
  BY DEF PS
<1>6. Ticked(s) = PS(a, b, c, k, m, i, g, h)
  <2> HIDE DEF s
  <2>1. QED
    BY <1>3, <1>4, <1>5
<1>7. QED
  BY <1>2, <1>6

\* What remembering the decision does.
LEMMA RegisteredIs ==
  ASSUME NEW a, NEW b, NEW c, NEW d, NEW l, NEW i, NEW g, NEW h \in BOOLEAN,
         NEW ac, NEW target
  PROVE  \E f \in BOOLEAN :
           /\ f => h \/ {g, ac} = {"upgrade_scale", "downgrade_scale"}
           /\ Registered(Decision(PS(a, b, c, d, l, i, g, h), ac, target)) =
                Decision(PS(a, b, c, d, l, i, ac, f), ac, target)
<1> DEFINE s == PS(a, b, c, d, l, i, g, h)
           x == Decision(s, ac, target)
           f == \/ x.state.oscillated
                \/ {x.state.last, x.action} = {"upgrade_scale", "downgrade_scale"}
<1>1. x.state = s /\ x.action = ac /\ s.last = g /\ s.oscillated = h
  BY StateValues DEF Decision
<1>2. Registered(x) = [x EXCEPT !.state.last = x.action, !.state.oscillated = f]
  BY DEF Registered
<1>3. f \in BOOLEAN /\ (f => h \/ {g, ac} = {"upgrade_scale", "downgrade_scale"})
  BY <1>1
<1> HIDE DEF f
<1>4. [x EXCEPT !.state.last = x.action] =
        Decision(PS(a, b, c, d, l, i, ac, h), ac, target)
  BY DEF Decision, PS
<1>5. [Decision(PS(a, b, c, d, l, i, ac, h), ac, target)
          EXCEPT !.state.oscillated = f] =
        Decision(PS(a, b, c, d, l, i, ac, f), ac, target)
  BY DEF Decision, PS
<1>6. Registered(x) = Decision(PS(a, b, c, d, l, i, ac, f), ac, target)
  <2> HIDE DEF x
  <2>1. QED
    BY <1>2, <1>4, <1>5
<1>7. QED
  BY <1>3, <1>6

\* What each kind of decision x does to a state old, with u and v its evidence,
\* n its lock and j its probe afterwards, and t the target.
Outcome(policy, runs, e, old, result, x, t, u, v, n, j) ==
  LET p == ProfileAt(policy, e)
      best == Selected(runs, e, Eager(policy))
  IN  \/ /\ x = "commit_probe_result" /\ old.inflight # NoScale /\ result # NoScale
         /\ t = old.inflight /\ j = NoScale /\ n = p.lock
         /\ ProbeProven(policy, e, result)
      \/ /\ x = "discard_probe_result" /\ t = old.scale /\ j = NoScale
         /\ u = old.up /\ v = old.down /\ n = Positive(old.lock - 1)
      \/ /\ x = "lock_scale_for_n_steps" /\ t = old.scale /\ j = old.inflight
         /\ u = old.up /\ v = old.down /\ n = Positive(old.lock - 1)
      \/ /\ x = "keep_scale" /\ t = old.scale /\ j = old.inflight
         /\ old.lock <= 1 /\ n = 0
      \/ /\ x = "fork_probe" /\ t = best /\ j = best
         /\ old.lock <= 1 /\ n = 0 /\ p.nUp <= old.up + 1
      \/ /\ x = "upgrade_scale" /\ t = best /\ j = old.inflight
         /\ old.lock <= 1 /\ n = p.lock /\ p.nUp <= old.up + 1
      \/ /\ x = "downgrade_scale" /\ t = best /\ j = old.inflight
         /\ Catalog[best].rank < Catalog[old.scale].rank
         /\ old.lock <= 1 /\ p.lock - 1 <= n /\ 1 <= n /\ u = 0 /\ v = 0
         /\ p.nDown <= old.down + 1

\* Every decision is one of these.
LEMMA DecideIs ==
  ASSUME NEW policy \in Policies, NEW runs \in SUBSET Scales, runs # {},
         NEW e \in Demand, NEW old \in PolicyState, NEW result
  PROVE  \E u \in 0..EvidenceCap, v, k, n \in Nat, j \in Scales \cup {NoScale},
            x \in Actions, t \in Scales, f \in BOOLEAN :
           /\ Decide(policy, runs, e, old, result) =
                Decision(PS(old.scale, u, v, k, n, j, x, f), x, t)
           /\ f => old.oscillated \/ {old.last, x} = {"upgrade_scale", "downgrade_scale"}
           /\ Outcome(policy, runs, e, old, result, x, t, u, v, n, j)
<1> DEFINE a == old.scale
           b == old.up
           c == old.down
           l == old.lock
           i == old.inflight
           g == old.last
           h == old.oscillated
           m == Positive(l - 1)
           p == ProfileAt(policy, e)
           best == Selected(runs, e, Eager(policy))
<1>1. /\ a \in Scales /\ b \in 0..EvidenceCap /\ c \in Nat /\ old.cooldown \in Nat
      /\ l \in Nat /\ i \in Scales \cup {NoScale} /\ g \in Actions /\ h \in BOOLEAN
      /\ old = PS(a, b, c, old.cooldown, l, i, g, h)
  BY StateFields
<1>2. PICK k \in Nat : Ticked(old) = PS(a, b, c, k, m, i, g, h)
  BY <1>1, TickedIs
<1>3. m \in Nat /\ (l <= 1 <=> m = 0) /\ (m > 0 <=> ~(l <= 1))
  BY <1>1 DEF Positive
<1>4. best \in Scales
  BY SelectedRuns DEF Eager
<1>5. /\ p.nUp \in Nat /\ p.nDown \in Nat /\ p.lock \in Nat /\ p.cooldown \in Nat
  BY ProfileFields
<1> DEFINE now == PS(a, b, c, k, m, i, g, h)
           free == IF i # NoScale /\ result # NoScale
                     THEN Judge(policy, e, now, result)
                   ELSE IF m > 0 THEN Decision(now, "lock_scale_for_n_steps", a)
                   ELSE IF k > 0 THEN Keep(now)
                   ELSE Weigh(policy, runs, e, now)
<1>6. now.scale = a /\ now.lock = m /\ now.cooldown = k /\ now.inflight = i
  BY StateValues
<1>7. Decide(policy, runs, e, old, result) = Registered(free)
  BY <1>2, <1>6 DEF Decide
<1> DEFINE Found(y, x, t, u, v, w, n, j) ==
             /\ y = Decision(PS(a, u, v, w, n, j, g, h), x, t)
             /\ Outcome(policy, runs, e, old, result, x, t, u, v, n, j)
           Some(y) ==
             \E u \in 0..EvidenceCap, v, w, n \in Nat, j \in Scales \cup {NoScale},
                x \in Actions, t \in Scales : Found(y, x, t, u, v, w, n, j)
<1>8. Keep(now) = Decision(now, "keep_scale", a)
  BY <1>6 DEF Keep
<1>9. ASSUME i # NoScale, result # NoScale
      PROVE  Some(Judge(policy, e, now, result))
  <2>1. CASE ProbeProven(policy, e, result)
    <3>1. Judge(policy, e, now, result) =
            Decision(PS(a, b, c, p.cooldown, p.lock, NoScale, g, h),
                     "commit_probe_result", i)
      BY <2>1, CommitIs DEF Judge
    <3>2. Outcome(policy, runs, e, old, result, "commit_probe_result", i, b, c,
                  p.lock, NoScale)
      BY <1>9, <2>1 DEF Outcome
    <3>3. QED
      BY <1>1, <1>5, <1>9, <3>1, <3>2 DEF Actions
  <2>2. CASE ~ProbeProven(policy, e, result)
    <3>1. Judge(policy, e, now, result) =
            Decision(PS(a, b, c, k, m, NoScale, g, h), "discard_probe_result", a)
      BY <2>2, DiscardIs DEF Judge
    <3>2. Outcome(policy, runs, e, old, result, "discard_probe_result", a, b, c, m,
                  NoScale)
      BY DEF Outcome
    <3>3. QED
      BY <1>1, <1>3, <3>1, <3>2 DEF Actions
  <2>3. QED
    BY <2>1, <2>2
<1>10. ASSUME m > 0
       PROVE  Some(Decision(now, "lock_scale_for_n_steps", a))
  <2>1. Found(Decision(now, "lock_scale_for_n_steps", a), "lock_scale_for_n_steps",
              a, b, c, k, m, i)
    BY DEF Outcome
  <2>2. QED
    BY <1>1, <1>3, <2>1 DEF Actions
<1>11. ASSUME m = 0, NEW u \in 0..EvidenceCap, NEW v \in Nat, NEW w \in Nat
       PROVE  Some(Decision(PS(a, u, v, w, m, i, g, h), "keep_scale", a))
  <2>1. Found(Decision(PS(a, u, v, w, m, i, g, h), "keep_scale", a),
              "keep_scale", a, u, v, w, m, i)
    BY <1>3, <1>11 DEF Outcome
  <2>2. QED
    BY <1>1, <1>3, <2>1 DEF Actions
<1>12. ASSUME m = 0
       PROVE  Some(Weigh(policy, runs, e, now))
  <2> DEFINE gain == SelectedScore(runs, e, Eager(policy))
                       - CurrentScore(runs, e, Eager(policy), now.scale)
             rise == Catalog[best].rank - Catalog[now.scale].rank
             U == Upgrade(policy, e, now, best, gain)
             D == Downgrade(policy, e, now, best, -gain)
             S == Settled(policy, now)
  <2>1. Weigh(policy, runs, e, now) =
          IF rise > 0 THEN U ELSE IF rise < 0 THEN D ELSE S
    BY DEF Weigh
  <2>2. Catalog[best].rank \in Int /\ Catalog[a].rank \in Int
    BY <1>1, <1>4, CatalogFields
  <2>3. Some(U)
    <3>1. PICK u \in 0..EvidenceCap, v \in Nat :
            /\ u <= b + 1
            /\ \/ U = Decision(PS(a, u, v, k, m, i, g, h), "keep_scale", a)
               \/ /\ p.nUp <= u
                  /\ U = Decision(PS(a, u, v, p.cooldown, m, best, g, h),
                                  "fork_probe", best)
               \/ /\ p.nUp <= u
                  /\ U = Decision(PS(a, 0, v, p.cooldown, p.lock, i, g, h),
                                  "upgrade_scale", best)
      <4> HIDE DEF a, b, c, g, h, i, m, gain, best
      <4>1. b \in Nat /\ c \in Nat /\ p.nUp \in Int
        BY <1>1, <1>5
      <4>2. QED
        BY <4>1, UpgradeIs
    <3> HIDE DEF U
    <3>2. CASE U = Decision(PS(a, u, v, k, m, i, g, h), "keep_scale", a)
      <4> HIDE DEF Some, a, b, c, g, h, i, m
      <4>1. Some(Decision(PS(a, u, v, k, m, i, g, h), "keep_scale", a))
        BY <1>11, <1>12
      <4>2. QED
        BY <3>2, <4>1
    <3>3. CASE /\ p.nUp <= u
               /\ U = Decision(PS(a, u, v, p.cooldown, m, best, g, h), "fork_probe", best)
      <4>1. Found(U, "fork_probe", best, u, v, p.cooldown, m, best)
        BY <1>1, <1>3, <1>5, <1>12, <3>1, <3>3 DEF Outcome
      <4>2. QED
        BY <1>3, <1>4, <1>5, <4>1 DEF Actions
    <3>4. CASE /\ p.nUp <= u
               /\ U = Decision(PS(a, 0, v, p.cooldown, p.lock, i, g, h),
                               "upgrade_scale", best)
      <4>1. Found(U, "upgrade_scale", best, 0, v, p.cooldown, p.lock, i)
        BY <1>1, <1>3, <1>5, <1>12, <3>1, <3>4 DEF Outcome
      <4>2. 0 \in 0..EvidenceCap
        BY DEF EvidenceCap
      <4>3. QED
        BY <1>1, <1>4, <1>5, <4>1, <4>2 DEF Actions
    <3>5. QED
      BY <3>1, <3>2, <3>3, <3>4
  <2>4. ASSUME rise < 0 PROVE Some(D)
    <3>1. \/ D = Decision(PS(a, b, 0, k, m, i, g, h), "keep_scale", a)
          \/ D = Decision(PS(a, 0, c + 1, k, m, i, g, h), "keep_scale", a)
          \/ \E q \in Nat :
               /\ p.lock - 1 <= q /\ 1 <= q
               /\ ~(c + 1 < p.nDown)
               /\ D = Decision(PS(a, 0, 0, p.cooldown, q, i, g, h),
                               "downgrade_scale", best)
      <4> HIDE DEF a, b, c, g, h, i, m, gain, best
      <4>1. c \in Nat /\ p.lock \in Nat
        BY <1>1, <1>5
      <4>2. QED
        BY <4>1, DowngradeIs
    <3> HIDE DEF D
    <3>2. 0 \in 0..EvidenceCap /\ c + 1 \in Nat
      BY <1>1 DEF EvidenceCap
    <3>3. CASE \/ D = Decision(PS(a, b, 0, k, m, i, g, h), "keep_scale", a)
               \/ D = Decision(PS(a, 0, c + 1, k, m, i, g, h), "keep_scale", a)
      <4>1. b \in 0..EvidenceCap /\ c \in Nat
        BY <1>1
      <4> HIDE DEF Some, a, b, c, g, h, i, m
      <4>2. QED
        BY <1>11, <1>12, <3>2, <3>3, <4>1
    <3>4. CASE \E q \in Nat :
                 /\ p.lock - 1 <= q /\ 1 <= q
                 /\ ~(c + 1 < p.nDown)
                 /\ D = Decision(PS(a, 0, 0, p.cooldown, q, i, g, h),
                                 "downgrade_scale", best)
      <4>1. PICK q \in Nat :
              /\ p.lock - 1 <= q /\ 1 <= q
              /\ ~(c + 1 < p.nDown)
              /\ D = Decision(PS(a, 0, 0, p.cooldown, q, i, g, h),
                              "downgrade_scale", best)
        BY <3>4
      <4>2. Catalog[best].rank < Catalog[a].rank
        BY <1>6, <2>2, <2>4
      <4>3. Found(D, "downgrade_scale", best, 0, 0, p.cooldown, q, i)
        BY <1>1, <1>3, <1>5, <1>12, <4>1, <4>2 DEF Outcome
      <4>4. QED
        BY <1>1, <1>4, <1>5, <3>2, <4>3 DEF Actions
    <3>5. QED
      BY <3>1, <3>3, <3>4
  <2>5. Some(S)
    <3>1. PICK u \in {0, b}, v \in {0, c} :
            S = Decision(PS(a, u, v, k, m, i, g, h), "keep_scale", a)
      <4> HIDE DEF a, b, c, g, h, i, m
      <4>1. b \in Nat /\ c \in Nat
        BY <1>1
      <4>2. QED
        BY <4>1, SettledIs
    <3>2. u \in 0..EvidenceCap /\ v \in Nat
      BY <1>1 DEF EvidenceCap
    <3> HIDE DEF Some, a, b, c, g, h, i, m, S
    <3>3. QED
      BY <1>11, <1>12, <3>1, <3>2
  <2> HIDE DEF U, D, S, rise, Some
  <2>6. QED
    BY <2>1, <2>3, <2>4, <2>5
<1>13. Some(free)
  <2>1. ~(m > 0) => m = 0
    BY <1>3
  <2>2. k > 0 /\ m = 0 => Some(Keep(now))
    <3>1. b \in 0..EvidenceCap /\ c \in Nat /\ Keep(now) = Decision(now, "keep_scale", a)
      BY <1>1, <1>8
    <3> HIDE DEF Some, a, b, c, g, h, i, m
    <3>2. QED
      BY <1>11, <3>1
  <2> HIDE DEF Some, now
  <2>3. QED
    BY <1>9, <1>10, <1>12, <2>1, <2>2
<1>14. PICK u \in 0..EvidenceCap, v \in Nat, w \in Nat, n \in Nat,
           j \in Scales \cup {NoScale}, x \in Actions, t \in Scales :
         Found(free, x, t, u, v, w, n, j)
  BY <1>13
<1>15. free = Decision(PS(a, u, v, w, n, j, g, h), x, t)
  BY <1>14
<1> HIDE DEF free, now
<1>16. PICK f \in BOOLEAN :
         /\ f => h \/ {g, x} = {"upgrade_scale", "downgrade_scale"}
         /\ Registered(Decision(PS(a, u, v, w, n, j, g, h), x, t)) =
              Decision(PS(a, u, v, w, n, j, x, f), x, t)
  <2>1. h \in BOOLEAN
    BY <1>1
  <2> HIDE DEF a, g, h
  <2> HIDE DEF Found, Some, i, m, p, best
  <2>2. QED
    BY <2>1, RegisteredIs, SMTT(30)
<1>17. Outcome(policy, runs, e, old, result, x, t, u, v, n, j)
  BY <1>14
<1>18. QED
  BY <1>7, <1>15, <1>16, <1>17

-----------------------------------------------------------------------------
(* Steps, as what they do to the policy state *)

\* The parts of a setup.
LEMMA SetupFields ==
  ASSUME TypeOK
  PROVE  /\ setup.policy \in Policies /\ setup.runs \in SUBSET Scales
         /\ setup.runs # {} /\ setup.caller \in {"kernel", "benchmark"}
  BY SetupsAssumption DEF TypeOK

\* What deciding does to the variables.
LEMMA WeighsIs ==
  ASSUME TypeOK, Weighs
  PROVE  \E e \in Demand :
           /\ st' \in PolicyState /\ act' \in Act
           /\ st'.scale = st.scale /\ st'.last = act'.action
           /\ st'.oscillated =>
                \/ st.oscillated
                \/ {st.last, act'.action} = {"upgrade_scale", "downgrade_scale"}
           /\ Outcome(setup.policy, setup.runs, e, st, pending, act'.action,
                      act'.target, st'.up, st'.down, st'.lock, st'.inflight)
<1>1. PICK e \in Demands(setup.caller) :
        LET d == Decide(setup.policy, setup.runs, e, st, pending)
        IN  st' = d.state /\ act' = [action |-> d.action, target |-> d.target]
  BY DEF Weighs
<1>2. e \in Demand
  BY SetupFields, DemandsAssumption
<1>3. st \in PolicyState /\ st.scale \in Scales
  BY DEF TypeOK, PolicyState
<1>4. PICK u \in 0..EvidenceCap, v \in Nat, k \in Nat, n \in Nat,
           j \in Scales \cup {NoScale}, x \in Actions, t \in Scales, f \in BOOLEAN :
         /\ Decide(setup.policy, setup.runs, e, st, pending) =
              Decision(PS(st.scale, u, v, k, n, j, x, f), x, t)
         /\ f => st.oscillated \/ {st.last, x} = {"upgrade_scale", "downgrade_scale"}
         /\ Outcome(setup.policy, setup.runs, e, st, pending, x, t, u, v, n, j)
  <2>1. /\ setup.policy \in Policies /\ setup.runs \in SUBSET Scales
        /\ setup.runs # {}
    BY SetupFields
  <2>2. QED
    BY <1>2, <1>3, <2>1, DecideIs
<1>5. st' = PS(st.scale, u, v, k, n, j, x, f) /\ act' = [action |-> x, target |-> t]
  BY <1>1, <1>4 DEF Decision
<1>6. /\ st'.scale = st.scale /\ st'.up = u /\ st'.down = v /\ st'.lock = n
      /\ st'.inflight = j /\ st'.last = x /\ st'.oscillated = f
  BY <1>5, StateValues
<1>7. st' \in PolicyState
  BY <1>3, <1>5, StateType
<1>8. act' \in Act /\ act'.action = x /\ act'.target = t
  BY <1>5 DEF Act
<1>9. QED
  BY <1>2, <1>4, <1>6, <1>7, <1>8

\* What carrying out an action may return.
LEMMA ExecutedIs ==
  ASSUME TypeOK, NEW d \in Executed
  PROVE  /\ d \in Done
         /\ act.action \notin Movers => d.selected = source
         /\ act.action \in Movers =>
              /\ d.selected = NearestExecutable(setup.runs, act.target)
              /\ ~d.aborted /\ d.probe = NoScale
         /\ act.action # "fork_probe" => ~d.aborted /\ d.probe = NoScale
         /\ d.probe # NoScale => d.probe.target = act.target
<1>1. act.target \in Scales /\ source \in Scales
  BY DEF TypeOK, Act
<1>2. ASSUME NEW b \in BOOLEAN, NEW p \in ProbeResult \cup {NoScale}
      PROVE  /\ Kept(b, p) \in Done /\ Kept(b, p).selected = source
             /\ Kept(b, p).aborted = b /\ Kept(b, p).probe = p
  BY <1>1 DEF Kept, Done
<1>3. ASSUME NEW m \in ProbeOutcomes
      PROVE  /\ Measured(act.target, m) \in ProbeResult
             /\ Measured(act.target, m).target = act.target
  BY <1>1 DEF ProbeResult, Measured
<1>4. CASE act.action = "fork_probe"
  <2>1. CASE d = Kept(TRUE, NoScale)
    BY <1>2, <1>4, <2>1 DEF Movers
  <2>2. CASE d \in Probed
    <3>1. PICK m \in ProbeOutcomes : d = Kept(FALSE, Measured(act.target, m))
      BY <2>2 DEF Probed
    <3> DEFINE q == Measured(act.target, m)
    <3>2. q \in ProbeResult /\ q.target = act.target
      BY <1>3
    <3> HIDE DEF q
    <3>3. d = Kept(FALSE, q)
      BY <3>1 DEF q
    <3>4. QED
      BY <1>2, <1>4, <3>2, <3>3 DEF Movers
  <2>3. QED
    BY <1>4, <2>1, <2>2 DEF Executed
<1>5. CASE act.action \in Movers
  <2>1. d = Changed
    BY <1>5 DEF Executed, Movers
  <2>2. NearestExecutable(setup.runs, act.target) \in Scales
    BY <1>1, SetupFields, NearestRuns
  <2>3. QED
    BY <1>5, <2>1, <2>2 DEF Changed, Done, Movers
<1>6. CASE act.action # "fork_probe" /\ act.action \notin Movers
  <2>1. d = Kept(FALSE, NoScale)
    BY <1>6 DEF Executed
  <2>2. QED
    BY <1>2, <1>6, <2>1
<1>7. QED
  BY <1>4, <1>5, <1>6

\* What carrying the decision out does to the variables.
LEMMA AppliesIs ==
  ASSUME TypeOK, Applies
  PROVE  /\ done' \in Executed /\ st' \in PolicyState
         /\ st'.scale = done'.selected
         /\ st'.up = st.up /\ st'.down = st.down /\ st'.lock = st.lock
         /\ st'.inflight = st.inflight /\ st'.last = st.last
         /\ st'.oscillated = st.oscillated
<1>1. done' \in Executed /\ st' = [st EXCEPT !.scale = done'.selected]
  BY DEF Applies
<1>2. done'.selected \in Scales
  BY <1>1, ExecutedIs DEF Done
<1>3. st \in PolicyState
  BY DEF TypeOK
<1> DEFINE t == done'.selected
<1>4. st' = PS(t, st.up, st.down, st.cooldown, st.lock, st.inflight, st.last,
               st.oscillated)
  <2> HIDE DEF t
  <2>1. st = PS(st.scale, st.up, st.down, st.cooldown, st.lock, st.inflight,
                st.last, st.oscillated)
    BY <1>3, StateFields
  <2>2. st' = [st EXCEPT !.scale = t]
    BY <1>1 DEF t
  <2>3. QED
    BY <2>1, <2>2 DEF PS
<1> HIDE DEF t
<1>5. t \in Scales
  BY <1>2 DEF t
<1>6. st' \in PolicyState
  BY <1>3, <1>4, <1>5, StateFields, StateType
<1>7. QED
  BY <1>1, <1>4, <1>6, StateValues DEF t

-----------------------------------------------------------------------------
(* Types *)

\* The initial states are well typed.
LEMMA TypeInit == Init => TypeOK
<1> SUFFICES ASSUME Init PROVE TypeOK
  OBVIOUS
<1>1. "1x1" \in Scales
  BY CatalogDomain
<1>2. st \in PolicyState
  <2>1. st = PS("1x1", 0, 0, 0, 0, NoScale, "none", FALSE)
    BY DEF Init, Fresh, PS
  <2>2. 0 \in 0..EvidenceCap /\ "none" \in Actions
    BY DEF EvidenceCap, Actions
  <2>3. QED
    BY <1>1, <2>1, <2>2, StateType
<1>3. act \in Act /\ done \in Done
  BY <1>1 DEF Init, Act, Actions, Done
<1>4. dwell \in 0..MaxDwell /\ failures \in 0..MaxFailures
  BY DemandsAssumption DEF Init, MaxDwell
<1>5. QED
  BY <1>1, <1>2, <1>3, <1>4 DEF Init, TypeOK, Phases

\* Every step keeps the types.
LEMMA TypeStep ==
  ASSUME TypeOK, [Next]_vars
  PROVE  TypeOK'
<1>1. CASE Weighs
  <2>1. st' \in PolicyState /\ act' \in Act
    BY <1>1, WeighsIs
  <2>2. source' \in Scales
    BY <1>1 DEF Weighs, TypeOK, PolicyState
  <2>3. dwell' \in 0..MaxDwell
    BY <1>1 DEF Weighs, TypeOK, AtMost, MaxDwell
  <2>4. QED
    BY <1>1, <2>1, <2>2, <2>3 DEF Weighs, TypeOK, Phases
<1>2. CASE Applies
  <2>1. st' \in PolicyState /\ done' \in Done
    BY <1>2, AppliesIs, ExecutedIs
  <2>2. dwell' \in 0..MaxDwell
    BY <1>2 DEF Applies, TypeOK, MaxDwell
  <2>3. QED
    BY <1>2, <2>1, <2>2 DEF Applies, TypeOK, Phases
<1>3. CASE Records
  <2>1. pending' \in ProbeResult \cup {NoScale}
    BY <1>3 DEF Records, KeptProbe, TypeOK, Done
  <2>2. ledger' \in Scales
    BY <1>3 DEF Records, TypeOK, PolicyState
  <2>3. QED
    BY <1>3, <2>1, <2>2 DEF Records, TypeOK, Phases
<1>4. CASE ProbeEventFails \/ RecordFails
  <2>1. failures' \in 0..MaxFailures
    BY <1>4, DemandsAssumption DEF ProbeEventFails, RecordFails, TypeOK
  <2>2. ledger' \in Scales
    BY <1>4 DEF ProbeEventFails, RecordFails, TypeOK, PolicyState
  <2>3. QED
    BY <1>4, <2>1, <2>2 DEF ProbeEventFails, RecordFails, Raised, TypeOK, Phases
<1>5. CASE UNCHANGED vars
  BY <1>5 DEF vars, TypeOK
<1>6. QED
  BY <1>1, <1>2, <1>3, <1>4, <1>5 DEF Next

\* Every reachable state of a controller is of the expected types, for any
\* policy, executable scales, worlds and probe measurements.
THEOREM ScaleTypeCorrect == Spec => []TypeOK
<1>1. QED
  BY TypeInit, TypeStep, PTL DEF Spec

-----------------------------------------------------------------------------
(* The inductive invariant *)

R == Rest[setup.policy]

\* The lock that is left covers the rest that is missing, up to a step in
\* which, after a downgrade, the evidence is too young for a move.
Rested ==
  \/ dwell + st.lock >= R
  \/ /\ dwell + st.lock >= R - 1
     /\ st.lock > 0 => st.up = 0 /\ st.down = 0

\* A decision has moved nothing yet; one that will comes after the rest, and
\* leaves the lock of the next.
Decides ==
  pc = "decided" =>
    /\ st.scale = source
    /\ act.action \in Movers \cup {"fork_probe"} => dwell >= R
    /\ act.action \in {"upgrade_scale", "commit_probe_result"} => st.lock >= R
    /\ act.action = "downgrade_scale" =>
         st.lock >= R - 1 /\ st.up = 0 /\ st.down = 0
    /\ act.action = "fork_probe" => st.inflight = act.target

\* A probe result is about the scale the policy state has in flight, and no
\* move has come since it was asked for.
Awaits ==
  /\ pc = "idle" /\ pending # NoScale =>
       st.inflight = pending.target /\ dwell >= R
  /\ pc = "applied" /\ done.probe # NoScale =>
       st.inflight = done.probe.target /\ dwell >= R
  /\ setup.caller = "kernel" => pending = NoScale

\* What follows a move under the profiles that do not read regimes.
Steady ==
  setup.policy # "regime_v3" =>
    /\ ~st.oscillated
    /\ st.last = "upgrade_scale" => st.lock >= 2
    /\ st.last = "downgrade_scale" => st.up = 0

\* With the scales that can run today the larger is the only goal.
Upward ==
  setup.runs = Shipped =>
    /\ st.inflight \in {NoScale, "5x5"}
    /\ pc = "decided" /\ act.action \in Movers => act.target = "5x5"

IInv ==
  /\ TypeOK /\ Rested /\ Decides /\ Awaits /\ Steady /\ Upward
  /\ CommitIsMeasured /\ FailedStepMovesNothing

\* How long each profile promises to rest.
LEMMA RestValue ==
  ASSUME TypeOK
  PROVE  /\ R \in 1..3
         /\ setup.policy = "baseline" => R = 3
         /\ setup.policy = "aggressive" => R = 2
         /\ setup.policy = "regime_v3" => R = 1
         /\ setup.policy \in {"baseline", "aggressive", "regime_v3"}
<1>1. setup.policy \in Policies /\ setup.policy \in {"baseline", "aggressive", "regime_v3"}
  BY SetupFields, PoliciesAssumption
<1>2. QED
  BY <1>1 DEF R, Rest

\* The types of the fields the invariant compares.
LEMMA StateNumbers ==
  ASSUME TypeOK
  PROVE  /\ st.up \in Nat /\ st.down \in Nat /\ st.lock \in Nat /\ dwell \in Nat
         /\ dwell <= 7 /\ st.scale \in Scales
         /\ st.inflight \in Scales \cup {NoScale} /\ st.last \in Actions
  BY DEF TypeOK, PolicyState, EvidenceCap, MaxDwell

\* The initial states satisfy the invariant.
LEMMA InvInit == Init => IInv
<1> SUFFICES ASSUME Init PROVE IInv
  OBVIOUS
<1>1. TypeOK
  BY TypeInit
<1>2. /\ st.lock = 0 /\ st.up = 0 /\ st.down = 0 /\ st.inflight = NoScale
      /\ st.last = "none" /\ ~st.oscillated /\ dwell = 7 /\ pc = "idle"
      /\ pending = NoScale /\ outcome = "none"
  BY DEF Init, Fresh, MaxDwell
<1>3. R \in 1..3
  BY <1>1, RestValue
<1>4. QED
  BY <1>1, <1>2, <1>3 DEF IInv, Rested, Decides, Awaits, Steady, Upward,
                          CommitIsMeasured, FailedStepMovesNothing

\* Deciding: the case analysis on the kind of decision.
LEMMA WeighsKeeps ==
  ASSUME IInv, Weighs
  PROVE  Rested' /\ Decides' /\ Awaits' /\ Steady' /\ Upward'
           /\ CommitIsMeasured' /\ FailedStepMovesNothing'
<1>1. TypeOK /\ TypeOK'
  BY TypeStep DEF IInv, Next
<1>2. PICK e \in Demand :
        /\ st' \in PolicyState /\ act' \in Act
        /\ st'.scale = st.scale /\ st'.last = act'.action
        /\ st'.oscillated =>
             st.oscillated \/ {st.last, act'.action} = {"upgrade_scale", "downgrade_scale"}
        /\ Outcome(setup.policy, setup.runs, e, st, pending, act'.action,
                   act'.target, st'.up, st'.down, st'.lock, st'.inflight)
  BY <1>1, WeighsIs
<1>3. /\ pc = "idle" /\ pc' = "decided" /\ source' = st.scale /\ setup' = setup
      /\ pending' = pending /\ dwell' = AtMost(dwell + 1, MaxDwell)
  BY DEF Weighs
<1>4. R \in 1..3 /\ R' = R
  BY <1>1, <1>3, RestValue DEF R
<1> DEFINE p == ProfileAt(setup.policy, e)
           best == Selected(setup.runs, e, Eager(setup.policy))
<1>5. /\ p.nUp \in 1..4 /\ p.nDown \in 4..6 /\ p.lock \in 2..3
      /\ setup.policy = "baseline" => p.nUp = 3 /\ p.lock = 3
      /\ setup.policy = "aggressive" => p.nUp = 2 /\ p.lock = 2
  BY <1>1, SetupFields, ProfileFields
<1>6. /\ p.lock >= R
      /\ R = 1 \/ p.nUp >= 2
  BY <1>1, <1>5, RestValue
<1>7. /\ st.up \in Nat /\ st.down \in Nat /\ st.lock \in Nat /\ dwell \in Nat
      /\ st'.up \in Nat /\ st'.down \in Nat /\ st'.lock \in Nat /\ dwell' \in Nat
  <2>1. st.up \in Nat /\ st.down \in Nat /\ st.lock \in Nat /\ dwell \in Nat
    BY <1>1, StateNumbers
  <2>2. st'.up \in Nat /\ st'.down \in Nat /\ st'.lock \in Nat
    BY <1>2 DEF PolicyState, EvidenceCap
  <2>3. dwell' \in Nat
    BY <2>1, <1>3 DEF AtMost, MaxDwell
  <2>4. QED
    BY <2>1, <2>2, <2>3
<1>8. /\ dwell' = dwell + 1 \/ dwell' = 7
      /\ dwell' >= 1
  BY <1>3, <1>7 DEF AtMost, MaxDwell
<1>9. /\ act'.action = "commit_probe_result" => pending # NoScale /\ st'.lock = p.lock
      /\ act'.action \in {"discard_probe_result", "lock_scale_for_n_steps"} =>
           /\ st'.up = st.up /\ st'.down = st.down
           /\ st'.lock = Positive(st.lock - 1)
      /\ act'.action \in {"keep_scale", "fork_probe"} => st.lock <= 1 /\ st'.lock = 0
      /\ act'.action \in {"fork_probe", "upgrade_scale"} =>
           st.lock <= 1 /\ p.nUp <= st.up + 1
      /\ act'.action = "upgrade_scale" => st'.lock = p.lock
      /\ act'.action = "downgrade_scale" =>
           /\ st.lock <= 1 /\ p.lock - 1 <= st'.lock /\ st'.up = 0 /\ st'.down = 0
           /\ p.nDown <= st.down + 1
      /\ act'.action \in {"commit_probe_result", "discard_probe_result",
                           "lock_scale_for_n_steps", "keep_scale", "fork_probe",
                           "upgrade_scale", "downgrade_scale"}
  BY <1>2 DEF Outcome
<1> HIDE DEF p
<1>10. act'.action \in {"fork_probe", "upgrade_scale", "downgrade_scale"} => dwell' >= R
  BY <1>4, <1>5, <1>6, <1>7, <1>8, <1>9 DEF IInv, Rested
<1>11. act'.action = "commit_probe_result" => dwell' >= R
  <2>1. act'.action = "commit_probe_result" => dwell >= R
    BY <1>3, <1>9 DEF IInv, Awaits
  <2>2. QED
    BY <2>1, <1>4, <1>7, <1>8
<1>12. Rested'
  <2>1. CASE act'.action \in {"fork_probe", "upgrade_scale", "downgrade_scale",
                               "commit_probe_result"}
    <3>1. dwell' >= R
      BY <2>1, <1>10, <1>11
    <3>2. dwell' + st'.lock >= R
      BY <3>1, <1>4, <1>7
    <3>3. QED
      BY <3>1, <3>2, <1>4 DEF Rested
  <2>2. CASE act'.action \in {"discard_probe_result", "lock_scale_for_n_steps"}
    <3>1. st'.lock = IF st.lock > 0 THEN st.lock - 1 ELSE 0
      BY <2>2, <1>7, <1>9 DEF Positive
    <3>2. QED
      <4>1. \/ dwell + st.lock >= R
            \/ /\ dwell + st.lock >= R - 1
               /\ st.lock > 0 => st.up = 0 /\ st.down = 0
        BY DEF IInv, Rested
      <4>2. st'.up = st.up /\ st'.down = st.down
        BY <2>2, <1>9
      <4>3. CASE st.lock = 0
        <5>1. dwell >= R - 1
          BY <4>1, <4>3, <1>4, <1>7
        <5>2. dwell' + st'.lock >= R
          BY <5>1, <1>4, <1>7, <1>8
        <5>3. QED
          BY <5>2, <1>4 DEF Rested
      <4>4. CASE st.lock > 0
        <5>1. st'.lock = st.lock - 1
          BY <4>4, <3>1
        <5>2. dwell' + st'.lock >= dwell + st.lock \/ dwell' >= R
          BY <5>1, <1>4, <1>7, <1>8
        <5>3. QED
          BY <4>1, <4>2, <4>4, <5>1, <5>2, <1>4, <1>7 DEF Rested
      <4>5. QED
        BY <4>3, <4>4, <1>7
  <2>3. CASE act'.action = "keep_scale"
    BY <2>3, <1>4, <1>7, <1>8, <1>9 DEF IInv, Rested
  <2>4. QED
    BY <2>1, <2>2, <2>3, <1>9
<1>13. Decides'
  <2>1. act'.action = "fork_probe" => st'.inflight = act'.target
    BY <1>2 DEF Outcome
  <2>2. act'.action \in Movers \cup {"fork_probe"} => dwell' >= R
    BY <1>10, <1>11 DEF Movers
  <2>3. act'.action \in {"upgrade_scale", "commit_probe_result"} => st'.lock >= R
    BY <1>5, <1>6, <1>9
  <2>4. act'.action = "downgrade_scale" =>
          st'.lock >= R - 1 /\ st'.up = 0 /\ st'.down = 0
    BY <1>4, <1>5, <1>6, <1>7, <1>9
  <2>5. QED
    BY <2>1, <2>2, <2>3, <2>4, <1>2, <1>3, <1>4 DEF Decides
<1>14. Awaits'
  BY <1>3 DEF IInv, Awaits
<1>15. Steady'
  <2> SUFFICES ASSUME setup.policy # "regime_v3"
               PROVE  /\ ~st'.oscillated
                      /\ st'.last = "upgrade_scale" => st'.lock >= 2
                      /\ st'.last = "downgrade_scale" => st'.up = 0
    BY <1>3 DEF Steady
  <2>1. /\ ~st.oscillated
        /\ st.last = "upgrade_scale" => st.lock >= 2
        /\ st.last = "downgrade_scale" => st.up = 0
    BY DEF IInv, Steady
  <2>2. p.nUp >= 2 /\ p.lock >= 2
    BY <1>1, <1>5, RestValue
  <2>3. ~(st.last = "upgrade_scale" /\ act'.action = "downgrade_scale")
    BY <2>1, <1>7, <1>9
  <2>4. ~(st.last = "downgrade_scale" /\ act'.action = "upgrade_scale")
    BY <2>1, <2>2, <1>5, <1>7, <1>9
  <2>5. {st.last, act'.action} # {"upgrade_scale", "downgrade_scale"}
    BY <2>3, <2>4
  <2>6. QED
    BY <2>1, <2>2, <2>5, <1>2, <1>9
<1>16. Upward'
  <2> SUFFICES ASSUME setup.runs = Shipped
               PROVE  /\ st'.inflight \in {NoScale, "5x5"}
                      /\ act'.action \in Movers => act'.target = "5x5"
    BY <1>3 DEF Upward
  <2>1. best = "5x5"
    BY SelectedShipped DEF Eager
  <2>2. st.inflight \in {NoScale, "5x5"}
    BY DEF IInv, Upward
  <2>3. QED
    BY <2>1, <2>2, <1>2 DEF Outcome, Movers
<1>17. CommitIsMeasured'
  <2> SUFFICES ASSUME act'.action = "commit_probe_result"
               PROVE  /\ pending # NoScale /\ pending.target = act'.target
                      /\ pending.outcome = "positive" /\ pending.viable
    BY <1>3 DEF CommitIsMeasured
  <2>1. /\ pending # NoScale /\ act'.target = st.inflight
        /\ ProbeProven(setup.policy, e, pending)
    BY <1>2 DEF Outcome
  <2>2. st.inflight = pending.target
    BY <2>1, <1>3 DEF IInv, Awaits
  <2>3. QED
    BY <2>1, <2>2 DEF ProbeProven
<1>18. FailedStepMovesNothing'
  BY <1>3 DEF FailedStepMovesNothing
<1>19. QED
  BY <1>12, <1>13, <1>14, <1>15, <1>16, <1>17, <1>18

\* Carrying it out: a move starts its rest under the decision's lock.
LEMMA AppliesKeeps ==
  ASSUME IInv, Applies
  PROVE  Rested' /\ Decides' /\ Awaits' /\ Steady' /\ Upward'
           /\ CommitIsMeasured' /\ FailedStepMovesNothing'
<1>1. TypeOK
  BY DEF IInv
<1>2. /\ done' \in Executed /\ st'.scale = done'.selected
      /\ st'.up = st.up /\ st'.down = st.down /\ st'.lock = st.lock
      /\ st'.inflight = st.inflight /\ st'.last = st.last
      /\ st'.oscillated = st.oscillated
  BY <1>1, AppliesIs
<1>3. /\ act.action \notin Movers => done'.selected = source
      /\ act.action # "fork_probe" => ~done'.aborted /\ done'.probe = NoScale
      /\ done'.probe # NoScale => done'.probe.target = act.target
  BY <1>1, <1>2, ExecutedIs
<1>4. /\ pc = "decided" /\ pc' = "applied" /\ act' = act /\ source' = source
      /\ setup' = setup /\ pending' = pending /\ outcome' = outcome
      /\ dwell' = IF done'.selected = st.scale THEN dwell ELSE 0
  BY DEF Applies
<1>5. R \in 1..3 /\ R' = R
  BY <1>1, <1>4, RestValue DEF R
<1>6. /\ st.scale = source
      /\ act.action \in Movers \cup {"fork_probe"} => dwell >= R
      /\ act.action \in {"upgrade_scale", "commit_probe_result"} => st.lock >= R
      /\ act.action = "downgrade_scale" =>
           st.lock >= R - 1 /\ st.up = 0 /\ st.down = 0
      /\ act.action = "fork_probe" => st.inflight = act.target
  BY <1>4 DEF IInv, Decides
<1>7. done'.selected # st.scale => act.action \in Movers
  BY <1>3, <1>6
<1>8. Rested'
  <2>1. CASE done'.selected = st.scale
    BY <2>1, <1>2, <1>4, <1>5 DEF IInv, Rested
  <2>2. CASE done'.selected # st.scale
    <3>1. act.action \in Movers /\ dwell' = 0 /\ st.lock \in Nat
      BY <2>2, <1>1, <1>4, <1>7, StateNumbers
    <3>2. \/ st.lock >= R
          \/ st.lock >= R - 1 /\ st.up = 0 /\ st.down = 0
      BY <3>1, <1>6 DEF Movers
    <3>3. QED
      BY <3>1, <3>2, <1>2, <1>5 DEF Rested
  <2>3. QED
    BY <2>1, <2>2
<1>9. Awaits'
  <2>1. done'.probe # NoScale =>
          st'.inflight = done'.probe.target /\ dwell' >= R
    <3>1. done'.probe # NoScale => act.action = "fork_probe" /\ act.action \notin Movers
      BY <1>3 DEF Movers
    <3>2. QED
      BY <3>1, <1>2, <1>3, <1>4, <1>6
  <2>2. QED
    BY <2>1, <1>4, <1>5 DEF IInv, Awaits
<1>10. Steady'
  BY <1>2, <1>4 DEF IInv, Steady
<1>11. Upward' /\ Decides' /\ CommitIsMeasured'
  BY <1>2, <1>4 DEF IInv, Upward, Decides, CommitIsMeasured
<1>12. FailedStepMovesNothing'
  <2>1. done'.aborted \/ act.action = "fork_probe" => st'.scale = source
    BY <1>2, <1>3 DEF Movers
  <2>2. QED
    BY <2>1, <1>4 DEF FailedStepMovesNothing
<1>13. QED
  BY <1>8, <1>9, <1>10, <1>11, <1>12

\* The ends of a step leave the policy state alone.
LEMMA EndKeeps ==
  ASSUME IInv, Records \/ ProbeEventFails \/ RecordFails \/ UNCHANGED vars
  PROVE  Rested' /\ Decides' /\ Awaits' /\ Steady' /\ Upward'
           /\ CommitIsMeasured' /\ FailedStepMovesNothing'
<1>1. /\ st' = st /\ act' = act /\ source' = source /\ setup' = setup
      /\ dwell' = dwell /\ done' = done /\ R' = R
  BY DEF Records, ProbeEventFails, RecordFails, vars, R
<1>2. Rested' /\ Steady'
  BY <1>1 DEF IInv, Rested, Steady
<1>3. pc' # "decided" \/ UNCHANGED <<pc, pending, outcome>>
  BY DEF Records, ProbeEventFails, RecordFails, Raised, vars
<1>4. Decides' /\ Upward' /\ CommitIsMeasured'
  BY <1>1, <1>3 DEF IInv, Decides, Upward, CommitIsMeasured
<1>5. Awaits'
  <2>1. CASE Records
    BY <2>1, <1>1 DEF IInv, Awaits, Records, KeptProbe
  <2>2. CASE ProbeEventFails \/ RecordFails
    <3>1. /\ pending' = pending /\ pc' # "applied"
          /\ pc' = "idle" => setup.caller = "kernel"
      BY <2>2 DEF ProbeEventFails, RecordFails, Raised
    <3>2. QED
      BY <3>1, <1>1 DEF IInv, Awaits
  <2>3. CASE UNCHANGED vars
    BY <2>3, <1>1 DEF IInv, Awaits, vars
  <2>4. QED
    BY <2>1, <2>2, <2>3
<1>6. FailedStepMovesNothing'
  <2>1. CASE Records
    BY <2>1 DEF FailedStepMovesNothing, Records
  <2>2. CASE ProbeEventFails
    <3>1. st.scale = source /\ pc' # "applied"
      BY <2>2 DEF IInv, Decides, ProbeEventFails, Raised
    <3>2. QED
      BY <3>1, <1>1 DEF FailedStepMovesNothing
  <2>3. CASE RecordFails
    BY <2>3 DEF FailedStepMovesNothing, RecordFails, Raised
  <2>4. CASE UNCHANGED vars
    BY <2>4, <1>1 DEF IInv, FailedStepMovesNothing, vars
  <2>5. QED
    BY <2>1, <2>2, <2>3, <2>4
<1>7. QED
  BY <1>2, <1>4, <1>5, <1>6

\* Every step keeps the invariant.
LEMMA InvStep ==
  ASSUME IInv, [Next]_vars
  PROVE  IInv'
<1>1. TypeOK'
  BY TypeStep DEF IInv
<1>2. Rested' /\ Decides' /\ Awaits' /\ Steady' /\ Upward'
        /\ CommitIsMeasured' /\ FailedStepMovesNothing'
  BY WeighsKeeps, AppliesKeeps, EndKeeps DEF Next
<1>3. QED
  BY <1>1, <1>2 DEF IInv

\* The invariant holds in every reachable state.
LEMMA InvHolds == Spec => []IInv
<1>1. QED
  BY InvInit, InvStep, PTL DEF Spec

-----------------------------------------------------------------------------
(* The theorems *)

\* A commit moves to the scale that was probed, on a positive and viable
\* result.
THEOREM CommitsAreMeasured == Spec => []CommitIsMeasured
<1>1. IInv => CommitIsMeasured
  BY DEF IInv
<1>2. QED
  BY <1>1, InvHolds, PTL

\* A step that failed before its commit, was aborted or only probed has
\* moved nothing.
THEOREM FailuresMoveNothing == Spec => []FailedStepMovesNothing
<1>1. IInv => FailedStepMovesNothing
  BY DEF IInv
<1>2. QED
  BY <1>1, InvHolds, PTL

\* Only the profile that reads regimes flips within two steps.
THEOREM OnlyRegimesFlip == Spec => []FlipsOnlyByRegime
<1>1. IInv => FlipsOnlyByRegime
  BY DEF IInv, Steady, FlipsOnlyByRegime
<1>2. QED
  BY <1>1, InvHolds, PTL

\* The scale rests between two moves as long as the profile promises.
THEOREM ScaleRests == Spec => DwellHolds
<1>1. ASSUME IInv, [Next]_vars, st'.scale # st.scale
      PROVE  MoveRests
  <2>1. CASE Applies
    <3>0. TypeOK /\ pc = "decided"
      BY <1>1, <2>1 DEF IInv, Applies
    <3>1. done' \in Executed /\ st'.scale = done'.selected
      BY <2>1, <3>0, AppliesIs
    <3>2. act.action \in Movers
      BY <1>1, <3>0, <3>1, ExecutedIs DEF IInv, Decides
    <3>3. dwell >= R
      BY <1>1, <3>0, <3>2 DEF IInv, Decides
    <3>4. QED
      BY <3>3 DEF MoveRests, R
  <2>2. CASE Weighs
    BY <1>1, <2>2, WeighsIs DEF IInv
  <2>3. CASE Records \/ ProbeEventFails \/ RecordFails \/ UNCHANGED vars
    BY <1>1, <2>3 DEF Records, ProbeEventFails, RecordFails, vars
  <2>4. QED
    BY <1>1, <2>1, <2>2, <2>3 DEF Next
<1>2. IInv /\ [Next]_vars => [st'.scale # st.scale => MoveRests]_vars
  BY <1>1
<1>3. QED
  BY <1>2, InvHolds, PTL DEF Spec, DwellHolds

\* With the scales that can run today the larger is never given up, in any
\* world.
THEOREM ScaleStaysUp == Spec => NeverComesDown
<1>1. ASSUME IInv, [Next]_vars, setup.runs = Shipped, st.scale = "5x5"
      PROVE  st'.scale = "5x5"
  <2>1. CASE Applies
    <3>0. TypeOK /\ pc = "decided"
      BY <1>1, <2>1 DEF IInv, Applies
    <3>1. done' \in Executed /\ st'.scale = done'.selected
      BY <2>1, <3>0, AppliesIs
    <3>2. CASE act.action \in Movers
      <4>1. st'.scale = NearestExecutable(Shipped, "5x5")
        BY <1>1, <3>0, <3>1, <3>2, ExecutedIs DEF IInv, Upward
      <4>2. NearestExecutable(Shipped, "5x5") = "5x5"
        BY Ranks DEF NearestExecutable, Distance, Shipped
      <4>3. QED
        BY <4>1, <4>2
    <3>3. CASE act.action \notin Movers
      BY <1>1, <3>0, <3>1, <3>3, ExecutedIs DEF IInv, Decides
    <3>4. QED
      BY <3>2, <3>3
  <2>2. CASE Weighs
    BY <1>1, <2>2, WeighsIs DEF IInv
  <2>3. CASE Records \/ ProbeEventFails \/ RecordFails \/ UNCHANGED vars
    BY <1>1, <2>3 DEF Records, ProbeEventFails, RecordFails, vars
  <2>4. QED
    BY <1>1, <2>1, <2>2, <2>3 DEF Next
<1>2. IInv /\ [Next]_vars => [StaysUp]_vars
  BY <1>1 DEF StaysUp
<1>3. QED
  BY <1>2, InvHolds, PTL DEF Spec, NeverComesDown
=============================================================================
