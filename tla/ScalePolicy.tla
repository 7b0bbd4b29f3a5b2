----------------------------- MODULE ScalePolicy -----------------------------
(***************************************************************************)
(* ScalePolicyEngine.decide (runtime/control/msrc/scale_policy_engine.py)  *)
(* as an operator: policy state, demand and the result of an earlier probe *)
(* in, new policy state and action out.  It decides and never applies: the *)
(* scale in the state is the controller's to write.                        *)
(*                                                                         *)
(* The regret counters, the step index and the histories kept for audit    *)
(* are left out.  upgrade_evidence is counted up to EvidenceCap, past      *)
(* every threshold, and oscillation_events up to one.                      *)
(***************************************************************************)
EXTENDS ScaleEstimate

CONSTANTS Policies,  \* the profiles in use
          NoScale    \* probe_inflight_target is None, no probe result

Actions ==
  {"none", "keep_scale", "upgrade_scale", "downgrade_scale", "fork_probe",
   "commit_probe_result", "discard_probe_result", "lock_scale_for_n_steps"}

ASSUME PoliciesAssumption == Policies \subseteq {"baseline", "aggressive", "regime_v3"}

EvidenceCap == 3

\* The thresholds and lengths a profile sets, in percent and steps.
Profile(upgradeAt, downgradeAt, nUp, nDown, probeAt, commitAt, cooldown, lock) ==
  [upgradeAt |-> upgradeAt, downgradeAt |-> downgradeAt, nUp |-> nUp,
   nDown |-> nDown, probeAt |-> probeAt, commitAt |-> commitAt,
   cooldown |-> cooldown, lock |-> lock]

\* The weights of a regime's upgrade signal, and the gains it looks for.
Weights(bias, het, epi, risk, opp, cost, minDelta, dominant) ==
  [bias |-> bias, het |-> het, epi |-> epi, risk |-> risk, opp |-> opp,
   cost |-> cost, minDelta |-> minDelta, dominant |-> dominant]

RegimeProfile(label) ==
  CASE label = "homogeneous"    -> Profile(64, 24, 3, 4, 58, 60, 2, 3)
    [] label = "heterogeneous"  -> Profile(42, 26, 1, 6, 30, 46, 1, 2)
    [] label = "viability_edge" -> Profile(45, 18, 2, 6, 32, 48, 1, 2)

RegimeWeights(label) ==
  CASE label = "homogeneous"    -> Weights(18, 16, 34, 20, 10, 25, 22, 46)
    [] label = "heterogeneous"  -> Weights(-10, 42, 22, 14, 14, 12, 10, 35)
    [] label = "viability_edge" -> Weights(-6, 20, 30, 34, 18, 12, 8, 30)

RequiredWeight(label) == IF label = "homogeneous" THEN 20 ELSE 22

\* The profile a step decides under: fixed, or that of the regime it sees.
ProfileAt(policy, e) ==
  CASE policy = "baseline"   -> Profile(62, 35, 3, 5, 55, 55, 2, 3)
    [] policy = "aggressive" -> Profile(46, 28, 2, 6, 38, 50, 1, 2)
    [] policy = "regime_v3"  -> RegimeProfile(RegimeOf(e))

Eager(policy) == policy # "baseline"
-----------------------------------------------------------------------------
(* Signals *)

\* _probe_signal, in 1/10^6.
ProbeSignal(e) ==
  3500 * e.epi + 2500 * e.het + 20 * Risk(e) + 2000 * e.opp

VramAllowsProbe(e) == e.opp >= 45 /\ e.pressure < 93 /\ e.frag < 92

UpgradeSignal(policy, e, gain) ==
  IF policy = "baseline"
    THEN Required(e) >= 620000 \/ gain >= Pc(6)
    ELSE \/ Required(e) >= 460000
         \/ e.het >= 22 \/ e.epi >= 20 \/ Risk(e) >= 4000
         \/ /\ gain >= Pc(12) /\ e.opp >= 55
            /\ Risk(e) >= 3500 \/ e.epi >= 18

ShouldProbe(policy, e, gain) ==
  IF policy = "baseline"
    THEN e.epi >= 55
    ELSE /\ ProbeSignal(e) >= 380000
         /\ Required(e) < 720000 /\ gain < Pc(45) /\ Risk(e) < 7200
         /\ VramAllowsProbe(e)

Positive(x) == IF x > 0 THEN x ELSE 0

\* _regime_upgrade_signal_score, without the penalty for oscillation.
RegimeScore(e, gain) ==
  LET label == RegimeOf(e)
      w == RegimeWeights(label)
      score == 3 * RequiredWeight(label) * Required(e)
                 + 30000 * (w.het * e.het + w.epi * e.epi + w.opp * e.opp)
                 + 300 * w.risk * Risk(e) + Positive(gain) \div 4
                 - Pc(w.bias) - 30000 * w.cost * e.op
                 + (IF CriticalHighSignal(e) THEN Pc(8) ELSE 0)
                 + (IF ProbeFavorable(e) THEN Pc(5) ELSE 0)
  IN  AtMost(Positive(score), Pc(150))

RegimeUpgradeSignal(e, gain) ==
  LET label == RegimeOf(e)
      p == RegimeProfile(label)
  IN  \/ RegimeScore(e, gain) >= Pc(p.upgradeAt)
      \/ Required(e) >= 10000 * p.upgradeAt
      \/ label = "homogeneous" /\ gain >= Pc(28)
           /\ e.epi >= 20 /\ Risk(e) >= 2200 /\ e.opp >= 55
      \/ label # "homogeneous" /\ gain >= Pc(RegimeWeights(label).minDelta)

RegimeShouldProbe(e, gain) ==
  LET p == RegimeProfile(RegimeOf(e))
      dominant == \/ RegimeScore(e, gain) >= Pc(p.upgradeAt + 16)
                  \/ gain >= Pc(RegimeWeights(RegimeOf(e)).dominant)
                  \/ Required(e) >= 820000
  IN  /\ ProbeSignal(e) + (IF ProbeFavorable(e) THEN 100000 ELSE 0)
           >= 10000 * p.probeAt
      /\ ~dominant /\ VramAllowsProbe(e)

WantsUpgrade(policy, e, gain) ==
  IF policy = "regime_v3" THEN RegimeUpgradeSignal(e, gain)
                          ELSE UpgradeSignal(policy, e, gain)

WantsProbe(policy, e, gain) ==
  IF policy = "regime_v3" THEN RegimeShouldProbe(e, gain)
                          ELSE ShouldProbe(policy, e, gain)

\* What keeps the resolution although a lower scale is selected; loss is
\* the cognitive score a downgrade would give up.
BlocksDowngrade(policy, e, loss) ==
  \/ Required(e) > 10000 * ProfileAt(policy, e).downgradeAt
  \/ /\ policy = "regime_v3" /\ RegimeOf(e) # "homogeneous"
     /\ e.het >= 20 \/ Risk(e) >= 4400
  \/ loss > Equivalence(Eager(policy))
-----------------------------------------------------------------------------
(* Decisions: a record of the new policy state, the action and its target *)

Decision(st, action, target) == [state |-> st, action |-> action, target |-> target]
Keep(st) == Decision(st, "keep_scale", st.scale)

\* A variant: a commit sets no lock.
CommitUnlocked(st, p) ==
  Decision([st EXCEPT !.inflight = NoScale, !.cooldown = p.cooldown],
           "commit_probe_result", st.inflight)

CommitProbe(st, p) ==
  Decision([st EXCEPT !.inflight = NoScale, !.cooldown = p.cooldown,
                      !.lock = p.lock],
           "commit_probe_result", st.inflight)

DiscardProbe(st) ==
  Decision([st EXCEPT !.inflight = NoScale], "discard_probe_result", st.scale)

\* A variant: the evidence is enough, whatever the outcome.
LenientlyProven(policy, e, result) ==
  result.evidence >= ProfileAt(policy, e).commitAt

\* The result meets the criterion of the profile the step decides under.
ProbeProven(policy, e, result) ==
  /\ result.outcome = "positive" /\ result.viable
  /\ result.evidence >= ProfileAt(policy, e).commitAt
  /\ policy = "regime_v3" =>
       1000 * result.gain >= IF RegimeOf(e) = "homogeneous" THEN 3000 ELSE -500

Judge(policy, e, st, result) ==
  IF ProbeProven(policy, e, result)
    THEN CommitProbe(st, ProfileAt(policy, e))
    ELSE DiscardProbe(st)

\* A variant: one observation in favour is enough.
HastyUpgrade(policy, e, st, selected, gain) ==
  LET p == ProfileAt(policy, e)
      signal == WantsUpgrade(policy, e, gain)
      up == IF signal THEN AtMost(st.up + 1, EvidenceCap) ELSE 0
      weighed == [st EXCEPT !.up = up, !.down = IF signal THEN 0 ELSE @]
  IN  IF up < 1 THEN Keep(weighed)
      ELSE Decision([weighed EXCEPT !.cooldown = p.cooldown, !.lock = p.lock,
                                    !.up = 0],
                    "upgrade_scale", selected)

Upgrade(policy, e, st, selected, gain) ==
  LET p == ProfileAt(policy, e)
      signal == WantsUpgrade(policy, e, gain)
      up == IF signal THEN AtMost(st.up + 1, EvidenceCap) ELSE 0
      weighed == [st EXCEPT !.up = up, !.down = IF signal THEN 0 ELSE @]
  IN  IF up < p.nUp THEN Keep(weighed)
      ELSE IF WantsProbe(policy, e, gain)
        THEN Decision([weighed EXCEPT !.inflight = selected,
                                      !.cooldown = p.cooldown],
                      "fork_probe", selected)
        ELSE Decision([weighed EXCEPT !.cooldown = p.cooldown, !.lock = p.lock,
                                      !.up = 0],
                      "upgrade_scale", selected)

Downgrade(policy, e, st, selected, loss) ==
  LET p == ProfileAt(policy, e)
      down == st.down + 1
      weighed == [st EXCEPT !.down = down, !.up = 0]
  IN  IF BlocksDowngrade(policy, e, loss) THEN Keep([st EXCEPT !.down = 0])
      ELSE IF down < p.nDown THEN Keep(weighed)
      ELSE Decision([weighed EXCEPT !.cooldown = p.cooldown, !.down = 0,
                                    !.lock = IF p.lock > 1 THEN p.lock - 1 ELSE 1],
                    "downgrade_scale", selected)

\* The scale is the best one: only the fixed profiles forget the evidence.
Settled(policy, st) ==
  Keep(IF policy = "regime_v3" THEN st ELSE [st EXCEPT !.up = 0, !.down = 0])

\* Which way the selected scale lies from the current one.
Weigh(policy, runs, e, st) ==
  LET selected == Selected(runs, e, Eager(policy))
      gain == SelectedScore(runs, e, Eager(policy))
                - CurrentScore(runs, e, Eager(policy), st.scale)
      rise == Catalog[selected].rank - Catalog[st.scale].rank
  IN  IF rise > 0 THEN Upgrade(policy, e, st, selected, gain)
      ELSE IF rise < 0 THEN Downgrade(policy, e, st, selected, -gain)
      ELSE Settled(policy, st)

\* A variant: the counters run down past zero.
TickedBelowZero(st) == [st EXCEPT !.cooldown = @ - 1, !.lock = @ - 1]

Ticked(st) ==
  [st EXCEPT !.cooldown = Positive(@ - 1), !.lock = Positive(@ - 1)]

\* register_action: an upgrade right after a downgrade, or the reverse.
Registered(d) ==
  [d EXCEPT !.state.last = d.action,
            !.state.oscillated =
              \/ @
              \/ {d.state.last, d.action} = {"upgrade_scale", "downgrade_scale"}]

\* A variant: the engine applies what it decides (the bug the code's
\* comments describe).
DecideAndApply(policy, runs, e, st, result) ==
  LET now == Ticked(st)
      d == IF now.inflight # NoScale /\ result # NoScale
             THEN Judge(policy, e, now, result)
           ELSE IF now.lock > 0
             THEN Decision(now, "lock_scale_for_n_steps", now.scale)
           ELSE IF now.cooldown > 0 THEN Keep(now)
           ELSE Weigh(policy, runs, e, now)
      r == Registered(d)
  IN  IF r.action \in {"upgrade_scale", "downgrade_scale", "commit_probe_result"}
        THEN [r EXCEPT !.state.scale = r.target] ELSE r

Decide(policy, runs, e, st, result) ==
  LET now == Ticked(st)
  IN  Registered(
        IF now.inflight # NoScale /\ result # NoScale
          THEN Judge(policy, e, now, result)
        ELSE IF now.lock > 0
          THEN Decision(now, "lock_scale_for_n_steps", now.scale)
        ELSE IF now.cooldown > 0 THEN Keep(now)
        ELSE Weigh(policy, runs, e, now))
=============================================================================
