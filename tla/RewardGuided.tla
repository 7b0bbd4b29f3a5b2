---------------------------- MODULE RewardGuided ----------------------------
(***************************************************************************)
(* The overlay selector guided by reward                                   *)
(* (runtime/reasoning/scheduler_meta/reward_guided.py): which optional     *)
(* families pay for themselves, from the mean reward of the episodes that  *)
(* ran them and of those that did not, and which one to explore next.      *)
(*                                                                         *)
(* Evidence is a bag of observations [reward, overlays, regime, origin];   *)
(* the selector reads means and counts only, and nothing reads origin, the *)
(* run an observation comes from, but the properties.  Rewards are         *)
(* thousandths.                                                            *)
(***************************************************************************)
EXTENDS FamilySchedule, Bags

CONSTANTS
  Candidates,  \* the optional families it governs
  Epsilon,     \* what a family must add to the mean reward, in thousandths
  MinObs,      \* observations with, and without, before a family is judged
  MaxActive    \* families switched on at once

ASSUME SelectorAssumption ==
  /\ Candidates \cap ToSet(Core) = {}
  /\ Epsilon \in Nat
  /\ MinObs \in Nat \ {0}
  /\ MaxActive \in Nat

Observation(reward, overlays, regime, origin) ==
  [reward |-> reward, overlays |-> overlays, regime |-> regime, origin |-> origin]

Count(rows, some) == MapThenSumSet(LAMBDA o : rows[o], some)
Reward(rows, some) == MapThenSumSet(LAMBDA o : rows[o] * o.reward, some)

\* The observations of the regime if they are enough to judge by, all of them
\* otherwise.
RowsFor(evidence, regime) ==
  LET scoped == {o \in DOMAIN evidence : o.regime = regime}
  IN  IF Count(evidence, scoped) >= Max({2 * MinObs, MinObs + 1})
      THEN [o \in scoped |-> evidence[o]]
      ELSE evidence

\* What is known of a family: counts, and the difference of the mean rewards
\* as a fraction.
FamilyEvidence(rows, family) ==
  LET on == {o \in DOMAIN rows : family \in o.overlays}
      off == DOMAIN rows \ on
  IN  [decided |-> Count(rows, on) >= MinObs /\ Count(rows, off) >= MinObs,
       gain |-> Reward(rows, on) * Count(rows, off)
                - Reward(rows, off) * Count(rows, on),
       unit |-> Count(rows, on) * Count(rows, off)]

\* The families to switch on and off in the next episode.
Directives(evidence, regime) ==
  LET rows == RowsFor(evidence, regime)
      info == [c \in Candidates |-> FamilyEvidence(rows, c)]
      undecided == {c \in Candidates : ~info[c].decided}
      paying == {c \in Candidates \ undecided :
                   info[c].gain > Epsilon * info[c].unit}
      PaysMore(a, b) ==
        LET ga == info[a].gain * info[b].unit
            gb == info[b].gain * info[a].unit
        IN  ga > gb \/ (ga = gb /\ NamedBefore(b, a))
      active == {c \in paying :
                   Cardinality({d \in paying : PaysMore(d, c)}) < MaxActive}
      turn == Count(rows, DOMAIN rows) % Cardinality(undecided)
      explored == IF undecided # {} /\ Cardinality(active) < MaxActive
                  THEN {Ordered(undecided, NamedBefore)[turn + 1]} ELSE {}
  IN  [c \in Candidates |-> IF c \in active \cup explored THEN "on" ELSE "off"]

\* What an executed sequence shows to have been active.
OverlaysOf(executed) == ToSet(executed) \ ToSet(Core)

\* A variant: the guards are not consulted.
MergeAnyway(own, others, allowed) == own (+) others

\* The evidence of another run joins one's own, unless a guard forbids it.
MergeFrom(own, others, allowed) == IF allowed THEN own (+) others ELSE own
=============================================================================
