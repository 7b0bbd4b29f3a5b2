------------------------------ MODULE VitalSigns ------------------------------
(***************************************************************************)
(* The vital signs of the organism and the gates that read them:           *)
(* runtime/life/contracts.py (VitalSignsSnapshot) and                      *)
(* runtime/life/vitals.py (VitalSignsService, mode_for_vitals).            *)
(*                                                                         *)
(* A score in [0, 1] is an integer percentage; every threshold of the code *)
(* is a multiple of 0.01, so no comparison is lost.  Identifiers, time     *)
(* stamps and descriptive metadata are left out; the one piece of metadata *)
(* a gate reads, memory_purity_basis, is the field hadMemory.              *)
(***************************************************************************)
EXTENDS Integers

CONSTANT None    \* Python's None: no certificate, no episode, no snapshot
-----------------------------------------------------------------------------
(* Types *)

Percent == 0..100

Modes == {"normal", "conservative", "recovery", "quarantine", "rollback"}

GatedAxes ==
  {"viability", "continuity", "risk", "purity", "reversible", "certified"}

RestoreRequiredAxes ==
  {"reversible", "viability", "continuity", "risk", "purity"}

StabilityRequiredAxes ==
  {"certified", "viability", "continuity", "risk", "purity"}

\* The white list: the only axis whose subject may be absent.
NotApplicableEligibleAxes == {"purity"}

Vitals ==
  [episodes: Nat, mode: Modes, viability: Percent, continuity: Percent,
   risk: Percent, purity: Percent, quality: Percent, pressure: Percent,
   debt: Percent, drift: Percent, identity: Percent,
   reversible: BOOLEAN, certified: BOOLEAN, hadMemory: BOOLEAN,
   unverified: SUBSET GatedAxes, notApplicable: SUBSET GatedAxes]

\* What the vital signs read of OrganismState and of the lineage.
Organism ==
  [episodes: Nat, viability: Percent, debt: Percent, drift: Percent,
   consistency: Percent]

\* What they read of an episode certificate.
Certificate ==
  [continuity: Percent, ioc: Percent, risk: Percent, certified: BOOLEAN,
   rollbackReady: BOOLEAN, purity: Percent, measured: BOOLEAN,
   hadMemory: BOOLEAN, pressure: Percent]

\* The reward and evidence terms of the cognitive quality, already weighted.
Terms == 0..3000

\* What they read of an episode result.
Episode ==
  [viability: Percent, rollbackRequired: BOOLEAN, term: Terms]
-----------------------------------------------------------------------------
(* The gates *)

RestoreAxisOk(v, axis) ==
  CASE axis = "reversible" -> v.reversible
    [] axis = "viability"  -> v.viability >= 55
    [] axis = "continuity" -> v.continuity >= 75
    [] axis = "risk"       -> v.risk < 50
    [] axis = "purity"     -> v.purity >= 85
    [] OTHER               -> FALSE

StabilityAxisOk(v, axis) ==
  CASE axis = "certified"  -> v.certified
    [] axis = "viability"  -> v.viability >= 45
    [] axis = "continuity" -> v.continuity >= 60
    [] axis = "risk"       -> v.risk < 60
    [] axis = "purity"     -> v.purity >= 75
    [] OTHER               -> FALSE

\* _not_applicable: white-listed axes only, and "unverified" wins.
NotApplicable(v, required) ==
  {a \in required \cap NotApplicableEligibleAxes :
     a \in v.notApplicable /\ a \notin v.unverified}

IsStable(v) ==
  /\ StabilityRequiredAxes \cap v.unverified = {}
  /\ \A a \in StabilityRequiredAxes \ NotApplicable(v, StabilityRequiredAxes) :
       StabilityAxisOk(v, a)

IsRestorable(v) ==
  /\ RestoreRequiredAxes \cap v.unverified = {}
  /\ \A a \in RestoreRequiredAxes \ NotApplicable(v, RestoreRequiredAxes) :
       RestoreAxisOk(v, a)

\* restorability_report: which axes were checked, and the reason it states.
ChecksApplied(v) ==
  RestoreRequiredAxes \ (v.unverified \cup NotApplicable(v, RestoreRequiredAxes))

RestorabilityReason(v) ==
  IF RestoreRequiredAxes \cap v.unverified # {} THEN "vitals_unverified"
  ELSE IF \E a \in ChecksApplied(v) : ~RestoreAxisOk(v, a)
         THEN "vitals_below_threshold"
         ELSE "ok"

ModeForVitals(v) ==
  IF ~v.reversible \/ v.viability <= 5 THEN "rollback"
  ELSE IF v.viability < 15 \/ v.identity < 45 THEN "quarantine"
  ELSE IF v.viability < 35 \/ v.risk >= 80 \/ v.debt >= 65 THEN "recovery"
  ELSE IF v.pressure >= 80 \/ v.risk >= 60 \/ v.continuity < 60
         THEN "conservative"
         ELSE "normal"
-----------------------------------------------------------------------------
(* Building a snapshot *)

\* A variant: the sensed pressure is added to the certificate's.
Added(a, b) == a + b

Larger(a, b) == IF a >= b THEN a ELSE b

\* cognitive_quality: a weighted mean, the last term already weighted.
Quality(ioc, continuity, term) == (45 * ioc + 25 * continuity + term) \div 100

\* The defaults from_state falls back on when the run has no certificate.
NoReading ==
  [continuity |-> 100, ioc |-> 0, risk |-> 100, certified |-> FALSE,
   rollbackReady |-> TRUE, purity |-> 100, measured |-> FALSE,
   hadMemory |-> FALSE, pressure |-> 0]

\* from_state: cert is the certificate of the episode or the newest one of
\* the run, or None; episode is None outside an episode; sensed is the sensed
\* hardware pressure, 0 when nothing is sensed.  The fallback to a pressure of
\* the episode's own is left out: no episode result carries one.
FromState(organism, cert, episode, sensed) ==
  LET c == IF cert = None THEN NoReading ELSE cert
      term == IF episode = None THEN 1500 ELSE episode.term
      draft ==
        [episodes   |-> organism.episodes,
         mode       |-> "normal",
         viability  |-> IF episode = None THEN organism.viability
                                          ELSE episode.viability,
         continuity |-> c.continuity,
         risk       |-> c.risk,
         purity     |-> c.purity,
         quality    |-> Quality(c.ioc, c.continuity, term),
         pressure   |-> Larger(c.pressure, sensed),
         debt       |-> organism.debt,
         drift      |-> organism.drift,
         identity   |-> (c.continuity + organism.consistency) \div 2,
         reversible |-> /\ episode = None \/ ~episode.rollbackRequired
                        /\ c.rollbackReady,
         certified  |-> c.certified,
         hadMemory  |-> c.hadMemory,
         unverified |-> (IF cert = None THEN {"continuity"} ELSE {})
                        \cup (IF c.measured THEN {} ELSE {"purity"}),
         notApplicable |-> IF c.measured /\ ~c.hadMemory THEN {"purity"}
                                                         ELSE {}]
  IN  [draft EXCEPT !.mode = ModeForVitals(draft)]

\* bootstrap: from_state outside an episode.
Bootstrap(organism, cert, sensed) == FromState(organism, cert, None, sensed)
-----------------------------------------------------------------------------
(* The checkpoint payload: to_dict and from_dict.  A payload is a function *)
(* on the keys it has; a key that is null counts as absent.                *)

Keys ==
  {"episodes", "mode", "viability", "continuity", "risk", "purity", "quality",
   "pressure", "debt", "drift", "identity", "reversible", "certified",
   "hadMemory", "unverified", "notApplicable"}

KeyRange ==
  [episodes |-> Nat, mode |-> Modes, viability |-> Percent,
   continuity |-> Percent, risk |-> Percent, purity |-> Percent,
   quality |-> Percent, pressure |-> Percent, debt |-> Percent,
   drift |-> Percent, identity |-> Percent, reversible |-> BOOLEAN,
   certified |-> BOOLEAN, hadMemory |-> BOOLEAN,
   unverified |-> SUBSET GatedAxes, notApplicable |-> SUBSET GatedAxes]

IsPayload(p) ==
  /\ p = [k \in DOMAIN p |-> p[k]]
  /\ DOMAIN p \subseteq Keys
  /\ \A k \in DOMAIN p : p[k] \in KeyRange[k]

\* A payload that lost some of its keys.
Without(p, lost) == [k \in DOMAIN p \ lost |-> p[k]]

ToDict(v) == [k \in Keys |-> v[k]]

\* A variant: an axis that is not in the payload passes as verified (before B73).
NoMissingAxes(payload) == {}

MissingAxes(payload) == GatedAxes \ DOMAIN payload

FromDict(payload) ==
  LET Get(key, default) == IF key \in DOMAIN payload THEN payload[key]
                                                     ELSE default
      hadMemory == Get("hadMemory", FALSE)
  IN  [episodes      |-> Get("episodes", 0),
       mode          |-> Get("mode", "normal"),
       viability     |-> Get("viability", 100),
       continuity    |-> Get("continuity", 100),
       risk          |-> Get("risk", 0),
       purity        |-> Get("purity", 100),
       quality       |-> Get("quality", 50),
       pressure      |-> Get("pressure", 0),
       debt          |-> Get("debt", 0),
       drift         |-> Get("drift", 0),
       identity      |-> Get("identity", 100),
       reversible    |-> Get("reversible", TRUE),
       certified     |-> Get("certified", FALSE),
       hadMemory     |-> hadMemory,
       unverified    |-> MissingAxes(payload) \cup Get("unverified", {}),
       notApplicable |-> Get("notApplicable", {})
                           \ (IF hadMemory THEN {"purity"} ELSE {})]
=============================================================================
