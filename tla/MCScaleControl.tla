---------------------------- MODULE MCScaleControl ----------------------------
(***************************************************************************)
(* Small instances of ScaleControl: the two callers, the three profiles,   *)
(* the scales that run today and all of them, and worlds on both sides of  *)
(* the thresholds.                                                         *)
(***************************************************************************)
EXTENDS ScaleControl

MCSetups ==
  {[caller |-> "kernel", policy |-> "baseline", runs |-> Shipped]}
    \cup [caller : {"benchmark"}, policy : Policies, runs : {Shipped, Scales}]

\* Nothing happens, and there is no device to measure.
Quiet ==
  [het |-> 0, epi |-> 0, op |-> 100, prox |-> 0, low |-> 0, failed |-> FALSE,
   complexity |-> 0, blind |-> 0, opp |-> 0, pressure |-> 100, frag |-> 100]

\* The same with a world that is expected to be complex.
QuietComplex == [Quiet EXCEPT !.het = 18, !.complexity = 50]

\* The world at its alarm threshold, the episode refused.
Edge == [Quiet EXCEPT !.prox = 100, !.low = 100, !.failed = TRUE, !.op = 10]

\* Enough structure to look closer, memory to do it, no urgency.
Mild == [Quiet EXCEPT !.het = 30, !.epi = 25, !.prox = 40, !.complexity = 55,
                      !.opp = 92, !.pressure = 20, !.frag = 20]

\* Structure and uncertainty high, risk moderate.
Busy == [Mild EXCEPT !.het = 100, !.epi = 60, !.low = 20, !.op = 0]

\* The same without the memory for a probe.
BusyTight == [Busy EXCEPT !.opp = 40, !.pressure = 60, !.frag = 50]

\* Conflicting evidence: the baseline profile asks for a probe.
Torn == [Quiet EXCEPT !.epi = 58, !.het = 40, !.complexity = 30]

MCDemands(caller) ==
  IF caller = "kernel" THEN {Quiet, QuietComplex, Edge}
                       ELSE {Quiet, QuietComplex, Edge, Mild, Busy,
                             BusyTight, Torn}

Probe(gain, viable, evidence, outcomeOf) ==
  [gain |-> gain, viable |-> viable, evidence |-> evidence, outcome |-> outcomeOf]

MCProbes ==
  {Probe(12, TRUE, 62, "positive"), Probe(2, TRUE, 52, "positive"),
   Probe(-5, TRUE, 45, "negative"), Probe(12, FALSE, 62, "negative")}
=============================================================================
