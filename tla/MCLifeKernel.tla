---------------------------- MODULE MCLifeKernel ----------------------------
(***************************************************************************)
(* Small instances of LifeKernel: what an episode may bring, which other   *)
(* organisms share the store, and what may happen to a checkpoint.  The    *)
(* numbers sit on both sides of the thresholds of the gates.               *)
(***************************************************************************)
EXTENDS LifeKernel

Body(viability, drift) ==
  [episodes |-> 1, viability |-> viability, debt |-> 0, drift |-> drift,
   consistency |-> 100]

MCNewborn == [Body(100, 0) EXCEPT !.episodes = 0]

GoodCertificate ==
  [continuity |-> 95, ioc |-> 80, risk |-> 15, certified |-> TRUE,
   rollbackReady |-> TRUE, purity |-> 90, measured |-> TRUE,
   hadMemory |-> TRUE, pressure |-> 0]

Lived(viability, rollback) ==
  [viability |-> viability, rollbackRequired |-> rollback, term |-> 2000]

\* A certified episode.
Thrive ==
  [organism |-> Body(80, 0), certificate |-> GoodCertificate,
   episode |-> Lived(90, FALSE)]

\* A certified first episode without any memory to judge the purity of.
Memoryless ==
  [organism |-> Body(85, 0),
   certificate |-> [GoodCertificate EXCEPT !.purity = 100, !.hadMemory = FALSE],
   episode |-> Lived(95, FALSE)]

\* An episode that is neither stable nor restorable, and hurts nothing.
Mediocre ==
  [organism |-> Body(50, 10),
   certificate |-> [GoodCertificate EXCEPT !.continuity = 70, !.risk = 55,
                                           !.certified = FALSE],
   episode |-> Lived(50, FALSE)]

\* The episode asks for a rollback.
Irreversible ==
  [organism |-> Body(60, 20), certificate |-> GoodCertificate,
   episode |-> Lived(60, TRUE)]

\* Viability below the quarantine threshold.
Fading ==
  [organism |-> Body(12, 30),
   certificate |-> [GoodCertificate EXCEPT !.certified = FALSE],
   episode |-> Lived(12, FALSE)]

\* All is well but for a lineage of nothing but rollbacks: an identity of 40
\* puts the organism into quarantine, and yet it is restorable.
Estranged ==
  [organism |-> [Body(85, 0) EXCEPT !.consistency = 0],
   certificate |-> [GoodCertificate EXCEPT !.continuity = 80],
   episode |-> Lived(90, FALSE)]

\* Risk at the limit of the risk validator.
Risky ==
  [organism |-> Body(60, 30),
   certificate |-> [GoodCertificate EXCEPT !.risk = 80, !.pressure = 30],
   episode |-> Lived(60, FALSE)]

\* The same with a contaminated memory: self-modification is proposed.
RiskyTainted ==
  [Risky EXCEPT !.certificate.purity = 40, !.certificate.certified = FALSE]

\* Poor quality at a bounded risk: an external reasoner is consulted.
Dull ==
  [organism |-> Body(60, 40),
   certificate |-> [GoodCertificate EXCEPT !.ioc = 0, !.continuity = 60,
                                           !.certified = FALSE],
   episode |-> [Lived(60, FALSE) EXCEPT !.term = 500]]

\* A healthy checkpoint of another organism, further along in its life.
Stranger ==
  LET v == FromState(Body(70, 5), GoodCertificate, Lived(90, FALSE), 0)
  IN  [organismId |-> "stranger", run |-> 0, healthy |-> TRUE, file |-> "present",
       payload |-> ToDict(v), organism |-> Body(70, 5), steps |-> 9,
       cursor |-> [scenario |-> 4, episode |-> 1]]

Nobody == {}
Strangers == {Stranger}

AllOutcomes == {Thrive, Mediocre, Irreversible, Fading, Estranged, RiskyTainted}
HardOutcomes == {Thrive, Irreversible, RiskyTainted, Dull}
MildOutcomes == {Thrive, Memoryless, Mediocre}
HurtOutcomes == {Thrive, Irreversible}
FadeOutcomes == {Thrive, Fading}
OneOutcome == {Thrive}

NoDamage == {}
TornFiles == {"missing", "novitals"}
MangledFiles == {"unreadable", "novitals", "mistyped"}
NoLoss == {}
LostAxes == {{"risk"}}

Still == {20}
Strained == {20, 90}
=============================================================================
