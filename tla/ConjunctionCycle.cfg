\* Every context of the two families, with checkpoints appearing meanwhile.
SPECIFICATION Spec
CONSTANTS
  Actions <- MCActions
  Contexts <- MCContexts
  Checkpoints <- AllCheckpoints
INVARIANTS
  TypeOK
  CriticalNeedsProof
  HighRiskBlocked
  NoFabricatedProof
  RouteWithinPolicy
  BlockedOnlyForCause
  AgreesWithEvaluate
PROPERTIES
  RecheckOnlyImproves
\* The evaluation ends when it has decided.
CHECK_DEADLOCK FALSE
