\* Both callers, all profiles, two sets of scales, changing worlds, failing appends.
SPECIFICATION FairSpec
CONSTANTS
  NoScale = NoScale
  Policies = {"baseline", "aggressive", "regime_v3"}
  Setups <- MCSetups
  Demands <- MCDemands
  ProbeOutcomes <- MCProbes
  MaxFailures = 2
INVARIANTS
  TypeOK
  CommitIsMeasured
  FailedStepMovesNothing
  FlipsOnlyByRegime
PROPERTIES
  DwellHolds
  
  KernelClimbs
  LedgerCatchesUp
\* A benchmark run ends when an append fails.
CHECK_DEADLOCK FALSE
