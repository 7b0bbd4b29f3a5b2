\* A lone organism under every kind of profile, twins, and a mixed colony.
SPECIFICATION Spec
CONSTANTS
  Candidates <- MCCandidates
  Epsilon = 5
  MinObs = 1
  MaxActive = 2
  Colonies <- MCColonies
  Names = {0, 1, 2}
  Scenarios <- MCScenarios
  Incomparable <- MCIncomparable
  TransferModes = {"isolated", "reasoning_policy"}
  Situations <- MCSituations
  Episodes = 1
  MaxGenerations = 2
  MaxRestarts = 1
INVARIANTS
  ClosureKept
  DirectivesHeeded
  
PROPERTIES
  OnlyCertifiedStay
\* MaxGenerations stops the colony.
CHECK_DEADLOCK FALSE
