\* Fresh runs of one genome, crashes at every point, a stranger on the store.
SPECIFICATION Spec
CONSTANTS
  None = None
  Genome = "aeon"
  Newborn <- MCNewborn
  Outcomes <- AllOutcomes
  Foreign <- Strangers
  Scope = "genome"
  FixedRun = FALSE
  Revive = FALSE
  Sensing = FALSE
  Pressures <- Still
  Experience = TRUE
  AllowExternal = FALSE
  WantsUnbounded = FALSE
  MaxTier = 2
  BlockSize = 2
  CheckpointInterval = 2
  Damages <- NoDamage
  LostKeys <- NoLoss
  MaxDamages = 0
  MaxWakes = 3
  MaxSteps = 3
INVARIANTS
  CursorMatchesSteps
  LossBounded
  IdentityKept
  StuckHasNowhereToGo
  KeepsActing
\* MaxSteps and MaxWakes stop the organism.
CHECK_DEADLOCK FALSE
