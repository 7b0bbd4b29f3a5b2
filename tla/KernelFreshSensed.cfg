\* Under sensing, a healthy organism that wakes in a fresh run never acts again.
SPECIFICATION Spec
CONSTANTS
  None = None
  Genome = "aeon"
  Newborn <- MCNewborn
  Outcomes <- OneOutcome
  Foreign <- Nobody
  Scope = "genome"
  FixedRun = FALSE
  Revive = FALSE
  Sensing = TRUE
  Pressures <- Still
  Experience = TRUE
  AllowExternal = FALSE
  WantsUnbounded = FALSE
  MaxTier = 2
  BlockSize = 2
  CheckpointInterval = 2
  Damages <- NoDamage
  LostKeys <- NoLoss
  MaxDamages = 0
  MaxWakes = 2
  MaxSteps = 3
INVARIANTS
  KeepsActing
\* MaxSteps and MaxWakes stop the organism.
CHECK_DEADLOCK FALSE
