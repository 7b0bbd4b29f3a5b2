\* Without sensing, an organism that took refuge rolls back forever.
SPECIFICATION FairSpec
CONSTANTS
  None = None
  Genome = "aeon"
  Newborn <- MCNewborn
  Outcomes <- HurtOutcomes
  Foreign <- Nobody
  Scope = "genome"
  FixedRun = FALSE
  Revive = FALSE
  Sensing = FALSE
  Pressures <- Still
  Experience = TRUE
  AllowExternal = FALSE
  WantsUnbounded = FALSE
  MaxTier = 2
  BlockSize = 2
  CheckpointInterval = 2
  Damages <- NoDamage
  LostKeys <- NoLoss
  MaxDamages = 0
  MaxWakes = 2
  MaxSteps = 3
PROPERTIES
  RefugeLeadsBack
\* MaxSteps and MaxWakes stop the organism.
CHECK_DEADLOCK FALSE
