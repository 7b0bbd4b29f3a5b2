\* Under sensing, and in one run, a quarantined organism comes back to life,
\* whatever happens to the file of one of its checkpoints.
SPECIFICATION FairSpec
CONSTANTS
  None = None
  Genome = "aeon"
  Newborn <- MCNewborn
  Outcomes <- FadeOutcomes
  Foreign <- Nobody
  Scope = "genome"
  FixedRun = TRUE
  Revive = FALSE
  Sensing = TRUE
  Pressures <- Still
  Experience = TRUE
  AllowExternal = FALSE
  WantsUnbounded = FALSE
  MaxTier = 2
  BlockSize = 2
  CheckpointInterval = 2
  Damages <- TornFiles
  LostKeys <- NoLoss
  MaxDamages = 1
  MaxWakes = 2
  MaxSteps = 3
PROPERTIES
  RefugeLeadsBack
  ComesUp
\* MaxSteps and MaxWakes stop the organism.
CHECK_DEADLOCK FALSE
