\* Sensed pressure, a contaminated memory, an external reasoner to consult;
\* checkpoint files torn, or stripped of vital signs, wholly or of one axis;
\* --revive on wake.
SPECIFICATION Spec
CONSTANTS
  None = None
  Genome = "aeon"
  Newborn <- MCNewborn
  Outcomes <- HardOutcomes
  Foreign <- Strangers
  Scope = "genome"
  FixedRun = FALSE
  Revive = TRUE
  Sensing = TRUE
  Pressures <- Strained
  Experience = TRUE
  AllowExternal = TRUE
  WantsUnbounded = TRUE
  MaxTier = 2
  BlockSize = 2
  CheckpointInterval = 1
  Damages <- MangledFiles
  LostKeys <- LostAxes
  MaxDamages = 1
  MaxWakes = 2
  MaxSteps = 2
INVARIANTS
  TypeOK
  EpisodeIsAllowed
  FlagMatchesFile
PROPERTIES
  RefugeIsSound
  RefugeNeverAdvances
\* MaxSteps and MaxWakes stop the organism.
CHECK_DEADLOCK FALSE
