SPECIFICATION FairSpec
CONSTANTS
  None = None
  Episodes <- MCEpisodes
  MaxLimit = 3
  Patience = 2
  PostWindow = 3
  Cooldown = 4
  RiskEnforcement = TRUE
PROPERTIES
  RevertRestores
  RollbackToHealthy
  QuietAfterSetback
  WatchEnds
