\* A rollback plan the missing-evidence compensation finds stays "blocked".
SPECIFICATION Spec
CONSTANTS
  Actions <- MCActions
  Contexts <- MCContexts
  Checkpoints <- NoCheckpoints
INVARIANTS
  RecoveredEvidenceUnblocks
CHECK_DEADLOCK FALSE
