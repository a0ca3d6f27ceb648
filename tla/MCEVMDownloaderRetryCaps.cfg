CONSTANTS
  MaxHeight <- MC_MaxHeight
  MaxReorgs <- MC_MaxReorgs
  SyncBlockChunkSize <- MC_SyncBlockChunkSize
  MaxRetryCountBlockHashMismatch <- MC_MaxRetry
  MaxRetryAttemptsAfterError <- MC_MaxRetryAttempts
  MaxErrStreak <- MC_MaxErrStreak
  MaxFinalizedErrs <- MC_MaxFinalizedErrsPastCap
  BlockFinality = "LatestBlock"
  FinalizedBlockTypeCfg = "FinalizedBlock"
  InitialFromBlock = 1
SPECIFICATION Spec
CONSTRAINT MC_Constraint
INVARIANT RetriesCapped
CHECK_DEADLOCK FALSE
