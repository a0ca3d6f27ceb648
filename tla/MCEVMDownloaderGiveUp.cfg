CONSTANTS
  MaxHeight <- MC_MaxHeight
  MaxReorgs <- MC_MaxReorgsGiveUp
  SyncBlockChunkSize <- MC_SyncBlockChunkSize
  MaxRetryCountBlockHashMismatch <- MC_MaxRetry
  MaxRetryAttemptsAfterError <- MC_MaxRetryAttempts
  MaxErrStreak <- MC_MaxErrStreak
  MaxFinalizedErrs <- MC_MaxFinalizedErrs
  BlockFinality = "LatestBlock"
  FinalizedBlockTypeCfg = "FinalizedBlock"
  InitialFromBlock = 1
SPECIFICATION Spec
CONSTRAINT MC_Constraint
INVARIANT NoEventSkipped
CHECK_DEADLOCK FALSE
