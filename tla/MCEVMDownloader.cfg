CONSTANTS
  MaxHeight <- MC_MaxHeightFair
  MaxReorgs <- MC_MaxReorgsGiveUp
  SyncBlockChunkSize <- MC_SyncBlockChunkSize
  MaxRetryCountBlockHashMismatch <- MC_MaxRetry
  MaxRetryAttemptsAfterError <- MC_MaxRetryAttempts
  MaxErrStreak <- MC_MaxErrStreak
  MaxFinalizedErrs <- MC_MaxFinalizedErrs
  BlockFinality = "LatestBlock"
  FinalizedBlockTypeCfg = "FinalizedBlock"
  InitialFromBlock = 1
SPECIFICATION FairSpec
CONSTRAINT MC_Constraint
INVARIANTS TypeOK EmittedStrictlyIncreasing FinalizedFlagSound NoEventSkippedWithinRetryCap RPCRetriesCapped
PROPERTY RangeCheckEnds
CHECK_DEADLOCK FALSE
