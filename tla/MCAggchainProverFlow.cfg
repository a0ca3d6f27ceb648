CONSTANTS
  StartL2Block <- MC_StartL2Block
  MaxL2Block <- MC_MaxL2Block
  MaxInError <- MC_MaxInError
  MaxDBLoss <- MC_MaxDBLoss
  MaxModeChanges <- MC_MaxModeChanges
SPECIFICATION FairSpec
INVARIANTS TypeOK HeightsSettledBelowLast RangesContiguous RPCHeaderMatchesAgglayer
PROPERTIES RetryKeepsOrigin AllBlocksEventuallySettled LedgerSpec
CHECK_DEADLOCK FALSE
