CONSTANTS
  StartL2Block <- MC_StartL2Block
  MaxL2Block <- MC_MaxL2Block
  MaxInError <- MC_MaxInError
  MaxDBLoss <- MC_MaxDBLoss
  MaxModeChanges <- MC_MaxModeChanges
SPECIFICATION Spec

PROPERTY RetryResendsSameRange
CHECK_DEADLOCK FALSE
