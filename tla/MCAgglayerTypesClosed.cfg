CONSTANTS
  KindBits <- MC_KindBits
  Ints <- MC_Ints
  DefaultMandatoryVars <- MC_DefaultMandatoryVars
  DefaultVars <- MC_DefaultVars
  DefaultValues <- MC_DefaultValues
  UserKeys <- MC_UserKeys

SPECIFICATION MC_Spec

INVARIANT
  ClosedStatusIsSettledOrInError
