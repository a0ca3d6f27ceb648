CONSTANTS
  L2NetworkID <- MC_L2NetworkID
  OtherNetworkID <- MC_OtherNetworkID
  MaxDeposits <- MC_MaxDeposits
  MaxLeaves <- MC_MaxLeaves
  MaxL1Block <- MC_MaxL1Block
  MaxReorgs <- MC_MaxReorgs
SPECIFICATION Spec
CONSTRAINT MC_StateBound
INVARIANTS
  TypeOK
  IndexForBridgeSound
  ClaimProofMatchesLeaf
  HaltedAnswersNothing
