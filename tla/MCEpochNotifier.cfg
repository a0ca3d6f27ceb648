CONSTANTS
  Configs <- MC_Configs
  MaxBlock <- MC_MaxBlock
SPECIFICATION Spec
INVARIANTS TypeOK EpochsPublishedOnceInOrder LastBlockOfEpochAnnounced NoEpochMissed
