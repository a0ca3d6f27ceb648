----------------------- MODULE MCAggchainProverFlow -----------------------
(* FEP starts after L2 block 1; the syncer reaches block 5, so a first     *)
(* certificate, a shrunk range and follow-ups all fit; two rejections,     *)
(* two database losses and one optimistic switch.                          *)
EXTENDS AggchainProverFlow

MC_StartL2Block == 1
MC_MaxL2Block == 5
MC_MaxInError == 2
MC_MaxDBLoss == 2
MC_MaxModeChanges == 1
=============================================================================
