-------------------------- MODULE MCEpochNotifier --------------------------
(* The notifier under the configurations a node may be started with, one *)
(* chosen by the constructor: N = 4 at 50% (blocks exactly at and past    *)
(* the threshold), N = 4 at 90% (above the (N-1)/N cap), epochs of a      *)
(* single block (cap 0), a first epoch starting at block 0 notified at    *)
(* 0%, and N = 0, which Validate refuses.  Blocks 0..MC_MaxBlock arrive   *)
(* in any order, repeated.                                                 *)
EXTENDS EpochNotifier

MC_Config(start, n, pct) ==
  [StartingEpochBlock |-> start, NumBlockPerEpoch |-> n,
   EpochNotificationPercentage |-> pct]

MC_Configs ==
  { MC_Config(2, 4, 50), MC_Config(2, 4, 90), MC_Config(2, 1, 50),
    MC_Config(0, 3, 0), MC_Config(2, 0, 50) }

MC_MaxBlock == 14
=============================================================================
