-------------------------- MODULE MCChainGERSender --------------------------
(* Three reorgs of the mined transaction: a tick may see it mined, sent   *)
(* again and mined again several times before it returns.               *)
EXTENDS ChainGERSender

MC_MaxReorgs == 3
=============================================================================
