--------------------------- MODULE MCBridgeService ---------------------------
(* The bridge service with two deposits on L1 and one on L2, three L1    *)
(* info tree leaves over three L1 blocks (enough for a block with two     *)
(* leaves, and for a search whose probe lands below, at or above the      *)
(* deposit and narrows either way), and one reorg of a bridge syncer.     *)
EXTENDS BridgeService

MC_L2NetworkID == 1
MC_OtherNetworkID == 2
MC_MaxDeposits == 2
MC_MaxLeaves == 3
MC_MaxL1Block == 3
MC_MaxReorgs == 1

\* Two deposits on the L1 bridge, so that the L1 search's probes see exit
\* roots below, at and above the deposit asked for; one on the L2 bridge,
\* one VerifyBatches event, one reorg in all, and one injected GER at a
\* time (enough for the L2 search and for InjectedL1InfoLeafHandler's
\* lookup).
MC_StateBound ==
  /\ deposits[MC_L2NetworkID] <= 1
  /\ Len(verified) <= 1
  /\ lastReorg[mainnetNetworkID] + lastReorg[MC_L2NetworkID] <= 1
  /\ \A g, h \in injected : g = h
=============================================================================
