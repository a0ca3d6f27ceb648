---------------------------- MODULE BridgeService ----------------------------
(***************************************************************************)
(* The bridge REST service (src/bridgeservice/bridge.go) over the stores  *)
(* it reads: the L1 info tree syncer behind its halting facade            *)
(* (src/unnamed/part_008, l1infotreesync.L1InfoTreeSync), the L1 and L2   *)
(* bridge syncers and the injected-GER syncer.                             *)
(*                                                                         *)
(* The chains and syncers are the environment: deposits on either bridge  *)
(* contract, bridge syncers catching up or dropping their last block in a *)
(* reorg, L1 info tree leaves added by L1 deposits and by verifications   *)
(* of the L2's batches, GERs injected on L2, and the L1 info tree         *)
(* processor halting on an inconsistent root.  Each handler is one step,  *)
(* from parsing the query to the response it writes.                      *)
(*                                                                         *)
(* Data abstraction.  A deposit is its deposit count; an exit root is the *)
(* index of the last deposit it contains (root.Index), -1 for the root of *)
(* an empty tree.  With one rollup the rollup exit root is fixed by the   *)
(* L2 local exit root it holds, so a leaf's rer is that LER's index.      *)
(* Query parsing is one input, ok, that says whether every parameter      *)
(* parsed and the pagination is valid; dbFail says whether a store call   *)
(* that can fail for I/O reasons fails.                                    *)
(***************************************************************************)
EXTENDS Integers, Sequences, FiniteSets

CONSTANTS
  L2NetworkID,    \* Config.NetworkID: the network the L2 syncers index
  OtherNetworkID, \* a network id the service does not serve
  MaxDeposits,    \* deposits per bridge contract
  MaxLeaves,      \* leaves of the L1 info tree
  MaxL1Block,     \* L1 blocks 1..MaxL1Block
  MaxReorgs       \* reorgs seen by each bridge syncer

mainnetNetworkID == 0
binarySearchDivider == 2

Networks == {mainnetNetworkID, L2NetworkID, OtherNetworkID}
ExitIndex == -1..MaxDeposits - 1

VARIABLES
  deposits,    \* deposits[n]: depositCount of network n's bridge contract
  synced,      \* synced[n]: bridges stored by network n's bridge syncer
  lastReorg,   \* lastReorg[n]: reorgs recorded by network n's bridge syncer
  leaves,      \* the L1 info tree: [block, mer, rer] per leaf, index i-1
  verified,    \* VerifyBatches events of the L2: [block, ler]
  injected,    \* L1 info tree indices whose GER was injected on L2
  halted,      \* processor.isHalted() of the L1 info tree syncer
  response     \* the last response written

world == <<deposits, synced, lastReorg, leaves, verified, injected, halted>>
vars == <<world, response>>

Ok(v) == [err |-> "nil", val |-> v]
Err(e) == [err |-> e, val |-> 0]
IsErr(r) == r.err /= "nil"

-----------------------------------------------------------------------------
(* The L1 info tree syncer's queries (part_008): each first checks        *)
(* isHalted; a leaf is returned as its position in leaves.                 *)

\* isHalted() guards every query with ErrInconsistentState.
Facade(r) == IF halted THEN Err("ErrInconsistentState") ELSE r

\* Faulty variant: the lookup skips the isHalted check.
GetInfoByIndexUnguarded(i) ==
  IF i < Len(leaves) THEN Ok(i + 1) ELSE Err("ErrNotFound")

\* Lines 170-176.
GetInfoByIndex(i) ==
  Facade(IF i < Len(leaves) THEN Ok(i + 1) ELSE Err("ErrNotFound"))

\* Lines 250-262.
GetLastInfo == Facade(IF leaves = <<>> THEN Err("ErrNotFound") ELSE Ok(Len(leaves)))
GetFirstInfo == Facade(IF leaves = <<>> THEN Err("ErrNotFound") ELSE Ok(1))

\* Lines 264-269: the first leaf added at or after block b.
GetFirstInfoAfterBlock(b) ==
  Facade(IF \E i \in DOMAIN leaves : leaves[i].block >= b
         THEN Ok(CHOOSE i \in DOMAIN leaves :
                   leaves[i].block >= b /\ \A j \in 1..i - 1 : leaves[j].block < b)
         ELSE Err("ErrNotFound"))

\* Lines 222-241: the last and the first verification, and the first one
\* at or after block b (as positions in verified).
GetLastVerifiedBatches ==
  Facade(IF verified = <<>> THEN Err("ErrNotFound") ELSE Ok(Len(verified)))
GetFirstVerifiedBatches ==
  Facade(IF verified = <<>> THEN Err("ErrNotFound") ELSE Ok(1))
GetFirstVerifiedBatchesAfterBlock(b) ==
  Facade(IF \E i \in DOMAIN verified : verified[i].block >= b
         THEN Ok(CHOOSE i \in DOMAIN verified :
                   verified[i].block >= b /\ \A j \in 1..i - 1 : verified[j].block < b)
         ELSE Err("ErrNotFound"))

\* Lines 243-248: the first leaf whose rollup exit root is rer.
GetFirstL1InfoWithRollupExitRoot(rer) ==
  Facade(IF \E i \in DOMAIN leaves : leaves[i].rer = rer
         THEN Ok(CHOOSE i \in DOMAIN leaves :
                   leaves[i].rer = rer /\ \A j \in 1..i - 1 : leaves[j].rer /= rer)
         ELSE Err("ErrNotFound"))

\* Lines 209-220: the LER of network n inside rollup exit root rer; the
\* rollup exit tree has no leaf for n in the empty root.
GetLocalExitRoot(n, rer) ==
  Facade(CASE n = mainnetNetworkID -> Err("ErrNotRollup")
           [] rer = -1 -> Err("ErrNotFound")
           [] OTHER -> Ok(rer))

\* Lines 134-147: the proof of n's leaf in the rollup exit root rer; the
\* empty proof for network 0.
GetRollupExitTreeMerkleProof(n, rer) ==
  Facade(CASE n = mainnetNetworkID -> Ok("EmptyProof")
           [] rer = -1 -> Err("ErrNotFound")
           [] OTHER -> Ok(rer))

-----------------------------------------------------------------------------
(* The bridge syncers (not under src/): an exit root is known to a syncer *)
(* once it has stored the deposit that produced it; the empty tree's root *)
(* is never stored, since roots are stored as leaves are appended.        *)

GetRootByLER(n, ler) ==
  IF ler >= 0 /\ ler < synced[n] THEN Ok(ler) ELSE Err("ErrNotFound")

\* GetProof(depositCount, localExitRoot): a proof against a known root.
GetProof(n, dc, ler) ==
  IF GetRootByLER(n, ler).err = "nil" THEN Ok(ler) ELSE Err("ErrNotFound")

\* lastgersync's GetFirstGERAfterL1InfoTreeIndex: the first injected GER
\* whose L1 info tree index is at least idx.
GetFirstGERAfterL1InfoTreeIndex(idx) ==
  IF \E g \in injected : g >= idx
  THEN Ok(CHOOSE g \in injected : g >= idx /\ \A h \in injected : h >= idx => g <= h)
  ELSE Err("ErrNotFound")

-----------------------------------------------------------------------------
(* The two binary searches of bridge.go; a result is a position, or the   *)
(* first error a store call returned.                                      *)

\* Faulty variant: the two narrowing steps swapped.
RECURSIVE SearchL1Swapped(_, _, _, _)
SearchL1Swapped(depositCount, lowerLimit, upperLimit, bestResult) ==
  IF lowerLimit > upperLimit THEN Ok(bestResult)
  ELSE LET targetBlock == lowerLimit + (upperLimit - lowerLimit) \div binarySearchDivider
           targetInfo == GetFirstInfoAfterBlock(targetBlock)
           root == GetRootByLER(mainnetNetworkID, leaves[targetInfo.val].mer)
       IN CASE IsErr(targetInfo) -> targetInfo
            [] IsErr(root) -> root
            [] root.val < depositCount ->
                 SearchL1Swapped(depositCount, lowerLimit, targetBlock - 1, targetInfo.val)
            [] root.val = depositCount -> Ok(targetInfo.val)
            [] OTHER -> SearchL1Swapped(depositCount, targetBlock + 1, upperLimit, bestResult)

\* Lines 985-1008: the loop of getFirstL1InfoTreeIndexForL1Bridge.
RECURSIVE SearchL1(_, _, _, _)
SearchL1(depositCount, lowerLimit, upperLimit, bestResult) ==
  IF lowerLimit > upperLimit THEN Ok(bestResult)
  ELSE LET targetBlock == lowerLimit + (upperLimit - lowerLimit) \div binarySearchDivider
           targetInfo == GetFirstInfoAfterBlock(targetBlock)
           root == GetRootByLER(mainnetNetworkID, leaves[targetInfo.val].mer)
       IN CASE IsErr(targetInfo) -> targetInfo
            [] IsErr(root) -> root
            [] root.val < depositCount ->
                 SearchL1(depositCount, targetBlock + 1, upperLimit, bestResult)
            [] root.val = depositCount -> Ok(targetInfo.val)
            [] OTHER -> SearchL1(depositCount, lowerLimit, targetBlock - 1, targetInfo.val)

\* Lines 963-1010.
getFirstL1InfoTreeIndexForL1Bridge(depositCount) ==
  LET lastInfo == GetLastInfo
      root == GetRootByLER(mainnetNetworkID, leaves[lastInfo.val].mer)
      firstInfo == GetFirstInfo
      best == SearchL1(depositCount, leaves[firstInfo.val].block,
                       leaves[lastInfo.val].block, lastInfo.val)
  IN CASE IsErr(lastInfo) -> lastInfo
       [] IsErr(root) -> root
       [] root.val < depositCount -> Err("ErrNotOnL1Info")
       [] IsErr(firstInfo) -> firstInfo
       [] IsErr(best) -> best
       [] OTHER -> Ok(best.val - 1)

\* Lines 1038-1061: the loop of getFirstL1InfoTreeIndexForL2Bridge.
RECURSIVE SearchL2(_, _, _, _)
SearchL2(depositCount, lowerLimit, upperLimit, bestResult) ==
  IF lowerLimit > upperLimit THEN Ok(bestResult)
  ELSE LET targetBlock == lowerLimit + (upperLimit - lowerLimit) \div binarySearchDivider
           targetVerified == GetFirstVerifiedBatchesAfterBlock(targetBlock)
           root == GetRootByLER(L2NetworkID, verified[targetVerified.val].ler)
       IN CASE IsErr(targetVerified) -> targetVerified
            [] IsErr(root) -> root
            [] root.val < depositCount ->
                 SearchL2(depositCount, targetBlock + 1, upperLimit, bestResult)
            [] root.val = depositCount -> Ok(targetVerified.val)
            [] OTHER -> SearchL2(depositCount, lowerLimit, targetBlock - 1, targetVerified.val)

\* Lines 1012-1067: the verification found, then the first leaf holding
\* its rollup exit root.
getFirstL1InfoTreeIndexForL2Bridge(depositCount) ==
  LET lastVerified == GetLastVerifiedBatches
      root == GetRootByLER(L2NetworkID, verified[lastVerified.val].ler)
      firstVerified == GetFirstVerifiedBatches
      best == SearchL2(depositCount, verified[firstVerified.val].block,
                       verified[lastVerified.val].block, lastVerified.val)
      info == GetFirstL1InfoWithRollupExitRoot(verified[best.val].ler)
  IN CASE IsErr(lastVerified) -> lastVerified
       [] IsErr(root) -> root
       [] root.val < depositCount -> Err("ErrNotOnL1Info")
       [] IsErr(firstVerified) -> firstVerified
       [] IsErr(best) -> best
       [] IsErr(info) -> info
       [] OTHER -> Ok(info.val - 1)
-----------------------------------------------------------------------------
(* The handlers.  Each writes one response: 400 for a query that does not *)
(* parse or a network the service does not serve, 500 for an error of a   *)
(* store call, 200 with the body otherwise.                                *)

NoResponse == [h |-> "none", net |-> 0, code |-> 0, err |-> "nil", body |-> 0]

Respond(h, n, code, err, body) ==
  response' = [h |-> h, net |-> n, code |-> code, err |-> err, body |-> body]

\* A result of a store call, as a 500 or as a 200 with body b.
RespondWith(h, n, r, b) ==
  IF IsErr(r) THEN Respond(h, n, 500, r.err, b) ELSE Respond(h, n, 200, "nil", b)

\* The syncer a served network routes to.
Served(n) == n \in {mainnetNetworkID, L2NetworkID}

\* GetBridgesHandler, GetClaimsHandler, GetTokenMappingsHandler and
\* GetLegacyTokenMigrationsHandler: parse errors and setupRequest give
\* 400, then the switch on the network, then the paged store call.
PagedHandler(h, n, ok, dbFail, count) ==
  CASE ~ok -> Respond(h, n, 400, "ErrBadParam", 0)
    [] ~Served(n) -> Respond(h, n, 400, "ErrUnsupportedNetwork", 0)
    [] dbFail -> Respond(h, n, 500, "ErrDB", 0)
    [] OTHER -> Respond(h, n, 200, "nil", count)

\* Lines 272-352: the count of bridges the network's syncer holds.
GetBridgesHandler(n, ok, dbFail) ==
  /\ PagedHandler("GetBridges", n, ok, dbFail, IF Served(n) THEN synced[n] ELSE 0)
  /\ UNCHANGED world

\* Lines 370-452.
GetClaimsHandler(n, ok, dbFail) ==
  /\ PagedHandler("GetClaims", n, ok, dbFail, 0)
  /\ UNCHANGED world

\* Lines 467-516.
GetTokenMappingsHandler(n, ok, dbFail) ==
  /\ PagedHandler("GetTokenMappings", n, ok, dbFail, 0)
  /\ UNCHANGED world

\* Lines 531-580.
GetLegacyTokenMigrationsHandler(n, ok, dbFail) ==
  /\ PagedHandler("GetLegacyTokenMigrations", n, ok, dbFail, 0)
  /\ UNCHANGED world

\* Lines 592-646: the L1 info tree index whose root covers the deposit.
L1InfoTreeIndexForBridgeHandler(n, ok, dc) ==
  /\ CASE ~ok -> Respond("L1InfoTreeIndex", n, 400, "ErrBadParam", 0)
       [] n = mainnetNetworkID ->
            LET r == getFirstL1InfoTreeIndexForL1Bridge(dc)
            IN RespondWith("L1InfoTreeIndex", n, r, [index |-> r.val, dc |-> dc])
       [] n = L2NetworkID ->
            LET r == getFirstL1InfoTreeIndexForL2Bridge(dc)
            IN RespondWith("L1InfoTreeIndex", n, r, [index |-> r.val, dc |-> dc])
       [] OTHER -> Respond("L1InfoTreeIndex", n, 400, "ErrUnsupportedNetwork", 0)
  /\ UNCHANGED world

\* Lines 659-725: the leaf at index idx for L1; for L2 the leaf of the
\* first GER injected at or after idx.
InjectedL1InfoLeafHandler(n, ok, idx) ==
  /\ CASE ~ok -> Respond("InjectedL1InfoLeaf", n, 400, "ErrBadParam", 0)
       [] n = mainnetNetworkID ->
            LET r == GetInfoByIndex(idx)
            IN RespondWith("InjectedL1InfoLeaf", n, r, [index |-> r.val - 1, asked |-> idx])
       [] n = L2NetworkID ->
            LET e == GetFirstGERAfterL1InfoTreeIndex(idx)
                r == GetInfoByIndex(e.val)
            IN IF IsErr(e) THEN Respond("InjectedL1InfoLeaf", n, 500, e.err, 0)
               ELSE RespondWith("InjectedL1InfoLeaf", n, r, [index |-> r.val - 1, asked |-> idx])
       [] OTHER -> Respond("InjectedL1InfoLeaf", n, 400, "ErrUnsupportedNetwork", 0)
  /\ UNCHANGED world

\* Faulty variant: the local exit proof is built against the exit roots of
\* the last leaf, not of the leaf asked for.
ClaimProofHandlerLastLeaf(n, ok, idx, dc) ==
  /\ LET info == GetInfoByIndex(idx)
         leaf == leaves[info.val]
         last == leaves[Len(leaves)]
         ler == GetLocalExitRoot(n, last.rer)
         local == IF n = mainnetNetworkID THEN GetProof(mainnetNetworkID, dc, last.mer)
                  ELSE GetProof(L2NetworkID, dc, ler.val)
         rollup == GetRollupExitTreeMerkleProof(n, leaf.rer)
     IN CASE ~ok -> Respond("ClaimProof", n, 400, "ErrBadParam", 0)
          [] IsErr(info) -> Respond("ClaimProof", n, 500, info.err, 0)
          [] ~Served(n) -> Respond("ClaimProof", n, 400, "ErrUnsupportedNetwork", 0)
          [] n = L2NetworkID /\ IsErr(ler) -> Respond("ClaimProof", n, 500, ler.err, 0)
          [] IsErr(local) -> Respond("ClaimProof", n, 500, local.err, 0)
          [] OTHER -> RespondWith("ClaimProof", n, rollup,
                        [leaf |-> idx, dc |-> dc, local |-> local.val, rollup |-> rollup.val])
  /\ UNCHANGED world

\* Lines 741-834: the leaf at idx, the proof of the deposit against the
\* exit root that leaf holds for network n, and the proof of n's leaf in
\* the leaf's rollup exit root.  The body records the roots the two
\* proofs were built against.
ClaimProofHandler(n, ok, idx, dc) ==
  /\ LET info == GetInfoByIndex(idx)
         leaf == leaves[info.val]
         ler == GetLocalExitRoot(n, leaf.rer)
         local == IF n = mainnetNetworkID THEN GetProof(mainnetNetworkID, dc, leaf.mer)
                  ELSE GetProof(L2NetworkID, dc, ler.val)
         rollup == GetRollupExitTreeMerkleProof(n, leaf.rer)
     IN CASE ~ok -> Respond("ClaimProof", n, 400, "ErrBadParam", 0)
          [] IsErr(info) -> Respond("ClaimProof", n, 500, info.err, 0)
          [] ~Served(n) -> Respond("ClaimProof", n, 400, "ErrUnsupportedNetwork", 0)
          [] n = L2NetworkID /\ IsErr(ler) -> Respond("ClaimProof", n, 500, ler.err, 0)
          [] IsErr(local) -> Respond("ClaimProof", n, 500, local.err, 0)
          [] OTHER -> RespondWith("ClaimProof", n, rollup,
                        [leaf |-> idx, dc |-> dc, local |-> local.val, rollup |-> rollup.val])
  /\ UNCHANGED world

\* Lines 847-892: the network's last reorg event.
GetLastReorgEventHandler(n, ok, dbFail) ==
  /\ CASE ~ok -> Respond("LastReorgEvent", n, 400, "ErrBadParam", 0)
       [] ~Served(n) -> Respond("LastReorgEvent", n, 400, "ErrUnsupportedNetwork", 0)
       [] dbFail -> Respond("LastReorgEvent", n, 500, "ErrDB", 0)
       [] OTHER -> Respond("LastReorgEvent", n, 200, "nil", lastReorg[n])
  /\ UNCHANGED world

\* Lines 904-961: each network is synced when the bridges its syncer holds
\* number the bridge contract's deposit count; any of the four calls
\* failing gives 500.
GetSyncStatusHandler(dbFail) ==
  /\ IF dbFail THEN Respond("SyncStatus", 0, 500, "ErrDB", 0)
     ELSE Respond("SyncStatus", 0, 200, "nil",
                  [l1 |-> deposits[mainnetNetworkID] = synced[mainnetNetworkID],
                   l2 |-> deposits[L2NetworkID] = synced[L2NetworkID]])
  /\ UNCHANGED world

-----------------------------------------------------------------------------
(* The environment.  A step of it clears response, so that the response  *)
(* in a state is always one computed from that state's stores.            *)

Bridges == {mainnetNetworkID, L2NetworkID}

\* The current exit roots: the L1 bridge's, and the LER last verified.
CurrentMER == deposits[mainnetNetworkID] - 1
CurrentRER == IF verified = <<>> THEN -1 ELSE verified[Len(verified)].ler

\* The L1 block of the last leaf; a new leaf is added in it or a later one.
LastLeafBlock == IF leaves = <<>> THEN 1 ELSE leaves[Len(leaves)].block
NewLeafBlocks == LastLeafBlock..MaxL1Block

\* A deposit on network n's bridge contract that leaves the global exit
\* root as it is.
Deposit(n) ==
  /\ deposits[n] < MaxDeposits
  /\ deposits' = [deposits EXCEPT ![n] = @ + 1]
  /\ UNCHANGED <<synced, lastReorg, leaves, verified, injected, halted>>
  /\ response' = NoResponse

\* A deposit on the L1 bridge that updates the global exit root, in L1
\* block b: a leaf with the new mainnet exit root.
DepositUpdatingGER(b) ==
  /\ deposits[mainnetNetworkID] < MaxDeposits /\ Len(leaves) < MaxLeaves
  /\ deposits' = [deposits EXCEPT ![mainnetNetworkID] = @ + 1]
  /\ leaves' = Append(leaves, [block |-> b, mer |-> CurrentMER + 1, rer |-> CurrentRER])
  /\ UNCHANGED <<synced, lastReorg, verified, injected, halted>>
  /\ response' = NoResponse

\* The rollup manager verifies the L2's batches, in L1 block b, up to a
\* LER no older than the last verified one; the new rollup exit root adds
\* a leaf.
VerifyBatches(b, ler) ==
  /\ Len(leaves) < MaxLeaves
  /\ CurrentRER <= ler /\ ler < deposits[L2NetworkID]
  /\ verified' = Append(verified, [block |-> b, ler |-> ler])
  /\ leaves' = Append(leaves, [block |-> b, mer |-> CurrentMER, rer |-> ler])
  /\ UNCHANGED <<deposits, synced, lastReorg, injected, halted>>
  /\ response' = NoResponse

\* Network n's bridge syncer stores the next bridge.
SyncBridge(n) ==
  /\ synced[n] < deposits[n]
  /\ synced' = [synced EXCEPT ![n] = @ + 1]
  /\ UNCHANGED <<deposits, lastReorg, leaves, verified, injected, halted>>
  /\ response' = NoResponse

\* Faulty variant: a reorg with no block stored.
ReorgBridgeUnguarded(n) ==
  /\ lastReorg[n] < MaxReorgs
  /\ synced' = [synced EXCEPT ![n] = @ - 1]
  /\ lastReorg' = [lastReorg EXCEPT ![n] = @ + 1]
  /\ UNCHANGED <<deposits, leaves, verified, injected, halted>>
  /\ response' = NoResponse

\* Network n's bridge syncer undoes its last block on a reorg and records
\* the event; the bridge comes back when it syncs again.
ReorgBridge(n) ==
  /\ synced[n] > 0 /\ lastReorg[n] < MaxReorgs
  /\ synced' = [synced EXCEPT ![n] = @ - 1]
  /\ lastReorg' = [lastReorg EXCEPT ![n] = @ + 1]
  /\ UNCHANGED <<deposits, leaves, verified, injected, halted>>
  /\ response' = NoResponse

\* The aggoracle injects the GER of a leaf newer than those injected.
InjectGER(i) ==
  /\ i < Len(leaves) /\ \A g \in injected : g < i
  /\ injected' = injected \cup {i}
  /\ UNCHANGED <<deposits, synced, lastReorg, leaves, verified, halted>>
  /\ response' = NoResponse

\* The processor finds an UpdateL1InfoTreeV2 root it cannot reproduce.
Halt ==
  /\ ~halted
  /\ halted' = TRUE
  /\ UNCHANGED <<deposits, synced, lastReorg, leaves, verified, injected>>
  /\ response' = NoResponse

Init ==
  /\ deposits = [n \in Bridges |-> 0]
  /\ synced = [n \in Bridges |-> 0]
  /\ lastReorg = [n \in Bridges |-> 0]
  /\ leaves = <<>>
  /\ verified = <<>>
  /\ injected = {}
  /\ halted = FALSE
  /\ response = NoResponse

Environment ==
  \/ \E n \in Bridges : Deposit(n)
  \/ \E b \in NewLeafBlocks : DepositUpdatingGER(b)
  \/ \E b \in NewLeafBlocks, ler \in ExitIndex : VerifyBatches(b, ler)
  \/ \E n \in Bridges : SyncBridge(n) \/ ReorgBridge(n)
  \/ \E i \in 0..MaxLeaves - 1 : InjectGER(i)
  \/ Halt

\* Handlers only read the stores, so requests served concurrently each
\* answer as if served alone; the model serves one request at a time from
\* an idle service and Deliver hands the response over.  The states
\* reached are the same as with any number of requests in between.
Handlers ==
  /\ response = NoResponse
  /\ \/ \E n \in Networks, ok, dbFail \in BOOLEAN :
          \/ GetBridgesHandler(n, ok, dbFail)
          \/ GetClaimsHandler(n, ok, dbFail)
          \/ GetTokenMappingsHandler(n, ok, dbFail)
          \/ GetLegacyTokenMigrationsHandler(n, ok, dbFail)
          \/ GetLastReorgEventHandler(n, ok, dbFail)
     \/ \E dbFail \in BOOLEAN : GetSyncStatusHandler(dbFail)
     \/ \E n \in Networks, ok \in BOOLEAN :
          \/ \E dc \in 0..MaxDeposits : L1InfoTreeIndexForBridgeHandler(n, ok, dc)
          \/ \E idx \in 0..MaxLeaves : InjectedL1InfoLeafHandler(n, ok, idx)
          \/ \E idx \in 0..MaxLeaves, dc \in 0..MaxDeposits :
               ClaimProofHandler(n, ok, idx, dc)

Deliver ==
  /\ response /= NoResponse
  /\ response' = NoResponse
  /\ UNCHANGED world

Next == Environment \/ Handlers \/ Deliver

Spec == Init /\ [][Next]_vars

-----------------------------------------------------------------------------
(* Properties.                                                             *)

HandlerNames == {"GetBridges", "GetClaims", "GetTokenMappings", "GetLegacyTokenMigrations",
              "L1InfoTreeIndex", "InjectedL1InfoLeaf", "ClaimProof", "LastReorgEvent",
              "SyncStatus"}

\* The handlers that read the L1 info tree.
InfoHandlers == {"L1InfoTreeIndex", "InjectedL1InfoLeaf", "ClaimProof"}

TypeOK ==
  /\ deposits \in [Bridges -> 0..MaxDeposits]
  /\ synced \in [Bridges -> 0..MaxDeposits]
  /\ \A n \in Bridges : synced[n] <= deposits[n]
  /\ lastReorg \in [Bridges -> 0..MaxReorgs]
  /\ leaves \in Seq([block : 1..MaxL1Block, mer : ExitIndex, rer : ExitIndex])
  /\ verified \in Seq([block : 1..MaxL1Block, ler : ExitIndex])
  /\ injected \subseteq 0..MaxLeaves - 1
  /\ halted \in BOOLEAN
  /\ response.h \in HandlerNames \cup {"none"}
  /\ response.code \in {0, 200, 400, 500}

\* Leaf covers deposit dc of network n: the exit root it holds for n
\* (the mainnet exit root, or the L2's LER inside the rollup exit root)
\* contains the deposit.
Covers(n, leaf, dc) ==
  IF n = mainnetNetworkID THEN leaf.mer >= dc ELSE leaf.rer >= dc

\* L1InfoTreeIndexForBridgeHandler, both searches: a 200 names a leaf of
\* the tree that covers the deposit, so a claim built on it verifies; and
\* ErrNotOnL1Info is answered only when no leaf covers it.
IndexForBridgeSound ==
  response.h = "L1InfoTreeIndex" =>
    /\ response.code = 200 =>
         /\ response.body.index + 1 \in DOMAIN leaves
         /\ Covers(response.net, leaves[response.body.index + 1], response.body.dc)
    /\ response.err = "ErrNotOnL1Info" =>
         \A i \in DOMAIN leaves : ~Covers(response.net, leaves[i], response.body.dc)

\* spec.md section 6 (claim-proof): the service answers with the smallest
\* L1 info leaf whose exit root covers the deposit, and ErrNotOnL1Info
\* only when none does.  Checked for a service whose stores are healthy:
\* not halted, every bridge stored.
AnswersFirstCoveringLeaf ==
  LET covering == {i \in DOMAIN leaves : Covers(response.net, leaves[i], response.body.dc)}
  IN (/\ response.h = "L1InfoTreeIndex" /\ response.code /= 400
      /\ ~halted /\ synced = deposits /\ covering /= {})
       => /\ response.code = 200
          /\ \A i \in covering : response.body.index + 1 <= i

\* ClaimProofHandler: a 200 carries the leaf asked for, a local exit proof
\* built against the exit root that leaf holds for the network (its
\* mainnet exit root, or the LER inside its rollup exit root), and the
\* rollup exit proof of that leaf's rollup exit root (empty for L1).
\* The three pieces fit together only then.
ClaimProofMatchesLeaf ==
  (response.h = "ClaimProof" /\ response.code = 200) =>
    LET leaf == leaves[response.body.leaf + 1] IN
      IF response.net = mainnetNetworkID
      THEN response.body.local = leaf.mer /\ response.body.rollup = "EmptyProof"
      ELSE response.body.local = leaf.rer /\ response.body.rollup = leaf.rer

\* Once the L1 info tree processor has halted (isHalted), no handler that
\* reads the tree answers 200: every one of its queries fails with
\* ErrInconsistentState, whatever path the handler takes.
HaltedAnswersNothing ==
  (halted /\ response.h \in InfoHandlers) => response.code /= 200
=============================================================================
