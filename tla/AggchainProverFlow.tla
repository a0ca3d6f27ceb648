------------------------- MODULE AggchainProverFlow -------------------------
(***************************************************************************)
(* The aggsender certificate pipeline with the AggchainProverFlow of      *)
(* src/aggsender/flows/flow_aggchain_prover.go.  One aggsender loop builds *)
(* a certificate for a range of L2 blocks, obtains an aggchain proof,     *)
(* sends it to the agglayer at a height, and polls its status.  Around it: *)
(* the L2 bridge syncer's tip grows, the agglayer moves each certificate  *)
(* along Pending -> Proven -> Candidate -> Settled or to InError, the     *)
(* optimistic mode may be switched, and the aggsender database may be     *)
(* lost, after which the last certificate is recovered from the agglayer  *)
(* without its cached proof.                                               *)
(*                                                                         *)
(* The aggsender loop, the base flow, the storage and the agglayer are    *)
(* not under src/ and follow spec.md sections 4.9-4.10.  A certificate is *)
(* its range, height, status, retry count, creation stamp and type; the   *)
(* bridges, claims, hashes and signatures in it are left out.  A prover   *)
(* answer of NoProofBuiltYet or an error writes nothing and is a stutter. *)
(***************************************************************************)
EXTENDS Integers, SequencesExt

CONSTANTS
  StartL2Block,   \* baseFlow.StartL2Block(): the first L2 block proven by FEP
  MaxL2Block,     \* the L2 bridge syncer reaches at most this block
  MaxInError,     \* the agglayer rejects at most this many certificates
  MaxDBLoss,      \* the aggsender database is lost at most this often
  MaxModeChanges  \* the optimistic mode is switched at most this often

ASSUME StartL2Block \in Nat /\ MaxL2Block \in Nat /\ StartL2Block < MaxL2Block

OpenStatuses == {"Pending", "Proven", "Candidate"}
Statuses == OpenStatuses \cup {"Settled", "InError"}

\* A certificate header, and the header of no certificate.
CertHeader == [height : 0..MaxL2Block, fromBlock : 0..MaxL2Block,
               toBlock : 0..MaxL2Block, status : Statuses,
               retryCount : 0..MaxInError, createdAt : Nat,
               certType : {"FEP", "Optimistic"}]
NoCert == [height |-> 0, fromBlock |-> 0, toBlock |-> 0, status |-> "None",
           retryCount |-> 0, createdAt |-> 0, certType |-> "FEP"]

VARIABLES
  l2Tip,        \* last L2 block processed by the L2 bridge syncer
  optimistic,   \* what optimisticModeQuerier.IsOptimisticModeOn answers
  certs,        \* the agglayer: certs[h + 1] is the certificate at height h
  stored,       \* storage: certificate_info, the header saved at each height
  proofCached,  \* storage: the aggchain proof of lastSent is stored
  nextCreated,  \* the creation stamp the next new certificate gets
  inErrors, dbLosses, modeChanges \* how often the environment did each

envVars == <<l2Tip, optimistic, inErrors, dbLosses, modeChanges>>
vars == <<l2Tip, optimistic, certs, stored, proofCached, nextCreated,
          inErrors, dbLosses, modeChanges>>

-----------------------------------------------------------------------------
(* The aggsender storage (spec.md 4.10): one header per height.          *)

NoStored == [h \in {} |-> NoCert]

\* GetLastSentCertificate: the header at the highest height, or none.
lastSent == IF DOMAIN stored = {} THEN NoCert ELSE stored[Max(DOMAIN stored)]

\* Faulty variant: a header is only inserted, never replaced.
SaveCertificateHeaderInsertOnly(c) == stored' = stored @@ (c.height :> c)

\* SaveCertificateHeader: the row at the certificate's height is replaced.
SaveCertificateHeader(c) == stored' = (c.height :> c) @@ stored

-----------------------------------------------------------------------------
(* The aggsender RPC (src/aggsender/rpc/aggsender_rpc.go), which reads the *)
(* storage while the loop writes it.  A nil height is NilHeight.           *)

NilHeight == -1

\* GetCertificateHeaderPerHeight: a nil height reads the last sent
\* certificate, any other the header stored at that height; no header is
\* "certificate not found".  A storage error answers an error the same
\* way; the storage of spec.md 4.10 never returns one.
GetCertificateHeaderPerHeight(height) ==
  LET cert == CASE height = NilHeight -> lastSent
                [] height \in DOMAIN stored -> stored[height]
                [] OTHER -> NoCert
  IN IF cert = NoCert THEN [err |-> "certificate not found", cert |-> NoCert]
     ELSE [err |-> "nil", cert |-> cert]

-----------------------------------------------------------------------------
(* The flow (src/aggsender/flows/flow_aggchain_prover.go).                *)

\* getCertificateTypeToGenerate.
getCertificateTypeToGenerate == IF optimistic THEN "Optimistic" ELSE "FEP"

\* Faulty variant: the block before fromBlock is not subtracted.
getLastProvenBlockOffByOne(fromBlock, lastCertificate) ==
  CASE fromBlock = 0 -> StartL2Block
    [] lastCertificate /= NoCert /\ lastCertificate.toBlock < StartL2Block -> StartL2Block
    [] fromBlock - 1 < StartL2Block -> StartL2Block
    [] OTHER -> fromBlock

\* getLastProvenBlock.
getLastProvenBlock(fromBlock, lastCertificate) ==
  CASE fromBlock = 0 -> StartL2Block
    [] lastCertificate /= NoCert /\ lastCertificate.toBlock < StartL2Block -> StartL2Block
    [] fromBlock - 1 < StartL2Block -> StartL2Block
    [] OTHER -> fromBlock - 1

\* The InError certificate is re-sent as it is when the mode still matches.
IsRetry ==
  /\ lastSent /= NoCert /\ lastSent.status = "InError"
  /\ lastSent.certType = getCertificateTypeToGenerate

\* baseFlow.GetCertificateBuildParamsInternal (spec.md 4.9 steps 1-2 and
\* the status machine: an InError range is sent again, retryCount + 1;
\* otherwise the range follows the last one, up to the syncer's tip).
BaseFromBlock ==
  CASE lastSent = NoCert -> 0
    [] lastSent.status = "InError" -> lastSent.fromBlock
    [] OTHER -> lastSent.toBlock + 1
BaseRetryCount ==
  IF lastSent /= NoCert /\ lastSent.status = "InError"
  THEN lastSent.retryCount + 1 ELSE 0

\* Faulty variant: the prover's end block is ignored.
adjustBlockRangeKeep(fromBlock, requestedToBlock, aggchainProverToBlock) ==
  [fromBlock |-> fromBlock, toBlock |-> requestedToBlock]

\* adjustBlockRange: the range is cut at the block the prover reached.
adjustBlockRange(fromBlock, requestedToBlock, aggchainProverToBlock) ==
  IF requestedToBlock /= aggchainProverToBlock
  THEN [fromBlock |-> fromBlock, toBlock |-> aggchainProverToBlock]
  ELSE [fromBlock |-> fromBlock, toBlock |-> requestedToBlock]

\* GenerateAggchainProof: the end blocks the prover may answer with, when it
\* proves from lastProvenBlock + 1 up to at most the requested end block.
\* Faulty variant: the requested end block taken as exclusive.
ProverEndBlocksPastEnd(lastProvenBlock, toBlock) == lastProvenBlock + 1..toBlock + 1

ProverEndBlocks(lastProvenBlock, toBlock) == lastProvenBlock + 1..toBlock

\* Faulty variant: errNoNewBlocks also when only one block is new.
HasNewBlocksStrict(fromBlock, tip) == fromBlock < tip

\* The base flow's errNoNewBlocks check.
HasNewBlocks(fromBlock, tip) == fromBlock <= tip

\* Faulty variant: a rejected height is not reused.
NextHeightAlwaysNew ==
  IF lastSent = NoCert THEN 0 ELSE lastSent.height + 1

\* The height the certificate is sent at: an InError height is reused.
NextHeight ==
  CASE lastSent = NoCert -> 0
    [] lastSent.status = "InError" -> lastSent.height
    [] OTHER -> lastSent.height + 1

\* BuildCertificate, signCertificate and the send: the agglayer takes the
\* certificate at its height as Pending and the storage saves its header
\* with the proof.
Submit(c) ==
  /\ certs' = IF c.height = Len(certs) THEN Append(certs, c)
              ELSE [certs EXCEPT ![c.height + 1] = c]
  /\ SaveCertificateHeader(c)
  /\ proofCached' = TRUE

\* GetCertificateBuildParams, first branch, with the cached proof: the same
\* range, retryCount + 1, the same createdAt; no call to the prover.
ResendWithCachedProof ==
  /\ IsRetry /\ proofCached
  /\ Submit([lastSent EXCEPT !.status = "Pending",
                              !.retryCount = lastSent.retryCount + 1])
  /\ UNCHANGED <<envVars, nextCreated>>

\* Faulty variant: the proof-less resend stamps a new createdAt.
ResendWithNewProofRestamped ==
  /\ IsRetry /\ ~proofCached
  /\ LET lastProvenBlock == getLastProvenBlock(lastSent.fromBlock, lastSent) IN
     \E endBlock \in ProverEndBlocks(lastProvenBlock, lastSent.toBlock) :
       LET r == adjustBlockRange(lastSent.fromBlock, lastSent.toBlock, endBlock) IN
       Submit([lastSent EXCEPT !.status = "Pending", !.toBlock = r.toBlock,
                               !.retryCount = lastSent.retryCount + 1,
                               !.createdAt = nextCreated])
  /\ UNCHANGED <<envVars, nextCreated>>

\* First branch without the proof (the database was lost):
\* verifyBuildParamsAndGenerateProof asks the prover again, and the range
\* is adjusted to the end block it answers with.
ResendWithNewProof ==
  /\ IsRetry /\ ~proofCached
  /\ LET lastProvenBlock == getLastProvenBlock(lastSent.fromBlock, lastSent) IN
     \E endBlock \in ProverEndBlocks(lastProvenBlock, lastSent.toBlock) :
       LET r == adjustBlockRange(lastSent.fromBlock, lastSent.toBlock, endBlock) IN
       Submit([lastSent EXCEPT !.status = "Pending", !.toBlock = r.toBlock,
                               !.retryCount = lastSent.retryCount + 1])
  /\ UNCHANGED <<envVars, nextCreated>>

\* Faulty variant: the base flow's fromBlock is kept, not moved to
\* lastProvenBlock + 1.
SendNewCertificateUncorrected ==
  /\ ~IsRetry
  /\ lastSent = NoCert \/ lastSent.status \in {"Settled", "InError"}
  /\ HasNewBlocks(BaseFromBlock, l2Tip)
  /\ LET fromBlock == BaseFromBlock
         lastProvenBlock == getLastProvenBlock(fromBlock, lastSent)
     IN \E endBlock \in ProverEndBlocks(lastProvenBlock, l2Tip) :
          LET r == adjustBlockRange(fromBlock, l2Tip, endBlock) IN
          Submit([height |-> NextHeight, fromBlock |-> r.fromBlock,
                  toBlock |-> r.toBlock, status |-> "Pending",
                  retryCount |-> BaseRetryCount, createdAt |-> nextCreated,
                  certType |-> getCertificateTypeToGenerate])
  /\ nextCreated' = nextCreated + 1
  /\ UNCHANGED envVars

\* Second branch: a new certificate from the base flow's range (nothing to
\* do when it is empty: errNoNewBlocks), fromBlock moved to
\* lastProvenBlock + 1, then the prover.
SendNewCertificate ==
  /\ ~IsRetry
  /\ lastSent = NoCert \/ lastSent.status \in {"Settled", "InError"}
  /\ HasNewBlocks(BaseFromBlock, l2Tip)
  /\ LET fromBlock == getLastProvenBlock(BaseFromBlock, lastSent) + 1
         lastProvenBlock == getLastProvenBlock(fromBlock, lastSent)
     IN \E endBlock \in ProverEndBlocks(lastProvenBlock, l2Tip) :
          LET r == adjustBlockRange(fromBlock, l2Tip, endBlock) IN
          Submit([height |-> NextHeight, fromBlock |-> r.fromBlock,
                  toBlock |-> r.toBlock, status |-> "Pending",
                  retryCount |-> BaseRetryCount, createdAt |-> nextCreated,
                  certType |-> getCertificateTypeToGenerate])
  /\ nextCreated' = nextCreated + 1
  /\ UNCHANGED envVars

\* The loop's status check: the open last certificate takes the status the
\* agglayer reports for it.
UpdateLastSentStatus ==
  /\ lastSent.status \in OpenStatuses
  /\ certs[lastSent.height + 1].status /= lastSent.status
  /\ stored' = [stored EXCEPT ![lastSent.height].status = certs[lastSent.height + 1].status]
  /\ UNCHANGED <<envVars, certs, proofCached, nextCreated>>

-----------------------------------------------------------------------------
(* The environment.                                                        *)

SyncL2Block ==
  /\ l2Tip < MaxL2Block
  /\ l2Tip' = l2Tip + 1
  /\ UNCHANGED <<optimistic, certs, stored, proofCached, nextCreated,
                 inErrors, dbLosses, modeChanges>>

SwitchOptimisticMode ==
  /\ modeChanges < MaxModeChanges
  /\ optimistic' = ~optimistic
  /\ modeChanges' = modeChanges + 1
  /\ UNCHANGED <<l2Tip, certs, stored, proofCached, nextCreated,
                 inErrors, dbLosses>>

NextStatus == [Pending |-> "Proven", Proven |-> "Candidate", Candidate |-> "Settled"]

\* The agglayer moves the last certificate on, or rejects it.
AgglayerProgress ==
  /\ certs /= <<>> /\ Last(certs).status \in OpenStatuses
  /\ certs' = [certs EXCEPT ![Len(certs)].status = NextStatus[Last(certs).status]]
  /\ UNCHANGED <<envVars, stored, proofCached, nextCreated>>

AgglayerReject ==
  /\ certs /= <<>> /\ Last(certs).status \in OpenStatuses
  /\ inErrors < MaxInError
  /\ certs' = [certs EXCEPT ![Len(certs)].status = "InError"]
  /\ inErrors' = inErrors + 1
  /\ UNCHANGED <<l2Tip, optimistic, stored, proofCached, nextCreated,
                 dbLosses, modeChanges>>

\* The aggsender database is deleted; on restart the last certificate is
\* read back from the agglayer, without its aggchain proof.
LoseDatabase ==
  /\ dbLosses < MaxDBLoss /\ certs /= <<>>
  /\ stored' = (Last(certs).height :> Last(certs))
  /\ proofCached' = FALSE
  /\ dbLosses' = dbLosses + 1
  /\ UNCHANGED <<l2Tip, optimistic, certs, nextCreated, inErrors, modeChanges>>

-----------------------------------------------------------------------------

\* CheckInitialStatus waits for the syncer to reach the start block.
Init ==
  /\ l2Tip = StartL2Block
  /\ optimistic \in BOOLEAN
  /\ certs = <<>>
  /\ stored = NoStored
  /\ proofCached = FALSE
  /\ nextCreated = 0
  /\ inErrors = 0 /\ dbLosses = 0 /\ modeChanges = 0

Next ==
  \/ ResendWithCachedProof \/ ResendWithNewProof \/ SendNewCertificate
  \/ UpdateLastSentStatus
  \/ SyncL2Block \/ SwitchOptimisticMode \/ AgglayerProgress \/ AgglayerReject
  \/ LoseDatabase

\* The loop ticks, the syncer and the agglayer keep going; the optimistic
\* switch, rejections and database loss are not forced to happen.
Fairness ==
  /\ WF_vars(ResendWithCachedProof) /\ WF_vars(ResendWithNewProof)
  /\ WF_vars(SendNewCertificate) /\ WF_vars(UpdateLastSentStatus)
  /\ WF_vars(SyncL2Block) /\ WF_vars(AgglayerProgress)

Spec == Init /\ [][Next]_vars
FairSpec == Spec /\ Fairness

-----------------------------------------------------------------------------
(* Properties.                                                             *)

TypeOK ==
  /\ l2Tip \in StartL2Block..MaxL2Block /\ optimistic \in BOOLEAN
  /\ certs \in Seq(CertHeader)
  /\ DOMAIN stored \subseteq 0..MaxL2Block
  /\ \A h \in DOMAIN stored : stored[h] \in CertHeader /\ stored[h].height = h
  /\ proofCached \in BOOLEAN /\ nextCreated \in Nat

\* height_k = k: every certificate below the last height is settled, so at
\* most one certificate (the last) is open, and a height is only reused
\* for a rejected certificate, whatever the agglayer, the optimistic switch
\* and a lost database do between ticks.
HeightsSettledBelowLast ==
  \A i \in 1..Len(certs) : certs[i].height = i - 1
                          /\ (i < Len(certs) => certs[i].status = "Settled")

\* The certificates cover the L2 blocks after StartL2Block without gap or
\* overlap: each starts right after the one before it, is not empty, and
\* ends at or below the syncer's tip.
RangesContiguous ==
  \A i \in 1..Len(certs) :
    /\ certs[i].fromBlock = IF i = 1 THEN StartL2Block + 1
                            ELSE certs[i - 1].toBlock + 1
    /\ certs[i].fromBlock <= certs[i].toBlock /\ certs[i].toBlock <= l2Tip

\* Replacing a rejected certificate of the same type keeps its first block
\* and createdAt and adds one to retryCount (spec.md section 8), with or
\* without the cached proof.
RetryKeepsOrigin ==
  [][\A i \in 1..Len(certs) :
       (certs[i].status = "InError" /\ i <= Len(certs') /\ certs'[i] /= certs[i]
          /\ certs'[i].certType = certs[i].certType)
         => /\ certs'[i].fromBlock = certs[i].fromBlock
            /\ certs'[i].createdAt = certs[i].createdAt
            /\ certs'[i].retryCount = certs[i].retryCount + 1]_certs

\* spec.md section 8: retrying an InError certificate produces an identical
\* range.
RetryResendsSameRange ==
  [][\A i \in 1..Len(certs) :
       (certs[i].status = "InError" /\ i <= Len(certs') /\ certs'[i] /= certs[i]
          /\ certs'[i].certType = certs[i].certType)
         => certs'[i].toBlock = certs[i].toBlock]_certs

\* The lifecycle order of statuses: the agglayer only moves a certificate
\* forwards, and Settled and InError are final.
StatusRank == [Pending |-> 0, Proven |-> 1, Candidate |-> 2, Settled |-> 3, InError |-> 3]
StatusNotAhead(s, t) == s = t \/ (s \in OpenStatuses /\ StatusRank[s] < StatusRank[t])

\* Whatever aggsender_getCertificateHeaderPerHeight answers, for the last
\* sent certificate or for any height, is the certificate the agglayer
\* holds at that height: the same range, type, creation stamp and retry
\* count, and a status the agglayer has already given it (the loop's next
\* status check copies it, so the storage may lag but never lead), through
\* resends at a rejected height and recoveries after a lost database.
RPCHeaderMatchesAgglayer ==
  \A height \in {NilHeight} \cup 0..MaxL2Block :
    LET a == GetCertificateHeaderPerHeight(height) IN
      a.err = "nil" =>
        /\ a.cert.height + 1 \in DOMAIN certs
        /\ LET c == certs[a.cert.height + 1] IN
             /\ [a.cert EXCEPT !.status = c.status] = c
             /\ StatusNotAhead(a.cert.status, c.status)

\* The refinement mapping onto CertificateLedger: the settled blocks end
\* at the last block of the highest settled certificate, and the open
\* range is the last certificate's while the agglayer has it open.
LedgerSettledTo ==
  LET settled == {i \in 1..Len(certs) : certs[i].status = "Settled"}
  IN  IF settled = {} THEN StartL2Block ELSE certs[Max(settled)].toBlock

LedgerOpen ==
  IF certs /= <<>> /\ Last(certs).status \in OpenStatuses
  THEN [fromBlock |-> Last(certs).fromBlock, toBlock |-> Last(certs).toBlock]
  ELSE [fromBlock |-> 0, toBlock |-> 0]

LEDGER == INSTANCE CertificateLedger
            WITH tip <- l2Tip, settledTo <- LedgerSettledTo, open <- LedgerOpen

\* The flow implements the ledger: every certificate the aggsender sends,
\* resends or recovers after a lost database is, at the agglayer, a
\* proposal of the range right after the settled blocks made while no
\* other certificate is open, and the flow's ticks keep proposing until
\* the syncer's blocks are settled.
LedgerSpec == LEDGER!Spec

\* Every L2 block the syncer reaches is eventually in a settled certificate.
AllBlocksEventuallySettled ==
  <>[](certs /= <<>> /\ Last(certs).status = "Settled"
       /\ Last(certs).toBlock = MaxL2Block)
=============================================================================
