--------------------------- MODULE EVMDownloader ---------------------------
(***************************************************************************)
(* The EVM downloader of src/sync/evmdownloader.go: the Download loop that *)
(* walks an EVM chain in chunks, asks the node for logs, checks every log  *)
(* block's hash against a freshly fetched header (retrying the whole range *)
(* on a mismatch), and sends blocks, and empty "checkpoint" blocks, on     *)
(* downloadedCh.  The node is the environment: it mines blocks, moves its  *)
(* finalized head and reorganises the blocks above it, between any two     *)
(* RPC calls of the downloader.                                            *)
(*                                                                         *)
(* Data abstraction: a block is its number and the fork it was mined on;   *)
(* its hash is the pair <<number, fork>>.  A block either carries a log of *)
(* a watched topic or not (one log per block is enough to tell delivered   *)
(* from skipped).  Every RPC is one step.  A transient RPC or appender    *)
(* error is a step of its own: the loop around the call counts it in      *)
(* attempts and hands it to RetryHandler.Handle, which exits fatally at   *)
(* MaxRetryAttemptsAfterError.                                             *)
(***************************************************************************)
EXTENDS Integers, SequencesExt

CONSTANTS
  MaxHeight,                      \* the node mines at most this many blocks
  MaxReorgs,                      \* the node reorganises at most this often
  SyncBlockChunkSize,             \* syncBlockChunkSize
  MaxRetryCountBlockHashMismatch, \* the constant of line 20 (5 in the code)
  BlockFinality,                  \* blockFinalityType given to NewEVMDownloader
  FinalizedBlockTypeCfg,          \* finalizedBlockType given to NewEVMDownloader
  InitialFromBlock,               \* the fromBlock Download is started with
  MaxRetryAttemptsAfterError,     \* RetryHandler's cap
  MaxErrStreak,                   \* errors in a row the node and appenders produce
  MaxFinalizedErrs                \* GetLastFinalizedBlock errors in a row

Finalities == {"LatestBlock", "SafeBlock", "FinalizedBlock"}

ASSUME /\ MaxHeight \in Nat \ {0}
       /\ MaxReorgs \in Nat
       /\ SyncBlockChunkSize \in Nat
       /\ MaxRetryCountBlockHashMismatch \in Nat
       /\ BlockFinality \in Finalities /\ FinalizedBlockTypeCfg \in Finalities
       /\ InitialFromBlock \in 1..MaxHeight
       /\ MaxRetryAttemptsAfterError \in Nat /\ MaxErrStreak \in Nat
       /\ MaxFinalizedErrs \in Nat

VARIABLES
  height,         \* number of the node's latest block
  final,          \* number of the node's finalized block; never reorganised
  chain,          \* chain[n] = [fork, log] of the node's canonical block n
  reorgs,         \* reorganisations so far; also the id of the newest fork
  pc,             \* where the Download goroutine is in its loop
  fromBlock, toBlock, lastBlock, reachTop,   \* the locals of Download
  lastFinalized,  \* lastFinalizedBlockNumber of the current iteration
  requestToBlock, \* upper end of the range queried in this iteration
  logs,           \* logs returned by GetLogs and not yet checked
  blocks,         \* EVMBlocks built so far by getEventsByBlockRangeWithRetry
  retryCount,     \* retryCount of getEventsByBlockRangeWithRetry
  emptyBlockNum,  \* block that reportEmptyBlock is about to send
  attempts,       \* attempts of the retry loop in progress
  errStreak,      \* errors in a row of the call in progress (history)
  finalizedErrs,  \* GetLastFinalizedBlock errors in a row (history)
  emitted         \* every EVMBlock sent on downloadedCh, in order

nodeVars == <<height, final, chain, reorgs>>
dlVars == <<pc, fromBlock, toBlock, lastBlock, reachTop, lastFinalized,
            requestToBlock, logs, blocks, retryCount, emptyBlockNum>>
retryVars == <<attempts, errStreak, finalizedErrs>>
vars == <<nodeVars, dlVars, retryVars, emitted>>

Unmined == [fork |-> 0, log |-> FALSE]
Hash(n) == <<n, chain[n].fork>>
MinOf(a, b) == IF a < b THEN a ELSE b

-----------------------------------------------------------------------------
(* Finality tags.                                                          *)

\* BlockNumberFinality.ToBlockNum: the rpc block numbers of the tags.
ToBlockNum(t) == CASE t = "SafeBlock" -> -4
                   [] t = "FinalizedBlock" -> -3
                   [] t = "LatestBlock" -> -2

\* NewEVMDownloader: a finalized type "greater" than the block finality is
\* replaced by the block finality.
FinalizedBlockType ==
  IF ToBlockNum(FinalizedBlockTypeCfg) > ToBlockNum(BlockFinality)
  THEN BlockFinality ELSE FinalizedBlockTypeCfg

\* BlockNumberFinality.IsFinalized.
IsFinalizedType(t) == t \in {"SafeBlock", "FinalizedBlock"}

\* HeaderByNumber(tag).Number on the node (the safe head is taken to be
\* the finalized one).
HeadOf(t) == IF t = "LatestBlock" THEN height ELSE final

-----------------------------------------------------------------------------
(* The node.                                                               *)

NodeInit ==
  /\ height = 1
  /\ final = 0
  /\ reorgs = 0
  /\ \E b \in BOOLEAN :
       chain = [n \in 1..MaxHeight |-> IF n = 1 THEN [fork |-> 0, log |-> b]
                                              ELSE Unmined]

Mine ==
  /\ height < MaxHeight
  /\ \E b \in BOOLEAN :
       chain' = [chain EXCEPT ![height + 1] = [fork |-> reorgs, log |-> b]]
  /\ height' = height + 1
  /\ UNCHANGED <<final, reorgs, dlVars, retryVars, emitted>>

Finalize ==
  /\ final < height
  /\ final' = final + 1
  /\ UNCHANGED <<height, chain, reorgs, dlVars, retryVars, emitted>>

\* Blocks r..height are replaced by a new fork that is h blocks high.
Reorg ==
  /\ reorgs < MaxReorgs
  /\ \E r \in final + 1..height, h \in final..height :
       /\ h >= r - 1 /\ h >= 1
       /\ \E ls \in [r..h -> BOOLEAN] :
            chain' = [n \in 1..MaxHeight |->
                        IF n \in r..h THEN [fork |-> reorgs + 1, log |-> ls[n]]
                        ELSE IF n > h THEN Unmined ELSE chain[n]]
       /\ height' = h
  /\ reorgs' = reorgs + 1
  /\ UNCHANGED <<final, dlVars, retryVars, emitted>>

-----------------------------------------------------------------------------
(* The downloader.                                                         *)

DlInit ==
  /\ pc = "start"
  /\ fromBlock = InitialFromBlock
  /\ toBlock = 0
  /\ lastBlock = 0
  /\ reachTop = FALSE
  /\ lastFinalized = 0
  /\ requestToBlock = 0
  /\ logs = <<>>
  /\ blocks = <<>>
  /\ retryCount = 0
  /\ emptyBlockNum = 0
  /\ attempts = 0
  /\ errStreak = 0
  /\ finalizedErrs = 0
  /\ emitted = <<>>

\* The uint64 test fromBlock-toBlock < syncBlockChunkSize of line 149: when
\* fromBlock < toBlock the difference wraps to 2^64-(toBlock-fromBlock),
\* which is above any chunk size of the model.
WrappedDiffBelow(a, b, s) == a >= b /\ a - b < s

\* RetryHandler.Handle(funcName, attempts): log.Fatalf once attempts reach
\* the cap, otherwise sleep and let the caller retry.
HandleIsFatal(n) == n >= MaxRetryAttemptsAfterError

\* A call inside a retry loop completes: the loop's attempts are a local
\* of the call, so the next call starts from zero.
CallDone == attempts' = 0 /\ errStreak' = 0 /\ UNCHANGED finalizedErrs

\* A retry loop's call fails and its attempts become n; Handle(n) exits or
\* the loop calls again.
RetryError(n) ==
  /\ errStreak < MaxErrStreak
  /\ attempts' = n
  /\ errStreak' = errStreak + 1
  /\ pc' = IF HandleIsFatal(n) THEN "fatal" ELSE pc
  /\ UNCHANGED <<nodeVars, finalizedErrs, fromBlock, toBlock, lastBlock, reachTop,
                 lastFinalized, requestToBlock, logs, blocks, retryCount,
                 emptyBlockNum, emitted>>

\* Line 127: the first WaitForNewBlocks(ctx, 0), then toBlock.
Start ==
  /\ pc = "start"
  /\ HeadOf(BlockFinality) > 0
  /\ lastBlock' = HeadOf(BlockFinality)
  /\ toBlock' = fromBlock + SyncBlockChunkSize
  /\ pc' = "loop"
  /\ CallDone
  /\ UNCHANGED <<nodeVars, fromBlock, reachTop, lastFinalized, requestToBlock,
                 logs, blocks, retryCount, emptyBlockNum, emitted>>

MustWait == fromBlock > lastBlock \/ (reachTop /\ toBlock >= lastBlock)

\* Lines 141-153 when the range is at or past the last block seen:
\* WaitForNewBlocks returns once the node's head passes lastBlock.
WaitForNewBlocks ==
  /\ pc = "loop"
  /\ MustWait
  /\ HeadOf(BlockFinality) > lastBlock
  /\ lastBlock' = HeadOf(BlockFinality)
  /\ toBlock' = IF WrappedDiffBelow(fromBlock, toBlock, SyncBlockChunkSize)
                THEN fromBlock + SyncBlockChunkSize ELSE toBlock
  /\ reachTop' = FALSE
  /\ pc' = "finalized"
  /\ CallDone
  /\ UNCHANGED <<nodeVars, fromBlock, lastFinalized, requestToBlock, logs,
                 blocks, retryCount, emptyBlockNum, emitted>>

Waiting == pc = "start" \/ (pc = "loop" /\ MustWait)

\* WaitForNewBlocks, lines 305-314: HeaderByNumber fails; attempts grows.
WaitPollFails ==
  /\ Waiting
  /\ RetryError(attempts + 1)

\* Lines 316-318: the poll answers with no new block; the loop goes on
\* and attempts keeps its count.
WaitPollNoNewBlock ==
  /\ Waiting
  /\ HeadOf(BlockFinality) <= IF pc = "start" THEN 0 ELSE lastBlock
  /\ errStreak > 0
  /\ errStreak' = 0
  /\ UNCHANGED <<nodeVars, dlVars, attempts, finalizedErrs, emitted>>

NoWait ==
  /\ pc = "loop"
  /\ ~MustWait
  /\ reachTop' = FALSE
  /\ pc' = "finalized"
  /\ UNCHANGED <<nodeVars, retryVars, fromBlock, toBlock, lastBlock, lastFinalized,
                 requestToBlock, logs, blocks, retryCount, emptyBlockNum,
                 emitted>>

\* Faulty variant: the range is not cut at the last block seen.
RequestToUnclamped(to, last) == to

\* Lines 162-166: the range is cut at the last block seen.
RequestTo(to, last) == IF to >= last THEN last ELSE to

\* Lines 154-166: GetLastFinalizedBlock, then the range to query.
FetchFinalized ==
  /\ pc = "finalized"
  /\ lastFinalized' = MinOf(lastBlock, HeadOf(FinalizedBlockType))
  /\ requestToBlock' = RequestTo(toBlock, lastBlock)
  /\ reachTop' = (toBlock >= lastBlock)
  /\ retryCount' = 0
  /\ pc' = "logs"
  /\ finalizedErrs' = 0
  /\ UNCHANGED <<nodeVars, attempts, errStreak, fromBlock, toBlock, lastBlock, logs, blocks,
                 emptyBlockNum, emitted>>

\* Lines 155-158: GetLastFinalizedBlock fails and the loop continues at
\* once: no RetryHandler, no cap and no sleep.
FetchFinalizedFails ==
  /\ pc = "finalized"
  /\ finalizedErrs < MaxFinalizedErrs
  /\ finalizedErrs' = finalizedErrs + 1
  /\ pc' = "loop"
  /\ UNCHANGED <<nodeVars, attempts, errStreak, fromBlock, toBlock, lastBlock, reachTop,
                 lastFinalized, requestToBlock, logs, blocks, retryCount,
                 emptyBlockNum, emitted>>

\* GetLogs: the non-removed logs of watched topics in [a, b] on the node's
\* canonical chain, ordered by block, each with the hash of its block.
LogsInRange(a, b) ==
  SetToSortSeq({[num |-> n, hash |-> Hash(n)] :
                  n \in {k \in a..MinOf(b, height) : chain[k].log}},
               LAMBDA x, y : x.num < y.num)

\* Lines 331-337 (and the recursive retry of line 360): query the logs.
GetLogs ==
  /\ pc = "logs"
  /\ logs' = LogsInRange(fromBlock, requestToBlock)
  /\ blocks' = <<>>
  /\ pc' = "headers"
  /\ CallDone
  /\ UNCHANGED <<nodeVars, fromBlock, toBlock, lastBlock, reachTop,
                 lastFinalized, requestToBlock, retryCount, emptyBlockNum,
                 emitted>>

\* Faulty variant: GetLogs declares attempts inside its loop.
GetLogsFailsAttemptsReset ==
  /\ pc = "logs"
  /\ RetryError(1)

\* GetLogs, lines 410-424: FilterLogs fails (not by cancellation).
GetLogsFails ==
  /\ pc = "logs"
  /\ RetryError(attempts + 1)

\* Lines 338-372 for the next log: GetBlockHeader waits while the block is
\* not found (lines 451-460), then the header hash is compared and the
\* block is added.
HeaderMatches ==
  /\ pc = "headers"
  /\ logs /= <<>>
  /\ Head(logs).num <= height
  /\ Hash(Head(logs).num) = Head(logs).hash
  /\ blocks' = Append(blocks, Head(logs))
  /\ pc' = "append"
  /\ CallDone
  /\ UNCHANGED <<nodeVars, fromBlock, toBlock, lastBlock, reachTop,
                 lastFinalized, requestToBlock, logs, retryCount,
                 emptyBlockNum, emitted>>

\* GetBlockHeader, lines 444-466, for a log or for reportEmptyBlock:
\* HeaderByNumber fails with an error other than NotFound.
GetBlockHeaderFails ==
  /\ (pc = "headers" /\ logs /= <<>>) \/ pc = "empty"
  /\ RetryError(attempts + 1)

\* Lines 373-384: the topic's appender adds the log to the block.
AppendLog ==
  /\ pc = "append"
  /\ logs' = Tail(logs)
  /\ pc' = "headers"
  /\ CallDone
  /\ UNCHANGED <<nodeVars, fromBlock, toBlock, lastBlock, reachTop,
                 lastFinalized, requestToBlock, blocks, retryCount,
                 emptyBlockNum, emitted>>

\* Lines 375-383: the appender fails; attempts is declared inside the
\* loop, so Handle always sees 1.
AppendLogFails ==
  /\ pc = "append"
  /\ RetryError(1)

\* Lines 345-360: a mismatch below the cap re-runs the whole range.
HeaderMismatchRetry ==
  /\ pc = "headers"
  /\ logs /= <<>>
  /\ Head(logs).num <= height
  /\ Hash(Head(logs).num) /= Head(logs).hash
  /\ retryCount < MaxRetryCountBlockHashMismatch
  /\ retryCount' = retryCount + 1
  /\ pc' = "logs"
  /\ CallDone
  /\ UNCHANGED <<nodeVars, fromBlock, toBlock, lastBlock, reachTop,
                 lastFinalized, requestToBlock, logs, blocks, emptyBlockNum,
                 emitted>>

\* Faulty variant: at the cap the loop goes on instead of returning.
HeaderMismatchGiveUpKeepsLogs ==
  /\ pc = "headers"
  /\ logs /= <<>>
  /\ Head(logs).num <= height
  /\ Hash(Head(logs).num) /= Head(logs).hash
  /\ retryCount >= MaxRetryCountBlockHashMismatch
  /\ CallDone
  /\ UNCHANGED <<nodeVars, dlVars, emitted>>

\* Lines 351-358: at the cap GetEventsByBlockRange returns nil.
HeaderMismatchGiveUp ==
  /\ pc = "headers"
  /\ logs /= <<>>
  /\ Head(logs).num <= height
  /\ Hash(Head(logs).num) /= Head(logs).hash
  /\ retryCount >= MaxRetryCountBlockHashMismatch
  /\ logs' = <<>>
  /\ blocks' = <<>>
  /\ CallDone
  /\ UNCHANGED <<nodeVars, pc, fromBlock, toBlock, lastBlock, reachTop,
                 lastFinalized, requestToBlock, retryCount, emptyBlockNum,
                 emitted>>

\* Faulty variant: the flag ignores the block's number.
IsBlockFinalizedByType(num, lf) == IsFinalizedType(FinalizedBlockType)

\* Lines 211 and 226: the IsFinalizedBlock flag of a block sent.
IsBlockFinalized(num, lf) == IsFinalizedType(FinalizedBlockType) /\ num <= lf

\* reportBlocks (lines 208-214).
Reported(bs, lf) ==
  [i \in DOMAIN bs |-> [num |-> bs[i].num, hash |-> bs[i].hash,
                        events |-> TRUE,
                        finalized |-> IsBlockFinalized(bs[i].num, lf)]]

\* Faulty variant: one unfinalized block counts as safe.
InSafeZoneOffByOne(reqTo, lf) == reqTo <= lf + 1

\* Lines 172, 182: the queried range lies below the finalized block.
InSafeZone(reqTo, lf) == reqTo <= lf

\* Faulty variant: the next range starts at the block just sent.
NextFromSame(n) == n

\* Lines 179-180, 188-189, 196-197: the next range after block n.
NextFrom(n) == n + 1

RangeDone == pc = "headers" /\ logs = <<>>

\* Lines 172-180: safe zone; a checkpoint is owed unless the last block
\* with events is requestToBlock itself.
ReportSafe ==
  /\ RangeDone
  /\ InSafeZone(requestToBlock, lastFinalized)
  /\ emitted' = emitted \o Reported(blocks, lastFinalized)
  /\ IF blocks = <<>> \/ Last(blocks).num < requestToBlock
       THEN pc' = "empty" /\ emptyBlockNum' = requestToBlock
       ELSE pc' = "loop" /\ UNCHANGED emptyBlockNum
  /\ fromBlock' = NextFrom(requestToBlock)
  /\ toBlock' = NextFrom(requestToBlock) + SyncBlockChunkSize
  /\ UNCHANGED <<nodeVars, retryVars, lastBlock, reachTop, lastFinalized, requestToBlock,
                 logs, blocks, retryCount>>

\* Lines 184-189: unsafe zone, no events, finalized block inside the range.
ReportUnsafeCheckpoint ==
  /\ RangeDone
  /\ ~InSafeZone(requestToBlock, lastFinalized)
  /\ blocks = <<>>
  /\ lastFinalized >= fromBlock
  /\ emptyBlockNum' = lastFinalized
  /\ pc' = "empty"
  /\ fromBlock' = NextFrom(lastFinalized)
  /\ toBlock' = NextFrom(lastFinalized) + SyncBlockChunkSize
  /\ UNCHANGED <<nodeVars, retryVars, lastBlock, reachTop, lastFinalized, requestToBlock,
                 logs, blocks, retryCount, emitted>>

\* Lines 190-193: unsafe zone, no events: extend the range.
ReportUnsafeExtend ==
  /\ RangeDone
  /\ ~InSafeZone(requestToBlock, lastFinalized)
  /\ blocks = <<>>
  /\ lastFinalized < fromBlock
  /\ toBlock' = toBlock + SyncBlockChunkSize
  /\ pc' = "loop"
  /\ UNCHANGED <<nodeVars, retryVars, fromBlock, lastBlock, reachTop, lastFinalized,
                 requestToBlock, logs, blocks, retryCount, emptyBlockNum,
                 emitted>>

\* Lines 194-198: unsafe zone: send the blocks with events, resume after
\* the last of them.
ReportUnsafeBlocks ==
  /\ RangeDone
  /\ ~InSafeZone(requestToBlock, lastFinalized)
  /\ blocks /= <<>>
  /\ emitted' = emitted \o Reported(blocks, lastFinalized)
  /\ fromBlock' = NextFrom(Last(blocks).num)
  /\ toBlock' = NextFrom(Last(blocks).num) + SyncBlockChunkSize
  /\ pc' = "loop"
  /\ UNCHANGED <<nodeVars, retryVars, lastBlock, reachTop, lastFinalized, requestToBlock,
                 logs, blocks, retryCount, emptyBlockNum>>

\* reportEmptyBlock (lines 216-229): the header is fetched now, by number.
ReportEmptyBlock ==
  /\ pc = "empty"
  /\ emptyBlockNum <= height
  /\ emitted' = Append(emitted,
                  [num |-> emptyBlockNum, hash |-> Hash(emptyBlockNum),
                   events |-> FALSE,
                   finalized |-> IsBlockFinalized(emptyBlockNum, lastFinalized)])
  /\ pc' = "loop"
  /\ CallDone
  /\ UNCHANGED <<nodeVars, fromBlock, toBlock, lastBlock, reachTop,
                 lastFinalized, requestToBlock, logs, blocks, retryCount,
                 emptyBlockNum>>

-----------------------------------------------------------------------------

Init == NodeInit /\ DlInit

NodeNext == Mine \/ Finalize \/ Reorg

DownloaderNext ==
  \/ Start \/ WaitForNewBlocks \/ WaitPollFails \/ WaitPollNoNewBlock \/ NoWait
  \/ FetchFinalized \/ FetchFinalizedFails
  \/ GetLogs \/ GetLogsFails
  \/ HeaderMatches \/ GetBlockHeaderFails \/ HeaderMismatchRetry
  \/ HeaderMismatchGiveUp \/ AppendLog \/ AppendLogFails
  \/ ReportSafe \/ ReportUnsafeCheckpoint \/ ReportUnsafeExtend
  \/ ReportUnsafeBlocks \/ ReportEmptyBlock

Next == NodeNext \/ DownloaderNext

Spec == Init /\ [][Next]_vars

\* The steps of the Download goroutine that are not an error.
DownloaderSteps ==
  \/ Start \/ WaitForNewBlocks \/ NoWait \/ FetchFinalized \/ GetLogs
  \/ HeaderMatches \/ HeaderMismatchRetry \/ HeaderMismatchGiveUp \/ AppendLog
  \/ ReportSafe \/ ReportUnsafeCheckpoint \/ ReportUnsafeExtend
  \/ ReportUnsafeBlocks \/ ReportEmptyBlock

\* The Download goroutine is never starved, and the node keeps mining (up
\* to MaxHeight), so a block that a reorg took away is produced again.
\* Errors, reorgs and finalization are not forced to happen.
FairSpec == Spec /\ WF_vars(DownloaderSteps) /\ WF_vars(Mine)

-----------------------------------------------------------------------------
(* Properties.                                                             *)

BlockRec == [num : 1..MaxHeight, hash : (1..MaxHeight) \X (0..MaxReorgs)]

\* Every variable keeps its type; in particular the range asked of the node
\* never ends past the last block the downloader has seen.
TypeOK ==
  /\ height \in 1..MaxHeight /\ final \in 0..height
  /\ reorgs \in 0..MaxReorgs
  /\ chain \in [1..MaxHeight -> [fork : 0..MaxReorgs, log : BOOLEAN]]
  /\ pc \in {"start", "loop", "finalized", "logs", "headers", "append",
             "empty", "fatal"}
  /\ lastBlock \in 0..MaxHeight
  /\ requestToBlock \in 0..lastBlock
  /\ lastFinalized \in 0..lastBlock
  /\ logs \in Seq(BlockRec) /\ blocks \in Seq(BlockRec)
  /\ retryCount \in 0..MaxRetryCountBlockHashMismatch
  /\ attempts \in 0..MaxRetryAttemptsAfterError
  /\ errStreak \in 0..MaxErrStreak /\ finalizedErrs \in 0..MaxFinalizedErrs
  /\ emitted \in Seq([num : 1..MaxHeight, hash : (1..MaxHeight) \X (0..MaxReorgs),
                      events : BOOLEAN, finalized : BOOLEAN])

\* Blocks go out on downloadedCh in strictly increasing number, whatever
\* the node does between the downloader's calls (no block twice, none out
\* of order): the driver relies on this (Download's three ways of
\* advancing fromBlock).
EmittedStrictlyIncreasing ==
  \A i \in 1..Len(emitted) - 1 : emitted[i].num < emitted[i + 1].num

Canonical(e) == e.num <= height /\ Hash(e.num) = e.hash

\* A block sent with IsFinalizedBlock set is never reorganised away: its
\* hash stays the node's canonical hash for that number (lastFinalized is
\* read before the logs and headers it is applied to).
FinalizedFlagSound ==
  \A i \in 1..Len(emitted) : emitted[i].finalized => Canonical(emitted[i])

\* No log is skipped behind the reorg detector's back: while every block
\* sent is still canonical (so no reorg can be reported for any of them),
\* every canonical block with a log, up to the last block sent, has been
\* sent with its events.
NoEventSkipped ==
  (\A i \in 1..Len(emitted) : Canonical(emitted[i]))
    => \A n \in 1..height :
         (chain[n].log /\ emitted /= <<>> /\ n <= Last(emitted).num)
           => \E i \in 1..Len(emitted) : emitted[i].num = n /\ emitted[i].events

\* The give-up path of getEventsByBlockRangeWithRetry is the only way a
\* log is skipped under a FinalizedBlock finalized type: it takes more
\* hash mismatches than MaxRetryCountBlockHashMismatch, one reorg each, so
\* while the node has reorganised no more often than that, no log is
\* skipped.
NoEventSkippedWithinRetryCap ==
  reorgs <= MaxRetryCountBlockHashMismatch => NoEventSkipped

\* Transient errors are retried up to RetryHandler's cap, then fatal
\* (spec.md section 7): no RPC loop (WaitForNewBlocks, GetLogs,
\* GetBlockHeader) keeps calling after MaxRetryAttemptsAfterError errors in
\* a row.
RPCRetriesCapped ==
  pc /= "append" => errStreak <= MaxRetryAttemptsAfterError

\* The same for every retry loop of the downloader, the appender loop of
\* getEventsByBlockRangeWithRetry and Download's GetLastFinalizedBlock
\* loop included.
RetriesCapped ==
  errStreak <= MaxRetryAttemptsAfterError
    /\ finalizedErrs <= MaxRetryAttemptsAfterError

\* Checking a range ends: once GetEventsByBlockRange has logs to check
\* (or reportEmptyBlock a checkpoint to fetch), the range is eventually
\* sent, queried again, given up or the process exits, however long
\* GetBlockHeader waits for a block that a reorg took away (lines
\* 451-460), and however the appender and the RPCs fail in between.
RangeCheckEnds ==
  pc \in {"headers", "append", "empty"} ~> pc \in {"loop", "logs", "fatal"}
=============================================================================
