# TLA+ models of aggkit

This directory holds TLA+ models of the parts of aggkit (the repository under `../src`) that have
concurrency, retries, crashes or arithmetic worth model checking. It also holds the TLC configurations
that check them. `PROJECT.json` lists:

- every component, modelled or not;
- every run, with its expected outcome;
- the mutants that show each property can fail;
- the source lines each definition translates;
- the findings;
- the hazards the code is exposed to.

Run a check from this directory with `tlc -workers 2 -config <cfg> <MC module>`.

## 1. The system and how its parts interact

aggkit runs several long-lived tasks, each owning its own state (spec.md section 5):

- **Syncers (EVM downloader → driver → processor, with a reorg detector).** The downloader
  (`src/sync/evmdownloader.go`) walks an L1 or L2 chain in chunks. For each range it:
  - asks the node for the logs of the watched contracts;
  - checks every log's block hash against a freshly fetched header;
  - sends `EVMBlock`s to the driver on a channel, including empty "checkpoint" blocks that only
    say how far it got.

  The driver hands the blocks to a processor, which stores them, and to the reorg detector, which
  tracks their hashes. The L1 info tree syncer (`src/unnamed/part_008`) and the bridge syncers are
  such processors. The downloader is the only one of these whose code is under `src/`.
- **Epoch notifier (`src/unnamed/part_006`).** It turns the L1 block stream into one `EpochEvent`
  per agglayer epoch, once a configured percentage of the epoch has passed.
- **Aggsender (`src/aggsender/flows/flow_aggchain_prover.go`).** It builds certificates over ranges
  of L2 blocks from the bridge syncer's data. It asks an external prover for an aggchain proof,
  signs, sends each certificate to the agglayer at a height, and polls its status
  (Pending → Proven → Candidate → Settled, or InError). An InError certificate is re-sent.
- **Bridge service (`src/bridgeservice/bridge.go`).** An HTTP API. Its claim-proof endpoint
  binary-searches the L1 info tree for a leaf whose exit root already contains a given deposit.
- **Aggoracle (`src/unnamed/part_001`, `EVMChainGERSender`).** `InjectGER` injects a global exit
  root on L2. It adds an `insertGlobalExitRoot` transaction to the tx manager, then polls the
  transaction's status on a ticker until it is mined or failed, or the context is cancelled.
  `IsGERInjected` reads the L2 GER manager's map.

The aggsender RPC (`src/aggsender/rpc`) reads the aggsender storage and reports a certificate
header by height. `src/config/config.go` loads the node's configuration at start-up: it stacks
the default layers and the user's files, lets viper decode them, and rejects keys that a table of
deprecated fields names. The rest of `src/` is database migrations, a gRPC server, the other RPC
endpoints, generated mocks and CI files.

## 2. Inventory: state, operations, hard behaviours, properties

| Component | State | Operations | What is hard |
|---|---|---|---|
| EVM downloader | `fromBlock`, `toBlock`, `lastBlock`, `reachTop`, `lastFinalized`, retry count | Download loop iteration, WaitForNewBlocks, GetLastFinalizedBlock, GetEventsByBlockRange (retry on hash mismatch), reportBlocks, reportEmptyBlock | node reorgs between RPCs; stale finalized and last-block reads; three ways of advancing `fromBlock`; the retry cap; uint64 wrap at line 149 |
| Epoch notifier | `Config` (fixed by the constructor), `lastBlockSeen`, `waitingForEpoch` | the constructor's Validate, step per block | repeated or out-of-order blocks; the (N-1)/N cap and epochs of one block; uint64 wrap in `startingBlockEpoch(0)` |
| Bridge claim-proof search | none (pure) | getFirstL1InfoTreeIndexForL1Bridge / ForL2Bridge | smallest covering leaf; several leaves per block; equal roots in a row |
| Bridge service | none of its own; reads the bridge syncers and the L1 info tree syncer | the REST handlers: bridges, claims, token mappings, legacy migrations, L1 info tree index for a bridge, injected leaf, claim proof, last reorg event, sync status | stores that lag, reorganise or halt between the calls of one request; leaves sharing a block; the empty exit root |
| Agglayer types | none (pure) | the status, leaf-type and header decoders, convertMapValue/convertNumeric, GlobalIndex.UnmarshalFromMap, the selectors | numbers outside an enum or an integer type; float-to-int conversion that depends on the build; map order; key precedence |
| Aggsender flow | last sent header, cached proof, agglayer certificates | GetCertificateBuildParams (retry with or without cached proof, new certificate), verifyBuildParamsAndGenerateProof, adjustBlockRange, send, status poll | rejections, a lost database, optimistic-mode switches, prover shrinking a range; height and range bookkeeping over long sequences |
| Configuration loader | none (pure) | LoadFile, loadString, checkDeprecatedFields, getDeprecatedField | first match in an ordered rule table where a section also matches the keys under it; case-insensitive comparison; tolerating only the deprecated-field error |
| GER injection | the call's place in its loop, the monitored tx's status, the GER map | InjectGER (Add, the ctx/ticker select, each Result outcome), IsGERInjected | cancellation while the tx is pending; a tx manager status lagging a reorg; a Result error after mining; a failed or unknown status that must end the loop |

The properties each component should have:

- **Downloader:**
  - blocks are sent in strictly increasing number;
  - a block flagged finalized stays canonical;
  - no log is skipped behind the reorg detector's back.
- **Epoch notifier:**
  - each epoch is announced once and in order;
  - the last block of an epoch always announces it, whatever the percentage;
  - no epoch whose threshold a block taken after the start reached is skipped.
- **Claim-proof search:**
  - the answer covers the deposit;
  - the answer is the smallest covering leaf, as promised.
- **Aggsender:**
  - height_k = k, with at most one open certificate;
  - ranges are gapless and non-overlapping;
  - a retry keeps its origin (first block, createdAt, retryCount+1) and, per the spec, its range;
  - every L2 block is eventually settled.
- **GER injection:**
  - the call returns once the tx manager resolves the transaction.
- **Configuration loader:**
  - a failing read, render, save or decode is never tolerated;
  - a configuration is rejected exactly when it holds a deprecated key and they are not allowed;
  - every deprecated key is reported under its own, most specific, hint.

## 3. Modules

### `EVMDownloader` (+ `MCEVMDownloader`)

**Environment (the node).** `height`, `final` and `chain[n] = [fork, log]` describe the node. A
block's hash is `<<n, fork>>`. The node has three actions:

- `Mine` adds a block.
- `Finalize` moves the finalized head.
- `Reorg` replaces the blocks above the finalized head by a new fork. The new fork may be shorter
  than the old chain.

**Downloader.** The program counter `pc` marks where `Download` is in its loop. Each RPC is one
step, so the node can act between any two:

| Action | Source |
|---|---|
| `Start` | lines 127-128 |
| `WaitForNewBlocks` / `NoWait` | lines 141-153 |
| `FetchFinalized` / `FetchFinalizedFails` | lines 154-166; an error of `GetLastFinalizedBlock` logs and continues the loop at once |
| `GetLogs` | the `FilterLogs` call |
| `HeaderMatches`, `HeaderMismatchRetry`, `HeaderMismatchGiveUp` | per log, lines 338-372; the wait for a missing block is the guard `num <= height` |
| `ReportSafe`, `ReportUnsafeCheckpoint`, `ReportUnsafeExtend`, `ReportUnsafeBlocks` | the four branches of lines 172-199 |
| `ReportEmptyBlock` | `reportEmptyBlock`, which fetches the header by number at that moment |
| `AppendLog` | the topic's appender adds the log to its block, lines 373-385 |
| `WaitPollFails`, `WaitPollNoNewBlock`, `GetLogsFails`, `GetBlockHeaderFails`, `AppendLogFails` | an error in one of the retry loops (lines 305-320, 410-424, 444-466, 375-383) |

**Retry loops.** `attempts` is the local counter of the retry loop in progress. A call that
completes resets it (`CallDone`), because each call declares its own counter. An error raises it
and hands it to RetryHandler's `Handle`. RetryHandler is not under `src/`; following spec.md
sections 4.2 and 7, `Handle` exits fatally once attempts reach `MaxRetryAttemptsAfterError`
(`HandleIsFatal`), which sets `pc` to `"fatal"`. The appender loop declares `attempts` inside the
loop, so its errors always hand over 1. `WaitForNewBlocks` keeps its count across polls that find
no new block. The history variable `errStreak` counts the errors in a row of the call in progress,
and `MaxErrStreak` bounds how many the node and the appenders produce. The loop around
`GetLastFinalizedBlock` (lines 154-160) has no RetryHandler at all: an error is logged and the
loop continues. The history variable `finalizedErrs` counts those errors in a row, and the named
bound `MaxFinalizedErrs` limits how many the node produces.

`emitted` is the history of what went out on `downloadedCh`. `FinalizedBlockType` applies the
constructor's clamp, and `IsBlockFinalized` is line 211.

### `EpochNotifier` (+ `MCEpochNotifier`)

The configuration is the variable `Config`, which `Init` (`NewEpochNotifierPerBlock`) picks from the
constant set `Configs` among those `Validate` accepts, and which no step changes.
`StartingEpochBlock`, `NumBlockPerEpoch` and `EpochNotificationPercentage` are its fields, so one
run covers several configurations. `step` is `StepIgnore` (the two early returns) plus
`StepNewBlock`. `isNotificationRequired`,
`percentEpoch`, `epochNumber`, `startingBlockEpoch` and `infoEpoch` are operators with the code's
names. The float64 percentages are exact fractions `Frac(num, den)` compared by cross-multiplying.
The integers are small, so float64 rounding cannot change any comparison. The block notifier is the
environment and may send any block in `0..MaxBlock`.

The threshold is the code's `min(pct/100, (N-1)/N)`. spec.md 4.8 writes `max`, but its own
scenario 3 (N = 10, 50%, notify at block 105 or later) agrees with the code, so the model follows
the code. `LastBlockOfEpochAnnounced` is stated from the epoch layout alone (a taken block that is
the last of its epoch), not from the threshold the code computes, so dropping the cap in
`thresholdPercent` breaks it at 90% and at N = 1.

### `AggchainProverFlow` (+ `MCAggchainProverFlow`)

The three branches of `GetCertificateBuildParams` are separate actions, and each ends with the send
(`Submit`):

- `ResendWithCachedProof`: an InError certificate of the same type, with its proof stored.
- `ResendWithNewProof`: the same, but the proof is gone after a database loss.
  `verifyBuildParamsAndGenerateProof` asks the prover again, and `adjustBlockRange` cuts the range.
- `SendNewCertificate`: the base flow's range, then `FromBlock := getLastProvenBlock(...) + 1`, the
  prover, and `adjustBlockRange`.

`UpdateLastSentStatus` is the loop's status poll. The environment actions are:

- `SyncL2Block`: the bridge syncer's tip grows;
- `AgglayerProgress` and `AgglayerReject`: the agglayer moves a certificate on or rejects it;
- `SwitchOptimisticMode`;
- `LoseDatabase`: the storage is wiped, and the last header is recovered from the agglayer without
  its proof.

**Storage and the RPC.** The aggsender storage is `stored`, one certificate header per height.
`SaveCertificateHeader` replaces the row at the certificate's height. `lastSent` is a definition: the
header at the highest stored height, as `GetLastSentCertificateHeader` returns it. A status poll
updates that row. A database loss leaves only the header recovered from the agglayer.
`GetCertificateHeaderPerHeight` (`src/aggsender/rpc/aggsender_rpc.go:58-77`) is a state operator
over `stored`. The RPC only reads, so no action stands for it: the invariant
`RPCHeaderMatchesAgglayer` quantifies over every height argument, with the nil pointer as
`NilHeight`. It states that whatever the endpoint answers at any moment is the agglayer's certificate
at that height, with the same range, origin and retry count. The status may lag behind the
agglayer's, but never leads it. This holds through resends at the same height and through
lost-database recovery. Its mutant saves a header only when no row exists at that height
(insert-only storage). A resend then leaves the old, InError header, and the RPC reports it.

Some of this code is not under `src/`: the aggsender loop, the base flow's
`GetCertificateBuildParamsInternal`, the storage and the agglayer. Those parts follow spec.md 4.9-4.10
and are marked `spec_modelled` in the map. The base flow re-sends an InError certificate's range with
retryCount + 1, following spec.md's status-machine paragraph.

**Refinement.** `CertificateLedger` is the pipeline's promise, written from spec.md sections 1, 4.9
and 5 with no heights, statuses or proofs. Its state is the L2 tip, the last settled block
`settledTo` and the range of the one `open` certificate. Its actions are `Grow`, `Propose` (only
when nothing is open, from `settledTo + 1` up to at most the tip), `Settle` and `Reject`. It has
weak fairness on `Grow`, `Propose` and `Settle`. `AggchainProverFlow` instantiates it as `LEDGER`:

- `tip` maps to `l2Tip`;
- `settledTo` maps to `LedgerSettledTo`, the last block of the highest settled certificate;
- `open` maps to `LedgerOpen`, the last certificate's range while its status is open.

The `aggsender_flow` run checks `LedgerSpec == LEDGER!Spec` as a property. Every send, resend and
agglayer step is then a ledger step or a stutter, and the flow's fairness implies the ledger's.
Pending to Proven to Candidate, the status poll, a mode switch and a lost database are stutters.
The mutant drops the `FromBlock := lastProvenBlock + 1` correction of the send
(`flow_aggchain_prover.go:249-255`). The first certificate then starts at block 0 and is no ledger
proposal.

### `BridgeService` (+ `MCBridgeService`)

The REST handlers of `src/bridgeservice/bridge.go`, over the stores they read:

- the two bridge syncers (`deposits`, `synced`, `lastReorg`, one entry per bridge);
- the L1 info tree syncer (`leaves`, `verified`, `injected`, `halted`), behind the facade of
  `part_008`, which answers `ErrInconsistentState` once the syncer is halted (`Facade`).

Every handler is one action: it validates the network, calls the stores in the code's order,
returns at the first error, and sets `response` to the status code, error and body. A body is
abstracted to what the properties compare: a leaf position, a deposit count, the roots used. The
two binary searches `getFirstL1InfoTreeIndexForL1Bridge` and `...ForL2Bridge` are the recursive
operators `SearchL1` and `SearchL2`. The L2 search ends with `GetFirstL1InfoWithRollupExitRoot`.

The environment actions are what the syncers do: `Deposit`, `DepositUpdatingGER` (an L1 deposit that
adds a leaf), `VerifyBatches` (a leaf with a new rollup exit root), `SyncBridge`, `ReorgBridge`,
`InjectGER` and `Halt`. New leaves go into blocks at or after the last leaf's, so several leaves can
share a block. Each environment step clears `response`. A handler runs only when no answer is
pending, and `Deliver` hands the answer back. This reaches every state a handler can see without
putting a request between every pair of environment steps.

The bridge syncers' `GetRootByLER` and `GetProof`, and `GetFirstGERAfterL1InfoTreeIndex`, are not
under `src/`. They follow spec.md 4.5-4.6 and are marked `spec_modelled`. In particular, the root
of the empty tree is never stored, so `GetRootByLER` of an empty exit root fails.

### `ChainGERSender` (+ `MCChainGERSender`)

One `InjectGER` call (`part_001` lines 100-143). `pc` is `"add"`, `"poll"` or `"done"`, and `ret`
is what the call returned. `Add` is the `ethTxMan.Add` call, which either fails or starts the
loop. `CtxDone` is the `ctx.Done()` case. The ticker case is `TickResultErr`, where `Result`
fails, and `Tick`, where `Result` answers. `Failed` returns an error, and `Mined`, `Safe` and
`Finalized` return nil. `Created`, `Sent` and an unknown status continue the loop unchanged, so
they are stutters. Go's select picks either ready case, so both are enabled together.

The environment is the tx manager (`SendTx`, `MineTx`, `FailTx`, `FinalizeTx`, and `ReorgTx`,
which takes a mined transaction back to sent and removes the GER from the map) and the caller's
`Cancel`. `IsGERInjected` is the contract's map holding the GER (`gerIndex > 0`). The tx manager
is not under `src/`; its steps change the stored status and the contract together, so the model
does not show a stored status that lags a reorg (a hazard in `PROJECT.json`).

### `AgglayerTypes` (+ `MCAgglayerTypes`)

The JSON decoders of the agglayer types in `part_001`:

- `CertificateStatus.UnmarshalJSON`, `LeafType.UnmarshalJSON`, `String` and the `Is*` predicates;
- the status field of `CertificateHeader.UnmarshalJSON`;
- `convertMapValue`, `convertNumeric` and `GlobalIndex.UnmarshalFromMap`;
- the claim and aggchain-data selectors.

Each decoder is an operator, and `Init` picks one input from the bounded sets. One step (`Decode*`)
runs the decoder; `Returned` then stutters. A JSON value is a record. A string is abstracted to what
`strings.Contains` and `fmt.Sscanf("%d")` distinguish: a word, or digits with or without trailing
text. Two behaviours the code leaves open are nondeterministic choices:

- converting an out-of-range float64 to an integer kind (amd64 keeps the low bits, arm64
  saturates);
- the order of a range over a map, which decides which agglayer error an InError header keeps.

Integer widths are the constant `KindBits`. `MCAgglayerTypes` scales 16, 32 and 64 bits to 10, 12
and 14 so the values fit TLC's integers; 8 bits stay 8.

### `ConfigLoader` (+ `MCAgglayerTypes`)

`LoadFile` of `src/config/config.go`, as operators:

- `FileLayers`: the layer stack (default mandatory vars when `setDefaultVars`, default vars,
  default values, the user's files).
- `Render`: the merge. `ConfigRender` is not under `src/`, so this is spec-modelled: a file is the
  set of its keys, and the merged text holds the union of the layers' keys.
- `loadString`: viper reads and decodes, then `checkDeprecatedFields` checks `viper.AllKeys()`.
- `getDeprecatedField` walks `deprecatedFieldsOnConfig` in order and returns the first rule that
  matches (`PatternMatches`). A rule matches the key itself; a pattern ending in a dot also matches
  every key starting with it; any other pattern also matches every key under it.
- `LoadFile` ties these together: it saves the merged file, tolerates a `DeprecatedFieldsError` when
  `allowDeprecatedFields` (through `errors.As`), and saves the final file.

A key is the sequence of its dot-separated words. A word is its lower-case text and whether it is
written with capitals, which is what `strings.ToLower` and string equality distinguish. Every call
that can fail for I/O or syntax reasons is the input `fail`. Like the decoders, the module is one
call: `LoaderInit` chooses the arguments (`loadCall`: the user's keys, the three flags of `Load`
and the failing call), and `Load` runs `readFiles` (whose error it returns at once) and then
`LoadFile` into `loaded`. Reading a file is abstracted to that one failure. It is checked in the
`agglayer_types` run. `MCAgglayerTypes` extends both modules and interleaves the two independent
calls. It explores every decoder input with one load call, and every load call with one decoder
input. It also gives the default layers and the candidate keys. The candidate keys are:

- an exact pattern (`aggsender.urlrpcl2`);
- a key under a section (`etherman.url`, `networkconfig.l1.rollupmanageraddr`);
- the section itself (`networkconfig`);
- a key with its own rule inside a deprecated section (`networkconfig.l1.poladdr`);
- two keys that only resemble deprecated ones (`l1networkconfig.poladdr`,
  `aggsender.agglayerclient.usetls`).

## 4. Runs and what they show

Each check runs on a `MC*` module and a `.cfg` file.

| Run | Expect | Shows |
|---|---|---|
| `downloader_finalized` | pass | FinalizedBlock finality under `FairSpec`, 3 blocks, chunk 1, cap 1, and 2 reorgs, so `HeaderMismatchGiveUp` fires. Blocks are sent in increasing order and finalized flags are sound. No log is skipped while the reorgs stay within the mismatch cap (`NoEventSkippedWithinRetryCap`): the give-up path is the only way to lose one. RPC and appender errors against a RetryHandler cap of 2 leave all of this intact, and no RPC retry loop calls again after 2 errors in a row (`RPCRetriesCapped`). Once a range's logs are fetched, the header checks and appends end: the downloader gets back to its loop, to the next log query or to a fatal exit (`RangeCheckEnds`, a leads-to property) (623,749 states). |
| `downloader_retry_caps` | violation | `RetriesCapped`: with `MaxFinalizedErrs` one past the RetryHandler cap, `GetLastFinalizedBlock` fails three times in a row and the loop neither exits nor waits (finding 8). The appender loop breaks the same property with `attempts` stuck at 1 (finding 3); TLC reports the shorter trace, which is the finalized loop's. |
| `downloader_giveup_skips_logs` | violation | Two mismatches: the range comes back empty and a checkpoint skips a logged block (finding 1). |
| `downloader_latest_skips_logs` | violation | LatestBlock as the finalized type: the reorg races reportEmptyBlock (finding 2). |
| `epoch_notifier` | pass | Five configurations (start 2 with N = 4 at 50% and at 90%, N = 1 at 50%, start 0 with N = 3 at 0%, and N = 0, which Validate refuses), blocks 0..14 in any order and repeated. Each epoch is announced once and in order; a taken block that is the last of its epoch has announced it (`LastBlockOfEpochAnnounced`, whose mutant drops the (N-1)/N cap); and no epoch whose threshold a block after the start reached is skipped (5,758 states). |
| `aggsender_flow` | pass | L2 blocks 2..5, 2 rejections, 2 database losses, 1 mode switch. It checks height_k = k with one open certificate, gapless ranges, that a retry keeps its origin, and, under fairness, that every block is eventually settled. It also checks that the flow refines `CertificateLedger` (`LedgerSpec`), and that the aggsender RPC's per-height answer never contradicts the agglayer (`RPCHeaderMatchesAgglayer`) (134,340 states). |
| `aggsender_retry_range` | violation | A retry without the cached proof resends a shorter range (finding 5). |
| `bridge_service` | pass | Two deposits on the L1 bridge and one on L2, 3 leaves over 3 L1 blocks, one VerifyBatches event, one reorg of a bridge syncer, halting. An index-for-bridge answer covers the deposit, and ErrNotOnL1Info means nothing covers it; the L1 search's probes land below, at and above the deposit, and its mutant swaps the two narrowing steps. A claim proof uses the roots of the leaf asked for. A halted L1 info tree answers nothing (1,772,064 states, about 35 seconds). |
| `bridge_service_first_leaf` | violation | spec.md section 6 against the handler: the answer is not always the smallest covering leaf. TLC's trace has two leaves with the same root in blocks 1 and 3, and the search answers the second (finding 4). TLC stops at that first trace; finding 6 (the empty root) was found by reading the code against the same property and is not shown by this run. |
| `agglayer_types` | pass | Every decoder input over the chosen texts and numbers. Statuses and leaf types survive json.Marshal and the agglayer's names. The agglayer's status field is read as sent, including a rejection's error. GlobalIndexes round-trip up to the largest uint32. The selectors pick the type that was marshalled. `LoadFileReportsDeprecatedFields` covers every subset of the candidate keys, every flag and every single failing call. `Load` returns a configuration exactly when no call fails and deprecated keys are allowed or absent. A `DeprecatedFieldsError` files every deprecated key, and no other, under its most specific rule. The final file is saved only on success. The mutant lists the `NetworkConfig` section before its two keys; `networkconfig.l1.poladdr` is then reported with the section's hint (96,546 states). |
| `ger_sender` | pass | One `InjectGER` call, 3 reorgs of the mined transaction, Result errors, a failure and a cancel. Under fairness the call always returns; the mutant drops the `Failed` case (127 states). |
| `agglayer_closed_status` | violation | A status decoded from a number outside 0..4 is closed but neither settled nor in error (finding 7). TLC's trace is a header whose status string is the integer -1 followed by other text (`Digits(-1, TRUE)`); `Sscanf("%d")` reads -1 from it, as the model does, and the status is -1. |

**Deadlock checking.** It is off for the downloader and the aggsender runs, because the bounded
environment stops:

- Once the node has mined `MaxHeight` blocks, the downloader legitimately blocks in
  `WaitForNewBlocks` (or `GetBlockHeader`). After a fatal exit nothing of the downloader moves.
- Once all L2 blocks are settled, the aggsender only polls.

It is on for the epoch notifier, the decoders, the bridge service and the GER sender. There,
`Deliver` and the syncers can always move, and a returned call or decoder may stutter (`Returned`).

**Fairness** (downloader, aggsender and GER sender):

- Downloader (`FairSpec`): weak fairness on the disjunction of the goroutine's steps that are not
  errors (`DownloaderSteps`), because `Download` is one goroutine that runs whenever it is not
  blocked, and on the node mining a block. RPC and appender errors carry no fairness; they are
  bounded by `MaxErrStreak` and `MaxFinalizedErrs`.

- Weak fairness on the loop's actions, because the loop ticks on a timer. For `InjectGER` that is
  `Add` and `Tick`, whose ticker fires every `waitPeriodMonitorTx`.
- Weak fairness on the tx manager sending a created transaction and mining or failing a sent one.
  There is none on a Result error, a reorg (bounded by `MaxReorgs`) or the caller's cancel, since
  the code does not guarantee any of them. A Result error is its own action, `TickResultErr`, so
  fairness on `Tick` cannot force it.
- Weak fairness on the syncer, and on the agglayer moving a certificate on, because the agglayer
  eventually decides.
- No fairness on rejections, database loss or mode switches, which are bounded.

Prover answers of NoProofBuiltYet or an error write nothing. They are stutters, so liveness assumes
the prover eventually answers.

**Bounds.** The bounds are the smallest that make the interesting cases happen:

- **Downloader:** a reorg that hits a logged block between a log query and a header fetch needs at
  least 3 blocks. The fair run uses exactly 3: with 4 the liveness check alone takes about 7
  minutes, and every mutant of the downloader's properties is caught at 3 as well. The finalized
  loop fails at most once in a row in the passing run and three times in `downloader_retry_caps`. A chunk of 1 makes ranges extend and split. A RetryHandler cap of 2 is the
  smallest at which an error is retried rather than fatal. Three errors in a row are one more than
  the cap allows.
- **Epoch notifier:** 14 blocks cover three epochs of four blocks and twelve of one. At 50% a
  block lands exactly on the threshold; at 90% only the cap lets an epoch notify; N = 1 makes the
  cap 0; start 0 with 0% notifies at an epoch's first block.
- **Bridge service:** two L1 deposits make the mainnet exit roots -1 (empty), 0 and 1, so a probe
  can find a root below, equal to or above the deposit asked for; one L2 deposit gives the L2
  search its roots. Three leaves over three blocks give a block with two leaves, and a search over
  blocks 1..3 probes block 2 and narrows either way. One reorg lets a syncer fall behind the roots
  the L1 info tree already holds. The state constraint `MC_StateBound` keeps one L2 deposit, one
  VerifyBatches event, one reorg in all and one injected GER at a time.
- **Decoders and loader:** the integers are every status and leaf-type number and one past them, the uint8
  edges 255 and 256, the scaled uint32 edges 4095 and 4096, and -1. A fraction flag gives x.5. Two
  agglayer error variants make a two-entry error map.
- **GER sender:** three reorgs let a tick see the transaction mined, sent again and mined again;
  one transaction and one call are all `InjectGER` handles.
- **Aggsender:** 5 blocks allow a first certificate, a shrunk one and follow-ups, after two
  rejections and two database losses.

## 5. Findings

1. **Downloader, give-up path** (`evmdownloader.go:351`). After `MaxRetryCountBlockHashMismatch`
   hash mismatches, the range is treated as empty and passed over with a checkpoint. Its logs are
   lost. spec.md says the range is retried.
2. **Downloader, LatestBlock finalized type** (`evmdownloader.go:176`, and the header fetch at
   line 220). A reorg between the log query and the checkpoint's header fetch loses a log. The
   reorg detector never sees it, because the checkpoint carries the new canonical hash.
3. **Appender retries without a cap** (`evmdownloader.go:376`). The appender loop of
   `getEventsByBlockRangeWithRetry` declares `attempts := 0` inside its `for`. Every failure
   therefore hands 1 to `RetryHandler.Handle`, and a cap above 1 is never reached: a log whose
   appender keeps failing is retried for ever, and the syncer hangs without exiting. The RPC loops
   declare the counter outside the loop, and spec.md section 7 says transient errors are retried up
   to the cap, then fatal.
4. **Claim-proof search** (`bridge.go:1000`). The search can return a covering leaf that is not the
   smallest. It breaks on equality and only probes the first leaf of each block.
5. **Aggsender retry without a cached proof** (`flow_aggchain_prover.go:213`). The prover is asked
   again, and its end block can shrink the resent range. spec.md section 8 says the range is
   identical.
6. **Claim-proof search meets the empty root** (`bridge.go:994`). A verification and an L1 deposit
   land in the same L1 block, so the block's first leaf holds the empty mainnet exit root. The
   search probes that leaf, `GetRootByLER` fails, and the handler answers 500 though the next leaf
   covers the deposit. spec.md section 6 says the first covering leaf is returned. This rests on
   the spec-modelled `GetRootByLER` (spec.md 4.5: the empty root is never stored).
7. **Numeric certificate statuses** (`part_001:237`). `UnmarshalJSON` accepts any integer text as a
   status, also in a header's string status. A status such as 5 or -1 is then closed (`IsClosed`)
   but neither settled nor in error, although the comment on `IsClosed` says "settled or inError".
   `String()` panics on it.
8. **GetLastFinalizedBlock retried without a cap** (`evmdownloader.go:156`). When the finalized
   block cannot be read, `Download` logs the error and continues its loop at once: no RetryHandler,
   no cap and no sleep. A node that keeps failing this call makes the downloader spin for ever
   instead of exiting, where spec.md section 7 says transient errors are retried up to the cap,
   then fatal.

## 6. Not modelled, and the plan

Done in this order, most important first:

1. The downloader.
2. The aggsender flow.
3. The epoch notifier.
4. The bridge service's handlers, with both claim-proof searches.
5. The agglayer JSON decoders.
6. `InjectGER`, with the tx manager as environment.
7. The abstract certificate ledger, which `AggchainProverFlow` refines.

Next:

1. **Driver, processor and reorg detector composition (spec-modelled).** It takes EVMDownloader's
   `emitted` stream through the driver into a processor with `Reorg(fromBlock)`. It would check:
   - after Reorg, `GetLastProcessedBlock < fromBlock`;
   - every processed block is canonical, or a reorg for it is pending;
   - the L1 info tree halts (ErrInconsistentState) on a root mismatch.

   It would also give an abstract "canonical log stream" specification that the downloader plus
   driver refine, through `INSTANCE ... WITH` mapping `emitted` to the delivered stream.
2. **The aggoracle loop around `InjectGER`** (spec-modelled, not under `src/`). It would check
   that a GER whose injection returned an error, or was reorged after a nil return, is injected
   again exactly once.

Left out of the aggsender RPC and the proof tool:

- `Status` of the aggsender RPC returns `aggsender.Info`, which is not under `src/`.
- `GenerateAggchainProof` of `proof_generation_tool.go` is a one-shot tool outside the pipeline.
  Its hazard is listed: it checks `lastProvenBlock` but not `maxEndBlock` against the bridge
  syncer. Showing it would take a violation run of its own.
- `featureMaxL2Block.AdaptCertificate`, called from the aggchain prover flow after it builds a
  certificate and after it gets a proof, caps a certificate's range at a configured maximum L2
  block. Its code is not under `src/`, and the model takes every range uncapped (as with the feature
  disabled).

Left out for good:

- request parsing and formatting in the HTTP and RPC handlers;
- JSON and hash encodings;
- from the configuration: reading files and converting YAML or JSON to TOML, Go-template rendering
  and the merge of values (`ConfigRender` is not under `src/`), decoding values into `Config`, and
  environment-variable overrides;
- migrations: `RunMigrationsDBExtended` only builds the migration list; what happens to the
  database is `sql-migrate`'s, which is neither under `src/` nor described by spec.md;
- the gRPC server (listen, serve, graceful stop), mocks, Docker and CI.
