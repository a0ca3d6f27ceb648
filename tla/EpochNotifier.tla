--------------------------- MODULE EpochNotifier ---------------------------
(***************************************************************************)
(* The aggsender's EpochNotifierPerBlock (src/unnamed/part_006): a        *)
(* goroutine that receives EventNewBlock values from a block notifier and *)
(* publishes one EpochEvent per epoch once the block number passes the    *)
(* configured percentage of the epoch.  The block notifier is the         *)
(* environment: it may send any block number, again or out of order.     *)
(* Percentages, float64 in the code, are kept as exact fractions: all the *)
(* numerators and denominators are small integers, whose quotients        *)
(* float64 rounds monotonically, so every comparison has the same result. *)
(***************************************************************************)
EXTENDS Integers, Sequences

CONSTANTS
  Configs,  \* the ConfigEpochNotifierPerBlock values a node may be started with
  MaxBlock  \* the block notifier sends blocks 0..MaxBlock

maxPercent == 100

VARIABLES
  Config,          \* EpochNotifierPerBlock.Config, fixed by the constructor
  lastBlockSeen,   \* internalStatus.lastBlockSeen
  waitingForEpoch, \* internalStatus.waitingForEpoch
  published        \* the EpochEvents published so far, in order

vars == <<Config, lastBlockSeen, waitingForEpoch, published>>

StartingEpochBlock == Config.StartingEpochBlock
NumBlockPerEpoch == Config.NumBlockPerEpoch
EpochNotificationPercentage == Config.EpochNotificationPercentage

\* A fraction num/den with den > 0, and the float64 comparison a < b.
Frac(n, d) == [num |-> n, den |-> d]
FracLess(a, b) == a.num * b.den < b.num * a.den

-----------------------------------------------------------------------------

\* Validate: a positive epoch length and a percentage below 100.
Validate(c) == c.NumBlockPerEpoch > 0 /\ c.EpochNotificationPercentage < maxPercent

\* NewEpochNotifierPerBlock: a configuration that fails Validate is refused.
NewEpochNotifierPerBlock == Config \in {c \in Configs : Validate(c)}

epochNumber(currentBlock) ==
  IF currentBlock < StartingEpochBlock THEN 0
  ELSE 1 + (currentBlock - StartingEpochBlock) \div NumBlockPerEpoch

startingBlockEpoch(epoch) ==
  IF epoch = 0 THEN StartingEpochBlock - 1
  ELSE StartingEpochBlock + (epoch - 1) * NumBlockPerEpoch

endBlockEpoch(epoch) == startingBlockEpoch(epoch + 1)

percentEpoch(currentBlock) ==
  Frac(currentBlock - startingBlockEpoch(epochNumber(currentBlock)),
       NumBlockPerEpoch)

\* Faulty variant: the configured percentage without the (N-1)/N cap.
thresholdPercentUncapped == Frac(EpochNotificationPercentage, maxPercent)

\* The threshold: the configured percentage, capped at (N-1)/N.
thresholdPercent ==
  IF FracLess(Frac(NumBlockPerEpoch - 1, NumBlockPerEpoch),
              Frac(EpochNotificationPercentage, maxPercent))
  THEN Frac(NumBlockPerEpoch - 1, NumBlockPerEpoch)
  ELSE Frac(EpochNotificationPercentage, maxPercent)

\* Faulty variant: the notified epoch is compared with >=.
isNotificationRequiredGe(currentBlock, lastEpochNotified) ==
  [need |-> ~FracLess(percentEpoch(currentBlock), thresholdPercent)
              /\ epochNumber(currentBlock) + 1 >= lastEpochNotified,
   closing |-> epochNumber(currentBlock)]

\* isNotificationRequired: (needNotify, closingEpoch).
isNotificationRequired(currentBlock, lastEpochNotified) ==
  [need |-> ~FracLess(percentEpoch(currentBlock), thresholdPercent)
              /\ epochNumber(currentBlock) + 1 > lastEpochNotified,
   closing |-> epochNumber(currentBlock)]

\* Faulty variant: counted from the start of the closing epoch.
infoEpochFromStart(currentBlock, newEpochNotified) ==
  startingBlockEpoch(newEpochNotified) - currentBlock

\* infoEpoch: the blocks left until the epoch after the closing one.
infoEpoch(currentBlock, newEpochNotified) ==
  endBlockEpoch(newEpochNotified) - currentBlock

-----------------------------------------------------------------------------

\* Faulty variant: the first epoch is taken as already notified.
InitSkipFirstEpoch ==
  /\ NewEpochNotifierPerBlock
  /\ lastBlockSeen = StartingEpochBlock
  /\ waitingForEpoch = epochNumber(StartingEpochBlock) + 1
  /\ published = <<>>

\* startInternal, before the loop.
Init ==
  /\ NewEpochNotifierPerBlock
  /\ lastBlockSeen = StartingEpochBlock
  /\ waitingForEpoch = epochNumber(StartingEpochBlock)
  /\ published = <<>>

\* step, for a block before the first epoch or not after the last one seen.
StepIgnore(b) ==
  /\ b < StartingEpochBlock \/ b <= lastBlockSeen
  /\ UNCHANGED vars

\* step, for a new block; the event, if any, is published at once.
StepNewBlock(b) ==
  /\ b >= StartingEpochBlock /\ b > lastBlockSeen
  /\ lastBlockSeen' = b
  /\ UNCHANGED Config
  /\ LET r == isNotificationRequired(b, waitingForEpoch) IN
       IF r.need
       THEN /\ waitingForEpoch' = r.closing + 1
            /\ published' = Append(published,
                  [epoch |-> r.closing, pendingBlocks |-> infoEpoch(b, r.closing),
                   block |-> b])
       ELSE UNCHANGED <<waitingForEpoch, published>>

Next == \E b \in 0..MaxBlock : StepIgnore(b) \/ StepNewBlock(b)

Spec == Init /\ [][Next]_vars

-----------------------------------------------------------------------------
(* Properties.                                                             *)

TypeOK ==
  /\ Config \in Configs
  /\ lastBlockSeen \in StartingEpochBlock..MaxBlock \cup {StartingEpochBlock}
  /\ waitingForEpoch \in Nat
  /\ published \in Seq([epoch : Nat, pendingBlocks : Nat, block : 0..MaxBlock])

\* Each epoch is announced at most once, and epochs are announced in
\* increasing order, however the block notifier repeats or reorders blocks
\* (step's lastBlockSeen filter together with waitingForEpoch).
EpochsPublishedOnceInOrder ==
  \A i \in 1..Len(published) - 1 : published[i].epoch < published[i + 1].epoch

\* Whatever the percentage and the epoch length (one block included), an
\* epoch whose last block the notifier takes is announced by then: the
\* (N-1)/N cap in isNotificationRequired makes the last block of an epoch
\* always reach the threshold.  Stated from the epoch layout alone, not
\* from the threshold the code computes.
LastBlockOfEpochAnnounced ==
  (lastBlockSeen > StartingEpochBlock
     /\ lastBlockSeen + 1 = endBlockEpoch(epochNumber(lastBlockSeen)))
    => \E i \in 1..Len(published) :
         /\ published[i].epoch = epochNumber(lastBlockSeen)
         /\ published[i].pendingBlocks >= 1

\* No epoch is missed: once a block the notifier has taken (one after
\* StartingEpochBlock, which step filters out) is at or past the threshold
\* of its epoch, that epoch has been announced.
NoEpochMissed ==
  (lastBlockSeen > StartingEpochBlock
     /\ ~FracLess(percentEpoch(lastBlockSeen), thresholdPercent))
    => \E i \in 1..Len(published) :
         published[i].epoch = epochNumber(lastBlockSeen)
=============================================================================
