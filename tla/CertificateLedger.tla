-------------------------- MODULE CertificateLedger --------------------------
(***************************************************************************)
(* What the aggsender certificate pipeline promises (spec.md sections 1,  *)
(* 4.9 and 5): the L2 blocks after the start block are settled in         *)
(* contiguous ranges, one certificate at a time.  The state is the last   *)
(* settled L2 block, the range of the one open certificate, if any, and   *)
(* the L2 tip.  A range is proposed only when nothing is open; it starts  *)
(* right after the settled block and ends at or below the tip; the        *)
(* agglayer settles it or rejects it, and a rejected range is proposed    *)
(* again (with the same or another end block).  Heights, statuses,        *)
(* proofs and the certificate's type are detail the implementation adds.  *)
(***************************************************************************)
EXTENDS Naturals

CONSTANTS StartL2Block, MaxL2Block

VARIABLES
  tip,        \* the last L2 block that can be certified
  settledTo,  \* every L2 block in StartL2Block+1..settledTo is settled
  open        \* the range of the open certificate, or NoRange

vars == <<tip, settledTo, open>>

NoRange == [fromBlock |-> 0, toBlock |-> 0]
Ranges == [fromBlock : 0..MaxL2Block, toBlock : 0..MaxL2Block]

Init ==
  /\ tip = StartL2Block
  /\ settledTo = StartL2Block
  /\ open = NoRange

\* The L2 chain grows.
Grow ==
  /\ tip < MaxL2Block
  /\ tip' = tip + 1
  /\ UNCHANGED <<settledTo, open>>

\* At most one open certificate; its range follows the settled blocks.
Propose ==
  /\ open = NoRange
  /\ \E to \in settledTo + 1..tip :
       open' = [fromBlock |-> settledTo + 1, toBlock |-> to]
  /\ UNCHANGED <<tip, settledTo>>

Settle ==
  /\ open /= NoRange
  /\ settledTo' = open.toBlock
  /\ open' = NoRange
  /\ UNCHANGED tip

Reject ==
  /\ open /= NoRange
  /\ open' = NoRange
  /\ UNCHANGED <<tip, settledTo>>

Next == Grow \/ Propose \/ Settle \/ Reject

\* The chain keeps growing, a certificate is proposed whenever blocks wait,
\* and an open certificate is eventually settled unless it is rejected.
Spec ==
  /\ Init /\ [][Next]_vars
  /\ WF_vars(Grow) /\ WF_vars(Propose) /\ WF_vars(Settle)

TypeOK ==
  /\ tip \in StartL2Block..MaxL2Block
  /\ settledTo \in StartL2Block..tip
  /\ open \in Ranges
=============================================================================
