--------------------------- MODULE ChainGERSender ---------------------------
(***************************************************************************)
(* EVMChainGERSender (src/unnamed/part_001, package chaingersender): one  *)
(* InjectGER call, which adds an insertGlobalExitRoot transaction to the  *)
(* tx manager and polls its status on every tick until it is mined,       *)
(* failed or the context is cancelled; IsGERInjected reads the L2 GER     *)
(* manager's map.                                                          *)
(*                                                                         *)
(* The environment is the tx manager moving the transaction through its   *)
(* statuses (a mined transaction writes the GER to the contract, a reorg  *)
(* takes it back to sent and removes the GER), and the caller cancelling  *)
(* the context.  Go's select picks either ready case, so a tick and a     *)
(* cancelled context are both enabled.                                     *)
(***************************************************************************)
EXTENDS Naturals

CONSTANTS MaxReorgs  \* reorgs that undo the mined transaction

\* The tx manager's statuses the switch in InjectGER names.
TxStatuses == {"created", "sent", "failed", "mined", "safe", "finalized"}

VARIABLES
  pc,                \* InjectGER: "add" (before ethTxMan.Add), "poll" (the loop), "done"
  ret,               \* what InjectGER returned: "none" while running, "nil" or "err"
  txStatus,          \* the monitored transaction's status ("none" before Add)
  gerInMap,          \* the L2 GER manager's GlobalExitRootMap holds the GER
  cancelled,         \* ctx is done
  reorgs             \* reorgs so far

vars == <<pc, ret, txStatus, gerInMap, cancelled, reorgs>>

\* IsGERInjected: the GER's index in GlobalExitRootMap is above zero.
IsGERInjected == gerInMap

Init ==
  /\ pc = "add"
  /\ ret = "none"
  /\ txStatus = "none"
  /\ gerInMap = FALSE
  /\ cancelled = FALSE
  /\ reorgs = 0

\* InjectGER returns r.
Return(r) ==
  /\ pc' = "done"
  /\ ret' = r
  /\ UNCHANGED <<txStatus, gerInMap, cancelled, reorgs>>

-----------------------------------------------------------------------------
(* InjectGER.                                                              *)

\* Pack the call and ethTxMan.Add it: an error is returned as is.
Add ==
  /\ pc = "add"
  /\ \/ Return("err")
     \/ /\ pc' = "poll"
        /\ txStatus' = "created"
        /\ UNCHANGED <<ret, gerInMap, cancelled, reorgs>>

\* case <-ctx.Done(): return nil.
CtxDone ==
  /\ pc = "poll"
  /\ cancelled
  /\ Return("nil")

\* case <-ticker.C when ethTxMan.Result fails: the error is returned.
TickResultErr ==
  /\ pc = "poll"
  /\ Return("err")

\* Faulty variant: a failed transaction is polled again.
TickNoFailedCase ==
  /\ pc = "poll"
  /\ txStatus \in {"mined", "safe", "finalized"}
  /\ Return("nil")

\* case <-ticker.C when ethTxMan.Result answers: Failed is an error,
\* Mined, Safe and Finalized return nil.  Created and Sent (continue) and
\* any other status (logged) change nothing: they are stuttering steps of
\* the loop.
Tick ==
  /\ pc = "poll"
  /\ \/ txStatus = "failed" /\ Return("err")
     \/ txStatus \in {"mined", "safe", "finalized"} /\ Return("nil")

-----------------------------------------------------------------------------
(* The tx manager and the caller.                                          *)

TxUnchanged == UNCHANGED <<pc, ret, cancelled>>

SendTx ==
  /\ txStatus = "created"
  /\ txStatus' = "sent"
  /\ UNCHANGED <<gerInMap, reorgs>> /\ TxUnchanged

\* The transaction is mined and insertGlobalExitRoot stores the GER.
MineTx ==
  /\ txStatus = "sent"
  /\ txStatus' = "mined"
  /\ gerInMap' = TRUE
  /\ UNCHANGED reorgs /\ TxUnchanged

FailTx ==
  /\ txStatus \in {"created", "sent"}
  /\ txStatus' = "failed"
  /\ UNCHANGED <<gerInMap, reorgs>> /\ TxUnchanged

\* A reorg drops the block that mined the transaction; the tx manager
\* sends it again.
ReorgTx ==
  /\ txStatus = "mined"
  /\ reorgs < MaxReorgs
  /\ txStatus' = "sent"
  /\ gerInMap' = FALSE
  /\ reorgs' = reorgs + 1
  /\ TxUnchanged

FinalizeTx ==
  /\ \/ txStatus = "mined" /\ txStatus' = "safe"
     \/ txStatus = "safe" /\ txStatus' = "finalized"
  /\ UNCHANGED <<gerInMap, reorgs>> /\ TxUnchanged

Cancel ==
  /\ ~cancelled
  /\ cancelled' = TRUE
  /\ UNCHANGED <<pc, ret, txStatus, gerInMap, reorgs>>

\* InjectGER has returned: the call may be over for good.
Returned ==
  /\ pc = "done"
  /\ UNCHANGED vars

Next ==
  \/ Add \/ CtxDone \/ TickResultErr \/ Tick
  \/ SendTx \/ MineTx \/ FailTx \/ ReorgTx \/ FinalizeTx \/ Cancel
  \/ Returned

\* The ticker fires every WaitPeriodMonitorTx; the tx manager eventually
\* sends a created transaction and mines or fails a sent one.  Neither
\* the caller's cancel nor an error of Result is assumed to happen.
Fairness ==
  /\ WF_vars(Add) /\ WF_vars(Tick)
  /\ WF_vars(SendTx) /\ WF_vars(MineTx \/ FailTx)

Spec == Init /\ [][Next]_vars /\ Fairness

-----------------------------------------------------------------------------
(* Properties.                                                              *)

\* InjectGER does not poll forever: once the tx manager resolves the
\* transaction the next tick returns, whatever the reorgs in between.
InjectGERReturns == <>(pc = "done")
=============================================================================
