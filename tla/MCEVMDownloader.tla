-------------------------- MODULE MCEVMDownloader --------------------------
(* Model-checking instance of EVMDownloader: a node that mines up to      *)
(* MC_MaxHeight blocks and reorganises at most MC_MaxReorgs times.         *)
EXTENDS EVMDownloader

MC_MaxHeight == 4

\* Three blocks where liveness is checked as well: a reorg can still take
\* a logged block away below the head and the node mine it again.
MC_MaxHeightFair == 3
MC_MaxReorgs == 1
MC_SyncBlockChunkSize == 1
MC_MaxRetry == 1

\* RetryHandler's cap of 2 is the smallest at which an error can be
\* retried rather than fatal; the node and the appenders can fail one
\* time more than that in a row.
MC_MaxRetryAttempts == 2
MC_MaxErrStreak == MC_MaxRetryAttempts + 1

\* GetLastFinalizedBlock fails once in a row where only its being retried
\* matters, and past RetryHandler's cap where its cap is checked.
MC_MaxFinalizedErrs == 1
MC_MaxFinalizedErrsPastCap == MC_MaxRetryAttempts + 1

\* The give-up path needs one reorg more than the retry cap.
MC_MaxReorgsGiveUp == MC_MaxRetry + 1

\* A state constraint: no more blocks sent than the node can ever mine
\* (keeps a faulty variant of the model finite).
MC_Constraint == Len(emitted) <= MaxHeight + 1
=============================================================================
