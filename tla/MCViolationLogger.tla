-------------------------- MODULE MCViolationLogger --------------------------
(***************************************************************************)
(* A small logger for TLC.  The queue holds two records and the tuner may  *)
(* shrink it to one; the batch grows from one to two records; a retry      *)
(* policy may end the retries of a batch being written.                    *)
(***************************************************************************)
EXTENDS ViolationLogger

MCQueueRequests == {0}
MCBatchRequests == {2}
MCRetryRequests == {-1}
=============================================================================
