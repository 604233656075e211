---------------------------- MODULE MCTxCoalesce ----------------------------
(* A queue of two places, a batch of two and two senders: the queue fills, *)
(* a batch fills while the worker waits, and a wait outlives its batch.    *)
EXTENDS TxCoalesce
=============================================================================
