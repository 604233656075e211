----------------------------- MODULE BatchPool ------------------------------
(***************************************************************************)
(* How the block device hands out its batches (lkl_task_disk.c): a token   *)
(* of task_disk_queue_free_sem admits a thread to task_disk_claim_batch,   *)
(* which then scans the batches in order for one it can CAS from FREE to   *)
(* BUILDING.  Other threads claim and free batches during the scan, one    *)
(* batch at a time, and a batch is marked FREE before its token is posted. *)
(***************************************************************************)
EXTENDS DiskParams

VARIABLES taken,      \* batches whose state is not FREE
          tokens,     \* count of task_disk_queue_free_sem
          owed,       \* batches freed whose token is not posted yet
          scan_pos    \* the batch each thread's scan looks at, 0 if none

batch_vars == <<taken, tokens, owed, scan_pos>>

BatchInit == /\ taken = {} /\ tokens = N /\ owed = 0
             /\ scan_pos = [t \in DiskThreads |-> 0]

\* The sem_down of task_disk_claim_batch.
Down(t) == /\ scan_pos[t] = 0
           /\ tokens > 0 /\ tokens' = tokens - 1
           /\ scan_pos' = [scan_pos EXCEPT ![t] = 1]
           /\ UNCHANGED <<taken, owed>>

\* One iteration of its loop; past the last batch it posts the token back
\* and gives up.
Scan(t) ==
    /\ scan_pos[t] # 0
    /\ IF scan_pos[t] > N
       THEN /\ scan_pos' = [scan_pos EXCEPT ![t] = 0]
            /\ tokens' = tokens + 1
            /\ UNCHANGED taken
       ELSE /\ IF scan_pos[t] \in taken
               THEN /\ scan_pos' = [scan_pos EXCEPT ![t] = @ + 1]
                    /\ UNCHANGED taken
               ELSE /\ scan_pos' = [scan_pos EXCEPT ![t] = 0]
                    /\ taken' = taken \cup {scan_pos[t]}
            /\ UNCHANGED tokens
    /\ UNCHANGED owed

\* task_disk_worker and task_disk_submit_batch: the batch is FREE again ...
FreeBatch(b) == /\ b \in taken
                /\ taken' = taken \ {b}
                /\ owed' = owed + 1
                /\ UNCHANGED <<tokens, scan_pos>>

\* ... and its token is posted.
Up == /\ owed > 0 /\ owed' = owed - 1
      /\ tokens' = tokens + 1
      /\ UNCHANGED <<taken, scan_pos>>

\* The child is destroyed and another is started.
Restart == /\ taken' = {} /\ tokens' = N /\ owed' = 0
           /\ scan_pos' = [t \in DiskThreads |-> 0]

BatchNext == \/ \E t \in DiskThreads : Down(t) \/ Scan(t)
             \/ \E b \in 1..N : FreeBatch(b)
             \/ Up \/ Restart

BatchSafety == BatchInit /\ [][BatchNext]_batch_vars

----------------------------------------------------------------------------
\* Types; in particular the count of task_disk_queue_free_sem is never negative.
BatchTypes == /\ taken \subseteq 1..N
              /\ tokens \in Nat /\ owed \in Nat
              /\ scan_pos \in [DiskThreads -> 0..N + 1]

(* task_disk_claim_batch never comes back empty-handed: no scan runs past  *)
(* the last batch, however many others claim and free behind and ahead of  *)
(* it.  (Its callers turn the NULL into an I/O error.)                     *)
ClaimSucceeds == \A t \in DiskThreads : scan_pos[t] <= N

Scanning(p) == {t \in DiskThreads : scan_pos[t] >= p}
FreeFrom(p) == (p..N) \ taken

(* Why: from any batch on, there are at least as many free batches as      *)
(* scans that have come that far, and a token for every free batch that no *)
(* scan has been promised.                                                 *)
Matched == \A p \in 1..N + 1 :
              Cardinality(Scanning(p)) <= Cardinality(FreeFrom(p))
TokensExact == tokens + owed + Cardinality(Scanning(1))
                 = Cardinality(FreeFrom(1))

BatchInv == BatchTypes /\ Matched /\ TokensExact
=============================================================================
