--------------------------- MODULE WriteBackDisk ---------------------------
(***************************************************************************)
(* What the child's block device promises LKL: writes are accepted in one  *)
(* order and reach the manager's backing store in that order, a read sees  *)
(* every write accepted before it, a flush returns only when everything    *)
(* accepted before it is stored, and destroying the child loses at most    *)
(* the writes that are not stored yet.                                     *)
(*                                                                         *)
(* The contents of the i-th block written is i, so the log need only name  *)
(* the blocks.                                                             *)
(***************************************************************************)
EXTENDS Integers, Sequences

CONSTANTS Users, Blocks

VARIABLES log,       \* the blocks written, in the order accepted
          stored,    \* how many of them the backing store holds
          barrier    \* for each user, what its flush has to wait for

avars == <<log, stored, barrier>>

NoFlush == 0
Failed == -1

\* The content of block b after the first k writes of l.
Content(l, k, b) ==
    IF \E i \in 1..k : l[i] = b
    THEN CHOOSE i \in 1..k : l[i] = b /\ \A j \in (i + 1)..k : l[j] # b
    ELSE 0

AInit == /\ log = <<>> /\ stored = 0
         /\ barrier = [u \in Users |-> NoFlush]

Accept(b) == log' = Append(log, b) /\ UNCHANGED <<stored, barrier>>

Store == /\ stored' \in stored + 1..Len(log)
         /\ UNCHANGED <<log, barrier>>

BeginFlush(u) == /\ barrier' = [barrier EXCEPT ![u] = Len(log)]
                 /\ UNCHANGED <<log, stored>>

EndFlush(u) == /\ barrier[u] # Failed /\ barrier[u] <= stored
               /\ barrier' = [barrier EXCEPT ![u] = NoFlush]
               /\ UNCHANGED <<log, stored>>

FailFlush(u) == /\ barrier' = [barrier EXCEPT ![u] = Failed]
                /\ UNCHANGED <<log, stored>>

\* The user goes on after an error.
Forget(u) == /\ barrier[u] = Failed
             /\ barrier' = [barrier EXCEPT ![u] = NoFlush]
             /\ UNCHANGED <<log, stored>>

\* The child is destroyed; the backing store is the manager's and stays.
Lose == /\ log' = SubSeq(log, 1, stored)
        /\ barrier' = [u \in Users |-> NoFlush]
        /\ UNCHANGED stored

ANext == \/ \E b \in Blocks : Accept(b)
         \/ Store
         \/ \E u \in Users : \/ BeginFlush(u) \/ EndFlush(u)
                          \/ FailFlush(u) \/ Forget(u)
         \/ Lose

ASpec == AInit /\ [][ANext]_avars
=============================================================================
