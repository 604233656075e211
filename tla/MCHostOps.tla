----------------------------- MODULE MCHostOps -----------------------------
(***************************************************************************)
(* The host operations of the child, side by side: the semaphore, the pool *)
(* of synchronisation slots, the thread table and the console.  They share *)
(* no state, so a behaviour is one of a single part.                       *)
(*                                                                         *)
(*   semaphore   Three threads: two wait and the third posts, so signals   *)
(*               collapse and a wakeup has to be passed on.                *)
(*   pool        One slot, used again at once; one thread late in a post,  *)
(*               one owner and one waiter of the next mutex.               *)
(*   threads     Two slots and two clients: a slot is reused while the     *)
(*               other client is between its test and its wait, and two    *)
(*               joins of one thread compete.                              *)
(*   console     A ring that holds two characters, and five characters: it *)
(*               fills up, overflows and wraps round.                      *)
(***************************************************************************)
EXTENDS HostSem, SyncPool, HostThreads, Console

VARIABLE part

HostInit == /\ part \in {"semaphore", "pool", "threads", "console"}
            /\ Init /\ PoolInit /\ ThreadInit /\ TtyInit

HostNext ==
    /\ UNCHANGED part
    /\ \/ /\ part = "semaphore" /\ Next
          /\ UNCHANGED <<pool_vars, thread_vars, tty_vars>>
       \/ /\ part = "pool" /\ PoolNext
          /\ UNCHANGED <<vars, thread_vars, tty_vars>>
       \/ /\ part = "threads" /\ ThreadNext
          /\ UNCHANGED <<vars, pool_vars, tty_vars>>
       \/ /\ part = "console" /\ TtyNext
          /\ UNCHANGED <<vars, pool_vars, thread_vars>>

\* The fairness of each part.
HostFairness ==
    /\ \A t \in Threads : WF_vars(part = "semaphore" /\ Step(t))
    /\ \A c \in Clients : WF_thread_vars(part = "threads" /\ JoinStep(c))
    /\ \A s \in Slots : WF_thread_vars(part = "threads" /\ RunStep(s))

HostSpec == /\ HostInit /\ HostFairness
            /\ [][HostNext]_<<part, vars, pool_vars, thread_vars, tty_vars>>
=============================================================================
