------------------------------ MODULE HostSem ------------------------------
(***************************************************************************)
(* The semaphores of the child's LKL host operations                       *)
(* (lkl_task_host.c, task_sem_up, task_sem_down and                        *)
(* luna_lkl_task_sem_signal_once): an atomic token count and a waiter      *)
(* count, with one seL4 Notification to block on.  One action is one       *)
(* atomic access of shared memory or one system call; the threads          *)
(* interleave between any two.                                             *)
(*                                                                         *)
(* The Notification is the kernel's: a signal wakes a blocked thread if    *)
(* there is one and is otherwise remembered as a single bit, so signals    *)
(* collapse.                                                               *)
(***************************************************************************)
EXTENDS Integers, FiniteSets

CONSTANTS Threads,     \* host threads that use the semaphore
          IntMax,      \* INT_MAX, where task_sem_up refuses to count
          InitCount    \* the argument of task_sem_alloc

ASSUME SemAssumption == /\ IsFiniteSet(Threads)
                        /\ IntMax \in Nat \ {0}
                        /\ InitCount \in 0..IntMax

VARIABLES count,      \* sem->count
          waiters,    \* sem->waiters
          pending,    \* the Notification holds a signal
          pc,         \* what each thread does next
          seen        \* the count each thread loaded for its compare-exchange

vars == <<count, waiters, pending, pc, seen>>

Fast == {"cas", "register"}               \* down, not registered yet
Trying == {"retry", "recas"}              \* down, registered, about to look
Parked == {"wait", "blocked"}             \* down, registered, found no token
Leaving == {"deregister"}                 \* down, holds its token
Closing == {"recheck", "signal"}          \* about to pass a wakeup on
Posting == {"upcas", "notify"}            \* up and signal_once

Labels == {"idle"} \cup Fast \cup Trying \cup Parked \cup Leaving
                   \cup Closing \cup Posting

\* The threads sem->waiters counts.
Registered == {t \in Threads : pc[t] \in Trying \cup Parked \cup Leaving}

Blocked == {t \in Threads : pc[t] = "blocked"}

Init == /\ count = InitCount
        /\ waiters = 0
        /\ pending = FALSE
        /\ pc = [t \in Threads |-> "idle"]
        /\ seen = [t \in Threads |-> 0]

Goto(t, l) == pc' = [pc EXCEPT ![t] = l]

----------------------------------------------------------------------------
(* task_sem_try_down, used twice by task_sem_down: the load, then the      *)
(* compare-exchange, which on failure reloads and goes round the loop.     *)

\* The branch after a (re)load of the count: go and compare-exchange what
\* was loaded, or give up and go to "empty".
Loaded(t, found, empty) ==
    /\ seen' = [seen EXCEPT ![t] = count]
    /\ Goto(t, IF count > 0 THEN found ELSE empty)

TryDownLoad(t, found, empty) ==
    /\ Loaded(t, found, empty)
    /\ UNCHANGED <<count, waiters, pending>>

\* Mutant: a load and a store instead of the compare-exchange.
TryDownStore(t, found, empty, taken) ==
    /\ count' = seen[t] - 1
    /\ seen' = [seen EXCEPT ![t] = 0]
    /\ Goto(t, taken)
    /\ UNCHANGED <<waiters, pending>>

TryDownCas(t, found, empty, taken) ==
    /\ IF count = seen[t]
       THEN /\ count' = count - 1
            /\ seen' = [seen EXCEPT ![t] = 0]
            /\ Goto(t, taken)
       ELSE /\ Loaded(t, found, empty)
            /\ UNCHANGED count
    /\ UNCHANGED <<waiters, pending>>

(* task_sem_down *)
DownFirstLoad(t) == pc[t] = "idle" /\ TryDownLoad(t, "cas", "register")

DownFirstCas(t) == pc[t] = "cas" /\ TryDownCas(t, "cas", "register", "idle")

DownRegister(t) ==
    /\ pc[t] = "register"
    /\ waiters' = waiters + 1
    /\ Goto(t, "retry")
    /\ UNCHANGED <<count, pending, seen>>

DownRetryLoad(t) == pc[t] = "retry" /\ TryDownLoad(t, "recas", "wait")

DownRetryCas(t) ==
    pc[t] = "recas" /\ TryDownCas(t, "recas", "wait", "deregister")

\* seL4_Wait: take the remembered signal, or block.
DownWait(t) ==
    /\ pc[t] = "wait"
    /\ Goto(t, IF pending THEN "retry" ELSE "blocked")
    /\ pending' = FALSE
    /\ UNCHANGED <<count, waiters, seen>>

\* Mutant: the thread that got a token does not pass the wakeup on.
DownDeregisterSilently(t) ==
    /\ pc[t] = "deregister"
    /\ waiters' = waiters - 1
    /\ Goto(t, "idle")
    /\ UNCHANGED <<count, pending, seen>>

DownDeregister(t) ==
    /\ pc[t] = "deregister"
    /\ waiters' = waiters - 1
    /\ Goto(t, IF waiters - 1 > 0 THEN "recheck" ELSE "idle")
    /\ UNCHANGED <<count, pending, seen>>

DownRecheck(t) ==
    /\ pc[t] = "recheck"
    /\ Goto(t, IF count > 0 THEN "signal" ELSE "idle")
    /\ UNCHANGED <<count, waiters, pending, seen>>

\* seL4_Signal: wake one blocked thread, else remember the signal.  The
\* kernel's queue is FIFO; any blocked thread is allowed here.
Signal(t) ==
    /\ pc[t] = "signal"
    /\ \/ /\ Blocked = {}
          /\ pending' = TRUE
          /\ Goto(t, "idle")
       \/ \E b \in Blocked :
             /\ pc' = [pc EXCEPT ![t] = "idle", ![b] = "retry"]
             /\ UNCHANGED pending
    /\ UNCHANGED <<count, waiters, seen>>

----------------------------------------------------------------------------
(* task_sem_up: at INT_MAX the post is refused, otherwise compare-exchange *)
(* until it succeeds.                                                      *)
UpLoaded(t) ==
    IF count = IntMax
    THEN Goto(t, "idle") /\ seen' = [seen EXCEPT ![t] = 0]
    ELSE Goto(t, "upcas") /\ seen' = [seen EXCEPT ![t] = count]

UpLoad(t) ==
    /\ pc[t] = "idle"
    /\ UpLoaded(t)
    /\ UNCHANGED <<count, waiters, pending>>

UpCas(t) ==
    /\ pc[t] = "upcas"
    /\ IF count = seen[t]
       THEN /\ count' = count + 1
            /\ seen' = [seen EXCEPT ![t] = 0]
            /\ Goto(t, "notify")
       ELSE UpLoaded(t) /\ UNCHANGED count
    /\ UNCHANGED <<waiters, pending>>

\* luna_lkl_task_sem_signal_once: only 0 becomes 1.
SignalOnce(t) ==
    /\ pc[t] = "idle"
    /\ count = 0
    /\ count' = 1
    /\ Goto(t, "notify")
    /\ UNCHANGED <<waiters, pending, seen>>

\* Signal only if someone is registered.
Notify(t) ==
    /\ pc[t] = "notify"
    /\ Goto(t, IF waiters > 0 THEN "signal" ELSE "idle")
    /\ UNCHANGED <<count, waiters, pending, seen>>

----------------------------------------------------------------------------
\* A client may start an operation; it need not.
Begin(t) == DownFirstLoad(t) \/ UpLoad(t) \/ SignalOnce(t)

\* Once started, the operation's own steps.
Step(t) == \/ DownFirstCas(t) \/ DownRegister(t) \/ DownRetryLoad(t)
           \/ DownRetryCas(t) \/ DownWait(t) \/ DownDeregister(t)
           \/ DownRecheck(t) \/ Signal(t) \/ UpCas(t) \/ Notify(t)

Next == \E t \in Threads : Begin(t) \/ Step(t)

Safety == Init /\ [][Next]_vars

\* The kernel schedules every runnable thread of equal priority round robin,
\* so a thread inside an operation keeps moving.
Spec == Safety /\ \A t \in Threads : WF_vars(Step(t))

----------------------------------------------------------------------------
\* Types; in particular the semaphore count is never negative and sem_up
\* never takes it past INT_MAX.
TypeOK == /\ count \in 0..IntMax
          /\ waiters \in Nat
          /\ pending \in BOOLEAN
          /\ pc \in [Threads -> Labels]
          /\ seen \in [Threads -> 0..IntMax]

(* sem->waiters is exactly the number of threads between the increment and *)
(* the decrement of task_sem_down, whatever interleaving: neither a retry  *)
(* nor a spurious wakeup counts a thread twice.                            *)
WaitersCounted == waiters = Cardinality(Registered)

Attending == Trying \cup Leaving \cup Closing \cup {"notify"}

(* No lost wakeup (task_sem_up against task_sem_down): while a token is    *)
(* available, a thread that found none and waits on the Notification is    *)
(* not forgotten.  A signal is remembered, or some thread is still going   *)
(* to look for the token or to signal.                                     *)
NoLostWakeup ==
    count > 0 /\ (\E t \in Threads : pc[t] \in Parked)
        => pending \/ \E u \in Threads : pc[u] \in Attending

(* The Notification never remembers a signal while a thread is blocked on  *)
(* it: a blocked thread is woken by the next signal.                       *)
SignalDelivered == Blocked # {} => ~pending

(* The value a compare-exchange expects is one its loop test accepted.     *)
CasGuarded ==
    \A t \in Threads : /\ pc[t] \in {"cas", "recas"} => seen[t] > 0
                       /\ pc[t] = "upcas" => seen[t] < IntMax

(* Together they are preserved by every step. *)
IInv == /\ TypeOK /\ CasGuarded /\ WaitersCounted /\ SignalDelivered
        /\ NoLostWakeup

Asking == {t \in Threads : pc[t] \in Fast \cup Trying \cup Parked}

Abs == INSTANCE CountingSemaphore WITH value <- count, asking <- Asking

(* task_sem_up, task_sem_down and luna_lkl_task_sem_signal_once implement  *)
(* a counting semaphore: a token is granted once per post, by the          *)
(* compare-exchange, and signals create none.                              *)
ImplementsSemaphore == Abs!ASpec

ImplementsSemaphoreSafety == Abs!ASafety
=============================================================================
