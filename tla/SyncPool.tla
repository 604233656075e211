------------------------------ MODULE SyncPool ------------------------------
(***************************************************************************)
(* The pool of synchronisation slots of the child (lkl_task_host.c): each  *)
(* slot is one seL4 Notification that serves as the semaphore or as the    *)
(* mutex it was last allocated for.  A mutex is a token in the             *)
(* Notification; a semaphore uses it only to wake its waiters, and         *)
(* HostSem has its details.  Here slots are allocated, freed and used      *)
(* again while a thread is still inside task_sem_up.                       *)
(*                                                                         *)
(* External, LKL's use: a semaphore passes one event from a thread to the  *)
(* one that allocated it, which frees it as soon as task_sem_down returns  *)
(* (init_sem in lkl_start_kernel); a mutex is freed by a thread when no    *)
(* other is in a call on it.                                               *)
(***************************************************************************)
EXTENDS Integers, FiniteSets

CONSTANTS PoolSlots,        \* the pool, numbered from 1 to LUNA_SYNC_SLOTS
          PoolThreads,  \* threads of the child
          MaxDepth      \* bound: how often a thread locks a mutex again

Callers == 1..PoolThreads
NoOne == 0              \* no thread has this id

VARIABLES kind,         \* per slot: free, sem or mutex (used and kind)
          token,         \* per slot: the Notification holds a signal
          sem,          \* per slot: count, waiters, and (external) the thread
                        \* that allocated it and whether its event is to come
          mutex,        \* per slot: owner, count, recursive
          calls,         \* per thread: the step of its operation, and the slot
          stale,        \* history: threads in task_sem_up of a freed semaphore
          late          \* history: slots in use that such a thread signalled

pool_vars == <<kind, token, sem, mutex, calls, stale, late>>

NewSem(t) == [count |-> 0, waiters |-> 0, by |-> t, due |-> t # NoOne]
NewMutex(r) == [owner |-> NoOne, count |-> 0, recursive |-> r]
NoCall == [pc |-> "idle", slot |-> 0]

PoolInit == /\ kind = [s \in PoolSlots |-> "free"]
            /\ token = [s \in PoolSlots |-> FALSE]
            /\ sem = [s \in PoolSlots |-> NewSem(NoOne)]
            /\ mutex = [s \in PoolSlots |-> NewMutex(FALSE)]
            /\ calls = [t \in Callers |-> NoCall]
            /\ stale = {} /\ late = {}

InStep(t, l) == calls[t].pc = l
StepTo(t, l) == calls' = [calls EXCEPT ![t].pc = l]
Enter(t, l, s) == calls' = [calls EXCEPT ![t] = [pc |-> l, slot |-> s]]
Leave(t) == calls' = [calls EXCEPT ![t] = NoCall]
Posters(s) == {t \in Callers : calls[t].slot = s /\ calls[t].pc \in {"posted", "signal"}}

----------------------------------------------------------------------------
(* task_sync_claim and task_sync_release                                   *)

\* The first free slot, claimed and drained; the caller then has "pending"
\* in the Notification.
Claim(s, k, pending) ==
    /\ kind[s] = "free" /\ \A i \in PoolSlots : kind[i] = "free" => s <= i
    /\ kind' = [kind EXCEPT ![s] = k]
    /\ token' = [token EXCEPT ![s] = pending]

Release(s) ==
    /\ kind' = [kind EXCEPT ![s] = "free"]
    /\ token' = [token EXCEPT ![s] = FALSE]
    /\ stale' = stale \cup Posters(s)
    /\ late' = late \ {s}

----------------------------------------------------------------------------
(* Semaphores: task_sem_alloc, _up, _down, _free                           *)

SemAlloc(t, s) ==
    /\ InStep(t, "idle") /\ Claim(s, "sem", FALSE)
    /\ sem' = [sem EXCEPT ![s] = NewSem(t)]
    /\ Enter(t, "down", s)
    /\ UNCHANGED <<mutex, stale, late>>

SemUp(t, s) ==
    /\ InStep(t, "idle") /\ kind[s] = "sem" /\ sem[s].due
    /\ sem' = [sem EXCEPT ![s].count = @ + 1, ![s].due = FALSE]
    /\ Enter(t, "posted", s)
    /\ UNCHANGED <<kind, token, mutex, stale, late>>

\* The waiters are read through the pointer, also after the semaphore has
\* been freed.
SemUpTest(t) ==
    LET s == calls[t].slot IN
    /\ InStep(t, "posted")
    /\ IF sem[s].waiters > 0 THEN StepTo(t, "signal") /\ UNCHANGED stale
                             ELSE Leave(t) /\ stale' = stale \ {t}
    /\ UNCHANGED <<kind, token, sem, mutex, late>>

SemUpSignal(t) ==
    LET s == calls[t].slot IN
    /\ InStep(t, "signal")
    /\ token' = [token EXCEPT ![s] = TRUE]
    /\ late' = IF t \in stale /\ kind[s] # "free" THEN late \cup {s} ELSE late
    /\ stale' = stale \ {t}
    /\ Leave(t)
    /\ UNCHANGED <<kind, sem, mutex>>

\* task_sem_try_down, then one way or the other.
TryDown(t, taken, empty) ==
    LET s == calls[t].slot IN
    /\ IF sem[s].count > 0
       THEN sem' = [sem EXCEPT ![s].count = @ - 1] /\ StepTo(t, taken)
       ELSE StepTo(t, empty) /\ UNCHANGED sem
    /\ UNCHANGED <<kind, token, mutex, stale, late>>

SemDown(t) == InStep(t, "down") /\ TryDown(t, "free", "register")

\* Mutant: the thread waits without looking for a token again.
SemRegisterAndWait(t) ==
    /\ InStep(t, "register")
    /\ sem' = [sem EXCEPT ![calls[t].slot].waiters = @ + 1]
    /\ StepTo(t, "wait")
    /\ UNCHANGED <<kind, token, mutex, stale, late>>

SemRegister(t) ==
    /\ InStep(t, "register")
    /\ sem' = [sem EXCEPT ![calls[t].slot].waiters = @ + 1]
    /\ StepTo(t, "retry")
    /\ UNCHANGED <<kind, token, mutex, stale, late>>

SemRetry(t) == InStep(t, "retry") /\ TryDown(t, "deregister", "wait")

SemWait(t) ==
    /\ InStep(t, "wait") /\ token[calls[t].slot]
    /\ token' = [token EXCEPT ![calls[t].slot] = FALSE]
    /\ StepTo(t, "retry")
    /\ UNCHANGED <<kind, sem, mutex, stale, late>>

SemDeregister(t) ==
    /\ InStep(t, "deregister")
    /\ sem' = [sem EXCEPT ![calls[t].slot].waiters = @ - 1]
    /\ StepTo(t, "free")
    /\ UNCHANGED <<kind, token, mutex, stale, late>>

\* task_sem_free; it refuses while there are waiters.
SemFree(t) ==
    LET s == calls[t].slot IN
    /\ InStep(t, "free")
    /\ IF sem[s].waiters = 0 THEN Release(s)
                             ELSE UNCHANGED <<kind, token, stale, late>>
    /\ Leave(t)
    /\ UNCHANGED <<sem, mutex>>

----------------------------------------------------------------------------
(* Mutexes: task_mutex_alloc, _lock, _unlock_checked, _free                *)

MutexAlloc(t, s, recursive) ==
    /\ InStep(t, "idle") /\ Claim(s, "mutex", TRUE)
    /\ mutex' = [mutex EXCEPT ![s] = NewMutex(recursive)]
    /\ UNCHANGED <<sem, calls, stale, late>>

\* The owner, read without the token, is the caller only if the caller
\* wrote it.
Relocks(t, s) == mutex[s].recursive /\ mutex[s].owner = t

Lock(t, s) ==
    /\ InStep(t, "idle") /\ kind[s] = "mutex"
    /\ IF Relocks(t, s)
       THEN /\ mutex[s].count < MaxDepth
            /\ mutex' = [mutex EXCEPT ![s].count = @ + 1]
            /\ UNCHANGED calls
       ELSE Enter(t, "lock", s) /\ UNCHANGED mutex
    /\ UNCHANGED <<kind, token, sem, stale, late>>

LockWait(t) ==
    /\ InStep(t, "lock") /\ token[calls[t].slot]
    /\ token' = [token EXCEPT ![calls[t].slot] = FALSE]
    /\ StepTo(t, "own")
    /\ UNCHANGED <<kind, sem, mutex, stale, late>>

LockOwn(t) ==
    LET s == calls[t].slot IN
    /\ InStep(t, "own")
    /\ mutex' = [mutex EXCEPT ![s] = [mutex[s] EXCEPT !.owner = t, !.count = 1]]
    /\ Leave(t)
    /\ UNCHANGED <<kind, token, sem, stale, late>>

Unlocked(t, s) ==
    IF mutex[s].recursive /\ mutex[s].count > 1
    THEN mutex' = [mutex EXCEPT ![s].count = @ - 1] /\ UNCHANGED calls
    ELSE /\ mutex' = [mutex EXCEPT ![s] = [mutex[s] EXCEPT !.owner = NoOne, !.count = 0]]
         /\ Enter(t, "unlock", s)

\* Mutant: unlock does not ask whose the mutex is.
UnlockUnchecked(t, s) ==
    /\ InStep(t, "idle") /\ kind[s] = "mutex"
    /\ Unlocked(t, s)
    /\ UNCHANGED <<kind, token, sem, stale, late>>

\* An unlock by a thread that is not the owner is refused.
Unlock(t, s) ==
    /\ InStep(t, "idle") /\ kind[s] = "mutex"
    /\ IF mutex[s].owner # t \/ mutex[s].count <= 0
       THEN UNCHANGED <<mutex, calls>> ELSE Unlocked(t, s)
    /\ UNCHANGED <<kind, token, sem, stale, late>>

UnlockSignal(t) ==
    /\ InStep(t, "unlock")
    /\ token' = [token EXCEPT ![calls[t].slot] = TRUE]
    /\ Leave(t)
    /\ UNCHANGED <<kind, sem, mutex, stale, late>>

\* Threads in a call on the mutex of s.
Users(s) == {t \in Callers : calls[t].slot = s /\ calls[t].pc \in {"lock", "own", "unlock"}}

\* task_mutex_free; it refuses an owned mutex.
MutexFree(t, s) ==
    /\ InStep(t, "idle") /\ kind[s] = "mutex" /\ Users(s) = {}
    /\ IF mutex[s].owner # NoOne \/ mutex[s].count # 0
       THEN UNCHANGED <<kind, token, stale, late>> ELSE Release(s)
    /\ UNCHANGED <<sem, mutex, calls>>

----------------------------------------------------------------------------
CallStep(t) == \/ SemUpTest(t) \/ SemUpSignal(t) \/ SemDown(t) \/ SemRegister(t)
               \/ SemRetry(t) \/ SemWait(t) \/ SemDeregister(t) \/ SemFree(t)
               \/ LockWait(t) \/ LockOwn(t) \/ UnlockSignal(t)

Call(t, s) == \/ SemAlloc(t, s) \/ SemUp(t, s) \/ Lock(t, s) \/ Unlock(t, s)
              \/ MutexFree(t, s) \/ \E r \in BOOLEAN : MutexAlloc(t, s, r)

PoolNext == \E t \in Callers : CallStep(t) \/ \E s \in PoolSlots : Call(t, s)

PoolSpec == PoolInit /\ [][PoolNext]_pool_vars

----------------------------------------------------------------------------
(* Properties                                                              *)

\* The threads that have taken the token of s and not given it back.
Holders(s) == {t \in Callers : \/ calls[t].slot = s /\ calls[t].pc \in {"own", "unlock"}
                               \/ mutex[s].owner = t}

(* A mutex has one token: it waits in the Notification, or one thread has  *)
(* it, so two threads never hold the mutex, with relocking, refused        *)
(* unlocks and slots that change their use (task_mutex_lock, _unlock).     *)
(* The exception is a slot that a task_sem_up of its former semaphore      *)
(* signalled after its reuse: that signal is a second token.               *)
MutexHasOneToken ==
    \A s \in PoolSlots : kind[s] = "mutex" /\ s \notin late =>
        IF token[s] THEN Holders(s) = {}
        ELSE \E t \in Callers : Holders(s) = {t}

(* A post is not lost: while the semaphore of a slot has a token and the   *)
(* thread that allocated it is about to wait or waits for it, a signal is  *)
(* in the Notification or a thread on its way to signal it (task_sem_up    *)
(* and task_sem_down, with late signals of a former semaphore about).      *)
PostNotLost ==
    \A s \in PoolSlots :
        sem[s].count > 0 /\ (\E t \in Callers : InStep(t, "wait") /\ calls[t].slot = s)
            => token[s] \/ Posters(s) # {}
=============================================================================
