---------------------------- MODULE HostThreads ----------------------------
(***************************************************************************)
(* The thread host operations of the child (lkl_task_host.c,               *)
(* task_thread_create, _detach, _exit and _join): a fixed table of thread  *)
(* slots, each with its own TCB, its join Notification and its column of   *)
(* the thread-local storage, reused for one thread after another.          *)
(*                                                                         *)
(* What the code does under the table spin lock is one action.  The start  *)
(* of the new thread, the read of the tid that create returns, the test of *)
(* "exited" and the wait in join, and every step of the finishing thread   *)
(* are outside the lock and interleave.                                    *)
(*                                                                         *)
(* LKL, which calls these operations, is external.  It joins a thread that *)
(* does not detach itself, possibly from two threads at once and possibly  *)
(* again after the thread is gone; it never joins one that detaches.       *)
(***************************************************************************)
EXTENDS ThreadParams

FirstTid == 2         \* 0 is no thread, 1 the initial one
Kinds == {"joined", "detaching"}

VARIABLES slot,       \* task_threads: used, tid, exited, join_claimed, detached
          ntfn,       \* per slot, the join Notification holds a signal
          tls,        \* per slot, some key holds a value for its tls_index
          next_tid,   \* task_next_tid
          run,        \* per slot, the thread on its TCB: where it is, its
                      \* current_tid, its kind, its cleanup pass
          call,       \* per client, the operation it is in
          joinable    \* the tids create has returned for threads to join

thread_vars == <<slot, ntfn, tls, next_tid, run, call, joinable>>

NewSlot(tid) == [used |-> TRUE, tid |-> tid, exited |-> FALSE,
                 join_claimed |-> FALSE, detached |-> FALSE]
FreedSlot(claimed) == [used |-> FALSE, tid |-> 0, exited |-> FALSE,
                       join_claimed |-> claimed, detached |-> FALSE]
EmptySlot == FreedSlot(FALSE)
NoRun == [pc |-> "off", tid |-> 0, kind |-> "joined", pass |-> 0]
Idle == [pc |-> "idle", slot |-> 0, tid |-> 0, kind |-> "joined"]

ThreadInit == /\ slot = [s \in Slots |-> EmptySlot]
              /\ ntfn = [s \in Slots |-> FALSE]
              /\ tls = [s \in Slots |-> FALSE]
              /\ next_tid = FirstTid
              /\ run = [s \in Slots |-> NoRun]
              /\ call = [c \in Clients |-> Idle]
              /\ joinable = {}

\* thread_by_tid_unlocked: the used slots of tid.
ThreadByTid(tid) == {s \in Slots : slot[s].used /\ slot[s].tid = tid}

CallTo(c, l) == call' = [call EXCEPT ![c].pc = l]
Return(c) == call' = [call EXCEPT ![c] = Idle]

----------------------------------------------------------------------------
(* task_thread_create                                                      *)

\* Mutant: any detached thread is reaped, finished or not.
ReapableRunning == {s \in Slots : slot[s].used /\ slot[s].detached}

\* Detached threads that have finished: create reaps all of them first.
Reapable == {s \in Slots : slot[s].used /\ slot[s].detached /\ slot[s].exited}

\* The slot create claims: the first that is free once the reaping is done.
Claimable == {s \in Slots : ~slot[s].used \/ s \in Reapable}
First(s) == s \in Claimable /\ \A t \in Claimable : s <= t

Reaped(table) == [s \in Slots |-> IF s \in Reapable THEN EmptySlot ELSE table[s]]

\* The critical section of create: finished detached threads are suspended
\* and their slots emptied, then a free slot is claimed with a fresh tid and
\* drained.  With no free slot create returns 0 and nothing changes.
Create(c, kind) ==
    /\ call[c].pc = "idle" /\ next_tid <= MaxTid
    /\ \E s \in Slots :
         /\ First(s)
         /\ slot' = [Reaped(slot) EXCEPT ![s] = NewSlot(next_tid)]
         /\ call' = [call EXCEPT ![c] = [pc |-> "start", slot |-> s,
                                         tid |-> next_tid, kind |-> kind]]
         /\ ntfn' = [t \in Slots |-> ntfn[t] /\ t \notin Reapable \cup {s}]
    /\ next_tid' = next_tid + 1
    /\ run' = [s \in Slots |-> IF s \in Reapable THEN NoRun ELSE run[s]]
    /\ UNCHANGED <<tls, joinable>>

\* sel4utils_start_thread sets the TCB going at the trampoline.
StartThread(c) ==
    /\ call[c].pc = "start"
    /\ run' = [run EXCEPT ![call[c].slot] =
                 [pc |-> "begin", tid |-> 0, kind |-> call[c].kind, pass |-> 0]]
    /\ CallTo(c, "return")
    /\ UNCHANGED <<slot, ntfn, tls, next_tid, joinable>>

\* It fails: create takes the lock again, gives the slot back, returns 0.
StartFails(c) ==
    /\ call[c].pc = "start"
    /\ slot' = [slot EXCEPT ![call[c].slot] =
                  [slot[call[c].slot] EXCEPT !.used = FALSE, !.tid = 0]]
    /\ Return(c)
    /\ UNCHANGED <<ntfn, tls, next_tid, run, joinable>>

\* "return selected->tid", read without the lock.  LKL keeps the tid of a
\* thread it will join.
CreateReturns(c) ==
    /\ call[c].pc = "return"
    /\ joinable' = IF call[c].kind = "joined"
                   THEN joinable \cup {slot[call[c].slot].tid} ELSE joinable
    /\ Return(c)
    /\ UNCHANGED <<slot, ntfn, tls, next_tid, run>>

----------------------------------------------------------------------------
(* The thread itself: trampoline, body, task_thread_complete               *)

At(s, l) == run[s].pc = l
RunTo(s, l) == run' = [run EXCEPT ![s].pc = l]

\* task_thread_trampoline: current_tid = slot->tid, then the body.
Trampoline(s) ==
    /\ At(s, "begin")
    /\ run' = [run EXCEPT ![s] = [run[s] EXCEPT !.pc = "body", !.tid = slot[s].tid]]
    /\ UNCHANGED <<slot, ntfn, tls, next_tid, call, joinable>>

\* task_tls_set by the body.
TlsSet(s) ==
    /\ At(s, "body") /\ ~tls[s]
    /\ tls' = [tls EXCEPT ![s] = TRUE]
    /\ UNCHANGED <<slot, ntfn, next_tid, run, call, joinable>>

\* task_thread_detach, by a thread that is not to be joined.
Detach(s) ==
    /\ At(s, "body") /\ run[s].kind = "detaching"
    /\ slot' = [t \in Slots |-> IF t \in ThreadByTid(run[s].tid)
                                THEN [slot[t] EXCEPT !.detached = TRUE]
                                ELSE slot[t]]
    /\ RunTo(s, "detached")
    /\ UNCHANGED <<ntfn, tls, next_tid, call, joinable>>

\* The body returns or calls task_thread_exit: task_thread_complete begins.
BodyEnds(s) ==
    /\ IF run[s].kind = "detaching" THEN At(s, "detached") ELSE At(s, "body")
    /\ RunTo(s, "cleanup")
    /\ UNCHANGED <<slot, ntfn, tls, next_tid, call, joinable>>

\* One pass of task_tls_cleanup takes every value of this thread.  Where a
\* destructor was called it may have set a value again, and there is another
\* pass; without a call, or after the last pass, the values left are cleared.
CleanupPass(s, again) ==
    /\ At(s, "cleanup")
    /\ again => tls[s]
    /\ IF again /\ run[s].pass + 1 < Passes
       THEN /\ run' = [run EXCEPT ![s].pass = @ + 1]
            /\ UNCHANGED tls
       ELSE /\ RunTo(s, "exit")
            /\ tls' = [tls EXCEPT ![s] = FALSE]
    /\ UNCHANGED <<slot, ntfn, next_tid, call, joinable>>

\* The store of slot->exited.
SetExited(s) ==
    /\ At(s, "exit")
    /\ slot' = [slot EXCEPT ![s].exited = TRUE]
    /\ RunTo(s, "signal")
    /\ UNCHANGED <<ntfn, tls, next_tid, call, joinable>>

\* seL4_Signal on the join Notification: a thread blocked on it goes on, or
\* the signal stays.
Waiting(s) == {c \in Clients : call[c].pc = "blocked" /\ call[c].slot = s}

\* Mutant: the thread suspends itself without a signal when nobody has
\* claimed the join yet.
SignalJoinClaimed(s) ==
    /\ At(s, "signal")
    /\ \/ /\ Waiting(s) = {}
          /\ UNCHANGED <<call, ntfn>>
       \/ /\ \E c \in Waiting(s) : CallTo(c, "reclaim")
          /\ UNCHANGED ntfn
    /\ RunTo(s, "suspend")
    /\ UNCHANGED <<slot, tls, next_tid, joinable>>

SignalJoin(s) ==
    /\ At(s, "signal")
    /\ \/ /\ Waiting(s) = {}
          /\ ntfn' = [ntfn EXCEPT ![s] = TRUE]
          /\ UNCHANGED call
       \/ /\ \E c \in Waiting(s) : CallTo(c, "reclaim")
          /\ UNCHANGED ntfn
    /\ RunTo(s, "suspend")
    /\ UNCHANGED <<slot, tls, next_tid, joinable>>

\* seL4_TCB_Suspend on itself.
SuspendSelf(s) ==
    /\ At(s, "suspend")
    /\ run' = [run EXCEPT ![s] = NoRun]
    /\ UNCHANGED <<slot, ntfn, tls, next_tid, call, joinable>>

----------------------------------------------------------------------------
(* task_thread_join                                                        *)

CanClaim(s) == ~slot[s].join_claimed /\ ~slot[s].detached

\* Look the tid up and claim the join, in one critical section.  Where there
\* is no such slot, join returns -1 and nothing changes.
JoinClaim(c, tid) ==
    /\ call[c].pc = "idle"
    /\ \E s \in ThreadByTid(tid) :
         /\ CanClaim(s)
         /\ slot' = [slot EXCEPT ![s].join_claimed = TRUE]
         /\ call' = [call EXCEPT ![c] = [pc |-> "test", slot |-> s,
                                         tid |-> tid, kind |-> "joined"]]
    /\ UNCHANGED <<ntfn, tls, next_tid, run, joinable>>

\* The load of slot->exited: poll if the thread is gone, wait if not.
JoinTest(c) ==
    /\ call[c].pc = "test"
    /\ CallTo(c, IF slot[call[c].slot].exited THEN "poll" ELSE "wait")
    /\ UNCHANGED <<slot, ntfn, tls, next_tid, run, joinable>>

\* seL4_Poll and seL4_Wait.
JoinPoll(c) ==
    /\ call[c].pc = "poll"
    /\ ntfn' = [ntfn EXCEPT ![call[c].slot] = FALSE]
    /\ CallTo(c, "reclaim")
    /\ UNCHANGED <<slot, tls, next_tid, run, joinable>>

JoinWait(c) ==
    /\ call[c].pc = "wait"
    /\ ntfn' = [ntfn EXCEPT ![call[c].slot] = FALSE]
    /\ CallTo(c, IF ntfn[call[c].slot] THEN "reclaim" ELSE "blocked")
    /\ UNCHANGED <<slot, tls, next_tid, run, joinable>>

\* Under the lock again: the slot is given back if it still is this
\* thread's, after its TCB is suspended; join_claimed is left.
JoinReclaim(c) ==
    /\ call[c].pc = "reclaim"
    /\ LET s == call[c].slot IN
         IF slot[s].used /\ slot[s].tid = call[c].tid
         THEN /\ slot' = [slot EXCEPT ![s] = FreedSlot(slot[s].join_claimed)]
              /\ run' = [run EXCEPT ![s] = NoRun]
         ELSE UNCHANGED <<slot, run>>
    /\ Return(c)
    /\ UNCHANGED <<ntfn, tls, next_tid, joinable>>

----------------------------------------------------------------------------
JoinStep(c) == JoinTest(c) \/ JoinPoll(c) \/ JoinWait(c) \/ JoinReclaim(c)

RunStep(s) == \/ Trampoline(s) \/ Detach(s) \/ BodyEnds(s)
              \/ \E again \in BOOLEAN : CleanupPass(s, again)
              \/ SetExited(s) \/ SignalJoin(s) \/ SuspendSelf(s)

ThreadNext == \/ \E c \in Clients : \/ \E kind \in Kinds : Create(c, kind)
                                    \/ StartThread(c) \/ StartFails(c)
                                    \/ CreateReturns(c)
                                    \/ \E tid \in joinable : JoinClaim(c, tid)
                                    \/ JoinStep(c)
              \/ \E s \in Slots : RunStep(s) \/ TlsSet(s)

\* Threads of one priority take turns, so each one that can go on does; a
\* thread's body ends (LKL's part).
ThreadFairness == /\ \A c \in Clients : WF_thread_vars(JoinStep(c))
                  /\ \A s \in Slots : WF_thread_vars(RunStep(s))

ThreadSafety == ThreadInit /\ [][ThreadNext]_thread_vars
ThreadSpec == ThreadSafety /\ ThreadFairness

----------------------------------------------------------------------------
SlotType == [used : BOOLEAN, tid : 0..MaxTid, exited : BOOLEAN,
             join_claimed : BOOLEAN, detached : BOOLEAN]

RunLabels == {"off", "begin", "body", "detached", "cleanup", "exit", "signal",
              "suspend"}

CallLabels == {"idle", "start", "return", "test", "poll", "wait", "blocked",
               "reclaim"}

RunType == [pc : RunLabels, tid : 0..MaxTid, kind : Kinds, pass : 0..Passes - 1]
CallType == [pc : CallLabels, slot : Slots \cup {0}, tid : 0..MaxTid, kind : Kinds]

\* Type invariant.
ThreadTypeOK == /\ slot \in [Slots -> SlotType]
                /\ ntfn \in [Slots -> BOOLEAN] /\ tls \in [Slots -> BOOLEAN]
                /\ next_tid \in FirstTid..MaxTid + 1
                /\ run \in [Slots -> RunType]
                /\ call \in [Clients -> CallType]
                /\ joinable \subseteq FirstTid..MaxTid

\* A join that claimed its thread finds the slot still that thread's, until
\* it gives it back itself; so no two joins of a thread both return 0.
JoinKeepsSlot ==
    \A c \in Clients : call[c].pc \in {"test", "poll", "wait", "blocked", "reclaim"} =>
        slot[call[c].slot].used /\ slot[call[c].slot].tid = call[c].tid

\* A thread runs in a slot that is its own, so no other thread shares its
\* TCB, its Notification or its column of the thread-local storage.
RunsInOwnSlot ==
    \A s \in Slots : run[s].pc \notin {"off", "begin"} =>
        slot[s].used /\ slot[s].tid = run[s].tid

\* What create returns for a thread that is to be joined is that thread's
\* tid, although it is read without the lock.
CreateReturnsJoinable ==
    \A c \in Clients : call[c].pc = "return" /\ call[c].kind = "joined" =>
        slot[call[c].slot].tid = call[c].tid

\* A slot is taken back only from a thread that has run its destructors and
\* announced its end: join and the reaper never suspend one that still works.
NeverCutShort ==
    [][\A s \in Slots : run[s].pc # "off" /\ run'[s].pc = "off" =>
           run[s].pc \in {"signal", "suspend"} /\ slot[s].exited /\ ~tls[s]]_thread_vars

\* A join that claimed its thread returns, whichever way its test of
\* "exited", the thread's end and its signal interleave.
JoinReturns == \A c \in Clients : call[c].pc = "test" ~> call[c].pc = "idle"
=============================================================================
