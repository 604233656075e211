----------------------------- MODULE ChildTimer -----------------------------
(***************************************************************************)
(* LKL's one-shot timer as the child implements it (lkl_task_host.c)       *)
(* composed with the manager's (TimerManager).  Client threads allocate,   *)
(* set and free the timer; the service thread waits on the Notification    *)
(* the manager signals and runs the callback, which may set the timer      *)
(* again.  A step is one access to the shared words, because the service   *)
(* thread does not take task_timer_lock.                                   *)
(*                                                                         *)
(* A request to the manager is one step: manager_lock serialises requests  *)
(* and the manager answers each before it takes the next.                  *)
(***************************************************************************)
EXTENDS TimerManager

CONSTANTS Clients,       \* threads that use the timer
          Service,       \* the service thread
          DeferMin,      \* TASK_TIMER_DEFER_MIN_NS
          MaxGen,        \* bound on task_timer_generation
          MaxLives       \* bound on the children started one after another

ASSUME ChildAssumption == /\ None \notin Clients \cup {Service}
                          /\ MaxLives \in Nat \ {0}
                          /\ 1..MaxLives \subseteq Children

VARIABLES life,          \* the running child, the name of its Notification
          serving,       \* no request of this child has failed
          timer_generation, armed_generation, clear_epoch,
          deadline_ns,   \* task_timer_deadline_ns, as ticks left
          allocated,     \* task_timer_allocated
          fn,            \* the allocation task_timer_fn belongs to, or 0
          callback_running,
          timer_lock,    \* holder of task_timer_lock_word, or None
          wake,          \* pending bit of the service thread's Notification
          svc,           \* the service thread: its place and its locals
          op,            \* the timer operation of each thread, and its locals
          calling,       \* the allocation whose callback is running, or 0
          allocs, freed, \* allocations made; the latest whose free returned
          given_up       \* the code let a deadline go: a setter deferred
                         \* between SvcClear and SvcEpoch, or the PIT failed

words == <<timer_generation, armed_generation, clear_epoch, deadline_ns,
           allocated, fn, callback_running, timer_lock>>
history == <<calling, allocs, freed, given_up>>
vars == <<mvars, words, wake, svc, op, history, life, serving>>

Threads == Clients \cup {Service}

NoOp == [pc |-> "idle", gen |-> 0, ns |-> 0, old |-> FALSE, epoch |-> 0,
         alloc |-> 0]
Asleep == [pc |-> "wait", gen |-> 0, left |-> 0]

Init == /\ MInit
        /\ life = 1 /\ serving = TRUE
        /\ timer_generation = 0 /\ armed_generation = 0 /\ clear_epoch = 0
        /\ deadline_ns = 0 /\ allocated = FALSE /\ fn = 0
        /\ callback_running = FALSE /\ timer_lock = None
        /\ wake = FALSE /\ svc = Asleep
        /\ op = [t \in Threads |-> NoOp]
        /\ calling = 0 /\ allocs = 0 /\ freed = 0 /\ given_up = FALSE

----------------------------------------------------------------------------
\* The callback runs on the service thread and may call the timer's operations.
Free(t) == /\ op[t].pc = "idle"
           /\ t = Service => svc.pc = "callback"
At(t, here) == op[t].pc = here
Go(t, there) == op' = [op EXCEPT ![t].pc = there]
Finish(t) == op' = [op EXCEPT ![t] = NoOp]

\* task_timer_alloc: lock, check, callback and generation
TimerAlloc(t) ==
    /\ t \in Clients /\ Free(t)
    /\ timer_lock = None /\ ~allocated
    /\ timer_generation < MaxGen
    /\ timer_lock' = t
    /\ allocs' = allocs + 1 /\ fn' = allocs + 1
    /\ timer_generation' = timer_generation + 1
    /\ Go(t, "alloc_clear")
    /\ UNCHANGED <<armed_generation, clear_epoch, deadline_ns, allocated,
                   callback_running, calling, freed, given_up, mvars, wake, svc, life,
                   serving>>

AllocClear(t) ==
    /\ At(t, "alloc_clear")
    /\ armed_generation' = 0
    /\ Go(t, "alloc_publish")
    /\ UNCHANGED <<timer_generation, clear_epoch, deadline_ns, allocated, fn,
                   callback_running, timer_lock, history, mvars, wake, svc,
                   life, serving>>

AllocPublish(t) ==
    /\ At(t, "alloc_publish")
    /\ allocated' = TRUE /\ timer_lock' = None
    /\ Finish(t)
    /\ UNCHANGED <<timer_generation, armed_generation, clear_epoch,
                   deadline_ns, fn, callback_running, history, mvars, wake,
                   svc, life, serving>>

----------------------------------------------------------------------------
\* task_timer_set_oneshot: lock, check and a new generation
SetOneshot(t, d) ==
    /\ Free(t) /\ timer_lock = None
    /\ allocated /\ timer_generation < MaxGen
    /\ timer_lock' = t
    /\ timer_generation' = timer_generation + 1
    /\ op' = [op EXCEPT ![t] = [NoOp EXCEPT !.pc = "set_epoch", !.ns = d,
                                            !.gen = timer_generation + 1]]
    /\ UNCHANGED <<armed_generation, clear_epoch, deadline_ns, allocated, fn,
                   callback_running, history, mvars, wake, svc, life,
                   serving>>

SetEpoch(t) ==
    /\ At(t, "set_epoch")
    /\ op' = [op EXCEPT ![t].pc = "set_old", ![t].epoch = clear_epoch]
    /\ UNCHANGED <<words, history, mvars, wake, svc, life, serving>>

SetOld(t) ==
    /\ At(t, "set_old")
    /\ op' = [op EXCEPT ![t].pc = "set_deadline",
                        ![t].old = armed_generation # 0]
    /\ UNCHANGED <<words, history, mvars, wake, svc, life, serving>>

\* Only a holder of the lock writes the deadline, so load and store are one
\* step.
SetDeadline(t) ==
    /\ At(t, "set_deadline")
    /\ op' = [op EXCEPT ![t].pc = "set_armed",
                        ![t].old = @ /\ deadline_ns <= op[t].ns]
    /\ deadline_ns' = op[t].ns
    /\ UNCHANGED <<timer_generation, armed_generation, clear_epoch, allocated,
                   fn, callback_running, timer_lock, history, mvars, wake,
                   svc, life, serving>>

SetArmed(t) ==
    /\ At(t, "set_armed")
    /\ armed_generation' = op[t].gen
    /\ Go(t, "set_defer")
    /\ UNCHANGED <<timer_generation, clear_epoch, deadline_ns, allocated, fn,
                   callback_running, timer_lock, history, mvars, wake, svc,
                   life, serving>>

\* Mutant: the earlier deadline need not be armed any more.
SetDeferAlways(t) ==
    /\ At(t, "set_defer")
    /\ timer_lock' = None
    /\ IF op[t].ns >= DeferMin THEN Finish(t) ELSE Go(t, "set_arm")
    /\ UNCHANGED <<timer_generation, armed_generation, clear_epoch,
                   deadline_ns, allocated, fn, callback_running, history,
                   mvars, wake, svc, life, serving>>

\* Leave the hardware to the timer that was armed, or ask for it.
SetDefer(t) ==
    LET defer == /\ op[t].ns >= DeferMin
                 /\ op[t].old
                 /\ clear_epoch = op[t].epoch
    IN /\ At(t, "set_defer")
       /\ timer_lock' = None
       /\ given_up' = (given_up \/ (defer /\ svc.pc = "epoch"))
       /\ IF defer THEN Finish(t) ELSE Go(t, "set_arm")
       /\ UNCHANGED <<timer_generation, armed_generation, clear_epoch,
                      deadline_ns, allocated, fn, callback_running, calling,
                      allocs, freed, mvars, wake, svc, life, serving>>

SetArm(t) ==
    /\ At(t, "set_arm") /\ serving
    /\ \E error \in BOOLEAN :
          /\ Arm(life, op[t].gen, op[t].ns, error)
          /\ serving' = ~error
          /\ IF error THEN Go(t, "set_undo") ELSE Finish(t)
    /\ UNCHANGED <<words, history, wake, svc, life>>

Disarm(g) == armed_generation' = IF armed_generation = g THEN 0
                                 ELSE armed_generation

SetUndo(t) ==
    /\ At(t, "set_undo")
    /\ Disarm(op[t].gen)
    /\ Finish(t)
    /\ UNCHANGED <<timer_generation, clear_epoch, deadline_ns, allocated, fn,
                   callback_running, timer_lock, history, mvars, wake, svc,
                   life, serving>>

----------------------------------------------------------------------------
\* task_timer_free; the callback never frees its own timer.
TimerFree(t) ==
    /\ t \in Clients /\ Free(t)
    /\ timer_lock = None /\ allocated
    /\ timer_generation < MaxGen
    /\ timer_lock' = t /\ allocated' = FALSE
    /\ Go(t, "free_generation")
    /\ UNCHANGED <<timer_generation, armed_generation, clear_epoch,
                   deadline_ns, fn, callback_running, history, mvars, wake,
                   svc, life, serving>>

FreeGeneration(t) ==
    /\ At(t, "free_generation")
    /\ timer_generation' = timer_generation + 1
    /\ op' = [op EXCEPT ![t].pc = "free_armed",
                        ![t].gen = timer_generation + 1]
    /\ UNCHANGED <<armed_generation, clear_epoch, deadline_ns, allocated, fn,
                   callback_running, timer_lock, history, mvars, wake, svc,
                   life, serving>>

FreeArmed(t) ==
    /\ At(t, "free_armed")
    /\ armed_generation' = 0
    /\ Go(t, "free_fn")
    /\ UNCHANGED <<timer_generation, clear_epoch, deadline_ns, allocated, fn,
                   callback_running, timer_lock, history, mvars, wake, svc,
                   life, serving>>

FreeFn(t) ==
    /\ At(t, "free_fn")
    /\ fn' = 0 /\ timer_lock' = None
    /\ op' = [op EXCEPT ![t].pc = "free_cancel", ![t].alloc = fn]
    /\ UNCHANGED <<timer_generation, armed_generation, clear_epoch,
                   deadline_ns, allocated, callback_running, history, mvars,
                   wake, svc, life, serving>>

FreeCancel(t) ==
    /\ At(t, "free_cancel") /\ serving
    /\ \E error \in BOOLEAN :
          Cancel(life, op[t].gen, error) /\ serving' = ~error
    /\ Go(t, "free_wait")
    /\ UNCHANGED <<words, history, wake, svc, life>>

Freed(t) == /\ freed' = Latest(freed, op[t].alloc)
            /\ Finish(t)
            /\ UNCHANGED <<words, calling, allocs, given_up, mvars, wake, svc, life,
                           serving>>

\* Mutant: free does not wait for a callback that is running.
FreeWithoutWait(t) == At(t, "free_wait") /\ Freed(t)

FreeWait(t) == At(t, "free_wait") /\ ~callback_running /\ Freed(t)

----------------------------------------------------------------------------
\* task_timer_service
Serve(here, next) == svc.pc = here /\ svc' = next
SleepAgain(here) == Serve(here, Asleep)
Move(here, there) == Serve(here, [svc EXCEPT !.pc = there])

SvcWait == /\ wake /\ wake' = FALSE
           /\ Move("wait", "armed")
           /\ UNCHANGED <<words, history, mvars, op, life, serving>>

SvcLoadArmed ==
    /\ IF armed_generation = 0
       THEN SleepAgain("armed")
       ELSE Serve("armed", [svc EXCEPT !.pc = "deadline",
                                       !.gen = armed_generation])
    /\ UNCHANGED <<words, history, mvars, op, wake, life, serving>>

SvcLoadDeadline ==
    /\ Serve("deadline", [svc EXCEPT !.pc = "compare", !.left = deadline_ns])
    /\ UNCHANGED <<words, history, mvars, op, wake, life, serving>>

\* Mutant: a wake-up is taken for the deadline.
SvcCompareSkipped ==
    /\ Move("compare", "clear")
    /\ UNCHANGED <<words, history, mvars, op, wake, life, serving>>

SvcCompare ==
    /\ Move("compare", IF svc.left > 0 THEN "rearm" ELSE "clear")
    /\ UNCHANGED <<words, history, mvars, op, wake, life, serving>>

\* Woken early: the rest of the time is asked of the manager again.
SvcRearm ==
    /\ serving
    /\ \E error \in BOOLEAN :
          /\ Arm(life, svc.gen, svc.left, error)
          /\ serving' = ~error
          /\ IF error THEN Move("rearm", "undo") ELSE SleepAgain("rearm")
    /\ UNCHANGED <<words, history, wake, op, life>>

SvcUndo ==
    /\ Disarm(svc.gen)
    /\ SleepAgain("undo")
    /\ UNCHANGED <<timer_generation, clear_epoch, deadline_ns, allocated, fn,
                   callback_running, timer_lock, history, mvars, op, wake,
                   life, serving>>

\* Due: the generation is claimed, unless it has been replaced.
SvcClear ==
    /\ Move("clear", IF armed_generation = svc.gen THEN "epoch" ELSE "armed")
    /\ Disarm(svc.gen)
    /\ UNCHANGED <<timer_generation, clear_epoch, deadline_ns, allocated, fn,
                   callback_running, timer_lock, history, mvars, op, wake,
                   life, serving>>

SvcEpoch ==
    /\ clear_epoch' = clear_epoch + 1
    /\ Move("epoch", "running")
    /\ UNCHANGED <<timer_generation, armed_generation, deadline_ns, allocated,
                   fn, callback_running, timer_lock, history, mvars, op, wake,
                   life, serving>>

SvcRunning ==
    /\ callback_running' = TRUE
    /\ Move("running", "check")
    /\ UNCHANGED <<timer_generation, armed_generation, clear_epoch,
                   deadline_ns, allocated, fn, timer_lock, history, mvars, op,
                   wake, life, serving>>

SvcCheck ==
    /\ Move("check", IF timer_generation = svc.gen THEN "allocated"
                     ELSE "done")
    /\ UNCHANGED <<words, history, mvars, op, wake, life, serving>>

SvcCheckAllocated ==
    /\ Move("allocated", IF allocated THEN "call" ELSE "done")
    /\ UNCHANGED <<words, history, mvars, op, wake, life, serving>>

SvcCall ==
    /\ Move("call", IF fn # 0 THEN "callback" ELSE "done")
    /\ calling' = fn
    /\ UNCHANGED <<words, allocs, freed, given_up, mvars, op, wake, life,
                   serving>>

SvcReturn ==
    /\ op[Service].pc = "idle"
    /\ Move("callback", "done")
    /\ calling' = 0
    /\ UNCHANGED <<words, allocs, freed, given_up, mvars, op, wake, life,
                   serving>>

SvcDone ==
    /\ callback_running' = FALSE
    /\ SleepAgain("done")
    /\ UNCHANGED <<timer_generation, armed_generation, clear_epoch,
                   deadline_ns, allocated, fn, timer_lock, history, mvars, op,
                   wake, life, serving>>

----------------------------------------------------------------------------
\* The manager's IRQ thread; a signal on a destroyed child's Notification is
\* lost.
Interrupt == /\ \/ /\ HandleIrq
                   /\ given_up' = (given_up \/ (armed /\ ~armed'
                                             /\ capture'.child = None))
                \/ PitExpire /\ UNCHANGED given_up
             /\ UNCHANGED <<words, calling, allocs, freed, svc, op, wake, life,
                            serving>>

Signal == /\ DeliverIrq
          /\ wake' = (wake \/ capture.child = life)
          /\ UNCHANGED <<words, history, svc, op, life, serving>>

\* The manager's network worker shares the PIT.
Network == NetworkStep /\ UNCHANGED <<words, history, svc, op, wake, life,
                                     serving>>

Tick == /\ Elapse
        /\ deadline_ns' = Less(deadline_ns)
        /\ svc' = IF svc.pc = "compare" THEN [svc EXCEPT !.left = Less(@)]
                  ELSE svc
        /\ UNCHANGED <<timer_generation, armed_generation, clear_epoch,
                       allocated, fn, callback_running, timer_lock, history,
                       op, wake, life, serving>>

\* The child faults or is given up, is destroyed, and another is started.
Restart ==
    /\ life < MaxLives
    /\ Deactivate
    /\ life' = life + 1 /\ serving' = TRUE
    /\ timer_generation' = 0 /\ armed_generation' = 0 /\ clear_epoch' = 0
    /\ deadline_ns' = 0 /\ allocated' = FALSE /\ fn' = 0
    /\ callback_running' = FALSE /\ timer_lock' = None
    /\ wake' = FALSE /\ svc' = Asleep
    /\ op' = [t \in Threads |-> NoOp]
    /\ calling' = 0 /\ allocs' = 0 /\ freed' = 0 /\ given_up' = FALSE

OpStep(t) == \/ AllocClear(t) \/ AllocPublish(t)
             \/ SetEpoch(t) \/ SetOld(t) \/ SetDeadline(t) \/ SetArmed(t)
             \/ SetDefer(t) \/ SetArm(t) \/ SetUndo(t)
             \/ FreeGeneration(t) \/ FreeArmed(t) \/ FreeFn(t)
             \/ FreeCancel(t) \/ FreeWait(t)

SvcStep == \/ SvcWait \/ SvcLoadArmed \/ SvcLoadDeadline \/ SvcCompare
           \/ SvcRearm \/ SvcUndo \/ SvcClear \/ SvcEpoch \/ SvcRunning
           \/ SvcCheck \/ SvcCheckAllocated \/ SvcCall \/ SvcReturn
           \/ SvcDone

Next == \/ \E t \in Threads : \/ TimerAlloc(t) \/ TimerFree(t)
                              \/ \E d \in Timeouts : SetOneshot(t, d)
                              \/ OpStep(t)
        \/ SvcStep \/ Interrupt \/ Signal \/ Network \/ Tick \/ Restart

Safety == Init /\ [][Next]_vars

(* Every thread of the child runs (round robin at one priority), an        *)
(* operation once begun goes on, time passes and the interrupts come; no   *)
(* one has to call the timer or to restart the child.                      *)
Spec == /\ Safety
        /\ \A t \in Threads : WF_vars(OpStep(t))
        /\ WF_vars(SvcStep) /\ WF_vars(Interrupt) /\ WF_vars(Signal)
        /\ WF_vars(Tick)

----------------------------------------------------------------------------

(* The callback barrier of task_timer_free: once free has returned, the    *)
(* callback of the allocation it freed neither runs nor starts, whatever   *)
(* wake-up, claim or check the service thread was in the middle of.        *)
NoCallbackAfterFree == calling # 0 => calling > freed

(* A timer never fires early: when the service thread accepts a generation *)
(* for the callback, the deadline of that generation has passed, however   *)
(* the wake-up that led there came about (an early or late interrupt, the  *)
(* deadline of an earlier setting).                                        *)
NeverEarly == [][svc.pc = "check" /\ svc'.pc = "allocated"
                    => deadline_ns = 0]_vars

AtRest == /\ serving /\ svc.pc = "wait" /\ ~wake
          /\ \A t \in Threads : op[t].pc = "idle"

(* A timer that is set is not forgotten: when the threads are at rest and  *)
(* a generation is armed, the manager holds a deadline for it or is about  *)
(* to signal the service thread.                                           *)
TimerNotLost == AtRest /\ armed_generation # 0
                  => (armed /\ child_ntfn = life) \/ capture.child = life

(* Every generation that is armed is eventually cleared (fired, replaced   *)
(* or cancelled), if the network worker does not go on asking for the PIT  *)
(* for ever: armed_generation is 0 again and again, or it goes on changing *)
(* (<<TRUE>>_armed_generation is a step that changes it).  Excepted are the race that TimerNotLost meets, a setter that *)
(* deferred after task_timer_service had cleared the generation and before *)
(* it advanced the epoch, and a PIT that fails in handle_timer_irq.  In    *)
(* particular the child started after another was destroyed gets its       *)
(* timer interrupts.                                                       *)
EveryTimerEnds ==
    <>[]~network_armed =>
        \/ []<>(armed_generation = 0 \/ given_up \/ ~serving)
        \/ []<><<TRUE>>_armed_generation
=============================================================================
