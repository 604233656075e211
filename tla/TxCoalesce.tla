----------------------------- MODULE TxCoalesce -----------------------------
(***************************************************************************)
(* The child's transmit queue (lkl_task_net.c): LKL's senders in           *)
(* task_net_tx, the worker that batches what they queued and hands it to   *)
(* the manager, the coalescing thread that ends the worker's wait for a    *)
(* full batch, and luna_lkl_task_net_add and _finish, which start and stop *)
(* the two threads.                                                        *)
(*                                                                         *)
(* The semaphores are counters (HostSem shows that the host's behave so)   *)
(* and a critical section of tx_mutex is one step.  The hand-over of a     *)
(* batch is one step here and is modelled in NetTx, which also shows that  *)
(* the manager accepts some of it.  Packets are counted, not named, and    *)
(* the adaptive delay is left out: nanosleep takes any time at all.        *)
(***************************************************************************)
EXTENDS Integers, FiniteSets

CONSTANTS Senders,      \* LKL threads that transmit
          QueueCount,   \* LUNA_NET_CHILD_TX_QUEUE_COUNT
          BatchSlots,   \* LUNA_NET_BATCH_SLOTS
          MaxPackets    \* bound: packets sent in all

ASSUME CoalesceAssumption == /\ IsFiniteSet(Senders)
                             /\ QueueCount \in Nat \ {0, 1}
                             /\ BatchSlots \in Nat \ {0}
                             /\ MaxPackets \in Nat

VARIABLES queued,      \* task_net_tx_queued: packets between tail and head
          enqueued,    \* packets queued so far
          sent,        \* packets the manager has accepted so far
          sem,         \* tx_work_sem, tx_free_sem, tx_drain_sem, coalesce_sem
          gen,         \* coalesce_generation
          expired,     \* coalesce_expired_generation
          flags,       \* tx_stop, coalesce_stop, tx_error
          spc,         \* per sender, where it is in task_net_tx
          worker,      \* task_net_tx_worker: where it is, its generation, the
                       \* size of its batch, then what was accepted
          timer,       \* task_net_coalesce_worker: where it is, its generation
          main,        \* the main thread, in net_add and net_finish
          promised     \* packets queued when net_finish was called

vars == <<queued, enqueued, sent, sem, gen, expired, flags, spc, worker, timer,
          main, promised>>
queue == <<queued, enqueued, sent>>
coalesce == <<gen, expired>>

Init == /\ queued = 0 /\ enqueued = 0 /\ sent = 0
        /\ sem = [work |-> 0, free |-> QueueCount - 1, drain |-> 0, timer |-> 0]
        /\ gen = 0 /\ expired = 0
        /\ flags = [tx_stop |-> FALSE, coalesce_stop |-> FALSE, tx_error |-> FALSE]
        /\ spc = [p \in Senders |-> "idle"]
        /\ worker = [pc |-> "down", gen |-> 0, count |-> 0, empty |-> FALSE]
        /\ timer = [pc |-> "down", gen |-> 0]
        /\ main = "add"
        /\ promised = 0

\* sem_up, sem_down and luna_lkl_task_sem_signal_once.
Up(s, n) == sem' = [sem EXCEPT ![s] = @ + n]
Down(s) == sem[s] > 0 /\ sem' = [sem EXCEPT ![s] = @ - 1]
SignalOnce(s) == sem' = [sem EXCEPT ![s] = IF @ = 0 THEN 1 ELSE @]

Raise(f) == flags' = [flags EXCEPT ![f] = TRUE]
SenderTo(p, l) == spc' = [spc EXCEPT ![p] = l]
WorkerTo(l) == worker' = [worker EXCEPT !.pc = l]
TimerTo(l) == timer' = [timer EXCEPT !.pc = l]

\* task_net_signal_error, which wakes whoever waits; "places" are given back
\* besides.
SignalError(places) ==
    /\ Raise("tx_error")
    /\ sem' = [sem EXCEPT !.free = @ + places + QueueCount, !.drain = @ + 1]

----------------------------------------------------------------------------
(* task_net_tx                                                             *)

\* Take a place of the queue; wait for one if it is full.
SendTake(p) ==
    /\ spc[p] = "idle" /\ main \notin {"add", "done"}
    /\ enqueued + Cardinality({q \in Senders : spc[q] \in {"test", "enqueue"}})
         < MaxPackets
    /\ Down("free")
    /\ SenderTo(p, "test")
    /\ UNCHANGED <<queue, coalesce, flags, worker, timer, main, promised>>

\* The load of tx_error and tx_stop: the place is given back and the packet
\* refused once the queue is broken or stopping.
SendTest(p) ==
    /\ spc[p] = "test"
    /\ IF flags.tx_error \/ flags.tx_stop
       THEN Up("free", 1) /\ SenderTo(p, "idle")
       ELSE SenderTo(p, "enqueue") /\ UNCHANGED sem
    /\ UNCHANGED <<queue, coalesce, flags, worker, timer, main, promised>>

\* Queue the packet.  A full queue in spite of the place taken is an error.
SendEnqueue(p) ==
    /\ spc[p] = "enqueue"
    /\ IF queued = QueueCount - 1
       THEN /\ SignalError(1)
            /\ SenderTo(p, "idle")
            /\ UNCHANGED queue
       ELSE /\ queued' = queued + 1 /\ enqueued' = enqueued + 1
            /\ SenderTo(p, "signal")
            /\ UNCHANGED <<sent, sem, flags>>
    /\ UNCHANGED <<coalesce, worker, timer, main, promised>>

SendSignal(p) ==
    /\ spc[p] = "signal"
    /\ SignalOnce("work")
    /\ SenderTo(p, "idle")
    /\ UNCHANGED <<queue, coalesce, flags, worker, timer, main, promised>>

----------------------------------------------------------------------------
(* task_net_coalesce_worker                                                *)

TimerDown ==
    /\ timer.pc = "down"
    /\ Down("timer")
    /\ TimerTo("test")
    /\ UNCHANGED <<queue, coalesce, flags, spc, worker, main, promised>>

\* Stop, or load the generation to time and go to sleep.
TimerLoad ==
    /\ timer.pc = "test"
    /\ timer' = IF flags.coalesce_stop THEN [pc |-> "gone", gen |-> 0]
                ELSE [pc |-> "sleep", gen |-> gen]
    /\ UNCHANGED <<queue, coalesce, sem, flags, spc, worker, main, promised>>

\* nanosleep is over: nothing to do if the worker has gone on meanwhile.
TimerWakes ==
    /\ timer.pc = "sleep"
    /\ timer' = IF timer.gen = gen THEN [pc |-> "expire", gen |-> gen]
                ELSE [pc |-> "down", gen |-> 0]
    /\ UNCHANGED <<queue, coalesce, sem, flags, spc, worker, main, promised>>

TimerExpires ==
    /\ timer.pc = "expire"
    /\ expired' = timer.gen
    /\ timer' = [pc |-> "signal", gen |-> 0]
    /\ UNCHANGED <<queue, gen, sem, flags, spc, worker, main, promised>>

\* nanosleep fails: the error is noted and this thread ends.
TimerFails ==
    /\ timer.pc = "sleep"
    /\ Raise("tx_error")
    /\ timer' = [pc |-> "last_signal", gen |-> 0]
    /\ UNCHANGED <<queue, coalesce, sem, spc, worker, main, promised>>

TimerSignals ==
    /\ timer.pc \in {"signal", "last_signal"}
    /\ SignalOnce("work")
    /\ TimerTo(IF timer.pc = "signal" THEN "down" ELSE "gone")
    /\ UNCHANGED <<queue, coalesce, flags, spc, worker, main, promised>>

----------------------------------------------------------------------------
(* task_net_tx_worker                                                      *)

\* sem_down(tx_work_sem), at the top of the loop or inside a coalescing wait.
WorkerDown ==
    /\ worker.pc \in {"down", "again"}
    /\ Down("work")
    /\ WorkerTo(IF worker.pc = "down" THEN "test" ELSE "retest")
    /\ UNCHANGED <<queue, coalesce, flags, spc, timer, main, promised>>

\* The load of tx_stop after it.
WorkerTest ==
    /\ worker.pc \in {"test", "retest"}
    /\ WorkerTo(IF flags.tx_stop THEN "gone"
                ELSE IF worker.pc = "test" THEN "look" ELSE "full")
    /\ UNCHANGED <<queue, coalesce, sem, flags, spc, timer, main, promised>>

\* Nothing queued: a spurious wakeup.  A full batch: no wait.
WorkerLook ==
    /\ worker.pc = "look"
    /\ WorkerTo(IF queued = 0 THEN "down"
                ELSE IF queued < BatchSlots THEN "arm" ELSE "copy")
    /\ UNCHANGED <<queue, coalesce, sem, flags, spc, timer, main, promised>>

\* Fewer than a batch: a wait with a generation of its own begins.
WorkerArm ==
    /\ worker.pc = "arm"
    /\ gen' = gen + 1
    /\ worker' = [worker EXCEPT !.pc = "forget", !.gen = gen + 1]
    /\ UNCHANGED <<queue, expired, sem, flags, spc, timer, main, promised>>

\* Mutant: the coalescing thread is woken first.
WorkerPrepareLate ==
    /\ \/ /\ worker.pc = "forget"
          /\ SignalOnce("timer")
          /\ WorkerTo("kick")
          /\ UNCHANGED expired
       \/ /\ worker.pc = "kick"
          /\ expired' = 0
          /\ WorkerTo("full")
          /\ UNCHANGED sem
    /\ UNCHANGED <<queue, gen, flags, spc, timer, main, promised>>

\* The expiry of the last wait is forgotten, and then the coalescing thread
\* is woken.
WorkerPrepare ==
    /\ \/ /\ worker.pc = "forget"
          /\ expired' = 0
          /\ WorkerTo("kick")
          /\ UNCHANGED sem
       \/ /\ worker.pc = "kick"
          /\ SignalOnce("timer")
          /\ WorkerTo("full")
          /\ UNCHANGED expired
    /\ UNCHANGED <<queue, gen, flags, spc, timer, main, promised>>

\* A full batch ends the wait; the generation then moves on, so that the
\* sleeping timer does nothing.
WorkerFull ==
    /\ worker.pc = "full"
    /\ IF queued >= BatchSlots
       THEN WorkerTo("copy") /\ gen' = IF gen = worker.gen THEN gen + 1 ELSE gen
       ELSE WorkerTo("expired") /\ UNCHANGED gen
    /\ UNCHANGED <<queue, expired, sem, flags, spc, timer, main, promised>>

\* So does the expiry of this wait's own generation; otherwise wait again.
WorkerExpired ==
    /\ worker.pc = "expired"
    /\ WorkerTo(IF expired = worker.gen THEN "copy" ELSE "again")
    /\ UNCHANGED <<queue, coalesce, sem, flags, spc, timer, main, promised>>

\* Copy at most BatchSlots packets to the shared window.
WorkerCopy ==
    /\ worker.pc = "copy"
    /\ worker' = [worker EXCEPT !.pc = IF queued = 0 THEN "down" ELSE "handover",
                    !.gen = 0, !.count = IF queued < BatchSlots THEN queued ELSE BatchSlots]
    /\ UNCHANGED <<queue, coalesce, sem, flags, spc, timer, main, promised>>

\* The manager takes the first "accepted" packets of the batch (external to
\* this module; NetTx).  More than the batch is its answer to a child that it
\* has deactivated: the worker notes the error and ends.
WorkerHandOver(accepted) ==
    /\ worker.pc = "handover"
    /\ IF accepted > worker.count
       THEN /\ SignalError(0)
            /\ worker' = [worker EXCEPT !.pc = "broken", !.count = 0]
            /\ UNCHANGED sent
       ELSE /\ worker' = [worker EXCEPT !.pc = "advance", !.count = accepted]
            /\ sent' = sent + accepted
            /\ UNCHANGED <<sem, flags>>
    /\ UNCHANGED <<queued, enqueued, coalesce, spc, timer, main, promised>>

WorkerAdvance ==
    /\ worker.pc = "advance"
    /\ queued' = queued - worker.count
    /\ worker' = [worker EXCEPT !.pc = "release", !.empty = queued = worker.count]
    /\ UNCHANGED <<enqueued, sent, coalesce, sem, flags, spc, timer, main, promised>>

\* The places of the accepted packets are given back.
WorkerRelease ==
    /\ worker.pc = "release"
    /\ Up("free", worker.count)
    /\ worker' = [worker EXCEPT !.pc = "tell", !.count = 0]
    /\ UNCHANGED <<queue, coalesce, flags, spc, timer, main, promised>>

\* Tell whoever drains the queue that it was empty, or go on at once.
WorkerTell ==
    /\ worker.pc = "tell"
    /\ IF worker.empty THEN Up("drain", 1) ELSE SignalOnce("work")
    /\ worker' = [worker EXCEPT !.pc = "down", !.empty = FALSE]
    /\ UNCHANGED <<queue, coalesce, flags, spc, timer, main, promised>>

----------------------------------------------------------------------------
(* The main thread: the end of luna_lkl_task_net_add, and                  *)
(* luna_lkl_task_net_finish                                                *)

\* lkl_netdev_add succeeds, or the threads are stopped again.
NetAdd(ok) ==
    /\ main = "add"
    /\ main' = IF ok THEN "up" ELSE "stop"
    /\ UNCHANGED <<queue, coalesce, sem, flags, spc, worker, timer, promised>>

\* Finish wakes the worker and waits for its word unless the queue is empty.
Finish ==
    /\ main = "up"
    /\ promised' = enqueued
    /\ main' = IF queued = 0 THEN "verify" ELSE "wake"
    /\ UNCHANGED <<queue, coalesce, sem, flags, spc, worker, timer>>

FinishWakes ==
    /\ main = "wake"
    /\ SignalOnce("work")
    /\ main' = "drain"
    /\ UNCHANGED <<queue, coalesce, flags, spc, worker, timer, promised>>

FinishDrains ==
    /\ main = "drain"
    /\ Down("drain")
    /\ main' = "verify"
    /\ UNCHANGED <<queue, coalesce, flags, spc, worker, timer, promised>>

\* Mutant: the word of the worker is taken for an empty queue.
FinishTrusts ==
    /\ main = "verify"
    /\ main' = IF flags.tx_error THEN "failed" ELSE "stop"
    /\ UNCHANGED <<queue, coalesce, sem, flags, spc, worker, timer, promised>>

\* A queue that is not empty after all, or an error: finish returns -1.
FinishVerifies ==
    /\ main = "verify"
    /\ main' = IF queued > 0 \/ flags.tx_error THEN "failed" ELSE "stop"
    /\ UNCHANGED <<queue, coalesce, sem, flags, spc, worker, timer, promised>>

\* tx_stop and coalesce_stop, each read by one of the threads; a wakeup for
\* each thread; and the two joins.
StopFlags ==
    /\ main = "stop"
    /\ flags' = [flags EXCEPT !.tx_stop = TRUE, !.coalesce_stop = TRUE]
    /\ main' = "stop_wake"
    /\ UNCHANGED <<queue, coalesce, sem, spc, worker, timer, promised>>

\* Mutant: only the worker is woken.
StopWakesOne ==
    /\ main = "stop_wake"
    /\ SignalOnce("work")
    /\ main' = "join"
    /\ UNCHANGED <<queue, coalesce, flags, spc, worker, timer, promised>>

StopWakes ==
    /\ main = "stop_wake"
    /\ sem' = [sem EXCEPT !.work = IF @ = 0 THEN 1 ELSE @,
                          !.timer = IF @ = 0 THEN 1 ELSE @]
    /\ main' = "join"
    /\ UNCHANGED <<queue, coalesce, flags, spc, worker, timer, promised>>

StopJoins ==
    /\ main = "join"
    /\ worker.pc \in {"gone", "broken"} /\ timer.pc = "gone"
    /\ main' = "done"
    /\ UNCHANGED <<queue, coalesce, sem, flags, spc, worker, timer, promised>>

----------------------------------------------------------------------------
SendStep(p) == SendTake(p) \/ SendTest(p) \/ SendEnqueue(p) \/ SendSignal(p)

TimerStep == \/ TimerDown \/ TimerLoad \/ TimerWakes \/ TimerExpires
             \/ TimerSignals

WorkerStep == \/ WorkerDown \/ WorkerTest \/ WorkerLook \/ WorkerArm
              \/ WorkerPrepare \/ WorkerFull \/ WorkerExpired
              \/ WorkerCopy \/ \E a \in 1..worker.count + 1 : WorkerHandOver(a)
              \/ WorkerAdvance \/ WorkerRelease \/ WorkerTell

MainStep == \/ FinishWakes \/ FinishDrains \/ FinishVerifies
            \/ StopFlags \/ StopWakes \/ StopJoins

Next == \/ \E p \in Senders : SendStep(p)
        \/ TimerStep \/ TimerFails
        \/ WorkerStep
        \/ (\E ok \in BOOLEAN : NetAdd(ok)) \/ Finish \/ MainStep

\* Every thread that can go on does so in its turn, a sleep ends, and the
\* manager accepts something of every batch or refuses it (NetTx's
\* BatchHandedOver).
Fairness == /\ \A p \in Senders : WF_vars(SendTest(p) \/ SendEnqueue(p)
                                          \/ SendSignal(p))
            /\ WF_vars(TimerStep) /\ WF_vars(WorkerStep) /\ WF_vars(MainStep)

Spec == Init /\ [][Next]_vars /\ Fairness

----------------------------------------------------------------------------

\* The free semaphore counts the free places of the queue, whatever senders
\* and worker are doing: together with the places taken and the packets
\* queued they make up the queue, and after a batch was refused a second one,
\* which is there to wake the senders and to be given back.  Nobody finds the
\* queue full in spite of a place.
PlacesBalance ==
    sem.free + Cardinality({p \in Senders : spc[p] \in {"test", "enqueue"}})
      + queued + (IF worker.pc = "release" THEN worker.count ELSE 0)
      = QueueCount - 1 + (IF worker.pc = "broken" THEN QueueCount ELSE 0)

\* A net_finish that stops the queue without an error has seen every packet
\* queued before it was called handed over, however many earlier drains have
\* left their tokens in tx_drain_sem.
FinishLosesNothing ==
    main \in {"stop", "stop_wake", "join", "done"} =>
        sent >= promised

\* The queue is accounted for: its places add up at every moment, and
\* net_finish leaves no packet in it.
QueueAccounted == PlacesBalance /\ FinishLosesNothing

\* Queued packets are handed to the manager, by the expiry of the coalescing
\* wait if by nothing else, unless the queue is stopped, a sleep failed or a
\* batch was refused: no packet stays behind for ever.
PacketsLeave ==
    []<>(enqueued = sent \/ flags.tx_stop \/ flags.tx_error)

\* net_finish returns, and so does a net_add that fails: the threads they
\* join have been woken, the main thread is not inside either for ever, and a
\* refused batch ends the wait for the queue too.  A coalescing thread that a
\* failed sleep ended is excepted: see the README.
MainReturns ==
    []<>(\/ main \in {"add", "up", "done", "failed"}
         \/ timer.pc \in {"last_signal", "gone"} /\ ~flags.coalesce_stop)
=============================================================================
