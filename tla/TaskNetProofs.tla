--------------------------- MODULE TaskNetProofs ---------------------------
(***************************************************************************)
(* The child's network (lkl_task_net.c), for every number of senders and   *)
(* every size of the queues, the ring, the window and the batches: the     *)
(* transmit queue keeps its counts, orphans no packet and stops its two    *)
(* threads, and LKL receives the packets the manager accepted whole and in *)
(* order.                                                                  *)
(***************************************************************************)
EXTENDS TxCoalesce, NetRx, FiniteSetTheorems, TLAPS

WorkerAt == {"down", "again", "test", "retest", "look", "arm", "forget", "kick", "full",
             "expired", "copy", "handover", "advance", "release", "tell", "gone",
             "broken"}
SenderAt == {"idle", "test", "enqueue", "signal"}
Stopping == {"stop", "stop_wake", "join", "done"}
FlagType == [tx_stop : BOOLEAN, coalesce_stop : BOOLEAN, tx_error : BOOLEAN]

Types ==
    /\ gen \in Nat /\ queued \in Nat /\ enqueued \in Nat /\ sent \in Nat /\ promised \in Nat
    /\ sem \in [work : Nat, free : Nat, drain : Nat, timer : Nat]
    /\ spc \in [Senders -> SenderAt] /\ flags \in FlagType
    /\ worker \in [pc : WorkerAt, gen : Nat, count : Nat, empty : BOOLEAN]

\* The senders that have a place and have not queued their packet.
Placing == {p \in Senders : spc[p] \in {"test", "enqueue"}}

\* What the worker has handed over is still queued until it advances.
Handed == IF worker.pc = "advance" THEN worker.count ELSE 0
Counted ==
    /\ sent + queued = enqueued + Handed
    /\ worker.pc \in {"handover", "advance"} => worker.count \in 1..queued
    /\ promised <= enqueued
    /\ main = "add" => promised = 0

\* The senders that go on to queue their packet have places of the queue, not
\* of those that a refused batch gives out to wake the others.
Queuing == {p \in Senders : spc[p] = "enqueue"}
Refused ==
    /\ worker.pc = "broken" => flags.tx_error
    /\ Cardinality(Queuing) + queued <= QueueCount - 1

CInv == Types /\ Counted /\ Refused /\ QueueAccounted

----------------------------------------------------------------------------

\* A sender that goes from idle to its place, and one that leaves it, count
\* one more and one less in Placing.
LEMMA PlacingChanges ==
    ASSUME IsFiniteSet(Senders), spc \in [Senders -> SenderAt],
           NEW p \in Senders, NEW l, spc' = [spc EXCEPT ![p] = l]
    PROVE  /\ Cardinality(Placing) \in Nat
           /\ (spc[p] \in {"test", "enqueue"} <=> l \in {"test", "enqueue"})
                => Cardinality(Placing') = Cardinality(Placing)
           /\ spc[p] \notin {"test", "enqueue"} /\ l \in {"test", "enqueue"}
                => Cardinality(Placing') = Cardinality(Placing) + 1
           /\ spc[p] \in {"test", "enqueue"} /\ l \notin {"test", "enqueue"}
                => Cardinality(Placing') = Cardinality(Placing) - 1
<1>1. IsFiniteSet(Placing) /\ Cardinality(Placing) \in Nat
  <2>1. Placing \subseteq Senders
    BY Zenon DEF Placing
  <2> QED
    BY <2>1, FS_Subset, FS_CardinalityType, Zenon
<1>2. CASE (spc[p] \in {"test", "enqueue"} <=> l \in {"test", "enqueue"})
  <2>1. Placing' = Placing
    BY <1>2, Zenon DEF Placing
  <2> QED
    BY <1>1, <1>2, <2>1, ZenonT(30)
<1>3. CASE spc[p] \notin {"test", "enqueue"} /\ l \in {"test", "enqueue"}
  <2>1. Placing' = Placing \cup {p} /\ p \notin Placing
    BY <1>3, Zenon DEF Placing
  <2> QED
    BY <1>1, <1>3, <2>1, FS_AddElement, Zenon
<1>4. CASE spc[p] \in {"test", "enqueue"} /\ l \notin {"test", "enqueue"}
  <2>1. Placing' = Placing \ {p} /\ p \in Placing
    BY <1>4, Zenon DEF Placing
  <2> QED
    BY <1>1, <1>4, <2>1, FS_RemoveElement, Zenon
<1> QED
  BY <1>2, <1>3, <1>4, Zenon

\* So does a sender that has queued its packet in Queuing.
LEMMA QueuingChanges ==
    ASSUME IsFiniteSet(Senders), spc \in [Senders -> SenderAt],
           NEW p \in Senders, NEW l, spc' = [spc EXCEPT ![p] = l]
    PROVE  /\ Cardinality(Queuing) \in Nat
           /\ (spc[p] = "enqueue" <=> l = "enqueue")
                => Cardinality(Queuing') = Cardinality(Queuing)
           /\ spc[p] = "enqueue" /\ l # "enqueue"
                => Cardinality(Queuing') = Cardinality(Queuing) - 1
<1>1. IsFiniteSet(Queuing) /\ Cardinality(Queuing) \in Nat
  <2>1. Queuing \subseteq Senders
    BY Zenon DEF Queuing
  <2> QED
    BY <2>1, FS_Subset, FS_CardinalityType, Zenon
<1>2. CASE (spc[p] = "enqueue" <=> l = "enqueue")
  <2>1. Queuing' = Queuing
    BY <1>2, Zenon DEF Queuing
  <2> QED
    BY <1>1, <1>2, <2>1, ZenonT(30)
<1>3. CASE spc[p] = "enqueue" /\ l # "enqueue"
  <2>1. Queuing' = Queuing \ {p} /\ p \in Queuing
    BY <1>3, Zenon DEF Queuing
  <2> QED
    BY <1>1, <1>3, <2>1, FS_RemoveElement, Zenon
<1>4. CASE spc[p] # "enqueue" /\ l = "enqueue"
  BY <1>1, <1>4, Zenon
<1> QED
  BY <1>2, <1>3, <1>4, Zenon

\* Who goes on to queue a packet has a place.
LEMMA QueuingPlaced ==
    ASSUME IsFiniteSet(Senders)
    PROVE  /\ Cardinality(Queuing) \in Nat /\ Cardinality(Placing) \in Nat
           /\ Cardinality(Queuing) <= Cardinality(Placing)
<1>1. Queuing \subseteq Placing /\ Placing \subseteq Senders
  BY Zenon DEF Queuing, Placing
<1>2. IsFiniteSet(Placing)
  BY <1>1, FS_Subset, Zenon
<1> QED
  BY <1>1, <1>2, FS_Subset, FS_CardinalityType, Zenon

\* With no packet and no place, the queue is as net_add made it.
LEMMA CInit == Init => CInv
<1> SUFFICES ASSUME Init PROVE CInv
  BY Zenon
<1> USE CoalesceAssumption
<1>1. Types
  <2>1. worker \in [pc : WorkerAt, gen : Nat, count : Nat, empty : BOOLEAN]
    BY Zenon DEF Init, WorkerAt
  <2> QED
    BY <2>1 DEF Init, Types, SenderAt, FlagType
<1>2. Counted
  BY DEF Init, Counted, Handed
<1>3. Placing = {}
  BY Zenon DEF Init, Placing
<1>4. Cardinality(Placing) = 0
  BY <1>3, FS_EmptySet, Zenon
<1>5. PlacesBalance
  BY <1>4 DEF Init, PlacesBalance, Placing
<1>7. Refused
  <2>1. Queuing = {}
    BY Zenon DEF Init, Queuing
  <2>2. Cardinality(Queuing) = 0
    BY <2>1, FS_EmptySet, Zenon
  <2> QED
    BY <2>2 DEF Init, Refused
<1>6. FinishLosesNothing
  BY Zenon DEF Init, FinishLosesNothing
<1> QED
  BY <1>1, <1>2, <1>5, <1>6, <1>7, Zenon DEF CInv, QueueAccounted

----------------------------------------------------------------------------
(* Steps that move no packet and no place                                  *)

SemType == [work : Nat, free : Nat, drain : Nat, timer : Nat]
WorkerType == [pc : WorkerAt, gen : Nat, count : Nat, empty : BOOLEAN]
Apart == {"handover", "advance", "release", "broken"}

\* The timer thread, the worker outside its hand-over and the main thread
\* outside its checks leave places and packets as they are.
LEMMA QuietStep ==
    ASSUME CInv, UNCHANGED <<queue, spc, promised>>,
           sem' \in SemType, sem'.free = sem.free, gen' \in Nat,
           flags' \in FlagType, flags.tx_error => flags'.tx_error,
           worker' \in WorkerType,
           worker' = worker \/ (worker.pc \notin Apart /\ worker'.pc \notin Apart),
           main' \in Stopping => main \in Stopping,
           main' = "add" => main = "add"
    PROVE  CInv'
<1>1. Types'
  BY Zenon DEF CInv, Types, queue, SemType, WorkerType
<1>2. Counted'
  BY Zenon DEF CInv, Counted, Handed, queue, Apart
<1>3. Placing' = Placing
  BY Zenon DEF Placing
<1>4. PlacesBalance'
  BY <1>3 DEF CInv, QueueAccounted, PlacesBalance, Placing, queue, Apart
<1>5. FinishLosesNothing'
  BY Zenon DEF CInv, QueueAccounted, FinishLosesNothing, queue, Stopping
<1>6. Refused'
  BY Zenon DEF CInv, Refused, Queuing, queue, Apart
<1> QED
  BY <1>1, <1>2, <1>4, <1>5, <1>6, Zenon DEF CInv, QueueAccounted

\* What an operation on a semaphore other than the free places leaves.
LEMMA SemKept ==
    ASSUME sem \in SemType, NEW s \in {"work", "drain", "timer"},
           Up(s, 1) \/ Down(s) \/ SignalOnce(s)
    PROVE  sem' \in SemType /\ sem'.free = sem.free
<1>1. CASE s = "work"
  BY <1>1 DEF Up, Down, SignalOnce, SemType
<1>2. CASE s = "drain"
  BY <1>2 DEF Up, Down, SignalOnce, SemType
<1>3. CASE s = "timer"
  BY <1>3 DEF Up, Down, SignalOnce, SemType
<1> QED
  BY <1>1, <1>2, <1>3, Zenon

\* The coalescing thread touches neither places nor packets.
LEMMA TimerQuiet == CInv /\ (TimerStep \/ TimerFails) => CInv'
<1> SUFFICES ASSUME CInv, TimerStep \/ TimerFails PROVE CInv'
  BY Zenon
<1>1. sem \in SemType /\ worker \in WorkerType /\ gen \in Nat /\ flags \in FlagType
  BY Zenon DEF CInv, Types, SemType, WorkerType
<1>2. UNCHANGED <<queue, spc, promised, worker, gen, main>>
  BY Zenon
     DEF TimerStep, TimerDown, TimerLoad, TimerWakes, TimerExpires,
         TimerFails,
         TimerSignals, coalesce
<1>3. sem' \in SemType /\ sem'.free = sem.free
  <2>1. CASE sem' = sem
    BY <1>1, <2>1, Zenon
  <2>2. CASE Down("timer") \/ SignalOnce("work")
    BY <1>1, <2>2, SemKept, Zenon
  <2> QED
    BY <2>1, <2>2, Zenon
       DEF TimerStep, TimerDown, TimerLoad, TimerWakes, TimerExpires,
                      TimerFails, TimerSignals
<1>4. flags' \in FlagType /\ (flags.tx_error => flags'.tx_error)
  BY <1>1, Zenon
     DEF TimerStep, TimerDown, TimerLoad, TimerWakes, TimerExpires,
         TimerFails, TimerSignals, Raise, FlagType
<1> QED
  BY <1>1, <1>2, <1>3, <1>4, QuietStep, Zenon DEF queue

\* The worker outside its hand-over touches neither places nor packets.
WorkerQuiet == \/ WorkerDown \/ WorkerTest \/ WorkerLook \/ WorkerArm
               \/ WorkerPrepare \/ WorkerFull \/ WorkerExpired \/ WorkerTell

\* While it waits for a batch to fill, it counts nothing.
LEMMA WorkerWaits == CInv /\ WorkerQuiet => CInv'
<1> SUFFICES ASSUME CInv, WorkerQuiet PROVE CInv'
  BY Zenon
<1>1. sem \in SemType /\ worker \in WorkerType /\ gen \in Nat /\ flags \in FlagType
  BY Zenon DEF CInv, Types, SemType, WorkerType
<1>2. UNCHANGED <<queue, spc, promised, main, flags>>
  BY Zenon DEF WorkerQuiet, WorkerDown, WorkerTest, WorkerLook, WorkerArm,
         WorkerPrepare, WorkerFull, WorkerExpired, WorkerTell
<1>3. sem' \in SemType /\ sem'.free = sem.free
  <2>1. CASE sem' = sem
    BY <1>1, <2>1, Zenon
  <2>2. CASE Down("work") \/ SignalOnce("timer") \/ Up("drain", 1) \/ SignalOnce("work")
    BY <1>1, <2>2, SemKept, Zenon
  <2> QED
    BY <2>1, <2>2, Zenon
       DEF WorkerQuiet, WorkerDown, WorkerTest, WorkerLook, WorkerArm,
         WorkerPrepare, WorkerFull, WorkerExpired, WorkerTell
<1>4. worker' \in WorkerType /\ worker.pc \notin Apart /\ worker'.pc \notin Apart /\ gen' \in Nat
  <2>1. CASE WorkerDown
    BY <1>1, <2>1, Zenon
       DEF WorkerDown, WorkerTo, WorkerType, WorkerAt, Apart, coalesce
  <2>2. CASE WorkerTest
    BY <1>1, <2>2, Zenon
       DEF WorkerTest, WorkerTo, WorkerType, WorkerAt, Apart, coalesce
  <2>3. CASE WorkerLook
    BY <1>1, <2>3, Zenon
       DEF WorkerLook, WorkerTo, WorkerType, WorkerAt, Apart, coalesce
  <2>4. CASE WorkerArm
    <3>1. gen + 1 \in Nat /\ worker.pc = "arm" /\ gen' = gen + 1
      BY <1>1, <2>4 DEF WorkerArm
    <3>2. worker' = [worker EXCEPT !.pc = "forget", !.gen = gen + 1]
      BY <2>4, Zenon DEF WorkerArm
    <3>3. worker' = [pc |-> "forget", gen |-> gen + 1, count |-> worker.count,
                     empty |-> worker.empty]
      BY <1>1, <3>2, Zenon DEF WorkerType
    <3> QED
      BY <1>1, <3>1, <3>3, Zenon DEF WorkerType, WorkerAt, Apart
  <2>5. CASE WorkerPrepare
    BY <1>1, <2>5, ZenonT(30) DEF WorkerPrepare, WorkerTo, WorkerType, WorkerAt, Apart
  <2>6. CASE WorkerFull
    BY <1>1, <2>6 DEF WorkerFull, WorkerTo, WorkerType, WorkerAt, Apart
  <2>7. CASE WorkerExpired
    BY <1>1, <2>7, Zenon
       DEF WorkerExpired, WorkerTo, WorkerType, WorkerAt, Apart, coalesce
  <2>8. CASE WorkerTell
    BY <1>1, <2>8, Zenon DEF WorkerTell, WorkerType, WorkerAt, Apart, coalesce
  <2> QED
    BY <2>1, <2>2, <2>3, <2>4, <2>5, <2>6, <2>7, <2>8, ZenonT(30) DEF WorkerQuiet
<1> QED
  BY <1>1, <1>2, <1>3, <1>4, QuietStep, Zenon DEF queue

\* Once the main thread has decided, stopping moves no packet.
MainQuiet == FinishWakes \/ FinishDrains \/ StopFlags \/ StopWakes \/ StopJoins

\* The main thread's wakeups and joins change neither places nor packets.
LEMMA MainWaits == CInv /\ MainQuiet => CInv'
<1> SUFFICES ASSUME CInv, MainQuiet PROVE CInv'
  BY Zenon
<1>1. sem \in SemType /\ worker \in WorkerType /\ gen \in Nat /\ flags \in FlagType
  BY Zenon DEF CInv, Types, SemType, WorkerType
<1>2. UNCHANGED <<queue, spc, promised, worker, gen>>
  BY Zenon
     DEF MainQuiet, FinishWakes, FinishDrains, StopFlags, StopWakes,
         StopJoins, coalesce
<1>3. sem' \in SemType /\ sem'.free = sem.free
  <2>1. CASE sem' = sem
    BY <1>1, <2>1, Zenon
  <2>2. CASE SignalOnce("work") \/ Down("drain")
    BY <1>1, <2>2, SemKept, Zenon
  <2>3. CASE StopWakes
    BY <1>1, <2>3, Zenon DEF StopWakes, SemType
  <2> QED
    BY <2>1, <2>2, <2>3, Zenon
       DEF MainQuiet, FinishWakes, FinishDrains, StopFlags, StopJoins
<1>4. (main' \in Stopping => main \in Stopping) /\ main' # "add"
  BY Zenon
     DEF MainQuiet, FinishWakes, FinishDrains, StopFlags, StopWakes,
         StopJoins, Stopping
<1>5. flags' \in FlagType /\ (flags.tx_error => flags'.tx_error)
  BY <1>1, Zenon
     DEF MainQuiet, FinishWakes, FinishDrains, StopFlags, StopWakes,
         StopJoins, FlagType
<1> QED
  BY <1>1, <1>2, <1>3, <1>4, <1>5, QuietStep, Zenon DEF queue

----------------------------------------------------------------------------
(* Steps of the senders                                                    *)

\* A sender changes its own place only; the worker and the main thread stay.
LEMMA SenderKeeps ==
    ASSUME CInv, UNCHANGED <<gen, sent, flags, worker, main, promised>>,
           NEW p \in Senders, NEW l \in SenderAt,
           spc' = [spc EXCEPT ![p] = l],
           sem' \in SemType,
           \/ UNCHANGED <<queued, enqueued>>
           \/ queued' = queued + 1 /\ enqueued' = enqueued + 1
    PROVE  Types' /\ Counted' /\ FinishLosesNothing'
<1>1. Types'
  BY DEF CInv, Types, SemType
<1>2. Counted'
  BY DEF CInv, Types, Counted, Handed
<1>3. FinishLosesNothing'
  BY Zenon DEF CInv, QueueAccounted, FinishLosesNothing
<1> QED
  BY <1>1, <1>2, <1>3, Zenon

\* Places stay balanced when a sender takes one, gives it back or turns it
\* into a packet; the branch for a full queue is never taken.
LEMMA SenderBalances ==
    ASSUME CInv, NEW p \in Senders, SendStep(p)
    PROVE  CInv'
<1>1. /\ sem \in SemType /\ queued \in Nat /\ enqueued \in Nat
      /\ spc \in [Senders -> SenderAt]
      /\ worker.count \in Nat /\ QueueCount \in Nat
  BY CoalesceAssumption, Zenon DEF CInv, Types, SemType
<1>2. IsFiniteSet(Senders)
  BY CoalesceAssumption, Zenon
<1>labels. /\ "idle" \notin {"test", "enqueue"} /\ "signal" \notin {"test", "enqueue"}
           /\ "signal" # "enqueue"
  BY Zenon
<1>3. sem.free + Cardinality(Placing) + queued
        + (IF worker.pc = "release" THEN worker.count ELSE 0)
        = QueueCount - 1 + (IF worker.pc = "broken" THEN QueueCount ELSE 0)
  BY Zenon DEF CInv, QueueAccounted, PlacesBalance, Placing
<1>queuing. Cardinality(Queuing) \in Nat /\ Cardinality(Queuing) + queued <= QueueCount - 1
  BY <1>2, QueuingPlaced, Zenon DEF CInv, Refused
<1>refused. ASSUME NEW l \in SenderAt, l # "enqueue", spc[p] # "enqueue",
                   spc' = [spc EXCEPT ![p] = l], UNCHANGED <<queued, flags, worker>>
            PROVE  Refused'
  <2>1. Cardinality(Queuing') = Cardinality(Queuing)
    BY <1>1, <1>2, <1>refused, QueuingChanges, Zenon
  <2> QED
    BY <1>refused, <2>1, Zenon DEF CInv, Refused
<1>4. CASE SendTake(p)
  <2>1. /\ spc[p] = "idle" /\ spc' = [spc EXCEPT ![p] = "test"]
        /\ UNCHANGED <<gen, sent, flags, worker, main, promised, queued, enqueued>>
    BY <1>4, Zenon DEF SendTake, SenderTo, queue, coalesce
  <2>2. sem' \in SemType /\ sem'.free = sem.free - 1
    BY <1>1, <1>4 DEF SendTake, Down, SemType
  <2>3. Cardinality(Placing) \in Nat /\ Cardinality(Placing') = Cardinality(Placing) + 1
    BY <1>1, <1>2, <1>labels, <2>1, PlacingChanges, Zenon
  <2>4. PlacesBalance'
    BY <1>1, <1>3, <2>1, <2>2, <2>3 DEF PlacesBalance, Placing, SemType
  <2>5. Refused'
    BY <1>refused, <2>1, Zenon DEF SenderAt
  <2> QED
    BY <2>1, <2>2, <2>4, <2>5, SenderKeeps, Zenon DEF CInv, QueueAccounted, SenderAt
<1>5. CASE SendTest(p)
  <2>1. /\ spc[p] = "test"
        /\ UNCHANGED <<gen, sent, flags, worker, main, promised, queued, enqueued>>
    BY <1>5, Zenon DEF SendTest, queue, coalesce
  <2>2. CASE flags.tx_error \/ flags.tx_stop
    <3>1. spc' = [spc EXCEPT ![p] = "idle"]
      BY <1>5, <2>2, Zenon DEF SendTest, SenderTo
    <3>2. sem' \in SemType /\ sem'.free = sem.free + 1
      BY <1>1, <1>5, <2>2 DEF SendTest, Up, SemType
    <3>3. Cardinality(Placing) \in Nat /\ Cardinality(Placing') = Cardinality(Placing) - 1
      BY <1>1, <1>2, <1>labels, <2>1, <3>1, PlacingChanges, Zenon
    <3>4. PlacesBalance'
      BY <1>1, <1>3, <2>1, <3>2, <3>3 DEF PlacesBalance, Placing, SemType
    <3>5. Refused'
      BY <1>refused, <2>1, <3>1, Zenon DEF SenderAt
    <3> QED
      BY <2>1, <3>1, <3>2, <3>4, <3>5, SenderKeeps, Zenon
         DEF CInv, QueueAccounted, SenderAt
  <2>3. CASE ~(flags.tx_error \/ flags.tx_stop)
    <3>1. spc' = [spc EXCEPT ![p] = "enqueue"] /\ sem' = sem
      BY <1>5, <2>3, Zenon DEF SendTest, SenderTo
    <3>3. Cardinality(Placing) \in Nat /\ Cardinality(Placing') = Cardinality(Placing)
      BY <1>1, <1>2, <1>labels, <2>1, <3>1, PlacingChanges, Zenon
    <3>4. PlacesBalance'
      BY <1>1, <1>3, <2>1, <3>1, <3>3, Zenon DEF PlacesBalance, Placing, SemType
    <3>5. worker.pc # "broken"
      BY <2>3, Zenon DEF CInv, Refused
    <3>6. Cardinality(Queuing') + queued' <= QueueCount - 1
      <4>1. sem.free + Cardinality(Placing') + queued
              + (IF worker.pc = "release" THEN worker.count ELSE 0) = QueueCount - 1 + 0
        BY <1>3, <3>3, <3>5, Zenon
      <4>2. sem.free \in Nat /\ (IF worker.pc = "release" THEN worker.count ELSE 0) \in Nat
        BY <1>1, Zenon DEF SemType
      <4>3. /\ Cardinality(Queuing') \in Nat /\ Cardinality(Placing') \in Nat
            /\ Cardinality(Queuing') <= Cardinality(Placing')
        <5>1. Queuing' \subseteq Placing' /\ Placing' \subseteq Senders
          BY Zenon DEF Queuing, Placing
        <5>2. IsFiniteSet(Placing')
          BY <1>2, <5>1, FS_Subset, Zenon
        <5> QED
          BY <5>1, <5>2, FS_Subset, FS_CardinalityType, Zenon
      <4> QED
        BY <1>1, <2>1, <4>1, <4>2, <4>3
    <3>7. Refused'
      BY <2>1, <3>5, <3>6, Zenon DEF Refused
    <3> QED
      BY <1>1, <2>1, <3>1, <3>4, <3>7, SenderKeeps, Zenon
         DEF CInv, QueueAccounted, SenderAt
  <2> QED
    BY <2>2, <2>3, Zenon
<1>6. CASE SendEnqueue(p)
  <2>1. spc[p] = "enqueue" /\ UNCHANGED <<gen, worker, main, promised>>
    BY <1>6, Zenon DEF SendEnqueue, coalesce
  <2>2. Cardinality(Placing) \in Nat /\ Cardinality(Queuing) # 0
    <3>1. IsFiniteSet(Queuing)
      BY <1>2, FS_Subset, Zenon DEF Queuing
    <3>2. p \in Queuing
      BY <2>1, Zenon DEF Queuing
    <3> QED
      BY <1>2, <3>1, <3>2, QueuingPlaced, FS_EmptySet, Zenon
  <2>3. queued # QueueCount - 1
    BY <1>1, <1>queuing, <2>2
  <2>4. /\ spc' = [spc EXCEPT ![p] = "signal"] /\ sem' = sem /\ sent' = sent
        /\ queued' = queued + 1 /\ enqueued' = enqueued + 1 /\ flags' = flags
    BY <1>6, <2>3, Zenon DEF SendEnqueue, SenderTo
  <2>5. Cardinality(Placing') = Cardinality(Placing) - 1
    BY <1>1, <1>2, <1>labels, <2>1, <2>4, PlacingChanges, Zenon
  <2>6. PlacesBalance'
    <3> DEFINE h == IF worker.pc = "release" THEN worker.count ELSE 0
               x == IF worker.pc = "broken" THEN QueueCount ELSE 0
    <3>1. sem.free \in Nat /\ h \in Nat /\ x \in Nat
      BY <1>1, Zenon DEF SemType
    <3>2. sem.free + Cardinality(Placing) + queued + h = QueueCount - 1 + x
      BY <1>3, Zenon
    <3> HIDE DEF h, x
    <3>3. sem.free + Cardinality(Placing') + queued' + h = QueueCount - 1 + x
      BY <1>1, <2>2, <2>4, <2>5, <3>1, <3>2
    <3> QED
      BY <2>1, <2>4, <3>3, Zenon DEF PlacesBalance, Placing, h, x
  <2>7. Refused'
    <3>1. Cardinality(Queuing') = Cardinality(Queuing) - 1
      BY <1>1, <1>2, <1>labels, <2>1, <2>4, QueuingChanges, Zenon
    <3>2. Cardinality(Queuing') + queued' <= QueueCount - 1
      BY <1>1, <1>queuing, <2>4, <3>1
    <3> QED
      BY <2>1, <2>4, <3>2, Zenon DEF CInv, Refused
  <2> QED
    BY <1>1, <2>1, <2>4, <2>6, <2>7, SenderKeeps, Zenon
       DEF CInv, QueueAccounted, SenderAt
<1>7. CASE SendSignal(p)
  <2>1. /\ spc[p] = "signal" /\ spc' = [spc EXCEPT ![p] = "idle"]
        /\ UNCHANGED <<gen, sent, flags, worker, main, promised, queued, enqueued>>
    BY <1>7, Zenon DEF SendSignal, SenderTo, queue, coalesce
  <2>2. sem' \in SemType /\ sem'.free = sem.free
    BY <1>1, <1>7, SemKept, Zenon DEF SendSignal
  <2>3. Cardinality(Placing) \in Nat /\ Cardinality(Placing') = Cardinality(Placing)
    BY <1>1, <1>2, <1>labels, <2>1, PlacingChanges, Zenon
  <2>4. PlacesBalance'
    BY <1>1, <1>3, <2>1, <2>2, <2>3, Zenon DEF PlacesBalance, Placing, SemType
  <2>5. Refused'
    BY <1>refused, <2>1, Zenon DEF SenderAt
  <2> QED
    BY <2>1, <2>2, <2>4, <2>5, SenderKeeps, Zenon DEF CInv, QueueAccounted, SenderAt
<1> QED
  BY <1>4, <1>5, <1>6, <1>7, Zenon DEF SendStep

----------------------------------------------------------------------------
(* The hand-over of a batch                                                *)

\* A step of the worker or of the main thread that queues no packet.
LEMMA RefusedKept ==
    ASSUME CInv, spc' = spc, flags' = flags, queued' \in Nat, queued' <= queued,
           worker'.pc = "broken" => worker.pc = "broken"
    PROVE  Refused'
<1>1. Queuing' = Queuing
  BY Zenon DEF Queuing
<1>2. IsFiniteSet(Senders) /\ QueueCount \in Nat /\ queued \in Nat
  BY CoalesceAssumption, Zenon DEF CInv, Types
<1>3. Cardinality(Queuing) \in Nat /\ Cardinality(Queuing) + queued <= QueueCount - 1
  BY <1>2, QueuingPlaced, Zenon DEF CInv, Refused
<1>4. Cardinality(Queuing') + queued' <= QueueCount - 1
  BY <1>1, <1>2, <1>3
<1> QED
  BY <1>4, Zenon DEF CInv, Refused

\* A batch is at most what is queued.
LEMMA CopyCounts == CInv /\ WorkerCopy => CInv'
<1> SUFFICES ASSUME CInv, WorkerCopy PROVE CInv'
  BY Zenon
<1> DEFINE n == IF queued < BatchSlots THEN queued ELSE BatchSlots
<1>1. /\ worker \in WorkerType /\ queued \in Nat /\ BatchSlots \in Nat \ {0}
      /\ worker.pc = "copy" /\ UNCHANGED <<queue, sem, gen, flags, spc, main, promised>>
  BY CoalesceAssumption, Zenon DEF CInv, Types, WorkerType, WorkerCopy, coalesce
<1>2. n \in Nat /\ n <= queued /\ (queued # 0 => n # 0)
  BY <1>1
<1>3. worker' = [pc |-> IF queued = 0 THEN "down" ELSE "handover", gen |-> 0,
                 count |-> n, empty |-> worker.empty]
  BY <1>1, Zenon DEF WorkerCopy, WorkerType
<1> HIDE DEF n
<1>4. Types'
  BY <1>1, <1>2, <1>3, Zenon DEF CInv, Types, WorkerType, WorkerAt, queue
<1>5. Counted'
  BY <1>1, <1>2, <1>3 DEF CInv, Counted, Handed, queue
<1>6. Placing' = Placing
  BY <1>1, Zenon DEF Placing
<1>7. PlacesBalance'
  BY <1>1, <1>3, <1>6, Zenon DEF CInv, QueueAccounted, PlacesBalance, Placing, queue
<1>8. FinishLosesNothing'
  BY <1>1, Zenon DEF CInv, QueueAccounted, FinishLosesNothing, queue
<1>9. Refused'
  <2>1. queued' = queued /\ queued <= queued /\ worker'.pc # "broken"
    BY <1>1, <1>3 DEF queue
  <2> QED
    BY <1>1, <2>1, RefusedKept, Zenon
<1> QED
  BY <1>4, <1>5, <1>7, <1>8, <1>9, ZenonT(30) DEF CInv, QueueAccounted

\* What the manager accepts is sent and still queued; a refused batch breaks
\* the queue and gives out a second set of places.
LEMMA HandOverCounts ==
    ASSUME CInv, NEW a \in 1..worker.count + 1, WorkerHandOver(a)
    PROVE  CInv'
<1>1. /\ worker \in WorkerType /\ queued \in Nat /\ sent \in Nat /\ enqueued \in Nat
      /\ sem \in SemType /\ flags \in FlagType
      /\ worker.pc = "handover" /\ worker.count \in 1..queued
      /\ UNCHANGED <<queued, enqueued, gen, spc, main, promised>>
  BY Zenon DEF CInv, Types, Counted, SemType, WorkerType, WorkerHandOver, coalesce
<1>2. Placing' = Placing
  BY <1>1, Zenon DEF Placing
<1>3. CASE ~(a > worker.count)
  <2>1. a \in Nat /\ a # 0 /\ a <= queued
    BY <1>1, <1>3
  <2>2. sent' = sent + a /\ sem' = sem /\ flags' = flags
    BY <1>3, Zenon DEF WorkerHandOver
  <2>3. worker' = [pc |-> "advance", gen |-> worker.gen, count |-> a,
                   empty |-> worker.empty]
    BY <1>1, <1>3, Zenon DEF WorkerHandOver, WorkerType
  <2>4. Types'
    BY <1>1, <2>1, <2>2, <2>3 DEF CInv, Types, WorkerType, WorkerAt
  <2>5. Counted'
    BY <1>1, <2>1, <2>2, <2>3 DEF CInv, Counted, Handed
  <2>6. PlacesBalance'
    BY <1>1, <1>2, <2>2, <2>3, Zenon DEF CInv, QueueAccounted, PlacesBalance, Placing
  <2>7. FinishLosesNothing'
    <3>1. promised \in Nat
      BY Zenon DEF CInv, Types
    <3> QED
      BY <1>1, <2>1, <2>2, <3>1 DEF CInv, QueueAccounted, FinishLosesNothing
  <2>8. Refused'
    <3>1. queued' <= queued /\ worker'.pc # "broken"
      BY <1>1, <2>3
    <3> QED
      BY <1>1, <2>2, <3>1, RefusedKept, Zenon
  <2> QED
    BY <2>4, <2>5, <2>6, <2>7, <2>8, ZenonT(30) DEF CInv, QueueAccounted
<1>4. CASE a > worker.count
  <2>1. sent' = sent /\ Raise("tx_error")
    BY <1>4, Zenon DEF WorkerHandOver, SignalError
  <2>2. sem' = [sem EXCEPT !.free = @ + 0 + QueueCount, !.drain = @ + 1]
    BY <1>4, Zenon DEF WorkerHandOver, SignalError
  <2>3. worker' = [pc |-> "broken", gen |-> worker.gen, count |-> 0,
                   empty |-> worker.empty]
    BY <1>1, <1>4, Zenon DEF WorkerHandOver, WorkerType
  <2>4. flags' \in FlagType /\ flags'.tx_error
    BY <1>1, <2>1, Zenon DEF Raise, FlagType
  <2>5. QueueCount \in Nat /\ sem' \in SemType /\ sem'.free = sem.free + QueueCount
    <3>1. QueueCount \in Nat /\ sem.free \in Nat /\ sem.drain \in Nat
      BY <1>1, CoalesceAssumption, Zenon DEF SemType
    <3>2. /\ sem.free + 0 + QueueCount = sem.free + QueueCount
          /\ sem.free + QueueCount \in Nat /\ sem.drain + 1 \in Nat
      BY <3>1
    <3>3. sem' = [work |-> sem.work, free |-> sem.free + QueueCount,
                  drain |-> sem.drain + 1, timer |-> sem.timer]
      BY <1>1, <2>2, <3>2, Zenon DEF SemType
    <3> QED
      BY <1>1, <3>1, <3>2, <3>3, Zenon DEF SemType
  <2>6. Types'
    BY <1>1, <2>1, <2>3, <2>4, <2>5 DEF CInv, Types, WorkerType, WorkerAt, SemType
  <2>7. Counted'
    BY <1>1, <2>1, <2>3, Zenon DEF CInv, Counted, Handed
  <2>8. PlacesBalance'
    <3>1. sem.free \in Nat /\ Cardinality(Placing) \in Nat
      BY <1>1, CoalesceAssumption, QueuingPlaced, Zenon DEF SemType
    <3>2. sem.free + Cardinality(Placing) + queued + 0 = QueueCount - 1 + 0
      BY <1>1, Zenon DEF CInv, QueueAccounted, PlacesBalance, Placing
    <3>3. sem'.free + Cardinality(Placing') + queued' + 0 = QueueCount - 1 + QueueCount
      BY <1>1, <1>2, <2>5, <3>1, <3>2
    <3> QED
      BY <2>3, <3>3, Zenon DEF PlacesBalance, Placing
  <2>9. FinishLosesNothing'
    BY <1>1, <2>1, Zenon DEF CInv, QueueAccounted, FinishLosesNothing
  <2>10. Refused'
    BY <1>1, <2>4, Zenon DEF CInv, Refused, Queuing
  <2> QED
    BY <2>6, <2>7, <2>8, <2>9, <2>10, ZenonT(30) DEF CInv, QueueAccounted
<1> QED
  BY <1>3, <1>4, Zenon

\* It leaves the queue, and its places are still to be given back.
LEMMA AdvanceCounts == CInv /\ WorkerAdvance => CInv'
<1> SUFFICES ASSUME CInv, WorkerAdvance PROVE CInv'
  BY Zenon
<1>1. /\ worker \in WorkerType /\ queued \in Nat /\ sent \in Nat /\ enqueued \in Nat
      /\ worker.pc = "advance" /\ worker.count \in 1..queued
      /\ UNCHANGED <<sent, enqueued, sem, gen, flags, spc, main, promised>>
  BY Zenon DEF CInv, Types, Counted, WorkerType, WorkerAdvance, coalesce
<1>2. queued' = queued - worker.count /\ queued' \in Nat
  BY <1>1 DEF WorkerAdvance
<1>3. worker'.pc = "release" /\ worker'.count = worker.count /\ worker' \in WorkerType
  BY <1>1, Zenon DEF WorkerAdvance, WorkerType, WorkerAt
<1>4. Types'
  BY <1>1, <1>2, <1>3, ZenonT(30) DEF CInv, Types, WorkerType
<1>5. Counted'
  BY <1>1, <1>2, <1>3 DEF CInv, Counted, Handed
<1>6. Placing' = Placing
  BY <1>1, Zenon DEF Placing
<1>7. PlacesBalance'
  <2>1. sem.free \in Nat /\ Cardinality(Placing) \in Nat
    <3>1. IsFiniteSet(Placing)
      BY CoalesceAssumption, FS_Subset, Zenon DEF Placing
    <3> QED
      BY <3>1, FS_CardinalityType, Zenon DEF CInv, Types
  <2>2. sem.free + Cardinality(Placing) + queued + 0 = QueueCount - 1 + 0
    BY <1>1, Zenon DEF CInv, QueueAccounted, PlacesBalance, Placing
  <2>3. sem'.free + Cardinality(Placing') + queued' + worker'.count = QueueCount - 1 + 0
    BY <1>1, <1>2, <1>3, <1>6, <2>1, <2>2
  <2> QED
    BY <1>3, <2>3, Zenon DEF PlacesBalance, Placing
<1>8. FinishLosesNothing'
  BY <1>1, ZenonT(30) DEF CInv, QueueAccounted, FinishLosesNothing
<1>9. Refused'
  <2>1. queued' <= queued /\ worker'.pc # "broken"
    BY <1>1, <1>2, <1>3
  <2> QED
    BY <1>1, <1>2, <2>1, RefusedKept, Zenon
<1> QED
  BY <1>4, <1>5, <1>7, <1>8, <1>9, Zenon DEF CInv, QueueAccounted

\* They are given back.
LEMMA ReleaseCounts == CInv /\ WorkerRelease => CInv'
<1> SUFFICES ASSUME CInv, WorkerRelease PROVE CInv'
  BY Zenon
<1>1. /\ worker \in WorkerType /\ worker.pc = "release" /\ sem \in SemType
      /\ UNCHANGED <<queue, gen, flags, spc, main, promised>> /\ queued \in Nat
  BY Zenon DEF CInv, Types, SemType, WorkerType, WorkerRelease, coalesce
<1>2. sem' \in SemType /\ sem'.free = sem.free + worker.count
  BY <1>1 DEF WorkerRelease, Up, SemType, WorkerType
<1>3. worker'.pc = "tell" /\ worker' \in WorkerType
  BY <1>1, Zenon DEF WorkerRelease, WorkerType, WorkerAt
<1>4. Types'
  BY <1>1, <1>2, <1>3, Zenon DEF CInv, Types, WorkerType, SemType, queue
<1>5. Counted'
  BY <1>1, <1>3, Zenon DEF CInv, Counted, Handed, queue
<1>6. Placing' = Placing
  BY <1>1, Zenon DEF Placing
<1>7. PlacesBalance'
  <2>1. /\ sem.free \in Nat /\ queued \in Nat /\ worker.count \in Nat
        /\ Cardinality(Placing) \in Nat
    <3>1. IsFiniteSet(Placing)
      BY CoalesceAssumption, FS_Subset, Zenon DEF Placing
    <3> QED
      BY <3>1, FS_CardinalityType, Zenon DEF CInv, Types
  <2>2. sem.free + Cardinality(Placing) + queued + worker.count = QueueCount - 1 + 0
    BY <1>1, Zenon DEF CInv, QueueAccounted, PlacesBalance, Placing
  <2>3. sem'.free + Cardinality(Placing') + queued' + 0 = QueueCount - 1 + 0
    BY <1>1, <1>2, <1>6, <2>1, <2>2 DEF queue
  <2> QED
    BY <1>3, <2>3, Zenon DEF PlacesBalance, Placing
<1>8. FinishLosesNothing'
  BY <1>1, Zenon DEF CInv, QueueAccounted, FinishLosesNothing, queue
<1>9. Refused'
  <2>1. queued' = queued /\ queued <= queued /\ worker'.pc # "broken"
    BY <1>1, <1>3 DEF queue
  <2> QED
    BY <1>1, <2>1, RefusedKept, Zenon
<1> QED
  BY <1>4, <1>5, <1>7, <1>8, <1>9, Zenon DEF CInv, QueueAccounted

----------------------------------------------------------------------------
(* The decisions of the main thread                                        *)

MainDecides == (\E ok \in BOOLEAN : NetAdd(ok)) \/ Finish \/ FinishVerifies

\* net_finish stops the queue only when it is empty, and then everything that
\* was queued when it was called has been sent.
LEMMA DecisionsSafe == CInv /\ MainDecides => CInv'
<1> SUFFICES ASSUME CInv, MainDecides PROVE CInv'
  BY Zenon
<1>1. UNCHANGED <<queue, gen, sem, flags, spc, worker>>
  BY Zenon DEF MainDecides, NetAdd, Finish, FinishVerifies, coalesce
<1>2. queued \in Nat /\ sent \in Nat /\ enqueued \in Nat /\ promised \in Nat
  BY Zenon DEF CInv, Types
<1>3. promised' = promised \/ (main = "up" /\ promised' = enqueued /\ main' \in {"verify", "wake"})
  BY Zenon DEF MainDecides, NetAdd, Finish, FinishVerifies
<1>4. Types'
  BY <1>1, <1>2, <1>3, Zenon DEF CInv, Types, queue
<1>5. Counted'
  <2>1. main' # "add"
    BY Zenon DEF MainDecides, NetAdd, Finish, FinishVerifies
  <2> QED
    BY <1>1, <1>2, <1>3, <2>1 DEF CInv, Counted, Handed, queue
<1>6. Placing' = Placing
  BY <1>1, Zenon DEF Placing
<1>7. PlacesBalance'
  BY <1>1, <1>6, Zenon DEF CInv, QueueAccounted, PlacesBalance, Placing, queue
<1>8. FinishLosesNothing'
  <2>1. CASE \E ok \in BOOLEAN : NetAdd(ok)
    BY <1>1, <1>2, <2>1 DEF NetAdd, CInv, Counted, FinishLosesNothing, queue
  <2>2. CASE Finish
    BY <2>2, Zenon DEF Finish, FinishLosesNothing
  <2>3. CASE FinishVerifies
    <3>1. CASE queued = 0
      <4>1. worker.pc # "advance"
        BY <1>2, <3>1 DEF CInv, Counted
      <4>2. sent = enqueued /\ promised <= sent
        BY <1>2, <3>1, <4>1 DEF CInv, Counted, Handed
      <4> QED
        BY <1>1, <1>2, <2>3, <4>2, Zenon
           DEF FinishVerifies, FinishLosesNothing, queue
    <3>2. CASE queued # 0
      BY <1>2, <2>3, <3>2 DEF FinishVerifies, FinishLosesNothing
    <3> QED
      BY <3>1, <3>2, Zenon
  <2> QED
    BY <2>1, <2>2, <2>3, Zenon DEF MainDecides
<1>9. Refused'
  <2>1. queued' = queued /\ queued <= queued
    BY <1>1, <1>2 DEF queue
  <2> QED
    BY <1>1, <1>2, <2>1, RefusedKept, Zenon
<1> QED
  BY <1>4, <1>5, <1>7, <1>8, <1>9, Zenon DEF CInv, QueueAccounted

\* Every step of senders, coalescing thread, worker and main thread preserves
\* the invariant.
LEMMA CStep == CInv /\ [Next]_vars => CInv'
<1> SUFFICES ASSUME CInv, [Next]_vars PROVE CInv'
  BY Zenon
<1>1. CASE \E p \in Senders : SendStep(p)
  BY <1>1, SenderBalances, Zenon
<1>2. CASE TimerStep \/ TimerFails
  BY <1>2, TimerQuiet, Zenon
<1>3. CASE WorkerQuiet
  BY <1>3, WorkerWaits, Zenon
<1>4. CASE WorkerCopy \/ (\E a \in 1..worker.count + 1 : WorkerHandOver(a))
           \/ WorkerAdvance \/ WorkerRelease
  BY <1>4, CopyCounts, HandOverCounts, AdvanceCounts, ReleaseCounts, ZenonT(30)
<1>5. CASE MainQuiet
  BY <1>5, MainWaits, Zenon
<1>6. CASE MainDecides
  BY <1>6, DecisionsSafe, Zenon
<1>7. CASE UNCHANGED vars
  <2>1. UNCHANGED <<queue, spc, promised, sem, gen, flags, worker, main>>
    BY <1>7, Zenon DEF vars, queue
  <2> QED
    BY <2>1, QuietStep, Zenon DEF CInv, Types, SemType, WorkerType
<1> QED
  BY <1>1, <1>2, <1>3, <1>4, <1>5, <1>6, <1>7, Zenon
     DEF Next, WorkerStep, MainStep, WorkerQuiet, MainQuiet, MainDecides

\* The invariant of the transmit queue holds in every reachable state.
THEOREM QueueInvariant == Spec => []CInv
  BY CInit, CStep, PTL DEF Spec

\* The places of the queue add up at every moment, so that task_net_tx never
\* finds the queue full with a place in hand, and luna_lkl_task_net_finish
\* stops the queue only when every packet queued before has been handed over,
\* whatever tokens earlier drains have left: for any number of senders and
\* any length of the queue and of a batch.
THEOREM QueueAccountedFor == Spec => []QueueAccounted
  BY QueueInvariant, PTL DEF CInv

----------------------------------------------------------------------------
(* The places of the threads of the receive path.                           *)
Receivers == {"idle", "publish", "produced", "exchange", "masked", "signal"}
Mains == {"idle", "fetch", "copy", "consumed", "reply", "unmasked", "drain",
          "down"}
Pollers == {"top", "hup", "rx", "waiting", "produced", "consumed", "wait",
            "woken", "clear", "compare", "request", "fetch"}

(* The types of the ring, the window and the locals of the threads.         *)
RxType ==
    /\ rx_head \in 0..Ring - 1 /\ rx_tail \in 0..Ring - 1
    /\ rx_queue \in [0..Ring - 1 -> Nat]
    /\ rx_slots \in [1..WindowSlots -> Nat]
    /\ rx_active \in BOOLEAN /\ rx_ntfn \in BOOLEAN
    /\ receiver \in Receivers
    /\ rx_main \in [pc : Mains, head : 0..Ring - 1, count : 0..WindowSlots]
    /\ poller \in [pc : Pollers, count : 0..WindowSlots,
                   index : 0..WindowSlots, produced : Nat]
    /\ rx_produced \in Nat /\ rx_consumed \in Nat
    /\ accepted \in Nat /\ delivered \in Nat

\* Packets in the ring, and packets that have been taken out of it.
Gap(h, t) == (h - t) % Ring
Entry(t, i) == (t + i) % Ring
Stored == Gap(rx_head, rx_tail)
Fetched == delivered + (poller.count - poller.index) + rx_main.count

(* The places of the three threads: the window is filled only when LKL's    *)
(* poll thread has emptied it and waits for the reply, and the receiver     *)
(* that found room still has it.                                            *)
Places ==
    /\ poller.index <= poller.count
    /\ poller.pc = "rx" => poller.index < poller.count
    /\ poller.pc = "waiting" => poller.index = poller.count
    /\ poller.pc \in {"produced", "consumed", "wait", "woken", "clear",
                      "compare", "request", "fetch"} => poller.count = 0
    /\ rx_main.pc \in {"fetch", "copy", "consumed", "reply"}
         => poller.pc = "fetch"
    /\ rx_main.pc \notin {"consumed", "reply"} => rx_main.count = 0
    /\ rx_main.pc \in {"drain", "down"} => ~rx_active
    /\ receiver = "publish" => RingRoom

(* The packets, by their numbers: the window holds those after the last one *)
(* LKL got, the ring those after the window's.                              *)
Contents ==
    /\ accepted = Fetched + Stored
    /\ \A i \in 0..Ring - 1 :
          i < Stored => rx_queue[Entry(rx_tail, i)] = Fetched + i + 1
    /\ rx_main.pc = "copy" => Gap(rx_main.head, rx_tail) <= Stored
    /\ \A i \in 1..WindowSlots :
          i <= rx_main.count => rx_slots[i] = delivered + i
    /\ \A i \in 1..WindowSlots :
          poller.index < i /\ i <= poller.count
            => rx_slots[i] = delivered + (i - poller.index)

(* The inductive invariant of NetRx.                                        *)
RxInv == /\ RxType /\ Places /\ EmptyAfterTeardown
         /\ rx_main.pc # "down" => Contents

(* Arithmetic of the ring: head and tail tell how many entries are used,    *)
(* and a head one further on one more entry.                                *)
LEMMA RingHead ==
    ASSUME NEW h \in 0..Ring - 1, NEW t \in 0..Ring - 1
    PROVE  /\ Next1(h) \in 0..Ring - 1
           /\ Gap(h, t) \in 0..Ring - 1
           /\ Entry(t, Gap(h, t)) = h
           /\ Next1(h) # t => Gap(Next1(h), t) = Gap(h, t) + 1
           /\ Gap(h, t) = 0 => h = t
           /\ Gap(t, t) = 0
           /\ Next1(h) # t <=> Gap(h, t) < Ring - 1
  BY RxAssumption DEF Next1, Gap, Entry

(* An index below the ring's size names an entry, and of the used ones none *)
(* is the one at the head.                                                  *)
LEMMA RingEntry ==
    ASSUME NEW h \in 0..Ring - 1, NEW t \in 0..Ring - 1,
           NEW i \in 0..Ring - 1
    PROVE  /\ Entry(t, i) \in 0..Ring - 1
           /\ i # Gap(h, t) => Entry(t, i) # h
  BY RxAssumption DEF Gap, Entry

(* c entries taken off the tail leave c fewer, each c places nearer.        *)
LEMMA RingTail ==
    ASSUME NEW h \in 0..Ring - 1, NEW t \in 0..Ring - 1,
           NEW c \in 0..Ring - 1, c <= Gap(h, t)
    PROVE  /\ Entry(t, c) \in 0..Ring - 1
           /\ Gap(h, Entry(t, c)) = Gap(h, t) - c
           /\ \A i \in 0..Ring - 1 :
                 i + c < Ring
                   => Entry(Entry(t, c), i) = Entry(t, i + c)
  BY RxAssumption DEF Gap, Entry

(* LKL's poll thread moves to another place with its locals.                *)
LEMMA PollerGoes ==
    ASSUME RxType, NEW there \in Pollers, PollerGo(there)
    PROVE  /\ poller' \in [pc : Pollers, count : 0..WindowSlots,
                           index : 0..WindowSlots, produced : Nat]
           /\ poller'.pc = there
           /\ poller'.count = poller.count /\ poller'.index = poller.index
  BY Zenon DEF RxType, PollerGo

(* So does the manager's main thread.                                       *)
LEMMA MainGoes ==
    ASSUME RxType, NEW there \in Mains,
           rx_main' = [rx_main EXCEPT !.pc = there]
    PROVE  /\ rx_main' \in [pc : Mains, head : 0..Ring - 1,
                            count : 0..WindowSlots]
           /\ rx_main'.pc = there
           /\ rx_main'.count = rx_main.count /\ rx_main'.head = rx_main.head
  BY Zenon DEF RxType

(* The child starts with an empty ring and an empty window.                 *)
LEMMA RxInits == RxInit => RxInv
<1> SUFFICES ASSUME RxInit PROVE RxInv
    BY Zenon
<1>0. Ring \in Nat /\ Ring > 1 /\ WindowSlots \in Nat /\ WindowSlots > 0
  BY RxAssumption
<1>1. /\ poller \in [pc : Pollers, count : 0..WindowSlots,
                    index : 0..WindowSlots, produced : Nat]
      /\ poller.pc = "top" /\ poller.count = 0 /\ poller.index = 0
  BY <1>0 DEF RxInit, PollStart, Pollers
<1>2. /\ rx_main \in [pc : Mains, head : 0..Ring - 1, count : 0..WindowSlots]
      /\ rx_main.pc = "idle" /\ rx_main.count = 0
  BY <1>0 DEF RxInit, NoRequest, Mains
<1>3. RxType
  <2>1. 0 \in 0..Ring - 1
    BY <1>0
  <2>2. /\ rx_queue \in [0..Ring - 1 -> Nat]
        /\ rx_slots \in [1..WindowSlots -> Nat]
    BY Zenon DEF RxInit
  <2> QED BY <1>1, <1>2, <2>1, <2>2, ZenonT(30) DEF RxInit, RxType, Receivers
<1>4. Places
  BY <1>1, <1>2 DEF RxInit, Places
<1>5. Stored = 0 /\ Fetched = 0
  BY <1>0, <1>1, <1>2, RingHead DEF RxInit, Stored, Fetched
<1>6. Contents
  BY <1>0, <1>1, <1>2, <1>5 DEF RxInit, Contents
<1>7. EmptyAfterTeardown
  BY <1>2, Zenon DEF EmptyAfterTeardown
<1> QED BY <1>3, <1>4, <1>6, <1>7, ZenonT(30) DEF RxInv

(* Every step keeps the types.                                              *)
LEMMA RxTypes == ASSUME RxType, Places, [RxNext]_rx_vars PROVE RxType'
<1> USE DEF RxType
<1>0. Ring \in Nat /\ Ring > 1 /\ WindowSlots \in Nat /\ WindowSlots > 0
  BY RxAssumption
<1>1. CASE ReceiveCheck
  BY <1>1, Zenon
     DEF ReceiveCheck, ring, words, rx_flags, history, Receivers
<1>2. CASE ReceivePublish
  <2>1. accepted + 1 \in Nat
    OBVIOUS
  <2>2. rx_queue' \in [0..Ring - 1 -> Nat]
    BY <1>2, <2>1, Zenon DEF ReceivePublish
  <2>3. rx_head' \in 0..Ring - 1
    BY <1>2, RingHead, Zenon DEF ReceivePublish
  <2> QED BY <1>2, <2>1, <2>2, <2>3, Zenon
         DEF ReceivePublish, ring, words, rx_flags, history, Receivers
<1>3. CASE ReceiveProduced
  BY <1>3
     DEF ReceiveProduced, ring, words, rx_flags, history, Receivers
<1>4. CASE ReceiveExchange
  BY <1>4, Zenon
     DEF ReceiveExchange, ring, words, rx_flags, history, Receivers
<1>5. CASE ReceiveMasked
  BY <1>5, Zenon
     DEF ReceiveMasked, ring, words, rx_flags, history, Receivers
<1>6. CASE ReceiveSignal
  BY <1>6, Zenon
     DEF ReceiveSignal, ring, words, rx_flags, history, Receivers
<1>7. CASE FetchLoad
  <2>1. rx_main' \in [pc : Mains, head : 0..Ring - 1,
                      count : 0..WindowSlots]
    BY <1>7, Zenon DEF FetchLoad, ring, Mains
  <2> QED BY <1>7, <2>1, Zenon
         DEF FetchLoad, ring, words, rx_flags, history
<1>8. CASE FetchCopy
  <2> DEFINE used == Gap(rx_main.head, rx_tail)
             count == IF used < WindowSlots THEN used ELSE WindowSlots
  <2>0. rx_main.head \in 0..Ring - 1 /\ used \in 0..Ring - 1
    BY RingHead, Zenon
  <2>1. count \in 0..WindowSlots /\ count \in 0..Ring - 1 /\ count <= used
    <3> HIDE DEF used
    <3> QED BY <1>0, <2>0
  <2>2. rx_main' \in [pc : Mains, head : 0..Ring - 1,
                      count : 0..WindowSlots]
    BY <1>8, <2>1, Zenon DEF FetchCopy, Mains, Gap
  <2>3. rx_tail' \in 0..Ring - 1
    BY <1>8, <2>1, RingEntry, Zenon DEF FetchCopy, Gap, Entry
  <2>4. rx_slots' \in [1..WindowSlots -> Nat]
    <3>1. \A i \in 1..WindowSlots :
             i <= count => rx_queue[(rx_tail + i - 1) % Ring] \in Nat
      <4> SUFFICES ASSUME NEW i \in 1..WindowSlots, i <= count
                   PROVE  rx_queue[(rx_tail + i - 1) % Ring] \in Nat
          BY Zenon
      <4>1. i - 1 \in 0..Ring - 1 /\ rx_tail + (i - 1) = rx_tail + i - 1
        <5> HIDE DEF count
        <5> QED BY <1>0, <2>1
      <4> QED BY <4>1, RingEntry, Zenon DEF Entry
    <3> QED BY <1>8, <3>1, Zenon DEF FetchCopy, Gap
  <2> QED BY <1>8, <2>2, <2>3, <2>4, Zenon DEF FetchCopy, rx_flags, history
<1>9. CASE FetchConsumed
  <2>1. rx_main' \in [pc : Mains, head : 0..Ring - 1,
                      count : 0..WindowSlots]
    BY <1>9, MainGoes, Zenon DEF FetchConsumed, Mains
  <2> QED BY <1>9, <2>1, SMTT(30)
         DEF FetchConsumed, ring, words, rx_flags, history
<1>10. CASE FetchReply
  <2>1. poller' \in [pc : Pollers, count : 0..WindowSlots,
                     index : 0..WindowSlots, produced : Nat]
    <3>1. rx_main.count \in 0..WindowSlots /\ 0 \in 0..WindowSlots
      BY <1>0
    <3> QED BY <1>10, <3>1, Zenon DEF FetchReply, Pollers
  <2>2. rx_main' \in [pc : Mains, head : 0..Ring - 1,
                      count : 0..WindowSlots]
    BY <1>10, <1>0 DEF FetchReply, NoRequest, Mains
  <2> QED BY <1>10, <2>1, <2>2, Zenon
         DEF FetchReply, ring, words, rx_flags, history
<1>11. CASE UnmaskSignal
  <2>1. rx_main' \in [pc : Mains, head : 0..Ring - 1,
                      count : 0..WindowSlots]
    BY <1>11, <1>0 DEF UnmaskSignal, NoRequest, Mains
  <2> QED BY <1>11, <2>1, Zenon
         DEF UnmaskSignal, ring, words, rx_flags, history
<1>12. CASE Drained
  <2>1. rx_main' \in [pc : Mains, head : 0..Ring - 1,
                      count : 0..WindowSlots]
    BY <1>12, MainGoes, Zenon DEF Drained, Mains
  <2>2. 0 \in 0..Ring - 1
    BY <1>0
  <2> QED BY <1>12, <2>1, <2>2, Zenon
         DEF Drained, ring, words, rx_flags, history
<1>13. CASE PollerTop
  <2>1. poller' \in [pc : Pollers, count : 0..WindowSlots,
                     index : 0..WindowSlots, produced : Nat]
    BY <1>13, PollerGoes, Zenon DEF PollerTop, Pollers
  <2> QED BY <1>13, <2>1, Zenon
         DEF PollerTop, ring, words, rx_flags, history
<1>14. CASE PollRx
  <2>1. poller.index + 1 \in 0..WindowSlots
    <3>1. poller.index \in 0..WindowSlots /\ poller.count \in 0..WindowSlots
      BY Zenon
    <3>2. poller.index < poller.count
      BY <1>14, Zenon DEF PollRx, PollerAt, Places
    <3> QED BY <1>0, <3>1, <3>2, SMTT(30)
  <2>2. poller' \in [pc : Pollers, count : 0..WindowSlots,
                     index : 0..WindowSlots, produced : Nat]
    BY <1>14, <2>1, Zenon DEF PollRx, Pollers
  <2>3. delivered + 1 \in Nat
    OBVIOUS
  <2> QED BY <1>14, <2>2, <2>3, Zenon
         DEF PollRx, ring, words, rx_flags, history
<1>15. CASE PollWaiting
  <2>1. poller' \in [pc : Pollers, count : 0..WindowSlots,
                     index : 0..WindowSlots, produced : Nat]
    <3>1. 0 \in 0..WindowSlots
      BY <1>0
    <3> QED BY <1>15, <3>1, Zenon DEF PollWaiting, PollStart, Pollers
  <2> QED BY <1>15, <2>1, Zenon
         DEF PollWaiting, ring, words, rx_flags, history
<1>16. CASE PollProduced
  <2>1. poller' \in [pc : Pollers, count : 0..WindowSlots,
                     index : 0..WindowSlots, produced : Nat]
    BY <1>16, Zenon DEF PollProduced, Pollers
  <2> QED BY <1>16, <2>1, Zenon
         DEF PollProduced, ring, words, rx_flags, history
<1>17. CASE PollConsumed
  <2>1. poller' \in [pc : Pollers, count : 0..WindowSlots,
                     index : 0..WindowSlots, produced : Nat]
    BY <1>17, PollerGoes, Zenon DEF PollConsumed, Pollers
  <2> QED BY <1>17, <2>1, Zenon
         DEF PollConsumed, ring, words, rx_flags, history
<1>18. CASE PollerWait
  <2>1. poller' \in [pc : Pollers, count : 0..WindowSlots,
                     index : 0..WindowSlots, produced : Nat]
    BY <1>18, PollerGoes, Zenon DEF PollerWait, Pollers
  <2> QED BY <1>18, <2>1, ZenonT(30)
         DEF PollerWait, ring, words, rx_flags, history
<1>19. CASE PollClear
  <2>1. poller' \in [pc : Pollers, count : 0..WindowSlots,
                     index : 0..WindowSlots, produced : Nat]
    BY <1>19, PollerGoes, Zenon DEF PollClear, Pollers
  <2> QED BY <1>19, <2>1, Zenon
         DEF PollClear, ring, words, rx_flags, history
<1>20. CASE PollCompare
  <2>1. poller' \in [pc : Pollers, count : 0..WindowSlots,
                     index : 0..WindowSlots, produced : Nat]
    BY <1>20, PollerGoes, ZenonT(30) DEF PollCompare, Pollers
  <2> QED BY <1>20, <2>1, Zenon
         DEF PollCompare, ring, words, rx_flags, history
<1>21. CASE PollRequest
  <2>1. poller' \in [pc : Pollers, count : 0..WindowSlots,
                     index : 0..WindowSlots, produced : Nat]
    BY <1>21, PollerGoes, Zenon DEF PollRequest, Pollers
  <2>2. rx_main' \in [pc : Mains, head : 0..Ring - 1,
                      count : 0..WindowSlots]
    BY <1>21, MainGoes, Zenon DEF PollRequest, Mains
  <2> QED BY <1>21, <2>1, <2>2, Zenon
         DEF PollRequest, ring, words, rx_flags, history
<1>22. CASE Mask
  BY <1>22, Zenon
     DEF Mask, ring, words, rx_flags, history
<1>23. CASE Unmask
  <2>1. rx_main' \in [pc : Mains, head : 0..Ring - 1,
                      count : 0..WindowSlots]
    BY <1>23, MainGoes, Zenon DEF Unmask, Mains
  <2> QED BY <1>23, <2>1, Zenon
         DEF Unmask, ring, words, rx_flags, history
<1>24. CASE PollHup
  BY <1>24, Zenon
     DEF PollHup, ring, words, rx_flags, history
<1>25. CASE Wake
  BY <1>25, Zenon
     DEF Wake, ring, words, rx_flags, history
<1>26. CASE RxDeactivate
  <2>1. rx_main' \in [pc : Mains, head : 0..Ring - 1,
                      count : 0..WindowSlots]
    BY <1>26, MainGoes, ZenonT(30) DEF RxDeactivate, Mains
  <2> QED BY <1>26, <2>1, ZenonT(30)
         DEF RxDeactivate, ring, words, rx_flags, history
<1>27. CASE UNCHANGED rx_vars
  BY <1>27, Zenon DEF rx_vars, ring, words, rx_flags, history
<1> QED
  BY <1>1, <1>2, <1>3, <1>4, <1>5, <1>6, <1>7, <1>8, <1>9, <1>10, <1>11,
     <1>12, <1>13, <1>14, <1>15, <1>16, <1>17, <1>18, <1>19, <1>20, <1>21,
     <1>22, <1>23, <1>24, <1>25, <1>26, <1>27, ZenonT(30)
     DEF RxNext, Receive, Serve, RxPoll

(* Every step but the copy into the window keeps the threads in their       *)
(* places.                                                                  *)
LEMMA PlacesKept ==
    ASSUME RxType, Places, [RxNext]_rx_vars, ~FetchCopy
    PROVE  Places'
<1> USE DEF Places, RingRoom
<1>1. CASE ReceiveCheck
  BY <1>1, ZenonT(30) DEF ReceiveCheck, ring, rx_flags, words, RxType
<1>2. CASE ReceivePublish
  BY <1>2, Zenon DEF ReceivePublish, ring, rx_flags, words, RxType
<1>3. CASE ReceiveProduced
  BY <1>3, Zenon DEF ReceiveProduced, ring, rx_flags, words, RxType
<1>4. CASE ReceiveExchange
  BY <1>4, Zenon DEF ReceiveExchange, ring, rx_flags, words, RxType
<1>5. CASE ReceiveMasked
  BY <1>5, Zenon DEF ReceiveMasked, ring, rx_flags, words, RxType
<1>6. CASE ReceiveSignal
  BY <1>6, Zenon DEF ReceiveSignal, ring, rx_flags, words, RxType
<1>7. CASE FetchLoad
  <2>1. /\ rx_main'.pc \in {"reply", "copy"}
        /\ rx_main'.count = rx_main.count /\ rx_main'.head = rx_head
    BY <1>7, Zenon DEF FetchLoad, RxType
  <2> QED BY <1>7, <2>1, Zenon
         DEF FetchLoad, ring, rx_flags, words, RxType
<1>9. CASE FetchConsumed
  <2>1. /\ rx_main'.pc = "reply" /\ rx_main'.count = rx_main.count
        /\ rx_main'.head = rx_main.head
    BY <1>9, MainGoes, Zenon DEF FetchConsumed, Mains
  <2> QED BY <1>9, <2>1, Zenon
         DEF FetchConsumed, ring, rx_flags, words, RxType
<1>10. CASE FetchReply
  <2>1. /\ poller'.pc = "top"
        /\ rx_main.count = 0 => /\ poller'.count = poller.count
                                /\ poller'.index = poller.index
        /\ rx_main.count # 0 => /\ poller'.count = rx_main.count
                                /\ poller'.index = 0
    BY <1>10, Zenon DEF FetchReply, RxType
  <2>2. rx_main'.pc = "idle" /\ rx_main'.count = 0
    BY <1>10, Zenon DEF FetchReply, NoRequest
  <2> QED BY <1>10, <2>1, <2>2
         DEF FetchReply, ring, rx_flags, words, RxType
<1>11. CASE UnmaskSignal
  <2>1. rx_main'.pc = "idle" /\ rx_main'.count = 0
    BY <1>11, Zenon DEF UnmaskSignal, NoRequest
  <2> QED BY <1>11, <2>1, Zenon
         DEF UnmaskSignal, ring, rx_flags, words, RxType
<1>12. CASE Drained
  <2>1. /\ rx_main'.pc = "down" /\ rx_main'.count = rx_main.count
        /\ rx_main'.head = rx_main.head
    BY <1>12, MainGoes, Zenon DEF Drained, Mains
  <2> QED BY <1>12, <2>1, Zenon
         DEF Drained, ring, rx_flags, words, RxType
<1>13. CASE PollerTop
  <2>1. /\ poller'.pc \in {"hup", "rx", "waiting"}
        /\ poller'.pc = "rx" => poller.index < poller.count
        /\ poller'.pc = "waiting" => ~(poller.index < poller.count)
        /\ poller'.count = poller.count /\ poller'.index = poller.index
    BY <1>13, PollerGoes, Zenon DEF PollerTop, Pollers
  <2> QED BY <1>13, <2>1, SMTT(30)
         DEF PollerTop, ring, rx_flags, words, PollerAt, RxType
<1>14. CASE PollRx
  <2>1. /\ poller'.pc = "top" /\ poller'.count = poller.count
        /\ poller'.index = poller.index + 1
    BY <1>14, Zenon DEF PollRx, RxType
  <2> QED BY <1>14, <2>1
         DEF PollRx, ring, rx_flags, words, PollerAt, RxType
<1>15. CASE PollWaiting
  <2>1. /\ poller'.pc = "produced" /\ poller'.count = 0
        /\ poller'.index = 0
    BY <1>15, Zenon DEF PollWaiting, PollStart
  <2> QED BY <1>15, <2>1
         DEF PollWaiting, ring, rx_flags, words, PollerAt, RxType
<1>16. CASE PollProduced
  <2>1. /\ poller'.pc \in {"compare", "consumed"}
        /\ poller'.count = poller.count /\ poller'.index = poller.index
    BY <1>16, Zenon DEF PollProduced, RxType
  <2> QED BY <1>16, <2>1, Zenon
         DEF PollProduced, ring, rx_flags, words, RxType
<1>17. CASE PollConsumed
  <2>1. /\ poller'.pc \in {"wait", "clear"}
        /\ poller'.count = poller.count /\ poller'.index = poller.index
    BY <1>17, PollerGoes, ZenonT(30) DEF PollConsumed, Pollers
  <2> QED BY <1>17, <2>1, ZenonT(30)
         DEF PollConsumed, ring, rx_flags, words, PollerAt, RxType
<1>18. CASE PollerWait
  <2>1. /\ poller'.pc = "woken"
        /\ poller'.count = poller.count /\ poller'.index = poller.index
    BY <1>18, PollerGoes, ZenonT(30) DEF PollerWait, Pollers
  <2> QED BY <1>18, <2>1, ZenonT(30)
         DEF PollerWait, ring, rx_flags, words, PollerAt, RxType
<1>19. CASE PollClear
  <2>1. /\ poller'.pc = "compare"
        /\ poller'.count = poller.count /\ poller'.index = poller.index
    BY <1>19, PollerGoes, Zenon DEF PollClear, Pollers
  <2> QED BY <1>19, <2>1, Zenon
         DEF PollClear, ring, rx_flags, words, PollerAt, RxType
<1>20. CASE PollCompare
  <2>1. /\ poller'.pc \in {"hup", "top", "request"}
        /\ poller'.count = poller.count /\ poller'.index = poller.index
    BY <1>20, PollerGoes, Zenon DEF PollCompare, Pollers
  <2> QED BY <1>20, <2>1, Zenon
         DEF PollCompare, ring, rx_flags, words, PollerAt, RxType
<1>21. CASE PollRequest
  <2>1. /\ poller'.pc = "fetch"
        /\ poller'.count = poller.count /\ poller'.index = poller.index
    BY <1>21, PollerGoes, ZenonT(30) DEF PollRequest, Pollers
  <2>2. /\ rx_main'.pc = "fetch" /\ rx_main'.count = rx_main.count
        /\ rx_main'.head = rx_main.head
    BY <1>21, MainGoes, Zenon DEF PollRequest, Mains
  <2> QED BY <1>21, <2>1, <2>2, Zenon
         DEF PollRequest, ring, rx_flags, words, PollerAt, RxType
<1>22. CASE Mask
  BY <1>22, ZenonT(30) DEF Mask, ring, rx_flags, words, RxType
<1>23. CASE Unmask
  <2>1. /\ rx_main'.pc = "unmasked" /\ rx_main'.count = rx_main.count
        /\ rx_main'.head = rx_main.head
    BY <1>23, MainGoes, Zenon DEF Unmask, Mains
  <2> QED BY <1>23, <2>1, ZenonT(30)
         DEF Unmask, ring, rx_flags, words, RxType
<1>24. CASE PollHup
  BY <1>24, Zenon DEF PollHup, ring, rx_flags, words, RxType
<1>25. CASE Wake
  BY <1>25, Zenon DEF Wake, ring, rx_flags, words, RxType
<1>26. CASE RxDeactivate
  <2>1. /\ rx_main'.pc = "drain" /\ rx_main'.count = rx_main.count
        /\ rx_main'.head = rx_main.head
    BY <1>26, MainGoes, Zenon DEF RxDeactivate, Mains
  <2> QED BY <1>26, <2>1, ZenonT(30)
         DEF RxDeactivate, ring, rx_flags, words, RxType
<1>27. CASE UNCHANGED rx_vars
  BY <1>27, Zenon DEF rx_vars, ring, rx_flags
<1> QED
  BY <1>1, <1>2, <1>3, <1>4, <1>5, <1>6, <1>7, <1>9, <1>10, <1>11,
     <1>12, <1>13, <1>14, <1>15, <1>16, <1>17, <1>18, <1>19, <1>20, <1>21,
     <1>22, <1>23, <1>24, <1>25, <1>26, <1>27, ZenonT(30)
     DEF RxNext, Receive, Serve, RxPoll

(* Nothing happens to the ring and the notification after the teardown.     *)
LEMMA TeardownKept ==
    ASSUME RxType, Places, EmptyAfterTeardown, [RxNext]_rx_vars
    PROVE  EmptyAfterTeardown'
<1> USE DEF Places, EmptyAfterTeardown
<1>1. CASE ReceiveCheck
  BY <1>1, Zenon DEF ReceiveCheck, ring, rx_flags
<1>2. CASE ReceivePublish
  BY <1>2, Zenon DEF ReceivePublish, ring, rx_flags
<1>3. CASE ReceiveProduced
  BY <1>3, Zenon DEF ReceiveProduced, ring, rx_flags
<1>4. CASE ReceiveExchange
  BY <1>4, Zenon DEF ReceiveExchange, ring, rx_flags
<1>5. CASE ReceiveMasked
  BY <1>5, Zenon DEF ReceiveMasked, ring, rx_flags
<1>6. CASE ReceiveSignal
  BY <1>6, Zenon DEF ReceiveSignal, ring, rx_flags
<1>7. CASE FetchLoad
  <2>1. rx_main'.pc # "down"
    BY <1>7, Zenon DEF FetchLoad, RxType
  <2> QED BY <2>1, Zenon
<1>8. CASE FetchCopy
  <2>1. rx_main'.pc # "down"
    BY <1>8, Zenon DEF FetchCopy, RxType
  <2> QED BY <2>1, Zenon
<1>9. CASE FetchConsumed
  <2>1. rx_main'.pc # "down"
    BY <1>9, Zenon DEF FetchConsumed, RxType
  <2> QED BY <2>1, Zenon
<1>10. CASE FetchReply
  BY <1>10, Zenon DEF FetchReply, ring, rx_flags, NoRequest
<1>11. CASE UnmaskSignal
  BY <1>11, ZenonT(30) DEF UnmaskSignal, ring, rx_flags, NoRequest
<1>12. CASE Drained
  BY <1>12, ZenonT(30) DEF Drained, ring, rx_flags
<1>13. CASE PollerTop
  BY <1>13, ZenonT(30) DEF PollerTop, ring, rx_flags, PollerAt
<1>14. CASE PollRx
  BY <1>14, Zenon DEF PollRx, ring, rx_flags, PollerAt
<1>15. CASE PollWaiting
  BY <1>15, Zenon DEF PollWaiting, ring, rx_flags, PollerAt
<1>16. CASE PollProduced
  BY <1>16, Zenon DEF PollProduced, ring, rx_flags, PollerAt
<1>17. CASE PollConsumed
  BY <1>17, Zenon DEF PollConsumed, ring, rx_flags, PollerAt
<1>18. CASE PollerWait
  BY <1>18, Zenon DEF PollerWait, ring, rx_flags, PollerAt
<1>19. CASE PollClear
  BY <1>19, Zenon DEF PollClear, ring, rx_flags, PollerAt
<1>20. CASE PollCompare
  BY <1>20, ZenonT(30) DEF PollCompare, ring, rx_flags, PollerAt
<1>21. CASE PollRequest
  <2>1. rx_main'.pc # "down"
    BY <1>21, Zenon DEF PollRequest, RxType
  <2> QED BY <2>1, Zenon
<1>22. CASE Mask
  BY <1>22, ZenonT(30) DEF Mask, ring, rx_flags
<1>23. CASE Unmask
  <2>1. rx_main'.pc # "down"
    BY <1>23, Zenon DEF Unmask, RxType
  <2> QED BY <2>1, Zenon
<1>24. CASE PollHup
  BY <1>24, Zenon DEF PollHup, ring, rx_flags, PollerAt
<1>25. CASE Wake
  BY <1>25, Zenon DEF Wake, ring, rx_flags
<1>26. CASE RxDeactivate
  <2>1. rx_main'.pc # "down"
    BY <1>26, Zenon DEF RxDeactivate, RxType
  <2> QED BY <2>1, Zenon
<1>27. CASE UNCHANGED rx_vars
  BY <1>27, Zenon DEF rx_vars, ring
<1> QED
  BY <1>1, <1>2, <1>3, <1>4, <1>5, <1>6, <1>7, <1>8, <1>9, <1>10, <1>11,
     <1>12, <1>13, <1>14, <1>15, <1>16, <1>17, <1>18, <1>19, <1>20, <1>21,
     <1>22, <1>23, <1>24, <1>25, <1>26, <1>27, ZenonT(60)
     DEF RxNext, Receive, Serve, RxPoll

(* A step that moves no packet keeps the contents.                          *)
LEMMA ContentsFrame ==
    ASSUME Contents,
           UNCHANGED <<rx_head, rx_tail, rx_queue, rx_slots, accepted,
                       delivered>>,
           rx_main'.count = rx_main.count,
           poller'.count = poller.count, poller'.index = poller.index,
           rx_main'.pc = "copy" => /\ rx_main.pc = "copy"
                                   /\ rx_main'.head = rx_main.head
    PROVE  Contents'
  BY Zenon DEF Contents, Stored, Fetched

(* A packet is appended to the ring, behind those it holds.                 *)
LEMMA PublishKeeps ==
    ASSUME RxType, Places, Contents, ReceivePublish
    PROVE  Contents'
<1>1. /\ RingRoom
      /\ rx_queue' = [rx_queue EXCEPT ![rx_head] = accepted + 1]
      /\ rx_head' = Next1(rx_head) /\ accepted' = accepted + 1
      /\ UNCHANGED <<rx_tail, rx_slots, rx_main, poller, delivered>>
  BY Zenon DEF ReceivePublish, Places, words
<1>2. /\ Stored \in 0..Ring - 1 /\ Stored' = Stored + 1
      /\ Entry(rx_tail, Stored) = rx_head
  <2>1. rx_head \in 0..Ring - 1 /\ rx_tail \in 0..Ring - 1
    BY ZenonT(30) DEF RxType
  <2>2. /\ Gap(rx_head, rx_tail) \in 0..Ring - 1
        /\ Entry(rx_tail, Gap(rx_head, rx_tail)) = rx_head
        /\ Gap(Next1(rx_head), rx_tail)
             = Gap(rx_head, rx_tail) + 1
    BY <1>1, <2>1, RingHead, ZenonT(30) DEF RingRoom
  <2>3. /\ Stored = Gap(rx_head, rx_tail)
        /\ Stored' = Gap(Next1(rx_head), rx_tail)
    BY <1>1, Zenon DEF Stored
  <2> QED BY <2>2, <2>3, ZenonT(30)
<1>3. Fetched' = Fetched /\ Fetched \in Int
  BY <1>1 DEF Fetched, RxType
<1>4. ASSUME NEW i \in 0..Ring - 1, i < Stored'
      PROVE  rx_queue'[Entry(rx_tail, i)] = Fetched + i + 1
  <2>1. CASE i = Stored
    <3>1. rx_queue'[rx_head] = accepted + 1
      BY <1>1, Zenon DEF RxType
    <3>2. accepted = Fetched + i
      BY <2>1, Zenon DEF Contents
    <3> QED BY <1>2, <2>1, <3>1, <3>2, Zenon
  <2>2. CASE i # Stored
    <3>1. i < Stored
      BY <1>2, <1>4, <2>2
    <3>2. /\ Entry(rx_tail, i) \in 0..Ring - 1
          /\ Entry(rx_tail, i) # rx_head
      BY <2>2, RingEntry, Zenon DEF RxType, Stored
    <3>3. rx_queue'[Entry(rx_tail, i)] = rx_queue[Entry(rx_tail, i)]
      BY <1>1, <3>2, Zenon DEF RxType
    <3> QED BY <3>1, <3>3, Zenon DEF Contents
  <2> QED BY <2>1, <2>2, Zenon
<1>5. accepted' = Fetched' + Stored'
  BY <1>1, <1>2, <1>3 DEF Contents, RxType
<1>6. rx_main'.pc = "copy" => Gap(rx_main'.head, rx_tail') <= Stored'
  <2> SUFFICES ASSUME rx_main.pc = "copy"
               PROVE  Gap(rx_main.head, rx_tail) <= Stored + 1
      BY <1>1, <1>2, Zenon
  <2>1. Gap(rx_main.head, rx_tail) \in 0..Ring - 1
    BY RingHead, Zenon DEF RxType
  <2> QED BY <1>2, <2>1 DEF Contents
<1> QED BY <1>1, <1>3, <1>4, <1>5, <1>6, ZenonT(30) DEF Contents

(* service_rx_batch copies from the tail what was there when it loaded the  *)
(* head, as far as the window goes, and moves the tail over it: the packets *)
(* change from the ring to the window and none changes its number.          *)
LEMMA CopyKeeps ==
    ASSUME RxType, Places, Contents, FetchCopy
    PROVE  Places' /\ Contents'
<1> DEFINE used == Gap(rx_main.head, rx_tail)
           count == IF used < WindowSlots THEN used ELSE WindowSlots
<1>0. Ring \in Nat /\ Ring > 1 /\ WindowSlots \in Nat /\ WindowSlots > 0
  BY RxAssumption
<1>1. /\ rx_main.pc = "copy"
      /\ rx_slots' = [i \in 1..WindowSlots |->
                        IF i <= count THEN rx_queue[(rx_tail + i - 1) % Ring]
                        ELSE rx_slots[i]]
      /\ rx_tail' = Entry(rx_tail, count)
      /\ rx_main'.pc = "consumed" /\ rx_main'.count = count
      /\ UNCHANGED <<rx_head, rx_queue, rx_active, receiver, poller, accepted,
                     delivered>>
  BY Zenon DEF FetchCopy, RxType, rx_flags, history, Gap, Entry
<1>2. /\ rx_head \in 0..Ring - 1 /\ rx_tail \in 0..Ring - 1
      /\ Stored \in 0..Ring - 1 /\ used \in 0..Ring - 1
  BY RingHead, ZenonT(30) DEF RxType, Stored
<1>3. used <= Stored
  BY <1>1, Zenon DEF Contents
<1>4. /\ count \in 0..WindowSlots /\ count \in 0..Ring - 1
      /\ count <= Stored
  <2> HIDE DEF used
  <2> QED BY <1>0, <1>2, <1>3, SMTT(30)
<1> HIDE DEF used, count
<1>5. /\ Stored' = Stored - count
      /\ \A i \in 0..Ring - 1 :
            i + count < Ring
              => Entry(rx_tail', i) = Entry(rx_tail, i + count)
  <2>1. count <= Gap(rx_head, rx_tail)
    BY <1>4, ZenonT(30) DEF Stored
  <2>2. /\ Gap(rx_head, Entry(rx_tail, count))
             = Gap(rx_head, rx_tail) - count
        /\ \A i \in 0..Ring - 1 :
              i + count < Ring
                => Entry(Entry(rx_tail, count), i)
                     = Entry(rx_tail, i + count)
    BY <1>2, <1>4, <2>1, RingTail, SMTT(30)
  <2>3. /\ Stored = Gap(rx_head, rx_tail)
        /\ Stored' = Gap(rx_head, Entry(rx_tail, count))
    BY <1>1, ZenonT(30) DEF Stored
  <2> QED BY <1>1, <2>2, <2>3, ZenonT(30)
<1>6. rx_main.count = 0 /\ poller.count = 0 /\ poller.index = 0
  BY <1>1 DEF Places, RxType
<1>7. Fetched = delivered /\ Fetched' = delivered + count /\ delivered \in Nat
  BY <1>1, <1>4, <1>6 DEF Fetched, RxType
<1>8. ASSUME NEW i \in 0..Ring - 1, i < Stored'
      PROVE  rx_queue[Entry(rx_tail', i)] = Fetched' + i + 1
  <2>1. i + count \in 0..Ring - 1 /\ i + count < Stored /\ i + count < Ring
    BY <1>0, <1>2, <1>4, <1>5, <1>8
  <2>2. rx_queue[Entry(rx_tail, i + count)] = Fetched + (i + count) + 1
    BY <2>1, Zenon DEF Contents
  <2>3. Entry(rx_tail', i) = Entry(rx_tail, i + count)
    BY <1>5, <2>1, Zenon
  <2> QED BY <1>4, <1>7, <2>2, <2>3
<1>9. ASSUME NEW i \in 1..WindowSlots, i <= count
      PROVE  rx_slots'[i] = delivered + i
  <2>1. i - 1 \in 0..Ring - 1 /\ i - 1 < Stored
    BY <1>0, <1>2, <1>4, <1>9
  <2>2. rx_queue[Entry(rx_tail, i - 1)] = Fetched + (i - 1) + 1
    BY <2>1, Zenon DEF Contents
  <2>3. rx_tail + (i - 1) = rx_tail + i - 1
    BY <1>2, Zenon
  <2>4. rx_slots'[i] = rx_queue[(rx_tail + i - 1) % Ring]
    BY <1>1, <1>9, Zenon
  <2>5. (rx_tail + i - 1) % Ring = Entry(rx_tail, i - 1)
    BY <2>3, Zenon DEF Entry
  <2> QED BY <1>7, <2>2, <2>4, <2>5
<1>10. accepted' = Fetched' + Stored'
  BY <1>1, <1>2, <1>4, <1>5, <1>7, SMTT(30) DEF Contents
<1>11. Contents'
  BY <1>1, <1>6, <1>8, <1>9, <1>10, SMTT(30) DEF Contents
<1>12. receiver = "publish" => RingRoom'
  <2> SUFFICES ASSUME receiver = "publish" PROVE RingRoom'
      BY Zenon
  <2>1. Stored < Ring - 1
    BY <1>2, RingHead, Zenon DEF Places, RingRoom, Stored
  <2>2. Stored' < Ring - 1
    BY <1>0, <1>2, <1>4, <1>5, <2>1, SMTT(30)
  <2>3. rx_tail' \in 0..Ring - 1
    BY <1>1, <1>2, <1>4, RingTail, ZenonT(30) DEF Stored
  <2> QED BY <1>1, <1>2, <2>2, <2>3, RingHead, Zenon DEF RingRoom, Stored
<1>13. Places'
  BY <1>1, <1>6, <1>12, Zenon DEF Places
<1> QED BY <1>11, <1>13, Zenon

(* The packets stay in order through every step.                            *)
LEMMA ContentsKept ==
    ASSUME RxType, Places, rx_main.pc # "down" => Contents, [RxNext]_rx_vars
    PROVE  rx_main'.pc # "down" => Contents'
<1> SUFFICES ASSUME rx_main'.pc # "down"
             PROVE  Contents'
    BY Zenon
<1>0. rx_main.pc # "down" => Contents
  BY Zenon
<1>1. CASE ReceiveCheck
  BY <1>0, <1>1, ContentsFrame, Zenon
     DEF ReceiveCheck, ring, words, history
<1>2. CASE ReceivePublish
  BY <1>0, <1>2, PublishKeeps, Zenon DEF ReceivePublish
<1>3. CASE ReceiveProduced
  BY <1>0, <1>3, ContentsFrame, ZenonT(30)
     DEF ReceiveProduced, ring, words, history
<1>4. CASE ReceiveExchange
  BY <1>0, <1>4, ContentsFrame, Zenon
     DEF ReceiveExchange, ring, words, history
<1>5. CASE ReceiveMasked
  BY <1>0, <1>5, ContentsFrame, Zenon
     DEF ReceiveMasked, ring, words, history
<1>6. CASE ReceiveSignal
  BY <1>0, <1>6, ContentsFrame, Zenon
     DEF ReceiveSignal, ring, words, history
<1>7. CASE FetchLoad
  <2>1. /\ rx_main'.pc \in {"reply", "copy"}
        /\ rx_main'.count = rx_main.count /\ rx_main'.head = rx_head
    BY <1>7, Zenon DEF FetchLoad, RxType
  <2>2. /\ Contents /\ Stored' = Stored /\ Fetched' = Fetched
        /\ UNCHANGED <<rx_head, rx_tail, rx_queue, rx_slots, accepted,
                       delivered, poller>>
    BY <1>0, <1>7, <2>1, ZenonT(30) DEF FetchLoad, ring, words, history, Stored, Fetched
  <2>3. Gap(rx_head, rx_tail) <= Stored
    BY RingHead DEF Stored, RxType
  <2> QED BY <2>1, <2>2, <2>3, Zenon DEF Contents
<1>8. CASE FetchCopy
  BY <1>0, <1>8, CopyKeeps, Zenon DEF FetchCopy
<1>9. CASE FetchConsumed
  <2>1. /\ rx_main'.pc = "reply" /\ rx_main'.count = rx_main.count
        /\ rx_main'.head = rx_main.head
    BY <1>9, MainGoes, Zenon DEF FetchConsumed, Mains
  <2> QED BY <1>0, <1>9, <2>1, ContentsFrame, Zenon
         DEF FetchConsumed, ring, words, history
<1>10. CASE FetchReply
  <2>1. /\ poller'.pc = "top"
        /\ rx_main.count = 0 => /\ poller'.count = poller.count
                                /\ poller'.index = poller.index
        /\ rx_main.count # 0 => /\ poller'.count = rx_main.count
                                /\ poller'.index = 0
    BY <1>10, Zenon DEF FetchReply, RxType
  <2>2. rx_main'.pc = "idle" /\ rx_main'.count = 0
    BY <1>10, Zenon DEF FetchReply, NoRequest
  <2>3. /\ poller.count = 0 /\ poller.index = 0 /\ rx_main.count \in Nat
        /\ delivered \in Nat
    BY <1>10 DEF FetchReply, Places, RxType
  <2>4. poller'.count = rx_main.count /\ poller'.index = 0
    BY <2>1, <2>3, Zenon
  <2>5. /\ Contents /\ Stored' = Stored
        /\ UNCHANGED <<rx_head, rx_tail, rx_queue, rx_slots, accepted,
                       delivered>>
    BY <1>0, <1>10, Zenon DEF FetchReply, ring, words, history, Stored
  <2>6. Fetched' = Fetched
    BY <2>2, <2>3, <2>4, <2>5, SMTT(30) DEF Fetched
  <2>7. \A i \in 1..WindowSlots :
           i <= rx_main.count => rx_slots[i] = delivered + (i - 0)
    BY <2>5 DEF Contents
  <2>8. /\ accepted' = Fetched' + Stored'
        /\ \A i \in 0..Ring - 1 :
              i < Stored' => rx_queue'[Entry(rx_tail', i)] = Fetched' + i + 1
    BY <2>5, <2>6, Zenon DEF Contents
  <2>9. \A i \in 1..WindowSlots :
           poller'.index < i /\ i <= poller'.count
             => rx_slots'[i] = delivered' + (i - poller'.index)
    BY <2>4, <2>5, <2>7, Zenon
  <2>10. \A i \in 1..WindowSlots :
            i <= rx_main'.count => rx_slots'[i] = delivered' + i
    BY <2>2, SMTT(30)
  <2> QED BY <2>2, <2>8, <2>9, <2>10, Zenon DEF Contents
<1>11. CASE UnmaskSignal
  <2>1. rx_main'.pc = "idle" /\ rx_main'.count = 0
    BY <1>11, Zenon DEF UnmaskSignal, NoRequest
  <2> QED BY <1>0, <1>11, <2>1, ContentsFrame, ZenonT(30)
         DEF UnmaskSignal, ring, words, history, Places
<1>12. CASE Drained
  <2>1. rx_main'.pc = "down"
    BY <1>12, MainGoes, Zenon DEF Drained, Mains
  <2> QED BY <2>1, Zenon
<1>13. CASE PollerTop
  <2>1. /\ poller'.pc \in {"hup", "rx", "waiting"}
        /\ poller'.pc = "rx" => poller.index < poller.count
        /\ poller'.pc = "waiting" => ~(poller.index < poller.count)
        /\ poller'.count = poller.count /\ poller'.index = poller.index
    BY <1>13, PollerGoes, SMTT(30) DEF PollerTop, Pollers
  <2> QED BY <1>0, <1>13, <2>1, ContentsFrame, ZenonT(30)
         DEF PollerTop, ring, words, history
<1>14. CASE PollRx
  <2>1. /\ poller'.pc = "top" /\ poller'.count = poller.count
        /\ poller'.index = poller.index + 1
    BY <1>14, ZenonT(30) DEF PollRx, RxType
  <2>2. /\ rx_active /\ poller.pc = "rx" /\ delivered' = delivered + 1
        /\ UNCHANGED <<rx_head, rx_tail, rx_queue, rx_slots, accepted,
                       rx_main>>
    BY <1>14, Zenon DEF PollRx, PollerAt, ring, words
  <2>3. Contents /\ Stored' = Stored
    BY <1>0, <2>2, Zenon DEF Places, Stored
  <2>4. /\ poller.index \in Nat /\ poller.count \in Nat
        /\ rx_main.count \in Nat /\ delivered \in Nat
    BY DEF RxType
  <2>5. Fetched' = Fetched
    BY <2>1, <2>2, <2>4 DEF Fetched
  <2>6. rx_main.pc # "copy" /\ rx_main.count = 0
    BY <2>2, Zenon DEF Places
  <2>7. ASSUME NEW i \in 1..WindowSlots, poller'.index < i, i <= poller'.count
        PROVE  rx_slots[i] = delivered' + (i - poller'.index)
    <3>1. poller.index < i /\ i <= poller.count
      BY <2>1, <2>4, <2>7, SMTT(30)
    <3>2. rx_slots[i] = delivered + (i - poller.index)
      BY <2>3, <3>1, Zenon DEF Contents
    <3> QED BY <2>1, <2>2, <2>4, <3>2
  <2>8. /\ accepted' = Fetched' + Stored'
        /\ \A i \in 0..Ring - 1 :
              i < Stored' => rx_queue'[Entry(rx_tail', i)] = Fetched' + i + 1
    BY <2>2, <2>3, <2>5, Zenon DEF Contents
  <2>9. \A i \in 1..WindowSlots :
            i <= rx_main'.count => rx_slots'[i] = delivered' + i
    BY <2>2, <2>6, SMTT(30)
  <2> QED BY <2>2, <2>6, <2>7, <2>8, <2>9, ZenonT(30) DEF Contents
<1>15. CASE PollWaiting
  <2>1. /\ poller'.pc = "produced" /\ poller'.count = 0
        /\ poller'.index = 0
    BY <1>15, Zenon DEF PollWaiting, PollStart
  <2>2. /\ poller.index = poller.count /\ poller.pc = "waiting"
        /\ poller.count \in Nat
        /\ UNCHANGED <<rx_head, rx_tail, rx_queue, rx_slots, accepted,
                       delivered, rx_main>>
    BY <1>15 DEF PollWaiting, PollerAt, Places, RxType, ring, history
  <2>3. Contents /\ Stored' = Stored /\ Fetched' = Fetched
    BY <1>0, <2>1, <2>2 DEF Stored, Fetched
  <2>4. rx_main.pc # "copy"
    BY <2>2, Zenon DEF Places
  <2> QED BY <2>1, <2>2, <2>3, <2>4 DEF Contents
<1>16. CASE PollProduced
  <2>1. /\ poller'.pc \in {"compare", "consumed"}
        /\ poller'.count = poller.count /\ poller'.index = poller.index
    BY <1>16, Zenon DEF PollProduced, RxType
  <2> QED BY <1>0, <1>16, <2>1, ContentsFrame, Zenon
         DEF PollProduced, ring, words, history
<1>17. CASE PollConsumed
  <2>1. /\ poller'.pc \in {"wait", "clear"}
        /\ poller'.count = poller.count /\ poller'.index = poller.index
    BY <1>17, PollerGoes, Zenon DEF PollConsumed, Pollers
  <2> QED BY <1>0, <1>17, <2>1, ContentsFrame, ZenonT(30)
         DEF PollConsumed, ring, words, history
<1>18. CASE PollerWait
  <2>1. /\ poller'.pc = "woken"
        /\ poller'.count = poller.count /\ poller'.index = poller.index
    BY <1>18, PollerGoes, Zenon DEF PollerWait, Pollers
  <2> QED BY <1>0, <1>18, <2>1, ContentsFrame, ZenonT(30)
         DEF PollerWait, ring, words, history
<1>19. CASE PollClear
  <2>1. /\ poller'.pc = "compare"
        /\ poller'.count = poller.count /\ poller'.index = poller.index
    BY <1>19, PollerGoes, ZenonT(30) DEF PollClear, Pollers
  <2> QED BY <1>0, <1>19, <2>1, ContentsFrame, Zenon
         DEF PollClear, ring, words, history
<1>20. CASE PollCompare
  <2>1. /\ poller'.pc \in {"hup", "top", "request"}
        /\ poller'.count = poller.count /\ poller'.index = poller.index
    BY <1>20, PollerGoes, Zenon DEF PollCompare, Pollers
  <2> QED BY <1>0, <1>20, <2>1, ContentsFrame
         DEF PollCompare, ring, words, history
<1>21. CASE PollRequest
  <2>1. /\ poller'.pc = "fetch"
        /\ poller'.count = poller.count /\ poller'.index = poller.index
    BY <1>21, PollerGoes, Zenon DEF PollRequest, Pollers
  <2>2. /\ rx_main'.pc = "fetch" /\ rx_main'.count = rx_main.count
        /\ rx_main'.head = rx_main.head
    BY <1>21, MainGoes, Zenon DEF PollRequest, Mains
  <2> QED BY <1>0, <1>21, <2>1, <2>2, ContentsFrame, ZenonT(30)
         DEF PollRequest, ring, words, history
<1>22. CASE Mask
  BY <1>0, <1>22, ContentsFrame, ZenonT(30)
     DEF Mask, ring, words, history
<1>23. CASE Unmask
  <2>1. /\ rx_main'.pc = "unmasked" /\ rx_main'.count = rx_main.count
        /\ rx_main'.head = rx_main.head
    BY <1>23, MainGoes, Zenon DEF Unmask, Mains
  <2> QED BY <1>0, <1>23, <2>1, ContentsFrame, ZenonT(30)
         DEF Unmask, ring, words, history
<1>24. CASE PollHup
  BY <1>0, <1>24, ContentsFrame, ZenonT(30)
     DEF PollHup, ring, words, history
<1>25. CASE Wake
  BY <1>0, <1>25, ContentsFrame, ZenonT(30)
     DEF Wake, ring, words, history
<1>26. CASE RxDeactivate
  <2>1. /\ rx_main'.pc = "drain" /\ rx_main'.count = rx_main.count
        /\ rx_main'.head = rx_main.head
    BY <1>26, MainGoes, ZenonT(30) DEF RxDeactivate, Mains
  <2> QED BY <1>0, <1>26, <2>1, ContentsFrame
         DEF RxDeactivate, ring, words, history
<1>27. CASE UNCHANGED rx_vars
  BY <1>0, <1>27, ContentsFrame, ZenonT(30) DEF rx_vars, ring, words, history
<1> QED
  BY <1>1, <1>2, <1>3, <1>4, <1>5, <1>6, <1>7, <1>8, <1>9, <1>10, <1>11,
     <1>12, <1>13, <1>14, <1>15, <1>16, <1>17, <1>18, <1>19, <1>20, <1>21,
     <1>22, <1>23, <1>24, <1>25, <1>26, <1>27, SMTT(30)
     DEF RxNext, Receive, Serve, RxPoll

(* All of it is inductive.                                                  *)
LEMMA RxStep == RxInv /\ [RxNext]_rx_vars => RxInv'
<1> SUFFICES ASSUME RxInv, [RxNext]_rx_vars PROVE RxInv'
    BY Zenon
<1>1. RxType'
  BY RxTypes, ZenonT(30) DEF RxInv
<1>2. Places'
  <2>1. CASE FetchCopy
    <3>1. rx_main.pc # "down"
      BY <2>1, Zenon DEF FetchCopy
    <3> QED BY <2>1, <3>1, CopyKeeps, ZenonT(30) DEF RxInv
  <2>2. CASE ~FetchCopy
    BY <2>2, PlacesKept, ZenonT(30) DEF RxInv
  <2> QED BY <2>1, <2>2, Zenon
<1>3. EmptyAfterTeardown'
  BY TeardownKept, ZenonT(30) DEF RxInv
<1>4. rx_main'.pc # "down" => Contents'
  BY ContentsKept, Zenon DEF RxInv
<1> QED BY <1>1, <1>2, <1>3, <1>4, ZenonT(30) DEF RxInv

(* LKL gets the packets the ring accepted in order, each once, for every    *)
(* size of the ring and of the window and however the three threads         *)
(* interleave; and the teardown leaves nothing to the next child.           *)
THEOREM ReceivedIntact == RxSafety => []PacketsIntact
<1>1. RxInv => PacketsIntact
  <2> SUFFICES ASSUME RxInv, PollerAt("rx")
               PROVE  rx_slots[poller.index + 1] = delivered + 1
      BY Zenon DEF RxInv, PacketsIntact, DeliveredInOrder
  <2>1. rx_active /\ poller.pc = "rx" /\ poller.index < poller.count
    BY Zenon DEF PollerAt, RxInv, Places
  <2>2. Contents
    BY <2>1, Zenon DEF RxInv, Places
  <2>3. /\ poller.index \in Nat /\ poller.count \in 0..WindowSlots
        /\ delivered \in Nat /\ WindowSlots \in Nat
    BY RxAssumption DEF RxInv, RxType
  <2> DEFINE i == poller.index + 1
  <2>4. /\ i \in 1..WindowSlots /\ poller.index < i /\ i <= poller.count
        /\ i - poller.index = 1
    BY <2>1, <2>3
  <2> HIDE DEF i
  <2>5. rx_slots[i] = delivered + (i - poller.index)
    BY <2>2, <2>4, Zenon DEF Contents
  <2> QED BY <2>4, <2>5, Zenon DEF i
<1> QED BY <1>1, RxInits, RxStep, PTL DEF RxSafety
============================================================================
