-------------------------- MODULE ChildTimerProofs --------------------------
(* The timer manager and the child's timer, for every set of children,      *)
(* every PIT range, every choice of generations and timeouts and any number *)
(* of client threads:                                                       *)
(*  - the PIT covers every armed deadline, whether the manager is driven by *)
(*    arbitrary requests or by the child's own timer code;                  *)
(*  - a callback neither runs nor starts once task_timer_free has returned; *)
(*  - task_timer_service accepts no generation before its deadline.         *)
EXTENDS ChildTimer, TLAPS

----------------------------------------------------------------------------
\* The manager.
MInv == MTypeOK /\ HardwareCovers

(* program_next sets a timeout that covers every armed deadline.            *)
LEMMA ProgramCovers ==
    ASSUME NEW a \in BOOLEAN, NEW d \in Nat, NEW n \in BOOLEAN, NEW e \in Nat,
           ProgramNext(a, d, n, e, FALSE)
    PROVE  /\ pit' \in Nat \cup {Off}
           /\ a => pit' # Off /\ pit' <= Latest(d, PitMin)
           /\ n => pit' # Off /\ pit' <= Latest(e, PitMin)
  BY TimerAssumption DEF ProgramNext, Earliest, Clamp, Latest, Off

(* A failing program_next leaves the PIT as it was.                         *)
LEMMA ProgramFails ==
    ASSUME NEW a \in BOOLEAN, NEW d \in Nat, NEW n \in BOOLEAN, NEW e \in Nat,
           ProgramNext(a, d, n, e, TRUE)
    PROVE  pit' = pit
  BY Zenon DEF ProgramNext

\* luna_timer_manager_init: no child is active and no deadline is armed.
LEMMA ManagerInit == MInit => MInv
<1> SUFFICES ASSUME MInit PROVE MInv
    BY Zenon
<1>1. Nothing \in [child : Children \cup {None}, network : BOOLEAN]
  BY Zenon DEF Nothing
<1>2. MTypeOK
  BY <1>1, Zenon DEF MInit, MTypeOK
<1>3. HardwareCovers
  BY Zenon DEF MInit, HardwareCovers
<1> QED BY <1>2, <1>3, Zenon DEF MInv

(* TIMER_ARM keeps the armed deadlines covered, whichever child asks, with  *)
(* whatever generation and timeout.                                         *)
LEMMA ArmCovers ==
    ASSUME MInv, NEW c \in Children, NEW g \in Nat, NEW ns \in Nat,
           NEW error \in BOOLEAN, Arm(c, g, ns, error)
    PROVE  MInv'
<1> USE DEF MInv, MTypeOK, HardwareCovers, Covers
<1>1. CASE UNCHANGED <<armvars, pit>>
  BY <1>1, Zenon DEF Arm, armvars, netvars
<1>2. CASE /\ child_ntfn' = c
           /\ generation' = g
           /\ deadline' = ns
           /\ armed' = ~error
           /\ ProgramNext(TRUE, ns, network_armed, network_deadline, error)
  <2>1. CASE error = FALSE
    BY <1>2, <2>1, ProgramCovers, Zenon DEF Arm, netvars
  <2>2. CASE error = TRUE
    BY <1>2, <2>2, ProgramFails, Zenon DEF Arm, netvars
  <2> QED BY <2>1, <2>2, Zenon
<1> QED BY <1>1, <1>2, Zenon DEF Arm

(* TIMER_CANCEL keeps the network worker's deadline covered.                *)
LEMMA CancelCovers ==
    ASSUME MInv, NEW c \in Children, NEW g \in Nat,
           NEW error \in BOOLEAN, Cancel(c, g, error)
    PROVE  MInv'
<1> USE DEF MInv, MTypeOK, HardwareCovers, Covers
<1>1. CASE UNCHANGED <<armvars, pit>>
  BY <1>1, Zenon DEF Cancel, armvars, netvars
<1>2. CASE /\ generation' = g
           /\ armed' = FALSE
           /\ UNCHANGED <<child_ntfn, deadline>>
           /\ ProgramNext(FALSE, deadline, network_armed,
                          network_deadline, error)
  <2>1. CASE error = FALSE
    BY <1>2, <2>1, ProgramCovers, Zenon DEF Cancel, netvars
  <2>2. CASE error = TRUE
    BY <1>2, <2>2, ProgramFails, Zenon DEF Cancel, netvars
  <2> QED BY <2>1, <2>2, Zenon
<1> QED BY <1>1, <1>2, Zenon DEF Cancel

(* So do the requests of the network worker, the destruction of a child,    *)
(* the IRQ thread, the PIT and time.                                        *)
LEMMA OthersCover ==
    ASSUME MInv,
           \/ NetworkStep \/ Deactivate \/ IrqStep \/ PitExpire \/ Elapse
           \/ UNCHANGED mvars
    PROVE  MInv'
<1> USE DEF MInv, MTypeOK, HardwareCovers, Covers
<1>1. ASSUME NEW ns \in NetTimeouts, ScheduleNetwork(ns)
      PROVE  MInv'
  <2>1. ns \in Nat
    BY RequestAssumption, Zenon
  <2>2. PICK error \in BOOLEAN :
           /\ network_armed' = ~error
           /\ ProgramNext(armed, deadline, TRUE, ns, error)
    BY <1>1, Zenon DEF ScheduleNetwork
  <2>3. CASE error = FALSE
    BY <1>1, <2>1, <2>2, <2>3, ProgramCovers, Zenon
       DEF ScheduleNetwork, armvars
  <2>4. CASE error = TRUE
    BY <1>1, <2>1, <2>2, <2>4, ProgramFails, Zenon
       DEF ScheduleNetwork, armvars
  <2> QED BY <2>3, <2>4, Zenon
<1>2. CASE CancelNetwork
  <2>1. PICK error \in BOOLEAN :
           ProgramNext(armed, deadline, FALSE, network_deadline, error)
    BY <1>2, Zenon DEF CancelNetwork
  <2>2. CASE error = FALSE
    BY <1>2, <2>1, <2>2, ProgramCovers, Zenon DEF CancelNetwork, armvars
  <2>3. CASE error = TRUE
    BY <1>2, <2>1, <2>3, ProgramFails, Zenon DEF CancelNetwork, armvars
  <2> QED BY <2>2, <2>3, Zenon
<1>3. CASE Deactivate
  BY <1>3, Zenon DEF Deactivate
<1>4. CASE HandleIrq
  <2> DEFINE childDue == armed /\ deadline = 0
             netDue == network_armed /\ network_deadline = 0
             a == armed /\ ~childDue
             n == network_armed /\ ~netDue
  <2>1. capture' \in [child : Children \cup {None}, network : BOOLEAN]
    BY <1>4, Zenon DEF HandleIrq
  <2>2. CASE a \/ n
    <3>1. PICK error \in BOOLEAN :
             /\ ProgramNext(a, deadline, n, network_deadline, error)
             /\ armed' = (a /\ ~error)
             /\ network_armed' = (n /\ ~error)
      BY <1>4, <2>2, Zenon DEF HandleIrq
    <3>2. CASE error = FALSE
      <4>1. /\ pit' \in Nat \cup {Off}
            /\ a => pit' # Off /\ pit' <= Latest(deadline, PitMin)
            /\ n => pit' # Off /\ pit' <= Latest(network_deadline, PitMin)
        <5> HIDE DEF a, n
        <5>1. a \in BOOLEAN /\ n \in BOOLEAN
          BY Zenon DEF a, n
        <5> QED BY <3>1, <3>2, <5>1, ProgramCovers, Zenon
      <4> QED BY <1>4, <2>1, <3>1, <3>2, <4>1, Zenon DEF HandleIrq
    <3>3. CASE error = TRUE
      <4>1. pit' = pit
        BY <3>1, <3>3, Zenon DEF ProgramNext
      <4> QED BY <1>4, <2>1, <3>1, <3>3, <4>1, Zenon DEF HandleIrq
    <3> QED BY <3>2, <3>3, Zenon
  <2>3. CASE ~(a \/ n)
    BY <1>4, <2>1, <2>3, Zenon DEF HandleIrq
  <2> QED BY <2>2, <2>3, Zenon
<1>5. CASE DeliverIrq
  BY <1>5, Zenon DEF DeliverIrq, Nothing, armvars, netvars
<1>6. CASE PitExpire
  BY <1>6, Zenon DEF PitExpire, armvars, netvars
<1>7. CASE Elapse
  BY <1>7, TimerAssumption DEF Elapse, Less, Latest, Off
<1>8. CASE UNCHANGED mvars
  BY <1>8, Zenon DEF mvars, armvars, netvars
<1> QED
  BY <1>1, <1>2, <1>3, <1>4, <1>5, <1>6, <1>7, <1>8, Zenon DEF NetworkStep, IrqStep

(* Each handler keeps the armed deadlines covered.                          *)
LEMMA ManagerStep == MInv /\ [MNext]_mvars => MInv'
<1> SUFFICES ASSUME MInv, [MNext]_mvars
             PROVE  MInv'
    BY Zenon
<1>1. ASSUME NEW c \in Children, NEW g \in Generations,
             NEW error \in BOOLEAN, NEW ns \in Timeouts,
             Arm(c, g, ns, error)
      PROVE  MInv'
  BY <1>1, ArmCovers, RequestAssumption, Zenon
<1>2. ASSUME NEW c \in Children, NEW g \in Generations,
             NEW error \in BOOLEAN, Cancel(c, g, error)
      PROVE  MInv'
  BY <1>2, CancelCovers, RequestAssumption, Zenon
<1> QED BY <1>1, <1>2, OthersCover, Zenon DEF MNext

(* The PIT covers every armed deadline, of the child and of the network     *)
(* worker (program_next, handle_timer_irq), in every reachable state.       *)
THEOREM HardwareAlwaysCovers == MSafety => [](MTypeOK /\ HardwareCovers)
  BY ManagerInit, ManagerStep, PTL DEF MSafety, MInv

----------------------------------------------------------------------------
\* The child on its own words: their types.

OpPlaces == {"idle", "alloc_clear", "alloc_publish", "set_epoch", "set_old",
             "set_deadline", "set_armed", "set_defer", "set_arm", "set_undo",
             "free_generation", "free_armed", "free_fn", "free_cancel",
             "free_wait"}
SvcPlaces == {"wait", "armed", "deadline", "compare", "rearm", "undo",
              "clear", "epoch", "running", "check", "allocated", "call",
              "callback", "done"}
OpStates == [pc : OpPlaces, gen : Nat, ns : Nat, old : BOOLEAN, epoch : Nat,
             alloc : Nat]
SvcStates == [pc : SvcPlaces, gen : Nat, left : Nat]

ChildType == /\ life \in 1..MaxLives /\ serving \in BOOLEAN
             /\ timer_generation \in Nat /\ armed_generation \in Nat
             /\ clear_epoch \in Nat /\ deadline_ns \in Nat
             /\ allocated \in BOOLEAN /\ fn \in Nat
             /\ callback_running \in BOOLEAN /\ wake \in BOOLEAN
             /\ svc \in SvcStates
             /\ op \in [Threads -> OpStates]
             /\ calling \in Nat /\ allocs \in Nat /\ freed \in Nat

(* What the words of the timer show of the callback barrier: the service    *)
(* thread announces the callback (callback_running) before it looks at fn,  *)
(* and fn never names an allocation whose free has come as far as clearing  *)
(* it.                                                                      *)
Barrier ==
    /\ calling # 0 => svc.pc = "callback"
    /\ svc.pc \in {"check", "allocated", "call", "callback", "done"}
         => callback_running
    /\ fn <= allocs /\ freed <= allocs
    /\ fn # 0 => freed < fn
    /\ \A t \in Threads : /\ op[t].alloc <= allocs
                          /\ fn # 0 => op[t].alloc < fn

Locked == {"alloc_clear", "alloc_publish", "set_epoch", "set_old",
           "set_deadline", "set_armed", "set_defer", "free_generation",
           "free_armed", "free_fn"}
Setting == {"set_epoch", "set_old", "set_deadline", "set_armed"}

(* task_timer_lock is held between the steps that need it, and while a      *)
(* setter has not armed its generation neither armed_generation nor the     *)
(* service thread knows of it.                                              *)
Ordered ==
    /\ \A t \in Threads : op[t].pc \in Locked => timer_lock = t
    /\ armed_generation <= timer_generation
    /\ svc.gen <= timer_generation
    /\ \A t \in Threads : op[t].pc \in Setting =>
          /\ op[t].gen = timer_generation
          /\ armed_generation < timer_generation
          /\ svc.gen < timer_generation

(* The service thread compares the deadline of the generation it loaded,    *)
(* unless that generation has been replaced since.                          *)
Compared ==
    svc.gen = timer_generation =>
        /\ svc.pc = "compare" => svc.left = deadline_ns
        /\ svc.pc \in {"clear", "epoch", "running", "check"}
             => deadline_ns = 0

CInv == ChildType /\ Barrier /\ NoCallbackAfterFree /\ Ordered /\ Compared

(* A step of an operation of thread t to another place keeps the types and  *)
(* the locals, and leaves the other threads alone.                          *)
LEMMA OpGoes ==
    ASSUME op \in [Threads -> OpStates], NEW t \in Threads,
           NEW there \in OpPlaces, Go(t, there)
    PROVE  /\ op' \in [Threads -> OpStates]
           /\ op'[t].pc = there /\ op'[t].gen = op[t].gen
           /\ op'[t].ns = op[t].ns /\ op'[t].alloc = op[t].alloc
           /\ \A s \in Threads : s # t => op'[s] = op[s]
  BY ZenonT(30) DEF Go, OpStates

(* So does its end, which forgets the locals.                               *)
LEMMA OpEnds ==
    ASSUME op \in [Threads -> OpStates], NEW t \in Threads, Finish(t)
    PROVE  /\ op' \in [Threads -> OpStates]
           /\ op'[t] = NoOp
           /\ \A s \in Threads : s # t => op'[s] = op[s]
<1>1. NoOp \in OpStates
  BY Zenon DEF NoOp, OpStates, OpPlaces
<1> QED BY <1>1, Zenon DEF Finish

(* A step of task_timer_service to another place keeps its locals.          *)
LEMMA SvcMoves ==
    ASSUME svc \in SvcStates, NEW here, NEW there \in SvcPlaces,
           Move(here, there)
    PROVE  /\ svc' \in SvcStates
           /\ svc.pc = here /\ svc'.pc = there
           /\ svc'.gen = svc.gen /\ svc'.left = svc.left
  BY Zenon DEF Move, Serve, SvcStates

(* Waiting for the next wake-up it has none.                                *)
LEMMA SvcSleeps ==
    ASSUME NEW here, SleepAgain(here)
    PROVE  /\ svc' \in SvcStates
           /\ svc.pc = here /\ svc'.pc = "wait"
           /\ svc'.gen = 0 /\ svc'.left = 0
  BY Zenon DEF SleepAgain, Serve, Asleep, SvcStates, SvcPlaces

(* Every step keeps the types.                                              *)
LEMMA ChildTypes == ASSUME ChildType, [Next]_vars PROVE ChildType'
<1> USE DEF ChildType
<1>0. /\ timer_generation + 1 \in Nat /\ allocs + 1 \in Nat
      /\ clear_epoch + 1 \in Nat
  OBVIOUS
<1>1. ASSUME NEW t \in Threads, TimerAlloc(t) PROVE ChildType'
  <2>1. op' \in [Threads -> OpStates]
    BY <1>1, OpGoes, Zenon DEF TimerAlloc, OpPlaces
  <2> QED BY <1>0, <1>1, <2>1, Zenon DEF TimerAlloc, words, history, OpStates
<1>2. ASSUME NEW t \in Threads, TimerFree(t) PROVE ChildType'
  <2>1. op' \in [Threads -> OpStates]
    BY <1>2, OpGoes, Zenon DEF TimerFree, OpPlaces
  <2> QED BY <1>0, <1>2, <2>1, Zenon DEF TimerFree, words, history, OpStates
<1>3. ASSUME NEW t \in Threads, AllocClear(t) PROVE ChildType'
  <2>1. op' \in [Threads -> OpStates]
    BY <1>3, OpGoes, Zenon DEF AllocClear, OpPlaces
  <2> QED BY <1>0, <1>3, <2>1, Zenon DEF AllocClear, words, history, OpStates
<1>4. ASSUME NEW t \in Threads, AllocPublish(t) PROVE ChildType'
  <2>1. op' \in [Threads -> OpStates]
    BY <1>4, OpEnds, Zenon DEF AllocPublish, OpPlaces
  <2> QED BY <1>0, <1>4, <2>1, Zenon DEF AllocPublish, words, history, OpStates
<1>5. ASSUME NEW t \in Threads, SetEpoch(t) PROVE ChildType'
  <2> DEFINE next == [op[t] EXCEPT !.pc = "set_old",
                                   !.epoch = clear_epoch]
  <2>0. next \in OpStates
    BY <1>0, ZenonT(30) DEF OpStates, OpPlaces
  <2>1. op' \in [Threads -> OpStates]
    <3>1. op' = [op EXCEPT ![t] = next]
      BY <1>5, Zenon DEF SetEpoch
    <3> QED BY <2>0, <3>1, Zenon
  <2> QED BY <1>0, <1>5, <2>1, Zenon DEF SetEpoch, words, history, OpStates
<1>6. ASSUME NEW t \in Threads, SetOld(t) PROVE ChildType'
  <2> DEFINE next == [op[t] EXCEPT !.pc = "set_deadline",
                                   !.old = armed_generation # 0]
  <2>0. next \in OpStates
    BY <1>0, Zenon DEF OpStates, OpPlaces
  <2>1. op' \in [Threads -> OpStates]
    <3>1. op' = [op EXCEPT ![t] = next]
      BY <1>6, Zenon DEF SetOld
    <3> QED BY <2>0, <3>1, Zenon
  <2> QED BY <1>0, <1>6, <2>1, Zenon DEF SetOld, words, history, OpStates
<1>7. ASSUME NEW t \in Threads, SetDeadline(t) PROVE ChildType'
  <2> DEFINE next == [op[t] EXCEPT !.pc = "set_armed",
                                   !.old = op[t].old /\ deadline_ns <= op[t].ns]
  <2>0. next \in OpStates
    BY <1>0, ZenonT(30) DEF OpStates, OpPlaces
  <2>1. op' \in [Threads -> OpStates]
    <3>1. op' = [op EXCEPT ![t] = next]
      BY <1>7, Zenon DEF SetDeadline
    <3> QED BY <2>0, <3>1, Zenon
  <2> QED BY <1>0, <1>7, <2>1, Zenon DEF SetDeadline, words, history, OpStates
<1>8. ASSUME NEW t \in Threads, SetArmed(t) PROVE ChildType'
  <2>1. op' \in [Threads -> OpStates]
    BY <1>8, OpGoes, Zenon DEF SetArmed, OpPlaces
  <2> QED BY <1>0, <1>8, <2>1, Zenon DEF SetArmed, words, history, OpStates
<1>9. ASSUME NEW t \in Threads, SetDefer(t) PROVE ChildType'
  <2>1. op' \in [Threads -> OpStates]
    BY <1>9, OpGoes, OpEnds, Zenon DEF SetDefer, OpPlaces
  <2> QED BY <1>0, <1>9, <2>1, Zenon DEF SetDefer, words, history, OpStates
<1>10. ASSUME NEW t \in Threads, SetArm(t) PROVE ChildType'
  <2>1. op' \in [Threads -> OpStates]
    BY <1>10, OpGoes, OpEnds, Zenon DEF SetArm, OpPlaces
  <2> QED BY <1>0, <1>10, <2>1, Zenon DEF SetArm, words, history, OpStates
<1>11. ASSUME NEW t \in Threads, SetUndo(t) PROVE ChildType'
  <2>1. op' \in [Threads -> OpStates]
    BY <1>11, OpEnds, Zenon DEF SetUndo, OpPlaces
  <2> QED BY <1>0, <1>11, <2>1, Zenon DEF SetUndo, words, history, OpStates, Disarm
<1>12. ASSUME NEW t \in Threads, FreeGeneration(t) PROVE ChildType'
  <2> DEFINE next == [op[t] EXCEPT !.pc = "free_armed",
                                   !.gen = timer_generation + 1]
  <2>0. next \in OpStates
    BY <1>0, ZenonT(30) DEF OpStates, OpPlaces
  <2>1. op' \in [Threads -> OpStates]
    <3>1. op' = [op EXCEPT ![t] = next]
      BY <1>12, Zenon DEF FreeGeneration
    <3> QED BY <2>0, <3>1, Zenon
  <2> QED BY <1>0, <1>12, <2>1, Zenon DEF FreeGeneration, words, history, OpStates
<1>13. ASSUME NEW t \in Threads, FreeArmed(t) PROVE ChildType'
  <2>1. op' \in [Threads -> OpStates]
    BY <1>13, OpGoes, Zenon DEF FreeArmed, OpPlaces
  <2> QED BY <1>0, <1>13, <2>1, Zenon DEF FreeArmed, words, history, OpStates
<1>14. ASSUME NEW t \in Threads, FreeFn(t) PROVE ChildType'
  <2> DEFINE next == [op[t] EXCEPT !.pc = "free_cancel",
                                   !.alloc = fn]
  <2>0. next \in OpStates
    BY <1>0, Zenon DEF OpStates, OpPlaces
  <2>1. op' \in [Threads -> OpStates]
    <3>1. op' = [op EXCEPT ![t] = next]
      BY <1>14, Zenon DEF FreeFn
    <3> QED BY <2>0, <3>1, Zenon
  <2> QED BY <1>0, <1>14, <2>1, Zenon DEF FreeFn, words, history, OpStates
<1>15. ASSUME NEW t \in Threads, FreeCancel(t) PROVE ChildType'
  <2>1. op' \in [Threads -> OpStates]
    BY <1>15, OpGoes, Zenon DEF FreeCancel, OpPlaces
  <2> QED BY <1>0, <1>15, <2>1, Zenon DEF FreeCancel, words, history, OpStates
<1>16. ASSUME NEW t \in Threads, FreeWait(t) PROVE ChildType'
  <2>1. op' \in [Threads -> OpStates]
    BY <1>16, OpEnds, Zenon DEF FreeWait, OpPlaces, Freed
  <2> QED BY <1>0, <1>16, <2>1, Zenon
             DEF FreeWait, words, history, OpStates, Freed, Latest
<1>17. ASSUME NEW t \in Threads, NEW d \in Timeouts, SetOneshot(t, d)
      PROVE  ChildType'
  <2>1. op' \in [Threads -> OpStates]
    BY <1>0, <1>17, RequestAssumption, Zenon
       DEF SetOneshot, NoOp, OpStates, OpPlaces
  <2> QED BY <1>0, <1>17, <2>1, Zenon DEF SetOneshot, history
<1>18. CASE SvcWait
  <2>1. svc' \in SvcStates
    BY <1>18, SvcMoves, Zenon DEF SvcWait, SvcPlaces
  <2> QED BY <1>18, <2>1, Zenon DEF SvcWait, words, history
<1>19. CASE SvcLoadArmed
  <2>1. svc' \in SvcStates
    BY <1>19, SvcSleeps, Zenon DEF SvcLoadArmed, SvcPlaces, Serve, SvcStates
  <2> QED BY <1>19, <2>1, Zenon DEF SvcLoadArmed, words, history
<1>20. CASE SvcLoadDeadline
  <2>1. svc' \in SvcStates
    BY <1>20, Zenon DEF SvcLoadDeadline, SvcPlaces, Serve, SvcStates
  <2> QED BY <1>20, <2>1, Zenon DEF SvcLoadDeadline, words, history
<1>21. CASE SvcCompare
  <2>1. svc' \in SvcStates
    BY <1>21, SvcMoves, Zenon DEF SvcCompare, SvcPlaces
  <2> QED BY <1>21, <2>1, Zenon DEF SvcCompare, words, history
<1>22. CASE SvcRearm
  <2>1. svc' \in SvcStates
    BY <1>22, SvcMoves, SvcSleeps, Zenon DEF SvcRearm, SvcPlaces
  <2> QED BY <1>22, <2>1, Zenon DEF SvcRearm, words, history
<1>23. CASE SvcUndo
  <2>1. svc' \in SvcStates
    BY <1>23, SvcSleeps, Zenon DEF SvcUndo, SvcPlaces
  <2> QED BY <1>23, <2>1, Zenon DEF SvcUndo, words, history, Disarm
<1>24. CASE SvcClear
  <2>1. svc' \in SvcStates
    BY <1>24, SvcMoves, Zenon DEF SvcClear, SvcPlaces
  <2> QED BY <1>24, <2>1, Zenon DEF SvcClear, words, history, Disarm
<1>25. CASE SvcEpoch
  <2>1. svc' \in SvcStates
    BY <1>25, SvcMoves, Zenon DEF SvcEpoch, SvcPlaces
  <2> QED BY <1>0, <1>25, <2>1, Zenon DEF SvcEpoch, words, history
<1>26. CASE SvcRunning
  <2>1. svc' \in SvcStates
    BY <1>26, SvcMoves, Zenon DEF SvcRunning, SvcPlaces
  <2> QED BY <1>26, <2>1, Zenon DEF SvcRunning, words, history
<1>27. CASE SvcCheck
  <2>1. svc' \in SvcStates
    BY <1>27, SvcMoves, Zenon DEF SvcCheck, SvcPlaces
  <2> QED BY <1>27, <2>1, Zenon DEF SvcCheck, words, history
<1>28. CASE SvcCheckAllocated
  <2>1. svc' \in SvcStates
    BY <1>28, SvcMoves, Zenon DEF SvcCheckAllocated, SvcPlaces
  <2> QED BY <1>28, <2>1, Zenon DEF SvcCheckAllocated, words, history
<1>29. CASE SvcCall
  <2>1. svc' \in SvcStates
    BY <1>29, SvcMoves, Zenon DEF SvcCall, SvcPlaces
  <2> QED BY <1>29, <2>1, Zenon DEF SvcCall, words, history
<1>30. CASE SvcReturn
  <2>1. svc' \in SvcStates
    BY <1>30, SvcMoves, Zenon DEF SvcReturn, SvcPlaces
  <2> QED BY <1>30, <2>1, Zenon DEF SvcReturn, words, history
<1>31. CASE SvcDone
  <2>1. svc' \in SvcStates
    BY <1>31, SvcSleeps, Zenon DEF SvcDone, SvcPlaces
  <2> QED BY <1>31, <2>1, Zenon DEF SvcDone, words, history
<1>32. CASE Interrupt
  BY <1>32, Zenon DEF Interrupt, words
<1>33. CASE Signal
  BY <1>33, Zenon DEF Signal, words, history
<1>34. CASE Network
  BY <1>34, Zenon DEF Network, words, history
<1>35. CASE Tick
  <2>1. svc' \in SvcStates
    BY <1>35 DEF Tick, Less, SvcStates
  <2> QED BY <1>35, <2>1 DEF Tick, Less, history
<1>36. CASE Restart
  <2>1. life' \in 1..MaxLives
    BY <1>36, ChildAssumption DEF Restart
  <2>2. svc' \in SvcStates
    BY <1>36, Zenon DEF Restart, Asleep, SvcStates, SvcPlaces
  <2>3. op' \in [Threads -> OpStates]
    BY <1>36, Zenon DEF Restart, NoOp, OpStates, OpPlaces
  <2> QED BY <1>36, <2>1, <2>2, <2>3, Zenon DEF Restart
<1>37. CASE UNCHANGED vars
  BY <1>37, Zenon DEF vars, words, history
<1> QED
  BY <1>1, <1>2, <1>3, <1>4, <1>5, <1>6, <1>7, <1>8, <1>9, <1>10, <1>11,
     <1>12, <1>13, <1>14, <1>15, <1>16, <1>17, <1>18, <1>19, <1>20, <1>21,
     <1>22, <1>23, <1>24, <1>25, <1>26, <1>27, <1>28, <1>29, <1>30, <1>31,
     <1>32, <1>33, <1>34, <1>35, <1>36, <1>37, Zenon
     DEF Next, OpStep, SvcStep

(* A step of an operation that neither clears fn nor ends a free is of no   *)
(* concern to the barrier.                                                  *)
LEMMA BarrierFrame ==
    ASSUME ChildType, Barrier, NoCallbackAfterFree,
           UNCHANGED <<fn, callback_running, calling, allocs, freed, svc>>,
           \A s \in Threads : op'[s].alloc \in {op[s].alloc, 0}
    PROVE  Barrier' /\ NoCallbackAfterFree'
<1>1. \A s \in Threads : op[s].alloc \in Nat
  BY Zenon DEF ChildType, OpStates
<1>2. \A s \in Threads : /\ op'[s].alloc <= allocs
                         /\ fn # 0 => op'[s].alloc < fn
  <2> SUFFICES ASSUME NEW s \in Threads
               PROVE  op'[s].alloc <= allocs /\ (fn # 0 => op'[s].alloc < fn)
      BY Zenon
  <2> QED BY <1>1 DEF ChildType, Barrier
<1>3. Barrier'
  BY <1>2, Zenon DEF Barrier
<1> QED BY <1>3, Zenon DEF NoCallbackAfterFree

(* A step of the service thread is, as long as it announces the callback    *)
(* before it looks at fn and calls only what it finds there.                *)
LEMMA BarrierService ==
    ASSUME ChildType, Barrier, NoCallbackAfterFree,
           UNCHANGED <<fn, allocs, freed, op>>,
           calling' # 0 => svc'.pc = "callback" /\ calling' \in {calling, fn},
           svc'.pc \in {"check", "allocated", "call", "callback", "done"}
             => callback_running'
    PROVE  Barrier' /\ NoCallbackAfterFree'
<1>1. Barrier'
  BY Zenon DEF Barrier
<1> QED BY <1>1, Zenon DEF ChildType, Barrier, NoCallbackAfterFree

(* The barrier of task_timer_free holds from step to step: a free that is   *)
(* waiting for callback_running does not return while the callback runs, a  *)
(* later callback finds fn cleared or naming a later allocation.            *)
LEMMA BarrierKept ==
    ASSUME ChildType, Barrier, NoCallbackAfterFree, [Next]_vars
    PROVE  Barrier' /\ NoCallbackAfterFree'
<1>0. ChildType'
  BY ChildTypes, Zenon
<1>1. ASSUME NEW t \in Threads, TimerAlloc(t)
      PROVE  Barrier' /\ NoCallbackAfterFree'
  <2>1. \A s \in Threads : op'[s].alloc = op[s].alloc /\ op[s].alloc \in Nat
    BY <1>1, OpGoes, Zenon DEF ChildType, TimerAlloc, OpPlaces, OpStates
  <2>2. \A s \in Threads : op'[s].alloc <= allocs' /\ op'[s].alloc < fn'
    BY <1>1, <2>1 DEF ChildType, Barrier, TimerAlloc
  <2>3. fn' <= allocs' /\ freed' <= allocs' /\ freed' < fn'
    BY <1>1 DEF ChildType, Barrier, TimerAlloc
  <2>4. Barrier'
    BY <1>1, <2>2, <2>3, Zenon DEF Barrier, TimerAlloc
  <2> QED BY <1>1, <2>4, Zenon DEF NoCallbackAfterFree, TimerAlloc
<1>2. ASSUME NEW t \in Threads, TimerFree(t)
      PROVE  Barrier' /\ NoCallbackAfterFree'
  <2>1. \A s \in Threads : op'[s].alloc \in {op[s].alloc, 0}
    BY <1>2, OpGoes, Zenon DEF ChildType, TimerFree, OpPlaces, OpStates
  <2> QED BY <1>2, <2>1, BarrierFrame, Zenon DEF TimerFree, words, history
<1>3. ASSUME NEW t \in Threads, AllocClear(t)
      PROVE  Barrier' /\ NoCallbackAfterFree'
  <2>1. \A s \in Threads : op'[s].alloc \in {op[s].alloc, 0}
    BY <1>3, OpGoes, Zenon DEF ChildType, AllocClear, OpPlaces, OpStates
  <2> QED BY <1>3, <2>1, BarrierFrame, Zenon DEF AllocClear, words, history
<1>4. ASSUME NEW t \in Threads, AllocPublish(t)
      PROVE  Barrier' /\ NoCallbackAfterFree'
  <2>1. \A s \in Threads : op'[s].alloc \in {op[s].alloc, 0}
    BY <1>4, OpEnds DEF ChildType, AllocPublish, OpPlaces, NoOp
  <2> QED BY <1>4, <2>1, BarrierFrame, Zenon DEF AllocPublish, words, history
<1>5. ASSUME NEW t \in Threads, SetEpoch(t)
      PROVE  Barrier' /\ NoCallbackAfterFree'
  <2>1. \A s \in Threads : op'[s].alloc \in {op[s].alloc, 0}
    BY <1>5, Zenon DEF ChildType, SetEpoch, OpStates
  <2> QED BY <1>5, <2>1, BarrierFrame, Zenon DEF SetEpoch, words, history
<1>6. ASSUME NEW t \in Threads, SetOld(t)
      PROVE  Barrier' /\ NoCallbackAfterFree'
  <2>1. \A s \in Threads : op'[s].alloc \in {op[s].alloc, 0}
    BY <1>6 DEF ChildType, SetOld, OpStates
  <2> QED BY <1>6, <2>1, BarrierFrame, Zenon DEF SetOld, words, history
<1>7. ASSUME NEW t \in Threads, SetDeadline(t)
      PROVE  Barrier' /\ NoCallbackAfterFree'
  <2>1. \A s \in Threads : op'[s].alloc \in {op[s].alloc, 0}
    BY <1>7 DEF ChildType, SetDeadline, OpStates
  <2> QED BY <1>7, <2>1, BarrierFrame, ZenonT(30)
             DEF SetDeadline, words, history
<1>8. ASSUME NEW t \in Threads, SetArmed(t)
      PROVE  Barrier' /\ NoCallbackAfterFree'
  <2>1. \A s \in Threads : op'[s].alloc \in {op[s].alloc, 0}
    BY <1>8, OpGoes, ZenonT(30) DEF ChildType, SetArmed, OpPlaces, OpStates
  <2> QED BY <1>8, <2>1, BarrierFrame, Zenon DEF SetArmed, words, history
<1>9. ASSUME NEW t \in Threads, SetDefer(t)
      PROVE  Barrier' /\ NoCallbackAfterFree'
  <2>1. \A s \in Threads : op'[s].alloc \in {op[s].alloc, 0}
    BY <1>9, OpGoes, OpEnds, SMTT(30)
       DEF ChildType, SetDefer, OpPlaces, NoOp, OpStates
  <2> QED BY <1>9, <2>1, BarrierFrame, Zenon DEF SetDefer, words, history
<1>10. ASSUME NEW t \in Threads, SetArm(t)
      PROVE  Barrier' /\ NoCallbackAfterFree'
  <2>1. \A s \in Threads : op'[s].alloc \in {op[s].alloc, 0}
    BY <1>10, OpGoes, OpEnds, SMTT(30)
       DEF ChildType, SetArm, OpPlaces, NoOp, OpStates
  <2> QED BY <1>10, <2>1, BarrierFrame, ZenonT(30) DEF SetArm, words, history
<1>11. ASSUME NEW t \in Threads, SetUndo(t)
      PROVE  Barrier' /\ NoCallbackAfterFree'
  <2>1. \A s \in Threads : op'[s].alloc \in {op[s].alloc, 0}
    BY <1>11, OpEnds, SMTT(30) DEF ChildType, SetUndo, OpPlaces, NoOp
  <2> QED BY <1>11, <2>1, BarrierFrame, ZenonT(30) DEF SetUndo, words, history
<1>12. ASSUME NEW t \in Threads, FreeGeneration(t)
      PROVE  Barrier' /\ NoCallbackAfterFree'
  <2>1. \A s \in Threads : op'[s].alloc \in {op[s].alloc, 0}
    BY <1>12, Zenon DEF ChildType, FreeGeneration, OpStates
  <2> QED BY <1>12, <2>1, BarrierFrame, Zenon
             DEF FreeGeneration, words, history
<1>13. ASSUME NEW t \in Threads, FreeArmed(t)
      PROVE  Barrier' /\ NoCallbackAfterFree'
  <2>1. \A s \in Threads : op'[s].alloc \in {op[s].alloc, 0}
    BY <1>13, OpGoes, Zenon DEF ChildType, FreeArmed, OpPlaces, OpStates
  <2> QED BY <1>13, <2>1, BarrierFrame, Zenon DEF FreeArmed, words, history
<1>14. ASSUME NEW t \in Threads, FreeFn(t)
      PROVE  Barrier' /\ NoCallbackAfterFree'
  <2>1. \A s \in Threads : op'[s].alloc \in {op[s].alloc, fn}
    BY <1>14, Zenon DEF ChildType, FreeFn, OpStates
  <2>2. fn' = 0 /\ UNCHANGED <<calling, callback_running, svc, allocs, freed>>
    BY <1>14, Zenon DEF FreeFn, history
  <2>3. \A s \in Threads : op'[s].alloc <= allocs
    BY <2>1, Zenon DEF Barrier
  <2>4. Barrier'
    BY <2>2, <2>3, SMTT(30) DEF ChildType, Barrier
  <2> QED BY <2>2, <2>4, Zenon DEF NoCallbackAfterFree
<1>15. ASSUME NEW t \in Threads, FreeCancel(t)
      PROVE  Barrier' /\ NoCallbackAfterFree'
  <2>1. \A s \in Threads : op'[s].alloc \in {op[s].alloc, 0}
    BY <1>15, OpGoes, Zenon DEF ChildType, FreeCancel, OpPlaces, OpStates
  <2> QED BY <1>15, <2>1, BarrierFrame, Zenon DEF FreeCancel, words, history
<1>16. ASSUME NEW t \in Threads, FreeWait(t)
      PROVE  Barrier' /\ NoCallbackAfterFree'
  <2>1. \A s \in Threads : op'[s].alloc \in {op[s].alloc, 0}
    BY <1>16, OpEnds DEF ChildType, FreeWait, Freed, NoOp
  <2>2. /\ op[t].alloc \in Nat /\ op[t].alloc <= allocs
        /\ fn # 0 => op[t].alloc < fn
    BY Zenon DEF ChildType, OpStates, Barrier
  <2>3. freed' <= allocs /\ (fn # 0 => freed' < fn)
    BY <1>16, <2>2, Zenon DEF ChildType, Barrier, FreeWait, Freed, Latest
  <2>4. calling = 0
    BY <1>16, Zenon DEF Barrier, FreeWait
  <2>5. \A s \in Threads : /\ op'[s].alloc <= allocs
                           /\ fn # 0 => op'[s].alloc < fn
    BY <2>1 DEF ChildType, Barrier
  <2>6. Barrier'
    BY <1>16, <2>3, <2>4, <2>5, Zenon DEF Barrier, FreeWait, Freed, words
  <2> QED BY <1>16, <2>4, <2>6, Zenon DEF NoCallbackAfterFree, FreeWait, Freed
<1>17. ASSUME NEW t \in Threads, NEW d \in Timeouts, SetOneshot(t, d)
      PROVE  Barrier' /\ NoCallbackAfterFree'
  <2>1. \A s \in Threads : op'[s].alloc \in {op[s].alloc, 0}
    BY <1>17, Zenon DEF ChildType, SetOneshot, NoOp
  <2> QED BY <1>17, <2>1, BarrierFrame, Zenon DEF SetOneshot, history
<1>18. CASE SvcWait
  <2>1. /\ calling' # 0 => svc'.pc = "callback" /\ calling' \in {calling, fn}
        /\ svc'.pc \in {"check", "allocated", "call", "callback", "done"}
             => callback_running'
    BY <1>18, SvcMoves
       DEF ChildType, Barrier, SvcWait, SvcPlaces, words, history
  <2> QED BY <1>18, <2>1, BarrierService, Zenon DEF SvcWait, words, history
<1>19. CASE SvcLoadArmed
  <2>1. svc.pc = "armed" /\ svc'.pc \in {"wait", "deadline"}
    BY <1>19, SvcSleeps, Zenon DEF ChildType, SvcLoadArmed, Serve, SvcStates
  <2>2. calling' = 0
    BY <1>19, <2>1, Zenon DEF Barrier, SvcLoadArmed, history
  <2> QED BY <1>19, <2>1, <2>2, BarrierService, Zenon
             DEF SvcLoadArmed, words, history
<1>20. CASE SvcLoadDeadline
  <2>1. /\ calling' # 0 => svc'.pc = "callback" /\ calling' \in {calling, fn}
        /\ svc'.pc \in {"check", "allocated", "call", "callback", "done"}
             => callback_running'
    BY <1>20, Zenon
       DEF ChildType, Barrier, SvcLoadDeadline, SvcPlaces, words, history,
           Serve, SvcStates
  <2> QED BY <1>20, <2>1, BarrierService, Zenon DEF SvcLoadDeadline, words, history
<1>21. CASE SvcCompare
  <2>1. /\ calling' # 0 => svc'.pc = "callback" /\ calling' \in {calling, fn}
        /\ svc'.pc \in {"check", "allocated", "call", "callback", "done"}
             => callback_running'
    BY <1>21, SvcMoves
       DEF ChildType, Barrier, SvcCompare, SvcPlaces, words, history
  <2> QED BY <1>21, <2>1, BarrierService, Zenon DEF SvcCompare, words, history
<1>22. CASE SvcRearm
  <2>1. /\ calling' # 0 => svc'.pc = "callback" /\ calling' \in {calling, fn}
        /\ svc'.pc \in {"check", "allocated", "call", "callback", "done"}
             => callback_running'
    BY <1>22, SvcMoves, SvcSleeps
       DEF ChildType, Barrier, SvcRearm, SvcPlaces, words, history
  <2> QED BY <1>22, <2>1, BarrierService, Zenon DEF SvcRearm, words, history
<1>23. CASE SvcUndo
  <2>1. /\ calling' # 0 => svc'.pc = "callback" /\ calling' \in {calling, fn}
        /\ svc'.pc \in {"check", "allocated", "call", "callback", "done"}
             => callback_running'
    BY <1>23, SvcSleeps
       DEF ChildType, Barrier, SvcUndo, SvcPlaces, words, history
  <2> QED BY <1>23, <2>1, BarrierService, Zenon DEF SvcUndo, words, history
<1>24. CASE SvcClear
  <2>1. /\ calling' # 0 => svc'.pc = "callback" /\ calling' \in {calling, fn}
        /\ svc'.pc \in {"check", "allocated", "call", "callback", "done"}
             => callback_running'
    BY <1>24, SvcMoves
       DEF ChildType, Barrier, SvcClear, SvcPlaces, words, history
  <2> QED BY <1>24, <2>1, BarrierService, Zenon DEF SvcClear, words, history
<1>25. CASE SvcEpoch
  <2>1. /\ calling' # 0 => svc'.pc = "callback" /\ calling' \in {calling, fn}
        /\ svc'.pc \in {"check", "allocated", "call", "callback", "done"}
             => callback_running'
    BY <1>25, SvcMoves
       DEF ChildType, Barrier, SvcEpoch, SvcPlaces, words, history
  <2> QED BY <1>25, <2>1, BarrierService, Zenon DEF SvcEpoch, words, history
<1>26. CASE SvcRunning
  <2>1. /\ calling' # 0 => svc'.pc = "callback" /\ calling' \in {calling, fn}
        /\ svc'.pc \in {"check", "allocated", "call", "callback", "done"}
             => callback_running'
    BY <1>26, SvcMoves
       DEF ChildType, Barrier, SvcRunning, SvcPlaces, words, history
  <2> QED BY <1>26, <2>1, BarrierService, Zenon DEF SvcRunning, words, history
<1>27. CASE SvcCheck
  <2>1. /\ calling' # 0 => svc'.pc = "callback" /\ calling' \in {calling, fn}
        /\ svc'.pc \in {"check", "allocated", "call", "callback", "done"}
             => callback_running'
    BY <1>27, SvcMoves
       DEF ChildType, Barrier, SvcCheck, SvcPlaces, words, history
  <2> QED BY <1>27, <2>1, BarrierService, Zenon DEF SvcCheck, words, history
<1>28. CASE SvcCheckAllocated
  <2>1. /\ calling' # 0 => svc'.pc = "callback" /\ calling' \in {calling, fn}
        /\ svc'.pc \in {"check", "allocated", "call", "callback", "done"}
             => callback_running'
    BY <1>28, SvcMoves
       DEF ChildType, Barrier, SvcCheckAllocated, SvcPlaces, words, history
  <2> QED BY <1>28, <2>1, BarrierService, Zenon DEF SvcCheckAllocated, words, history
<1>29. CASE SvcCall
  <2>1. /\ calling' # 0 => svc'.pc = "callback" /\ calling' \in {calling, fn}
        /\ svc'.pc \in {"check", "allocated", "call", "callback", "done"}
             => callback_running'
    BY <1>29, SvcMoves, Zenon
       DEF ChildType, Barrier, SvcCall, SvcPlaces, words, history
  <2> QED BY <1>29, <2>1, BarrierService, Zenon DEF SvcCall, words, history
<1>30. CASE SvcReturn
  <2>1. /\ calling' # 0 => svc'.pc = "callback" /\ calling' \in {calling, fn}
        /\ svc'.pc \in {"check", "allocated", "call", "callback", "done"}
             => callback_running'
    BY <1>30, SvcMoves, Zenon
       DEF ChildType, Barrier, SvcReturn, SvcPlaces, words, history
  <2> QED BY <1>30, <2>1, BarrierService, Zenon DEF SvcReturn, words, history
<1>31. CASE SvcDone
  <2>1. /\ calling' # 0 => svc'.pc = "callback" /\ calling' \in {calling, fn}
        /\ svc'.pc \in {"check", "allocated", "call", "callback", "done"}
             => callback_running'
    BY <1>31, SvcSleeps
       DEF ChildType, Barrier, SvcDone, SvcPlaces, words, history
  <2> QED BY <1>31, <2>1, BarrierService, Zenon DEF SvcDone, words, history
<1>32. CASE Interrupt
  BY <1>32, BarrierFrame, Zenon DEF Interrupt, words
<1>33. CASE Signal
  BY <1>33, BarrierFrame, Zenon DEF Signal, words, history
<1>34. CASE Network
  BY <1>34, BarrierFrame, Zenon DEF Network, words, history
<1>35. CASE Tick
  <2>1. svc'.pc = svc.pc
    BY <1>35, Zenon DEF ChildType, Tick, SvcStates
  <2> QED BY <1>35, <2>1, BarrierService, Zenon DEF Barrier, Tick, history
<1>36. CASE Restart
  <2>1. \A s \in Threads : op'[s].alloc = 0
    BY <1>36, Zenon DEF Restart, NoOp
  <2> QED BY <1>36, <2>1 DEF Restart, Barrier, NoCallbackAfterFree, Asleep
<1>37. CASE UNCHANGED vars
  BY <1>37, BarrierFrame, Zenon DEF vars, words, history
<1> QED
  BY <1>1, <1>2, <1>3, <1>4, <1>5, <1>6, <1>7, <1>8, <1>9, <1>10, <1>11,
     <1>12, <1>13, <1>14, <1>15, <1>16, <1>17, <1>18, <1>19, <1>20, <1>21,
     <1>22, <1>23, <1>24, <1>25, <1>26, <1>27, <1>28, <1>29, <1>30, <1>31,
     <1>32, <1>33, <1>34, <1>35, <1>36, <1>37, ZenonT(30)
     DEF Next, OpStep, SvcStep

(* Who holds task_timer_lock, or finds it free, is alone in the steps that  *)
(* need it.                                                                 *)
LEMMA LockExcludes ==
    ASSUME Ordered, NEW t \in Threads,
           timer_lock = None \/ op[t].pc \in Locked,
           NEW s \in Threads, s # t
    PROVE  op[s].pc \notin Locked /\ op[s].pc \notin Setting
<1>1. op[s].pc \notin Locked
  BY ChildAssumption, Zenon DEF Ordered, Threads
<1> QED BY <1>1, Zenon DEF Locked, Setting

(* A step of t that takes, keeps or leaves the lock as the places demand    *)
(* keeps it held.                                                           *)
LEMMA LockKept ==
    ASSUME Ordered, NEW t \in Threads,
           \A s \in Threads : s # t => op'[s] = op[s],
           op'[t].pc \in Locked => timer_lock' = t,
           \/ timer_lock = None \/ op[t].pc \in Locked
           \/ timer_lock' = timer_lock
    PROVE  \A s \in Threads : op'[s].pc \in Locked => timer_lock' = s
<1> SUFFICES ASSUME NEW s \in Threads, op'[s].pc \in Locked, s # t
             PROVE  timer_lock' = s
    BY Zenon
<1>1. op[s].pc \in Locked
  BY Zenon
<1> QED BY <1>1, LockExcludes, Zenon DEF Ordered

(* A step of t with no new generation keeps the order, if it only disarms   *)
(* and does not become a setter.                                            *)
LEMMA OrderKept ==
    ASSUME ChildType, Ordered, NEW t \in Threads,
           \A s \in Threads : s # t => op'[s] = op[s],
           UNCHANGED <<timer_generation, svc>>,
           armed_generation' \in {armed_generation, 0},
           op'[t].pc \in Setting => /\ op[t].pc \in Setting
                                   /\ op'[t].gen = op[t].gen,
           \A s \in Threads : op'[s].pc \in Locked => timer_lock' = s
    PROVE  Ordered'
<1>1. ASSUME NEW s \in Threads, op'[s].pc \in Setting
      PROVE  /\ op'[s].gen = timer_generation
             /\ armed_generation' < timer_generation
             /\ svc.gen < timer_generation
  <2>1. op[s].pc \in Setting /\ op'[s].gen = op[s].gen
    BY <1>1, Zenon
  <2> QED BY <2>1, SMTT(30) DEF ChildType, Ordered
<1>2. armed_generation' <= timer_generation
  BY SMTT(30) DEF ChildType, Ordered
<1> QED BY <1>1, <1>2, Zenon DEF Ordered

(* A step of t under the lock with a new generation, or that arms its own.  *)
LEMMA OrderRenewed ==
    ASSUME ChildType, Ordered, NEW t \in Threads,
           timer_lock = None \/ op[t].pc \in Locked,
           \A s \in Threads : s # t => op'[s] = op[s],
           UNCHANGED svc,
           armed_generation' <= timer_generation',
           svc.gen <= timer_generation',
           op'[t].pc \in Setting => /\ op'[t].gen = timer_generation'
                                   /\ armed_generation' < timer_generation'
                                   /\ svc.gen < timer_generation',
           op'[t].pc \in Locked => timer_lock' = t
    PROVE  Ordered'
<1>1. \A s \in Threads : op'[s].pc \in Locked => timer_lock' = s
  BY LockKept, Zenon
<1>2. \A s \in Threads : op'[s].pc \in Setting => s = t
  BY LockExcludes, Zenon
<1> QED BY <1>1, <1>2, Zenon DEF Ordered

(* A step of the service thread takes its generation from armed_generation. *)
LEMMA OrderServed ==
    ASSUME ChildType, Ordered,
           UNCHANGED <<timer_generation, timer_lock, op>>,
           armed_generation' \in {armed_generation, 0},
           svc'.gen \in {svc.gen, armed_generation, 0}
    PROVE  Ordered'
<1>1. ASSUME NEW s \in Threads, op[s].pc \in Setting
      PROVE  /\ op[s].gen = timer_generation
             /\ armed_generation' < timer_generation
             /\ svc'.gen < timer_generation
  BY <1>1 DEF ChildType, Ordered, SvcStates
<1>2. armed_generation' <= timer_generation /\ svc'.gen <= timer_generation
  BY SMTT(30) DEF ChildType, Ordered
<1> QED BY <1>1, <1>2, Zenon DEF Ordered

(* The lock and the order of the generations hold from step to step.        *)
LEMMA OrderedKept == ASSUME ChildType, Ordered, [Next]_vars PROVE Ordered'
<1>1. ASSUME NEW t \in Threads, TimerAlloc(t) PROVE Ordered'
  <2>1. /\ op'[t].pc = "alloc_clear"
        /\ \A s \in Threads : s # t => op'[s] = op[s]
    BY <1>1, OpGoes, Zenon DEF ChildType, TimerAlloc, OpPlaces
  <2>2. op[t].pc \in Locked \/ timer_lock = None
    BY <1>1, Zenon DEF TimerAlloc, Locked
  <2>3. /\ timer_generation' = timer_generation + 1 /\ timer_lock' = t
        /\ UNCHANGED <<armed_generation, svc>>
    BY <1>1, Zenon DEF TimerAlloc
  <2>4. /\ armed_generation <= timer_generation + 1
        /\ svc.gen <= timer_generation + 1
    BY DEF ChildType, SvcStates, Ordered
  <2> QED BY <2>1, <2>2, <2>3, <2>4, OrderRenewed, Zenon DEF Setting
<1>2. ASSUME NEW t \in Threads, TimerFree(t) PROVE Ordered'
  <2>1. /\ op'[t].pc = "free_generation"
        /\ \A s \in Threads : s # t => op'[s] = op[s]
    BY <1>2, OpGoes, Zenon DEF ChildType, TimerFree, OpPlaces
  <2>2. timer_lock' = t
    BY <1>2, Zenon DEF TimerFree
  <2>3. timer_lock = None
    BY <1>2, Zenon DEF TimerFree
  <2>4. \A s \in Threads : op'[s].pc \in Locked => timer_lock' = s
    BY <2>1, <2>2, <2>3, LockKept, Zenon
  <2>5. op'[t].pc \notin Setting
    BY <2>1, Zenon DEF Setting
  <2>6. /\ UNCHANGED <<timer_generation, svc>>
        /\ armed_generation' \in {armed_generation, 0}
    BY <1>2, Zenon DEF TimerFree, words
  <2> QED BY <2>1, <2>4, <2>5, <2>6, OrderKept, Zenon
<1>3. ASSUME NEW t \in Threads, AllocClear(t) PROVE Ordered'
  <2>1. /\ op'[t].pc = "alloc_publish"
        /\ \A s \in Threads : s # t => op'[s] = op[s]
    BY <1>3, OpGoes, Zenon DEF ChildType, AllocClear, OpPlaces
  <2>2. op[t].pc \in Locked
    BY <1>3, Zenon DEF AllocClear, At, Locked
  <2>3. timer_lock' = t
    BY <1>3, <2>2, Zenon DEF AllocClear, words, Ordered
  <2>4. \A s \in Threads : op'[s].pc \in Locked => timer_lock' = s
    BY <2>1, <2>2, <2>3, LockKept, Zenon
  <2>5. op'[t].pc \notin Setting
    BY <2>1, Zenon DEF Setting
  <2>6. /\ UNCHANGED <<timer_generation, svc>>
        /\ armed_generation' \in {armed_generation, 0}
    BY <1>3, Zenon DEF AllocClear, words
  <2> QED BY <2>1, <2>4, <2>5, <2>6, OrderKept, Zenon
<1>4. ASSUME NEW t \in Threads, AllocPublish(t) PROVE Ordered'
  <2>1. /\ op'[t].pc = "idle"
        /\ \A s \in Threads : s # t => op'[s] = op[s]
    BY <1>4, OpEnds DEF ChildType, AllocPublish, OpPlaces, NoOp
  <2>2. op'[t].pc \notin Locked
    BY <2>1, Zenon DEF Locked
  <2>3. op[t].pc \in Locked
    BY <1>4, Zenon DEF AllocPublish, At, Locked
  <2>4. \A s \in Threads : op'[s].pc \in Locked => timer_lock' = s
    BY <2>1, <2>2, <2>3, LockKept, Zenon
  <2>5. op'[t].pc \notin Setting
    BY <2>1, Zenon DEF Setting
  <2>6. /\ UNCHANGED <<timer_generation, svc>>
        /\ armed_generation' \in {armed_generation, 0}
    BY <1>4, Zenon DEF AllocPublish, words
  <2> QED BY <2>1, <2>4, <2>5, <2>6, OrderKept, Zenon
<1>5. ASSUME NEW t \in Threads, SetEpoch(t) PROVE Ordered'
  <2>1. /\ op'[t].pc = "set_old" /\ op'[t].gen = op[t].gen
        /\ \A s \in Threads : s # t => op'[s] = op[s]
    BY <1>5, Zenon DEF ChildType, SetEpoch, OpStates
  <2>2. op[t].pc \in Locked
    BY <1>5, Zenon DEF SetEpoch, At, Locked
  <2>3. timer_lock' = t
    BY <1>5, <2>2, Zenon DEF SetEpoch, words, Ordered
  <2>4. \A s \in Threads : op'[s].pc \in Locked => timer_lock' = s
    BY <2>1, <2>2, <2>3, LockKept, Zenon
  <2>5. op[t].pc \in Setting
    BY <1>5, Zenon DEF SetEpoch, At, Setting
  <2>6. /\ UNCHANGED <<timer_generation, svc>>
        /\ armed_generation' = armed_generation
    BY <1>5, Zenon DEF SetEpoch, words
  <2> QED BY <2>1, <2>4, <2>5, <2>6, OrderKept, Zenon
<1>6. ASSUME NEW t \in Threads, SetOld(t) PROVE Ordered'
  <2>1. /\ op'[t].pc = "set_deadline" /\ op'[t].gen = op[t].gen
        /\ \A s \in Threads : s # t => op'[s] = op[s]
    BY <1>6, ZenonT(30) DEF ChildType, SetOld, OpStates
  <2>2. op[t].pc \in Locked
    BY <1>6, Zenon DEF SetOld, At, Locked
  <2>3. timer_lock' = t
    BY <1>6, <2>2, Zenon DEF SetOld, words, Ordered
  <2>4. \A s \in Threads : op'[s].pc \in Locked => timer_lock' = s
    BY <2>1, <2>2, <2>3, LockKept, Zenon
  <2>5. op[t].pc \in Setting
    BY <1>6, Zenon DEF SetOld, At, Setting
  <2>6. /\ UNCHANGED <<timer_generation, svc>>
        /\ armed_generation' = armed_generation
    BY <1>6, Zenon DEF SetOld, words
  <2> QED BY <2>1, <2>4, <2>5, <2>6, OrderKept, Zenon
<1>7. ASSUME NEW t \in Threads, SetDeadline(t) PROVE Ordered'
  <2>1. /\ op'[t].pc = "set_armed" /\ op'[t].gen = op[t].gen
        /\ \A s \in Threads : s # t => op'[s] = op[s]
    BY <1>7, ZenonT(30) DEF ChildType, SetDeadline, OpStates
  <2>2. op[t].pc \in Locked
    BY <1>7, Zenon DEF SetDeadline, At, Locked
  <2>3. timer_lock' = t
    BY <1>7, <2>2, Zenon DEF SetDeadline, words, Ordered
  <2>4. \A s \in Threads : op'[s].pc \in Locked => timer_lock' = s
    BY <2>1, <2>2, <2>3, LockKept, Zenon
  <2>5. op[t].pc \in Setting
    BY <1>7, Zenon DEF SetDeadline, At, Setting
  <2>6. /\ UNCHANGED <<timer_generation, svc>>
        /\ armed_generation' = armed_generation
    BY <1>7, Zenon DEF SetDeadline, words
  <2> QED BY <2>1, <2>4, <2>5, <2>6, OrderKept, Zenon
<1>8. ASSUME NEW t \in Threads, SetArmed(t) PROVE Ordered'
  <2>1. /\ op'[t].pc = "set_defer"
        /\ \A s \in Threads : s # t => op'[s] = op[s]
    BY <1>8, OpGoes, Zenon DEF ChildType, SetArmed, OpPlaces
  <2>2. op[t].pc \in Locked \/ timer_lock = None
    BY <1>8, Zenon DEF SetArmed, At, Locked
  <2>3. /\ armed_generation' = timer_generation
        /\ UNCHANGED <<timer_generation, timer_lock, svc>>
    BY <1>8, Zenon DEF SetArmed, At, Setting, Ordered
  <2>4. timer_lock' = t
    BY <1>8, Zenon DEF SetArmed, At, Locked, Ordered
  <2> QED BY <2>1, <2>2, <2>3, <2>4, OrderRenewed
             DEF ChildType, Ordered, Setting
<1>9. ASSUME NEW t \in Threads, SetDefer(t) PROVE Ordered'
  <2>1. /\ op'[t].pc \in {"idle", "set_arm"}
        /\ \A s \in Threads : s # t => op'[s] = op[s]
    BY <1>9, OpGoes, OpEnds DEF ChildType, SetDefer, OpPlaces, NoOp
  <2>2. op'[t].pc \notin Locked
    BY <2>1, Zenon DEF Locked
  <2>3. op[t].pc \in Locked
    BY <1>9, Zenon DEF SetDefer, At, Locked
  <2>4. \A s \in Threads : op'[s].pc \in Locked => timer_lock' = s
    BY <2>1, <2>2, <2>3, LockKept, Zenon
  <2>5. op'[t].pc \notin Setting
    BY <2>1, Zenon DEF Setting
  <2>6. /\ UNCHANGED <<timer_generation, svc>>
        /\ armed_generation' \in {armed_generation, 0}
    BY <1>9, Zenon DEF SetDefer, words
  <2> QED BY <2>1, <2>4, <2>5, <2>6, OrderKept, Zenon
<1>10. ASSUME NEW t \in Threads, SetArm(t) PROVE Ordered'
  <2>1. /\ op'[t].pc \in {"idle", "set_undo"}
        /\ \A s \in Threads : s # t => op'[s] = op[s]
    BY <1>10, OpGoes, OpEnds DEF ChildType, SetArm, OpPlaces, NoOp
  <2>2. op'[t].pc \notin Locked
    BY <2>1, Zenon DEF Locked
  <2>3. timer_lock' = timer_lock
    BY <1>10, Zenon DEF SetArm, words
  <2>4. \A s \in Threads : op'[s].pc \in Locked => timer_lock' = s
    BY <2>1, <2>2, <2>3, LockKept, Zenon
  <2>5. op'[t].pc \notin Setting
    BY <2>1, Zenon DEF Setting
  <2>6. /\ UNCHANGED <<timer_generation, svc>>
        /\ armed_generation' \in {armed_generation, 0}
    BY <1>10, Zenon DEF SetArm, words
  <2> QED BY <2>1, <2>4, <2>5, <2>6, OrderKept, Zenon
<1>11. ASSUME NEW t \in Threads, SetUndo(t) PROVE Ordered'
  <2>1. /\ op'[t].pc = "idle"
        /\ \A s \in Threads : s # t => op'[s] = op[s]
    BY <1>11, OpEnds DEF ChildType, SetUndo, OpPlaces, NoOp
  <2>2. op'[t].pc \notin Locked
    BY <2>1, Zenon DEF Locked
  <2>3. timer_lock' = timer_lock
    BY <1>11, Zenon DEF SetUndo, words
  <2>4. \A s \in Threads : op'[s].pc \in Locked => timer_lock' = s
    BY <2>1, <2>2, <2>3, LockKept, Zenon
  <2>5. op'[t].pc \notin Setting
    BY <2>1, Zenon DEF Setting
  <2>6. /\ UNCHANGED <<timer_generation, svc>>
        /\ armed_generation' \in {armed_generation, 0}
    BY <1>11, Zenon DEF SetUndo, words, Disarm
  <2> QED BY <2>1, <2>4, <2>5, <2>6, OrderKept, Zenon
<1>12. ASSUME NEW t \in Threads, FreeGeneration(t) PROVE Ordered'
  <2>1. /\ op'[t].pc = "free_armed"
        /\ \A s \in Threads : s # t => op'[s] = op[s]
    BY <1>12, Zenon DEF ChildType, FreeGeneration, OpStates
  <2>2. op[t].pc \in Locked \/ timer_lock = None
    BY <1>12, Zenon DEF FreeGeneration, At, Locked
  <2>3. /\ timer_generation' = timer_generation + 1
        /\ UNCHANGED <<armed_generation, timer_lock, svc>>
    BY <1>12, Zenon DEF FreeGeneration
  <2>4. /\ armed_generation <= timer_generation + 1
        /\ svc.gen <= timer_generation + 1
    BY DEF ChildType, SvcStates, Ordered
  <2>5. timer_lock' = t
    BY <1>12, <2>3, Zenon DEF FreeGeneration, At, Locked, Ordered
  <2> QED BY <2>1, <2>2, <2>3, <2>4, <2>5, OrderRenewed, Zenon DEF Setting
<1>13. ASSUME NEW t \in Threads, FreeArmed(t) PROVE Ordered'
  <2>1. /\ op'[t].pc = "free_fn"
        /\ \A s \in Threads : s # t => op'[s] = op[s]
    BY <1>13, OpGoes, Zenon DEF ChildType, FreeArmed, OpPlaces
  <2>2. op[t].pc \in Locked
    BY <1>13, Zenon DEF FreeArmed, At, Locked
  <2>3. timer_lock' = t
    BY <1>13, <2>2, Zenon DEF FreeArmed, words, Ordered
  <2>4. \A s \in Threads : op'[s].pc \in Locked => timer_lock' = s
    BY <2>1, <2>2, <2>3, LockKept, Zenon
  <2>5. op'[t].pc \notin Setting
    BY <2>1, Zenon DEF Setting
  <2>6. /\ UNCHANGED <<timer_generation, svc>>
        /\ armed_generation' \in {armed_generation, 0}
    BY <1>13, Zenon DEF FreeArmed, words
  <2> QED BY <2>1, <2>4, <2>5, <2>6, OrderKept, Zenon
<1>14. ASSUME NEW t \in Threads, FreeFn(t) PROVE Ordered'
  <2>1. /\ op'[t].pc = "free_cancel"
        /\ \A s \in Threads : s # t => op'[s] = op[s]
    BY <1>14, Zenon DEF ChildType, FreeFn, OpStates
  <2>2. op'[t].pc \notin Locked
    BY <2>1, Zenon DEF Locked
  <2>3. op[t].pc \in Locked
    BY <1>14, Zenon DEF FreeFn, At, Locked
  <2>4. \A s \in Threads : op'[s].pc \in Locked => timer_lock' = s
    BY <2>1, <2>2, <2>3, LockKept, Zenon
  <2>5. op'[t].pc \notin Setting
    BY <2>1, Zenon DEF Setting
  <2>6. /\ UNCHANGED <<timer_generation, svc>>
        /\ armed_generation' \in {armed_generation, 0}
    BY <1>14, Zenon DEF FreeFn, words
  <2> QED BY <2>1, <2>4, <2>5, <2>6, OrderKept, Zenon
<1>15. ASSUME NEW t \in Threads, FreeCancel(t) PROVE Ordered'
  <2>1. /\ op'[t].pc = "free_wait"
        /\ \A s \in Threads : s # t => op'[s] = op[s]
    BY <1>15, OpGoes, Zenon DEF ChildType, FreeCancel, OpPlaces
  <2>2. op'[t].pc \notin Locked
    BY <2>1, Zenon DEF Locked
  <2>3. timer_lock' = timer_lock
    BY <1>15, Zenon DEF FreeCancel, words
  <2>4. \A s \in Threads : op'[s].pc \in Locked => timer_lock' = s
    BY <2>1, <2>2, <2>3, LockKept, Zenon
  <2>5. op'[t].pc \notin Setting
    BY <2>1, Zenon DEF Setting
  <2>6. /\ UNCHANGED <<timer_generation, svc>>
        /\ armed_generation' \in {armed_generation, 0}
    BY <1>15, Zenon DEF FreeCancel, words
  <2> QED BY <2>1, <2>4, <2>5, <2>6, OrderKept, Zenon
<1>16. ASSUME NEW t \in Threads, FreeWait(t) PROVE Ordered'
  <2>1. /\ op'[t].pc = "idle"
        /\ \A s \in Threads : s # t => op'[s] = op[s]
    BY <1>16, OpEnds DEF ChildType, FreeWait, OpPlaces, NoOp, Freed
  <2>2. op'[t].pc \notin Locked
    BY <2>1, Zenon DEF Locked
  <2>3. timer_lock' = timer_lock
    BY <1>16, Zenon DEF FreeWait, words, Freed
  <2>4. \A s \in Threads : op'[s].pc \in Locked => timer_lock' = s
    BY <2>1, <2>2, <2>3, LockKept, Zenon
  <2>5. op'[t].pc \notin Setting
    BY <2>1, Zenon DEF Setting
  <2>6. /\ UNCHANGED <<timer_generation, svc>>
        /\ armed_generation' \in {armed_generation, 0}
    BY <1>16, Zenon DEF FreeWait, words, Freed
  <2> QED BY <2>1, <2>4, <2>5, <2>6, OrderKept, Zenon
<1>17. ASSUME NEW t \in Threads, NEW d \in Timeouts, SetOneshot(t, d)
      PROVE  Ordered'
  <2>1. /\ op'[t].gen = timer_generation + 1
        /\ \A s \in Threads : s # t => op'[s] = op[s]
    BY <1>17, Zenon DEF ChildType, SetOneshot, NoOp
  <2>2. /\ timer_generation' = timer_generation + 1
        /\ timer_lock = None /\ timer_lock' = t
        /\ UNCHANGED <<armed_generation, svc>>
    BY <1>17, Zenon DEF SetOneshot
  <2>3. /\ armed_generation < timer_generation + 1
        /\ armed_generation <= timer_generation + 1
        /\ svc.gen < timer_generation + 1 /\ svc.gen <= timer_generation + 1
    BY DEF ChildType, SvcStates, Ordered
  <2> QED BY <2>1, <2>2, <2>3, OrderRenewed, Zenon
<1>18. CASE SvcWait
  <2>1. svc'.gen \in {svc.gen, armed_generation, 0}
    BY <1>18, SvcMoves, Zenon DEF ChildType, SvcWait, SvcPlaces
  <2>2. /\ UNCHANGED <<timer_generation, timer_lock, op>>
        /\ armed_generation' \in {armed_generation, 0}
    BY <1>18, Zenon DEF SvcWait, words
  <2> QED BY <2>1, <2>2, OrderServed, Zenon
<1>19. CASE SvcLoadArmed
  <2>1. svc'.gen \in {svc.gen, armed_generation, 0}
    BY <1>19, SvcSleeps, Zenon
       DEF ChildType, SvcLoadArmed, SvcPlaces, Serve, SvcStates
  <2>2. /\ UNCHANGED <<timer_generation, timer_lock, op>>
        /\ armed_generation' \in {armed_generation, 0}
    BY <1>19, Zenon DEF SvcLoadArmed, words
  <2> QED BY <2>1, <2>2, OrderServed, Zenon
<1>20. CASE SvcLoadDeadline
  <2>1. svc'.gen \in {svc.gen, armed_generation, 0}
    BY <1>20, Zenon DEF ChildType, SvcLoadDeadline, SvcPlaces, Serve, SvcStates
  <2>2. /\ UNCHANGED <<timer_generation, timer_lock, op>>
        /\ armed_generation' \in {armed_generation, 0}
    BY <1>20, Zenon DEF SvcLoadDeadline, words
  <2> QED BY <2>1, <2>2, OrderServed, Zenon
<1>21. CASE SvcCompare
  <2>1. svc'.gen \in {svc.gen, armed_generation, 0}
    BY <1>21, SvcMoves, Zenon DEF ChildType, SvcCompare, SvcPlaces
  <2>2. /\ UNCHANGED <<timer_generation, timer_lock, op>>
        /\ armed_generation' \in {armed_generation, 0}
    BY <1>21, Zenon DEF SvcCompare, words
  <2> QED BY <2>1, <2>2, OrderServed, Zenon
<1>22. CASE SvcRearm
  <2>1. svc'.gen \in {svc.gen, armed_generation, 0}
    BY <1>22, SvcMoves, SvcSleeps, Zenon DEF ChildType, SvcRearm, SvcPlaces
  <2>2. /\ UNCHANGED <<timer_generation, timer_lock, op>>
        /\ armed_generation' \in {armed_generation, 0}
    BY <1>22, Zenon DEF SvcRearm, words
  <2> QED BY <2>1, <2>2, OrderServed, Zenon
<1>23. CASE SvcUndo
  <2>1. svc'.gen \in {svc.gen, armed_generation, 0}
    BY <1>23, SvcSleeps, Zenon DEF ChildType, SvcUndo, SvcPlaces
  <2>2. /\ UNCHANGED <<timer_generation, timer_lock, op>>
        /\ armed_generation' \in {armed_generation, 0}
    BY <1>23, Zenon DEF SvcUndo, words, Disarm
  <2> QED BY <2>1, <2>2, OrderServed, Zenon
<1>24. CASE SvcClear
  <2>1. svc'.gen \in {svc.gen, armed_generation, 0}
    BY <1>24, SvcMoves, Zenon DEF ChildType, SvcClear, SvcPlaces
  <2>2. /\ UNCHANGED <<timer_generation, timer_lock, op>>
        /\ armed_generation' \in {armed_generation, 0}
    BY <1>24, Zenon DEF SvcClear, words, Disarm
  <2> QED BY <2>1, <2>2, OrderServed, Zenon
<1>25. CASE SvcEpoch
  <2>1. svc'.gen \in {svc.gen, armed_generation, 0}
    BY <1>25, SvcMoves, Zenon DEF ChildType, SvcEpoch, SvcPlaces
  <2>2. /\ UNCHANGED <<timer_generation, timer_lock, op>>
        /\ armed_generation' \in {armed_generation, 0}
    BY <1>25, Zenon DEF SvcEpoch, words
  <2> QED BY <2>1, <2>2, OrderServed, Zenon
<1>26. CASE SvcRunning
  <2>1. svc'.gen \in {svc.gen, armed_generation, 0}
    BY <1>26, SvcMoves, Zenon DEF ChildType, SvcRunning, SvcPlaces
  <2>2. /\ UNCHANGED <<timer_generation, timer_lock, op>>
        /\ armed_generation' \in {armed_generation, 0}
    BY <1>26, Zenon DEF SvcRunning, words
  <2> QED BY <2>1, <2>2, OrderServed, Zenon
<1>27. CASE SvcCheck
  <2>1. svc'.gen \in {svc.gen, armed_generation, 0}
    BY <1>27, SvcMoves, Zenon DEF ChildType, SvcCheck, SvcPlaces
  <2>2. /\ UNCHANGED <<timer_generation, timer_lock, op>>
        /\ armed_generation' \in {armed_generation, 0}
    BY <1>27, Zenon DEF SvcCheck, words
  <2> QED BY <2>1, <2>2, OrderServed, Zenon
<1>28. CASE SvcCheckAllocated
  <2>1. svc'.gen \in {svc.gen, armed_generation, 0}
    BY <1>28, SvcMoves, Zenon DEF ChildType, SvcCheckAllocated, SvcPlaces
  <2>2. /\ UNCHANGED <<timer_generation, timer_lock, op>>
        /\ armed_generation' \in {armed_generation, 0}
    BY <1>28, Zenon DEF SvcCheckAllocated, words
  <2> QED BY <2>1, <2>2, OrderServed, Zenon
<1>29. CASE SvcCall
  <2>1. svc'.gen \in {svc.gen, armed_generation, 0}
    BY <1>29, SvcMoves, Zenon DEF ChildType, SvcCall, SvcPlaces
  <2>2. /\ UNCHANGED <<timer_generation, timer_lock, op>>
        /\ armed_generation' \in {armed_generation, 0}
    BY <1>29, Zenon DEF SvcCall, words
  <2> QED BY <2>1, <2>2, OrderServed, Zenon
<1>30. CASE SvcReturn
  <2>1. svc'.gen \in {svc.gen, armed_generation, 0}
    BY <1>30, SvcMoves, Zenon DEF ChildType, SvcReturn, SvcPlaces
  <2>2. /\ UNCHANGED <<timer_generation, timer_lock, op>>
        /\ armed_generation' \in {armed_generation, 0}
    BY <1>30, Zenon DEF SvcReturn, words
  <2> QED BY <2>1, <2>2, OrderServed, Zenon
<1>31. CASE SvcDone
  <2>1. svc'.gen \in {svc.gen, armed_generation, 0}
    BY <1>31, SvcSleeps, Zenon DEF ChildType, SvcDone, SvcPlaces
  <2>2. /\ UNCHANGED <<timer_generation, timer_lock, op>>
        /\ armed_generation' \in {armed_generation, 0}
    BY <1>31, Zenon DEF SvcDone, words
  <2> QED BY <2>1, <2>2, OrderServed, Zenon
<1>32. CASE Interrupt
  BY <1>32, OrderServed, Zenon DEF Interrupt, words
<1>33. CASE Signal
  BY <1>33, OrderServed, Zenon DEF Signal, words, history
<1>34. CASE Network
  BY <1>34, OrderServed, Zenon DEF Network, words, history
<1>35. CASE Tick
  <2>1. svc'.gen = svc.gen
    BY <1>35, Zenon DEF ChildType, Tick, SvcStates
  <2> QED BY <1>35, <2>1, OrderServed, Zenon DEF Tick
<1>36. CASE Restart
  <2>1. \A s \in Threads : op'[s].pc = "idle"
    BY <1>36, Zenon DEF Restart, NoOp
  <2>2. \A s \in Threads : op'[s].pc \notin Locked /\ op'[s].pc \notin Setting
    BY <2>1, Zenon DEF Locked, Setting
  <2> QED BY <1>36, <2>2 DEF Restart, Ordered, Asleep
<1>37. CASE UNCHANGED vars
  BY <1>37, OrderServed, Zenon DEF vars, words
<1> QED
  BY <1>1, <1>2, <1>3, <1>4, <1>5, <1>6, <1>7, <1>8, <1>9, <1>10, <1>11,
     <1>12, <1>13, <1>14, <1>15, <1>16, <1>17, <1>18, <1>19, <1>20, <1>21,
     <1>22, <1>23, <1>24, <1>25, <1>26, <1>27, <1>28, <1>29, <1>30, <1>31,
     <1>32, <1>33, <1>34, <1>35, <1>36, <1>37, Zenon
     DEF Next, OpStep, SvcStep

(* What was compared stays the deadline of the generation, or the           *)
(* generation is replaced before SvcCheck looks at it.                      *)
LEMMA ComparedKept ==
    ASSUME ChildType, Ordered, Compared, [Next]_vars
    PROVE  Compared'
<1>0. ASSUME UNCHANGED <<svc, timer_generation, deadline_ns>>
      PROVE  Compared'
  BY <1>0, Zenon DEF Compared
<1>a. ASSUME UNCHANGED svc, timer_generation' = timer_generation + 1
      PROVE  Compared'
  BY <1>a, SMTT(30) DEF ChildType, SvcStates, Ordered, Compared
<1>1. ASSUME NEW t \in Threads,
             \/ TimerFree(t) \/ AllocClear(t) \/ AllocPublish(t)
             \/ SetEpoch(t) \/ SetOld(t) \/ SetArmed(t) \/ SetDefer(t)
             \/ SetArm(t) \/ SetUndo(t) \/ FreeArmed(t) \/ FreeFn(t)
             \/ FreeCancel(t) \/ FreeWait(t)
      PROVE  Compared'
  BY <1>0, <1>1, Zenon DEF TimerFree, AllocClear, AllocPublish, SetEpoch, SetOld,
        SetArmed, SetDefer, SetArm, SetUndo, FreeArmed, FreeFn, FreeCancel,
        FreeWait, Freed, words
<1>2. ASSUME NEW t \in Threads, SetDeadline(t) PROVE Compared'
  <2>1. svc.gen < timer_generation
    BY <1>2, Zenon DEF SetDeadline, At, Setting, Ordered
  <2> QED BY <1>2, <2>1 DEF SetDeadline, ChildType, SvcStates, Compared
<1>3. ASSUME NEW t \in Threads, TimerAlloc(t) \/ FreeGeneration(t)
      PROVE  Compared'
  BY <1>3, <1>a, Zenon DEF TimerAlloc, FreeGeneration
<1>4. ASSUME NEW t \in Threads, NEW d \in Timeouts, SetOneshot(t, d)
      PROVE  Compared'
  BY <1>4, <1>a, Zenon DEF SetOneshot
<1>5. CASE SvcWait
  BY <1>5, SvcMoves, Zenon
     DEF ChildType, SvcWait, SvcPlaces, words, Compared
<1>6. CASE SvcLoadArmed
  BY <1>6, SvcSleeps, Zenon
     DEF ChildType, SvcLoadArmed, SvcPlaces, words, Compared, Serve, SvcStates
<1>7. CASE SvcLoadDeadline
  BY <1>7, Zenon
     DEF ChildType, SvcLoadDeadline, SvcPlaces, words, Compared, Serve,
         SvcStates
<1>8. CASE SvcCompare
  BY <1>8, SvcMoves
     DEF ChildType, SvcCompare, SvcPlaces, words, Compared
<1>9. CASE SvcRearm
  BY <1>9, SvcMoves, SvcSleeps, Zenon
     DEF ChildType, SvcRearm, SvcPlaces, words, Compared
<1>10. CASE SvcUndo
  BY <1>10, SvcSleeps, Zenon
     DEF ChildType, SvcUndo, SvcPlaces, words, Compared
<1>11. CASE SvcClear
  BY <1>11, SvcMoves, Zenon
     DEF ChildType, SvcClear, SvcPlaces, words, Compared
<1>12. CASE SvcEpoch
  BY <1>12, SvcMoves, Zenon
     DEF ChildType, SvcEpoch, SvcPlaces, words, Compared
<1>13. CASE SvcRunning
  BY <1>13, SvcMoves, Zenon
     DEF ChildType, SvcRunning, SvcPlaces, words, Compared
<1>14. CASE SvcCheck
  BY <1>14, SvcMoves, Zenon
     DEF ChildType, SvcCheck, SvcPlaces, words, Compared
<1>15. CASE SvcCheckAllocated
  BY <1>15, SvcMoves, Zenon
     DEF ChildType, SvcCheckAllocated, SvcPlaces, words, Compared
<1>16. CASE SvcCall
  BY <1>16, SvcMoves, Zenon
     DEF ChildType, SvcCall, SvcPlaces, words, Compared
<1>17. CASE SvcReturn
  BY <1>17, SvcMoves, Zenon
     DEF ChildType, SvcReturn, SvcPlaces, words, Compared
<1>18. CASE SvcDone
  BY <1>18, SvcSleeps, Zenon
     DEF ChildType, SvcDone, SvcPlaces, words, Compared
<1>19. CASE Interrupt
  BY <1>19, <1>0, Zenon DEF Interrupt, words
<1>20. CASE Signal
  BY <1>20, <1>0, Zenon DEF Signal, words
<1>21. CASE Network
  BY <1>21, <1>0, Zenon DEF Network, words
<1>22. CASE Tick
  <2>1. /\ svc'.pc = svc.pc /\ svc'.gen = svc.gen
        /\ svc.pc = "compare" => svc'.left = Less(svc.left)
    BY <1>22, Zenon DEF ChildType, Tick, SvcStates
  <2> QED BY <1>22, <2>1 DEF ChildType, Tick, Less, Compared
<1>23. CASE Restart
  BY <1>23, Zenon DEF Restart, Asleep, Compared
<1>24. CASE UNCHANGED vars
  BY <1>24, <1>0, Zenon DEF vars, words
<1> QED
  BY <1>1, <1>2, <1>3, <1>4, <1>5, <1>6, <1>7, <1>8, <1>9, <1>10, <1>11,
     <1>12, <1>13, <1>14, <1>15, <1>16, <1>17, <1>18, <1>19, <1>20, <1>21,
     <1>22, <1>23, <1>24, ZenonT(30)
     DEF Next, OpStep, SvcStep

(* The requests of the child and its replacement are among those the        *)
(* manager copes with.                                                      *)
LEMMA ManagerDriven == ASSUME ChildType, MInv, [Next]_vars PROVE MInv'
<1>a. life \in Children
  BY ChildAssumption, Zenon DEF ChildType
<1>b. \A t \in Threads : op[t].gen \in Nat /\ op[t].ns \in Nat
  BY Zenon DEF ChildType, OpStates
<1>c. svc.gen \in Nat /\ svc.left \in Nat
  BY Zenon DEF ChildType, SvcStates
<1>1. ASSUME NEW t \in Threads,
             \/ TimerAlloc(t) \/ TimerFree(t) \/ AllocClear(t)
             \/ AllocPublish(t) \/ SetEpoch(t) \/ SetOld(t)
             \/ SetDeadline(t) \/ SetArmed(t) \/ SetDefer(t) \/ SetUndo(t)
             \/ FreeGeneration(t) \/ FreeArmed(t) \/ FreeFn(t)
             \/ FreeWait(t)
      PROVE  MInv'
  BY <1>1, OthersCover, Zenon DEF TimerAlloc, TimerFree, AllocClear, AllocPublish,
        SetEpoch, SetOld, SetDeadline, SetArmed, SetDefer, SetUndo,
        FreeGeneration, FreeArmed, FreeFn, FreeWait, Freed
<1>2. ASSUME NEW t \in Threads, NEW d \in Timeouts, SetOneshot(t, d)
      PROVE  MInv'
  BY <1>2, OthersCover, Zenon DEF SetOneshot
<1>3. ASSUME NEW t \in Threads, SetArm(t) PROVE MInv'
  BY <1>3, <1>a, <1>b, ArmCovers, ZenonT(30) DEF SetArm
<1>4. ASSUME NEW t \in Threads, FreeCancel(t) PROVE MInv'
  BY <1>4, <1>a, <1>b, CancelCovers, Zenon DEF FreeCancel
<1>5. CASE SvcRearm
  BY <1>5, <1>a, <1>c, ArmCovers, Zenon DEF SvcRearm
<1>6. CASE SvcStep /\ ~SvcRearm
  BY <1>6, OthersCover, Zenon DEF SvcStep, SvcWait, SvcLoadArmed, SvcLoadDeadline,
        SvcCompare, SvcUndo, SvcClear, SvcEpoch, SvcRunning, SvcCheck,
        SvcCheckAllocated, SvcCall, SvcReturn, SvcDone
<1>7. CASE Interrupt
  BY <1>7, OthersCover, Zenon DEF Interrupt, IrqStep
<1>8. CASE Signal
  BY <1>8, OthersCover, Zenon DEF Signal, IrqStep
<1>9. CASE Network
  BY <1>9, OthersCover, Zenon DEF Network
<1>10. CASE Tick
  BY <1>10, OthersCover, Zenon DEF Tick
<1>11. CASE Restart
  BY <1>11, OthersCover, Zenon DEF Restart
<1>12. CASE UNCHANGED vars
  BY <1>12, OthersCover, Zenon DEF vars
<1> QED
  BY <1>1, <1>2, <1>3, <1>4, <1>5, <1>6, <1>7, <1>8, <1>9, <1>10, <1>11, <1>12, Zenon
     DEF Next, OpStep, SvcStep

\* The first child starts with no timer and the service thread asleep.
LEMMA ChildInits == Init => CInv /\ MInv
<1> SUFFICES ASSUME Init PROVE CInv /\ MInv
    BY Zenon
<1>1. NoOp \in OpStates /\ Asleep \in SvcStates
  BY Zenon DEF NoOp, Asleep, OpStates, SvcStates, OpPlaces, SvcPlaces
<1>2. ChildType
  <2>1. life \in 1..MaxLives
    BY ChildAssumption DEF Init
  <2>2. op \in [Threads -> OpStates]
    BY <1>1, Zenon DEF Init
  <2> QED BY <1>1, <2>1, <2>2, Zenon DEF Init, ChildType
<1>3. \A t \in Threads : op[t] = NoOp
  BY Zenon DEF Init
<1>4. Barrier /\ NoCallbackAfterFree
  BY <1>3 DEF Init, Barrier, NoCallbackAfterFree, NoOp, Asleep
<1>5. Ordered
  BY <1>3 DEF Init, Ordered, NoOp, Asleep, Locked, Setting
<1>6. Compared
  BY Zenon DEF Init, Compared, Asleep
<1>7. MInv
  BY ManagerInit, Zenon DEF Init
<1> QED BY <1>2, <1>4, <1>5, <1>6, <1>7, Zenon DEF CInv

(* All of it is inductive.                                                  *)
LEMMA ChildStep == CInv /\ MInv /\ [Next]_vars => (CInv /\ MInv)'
  BY ChildTypes, BarrierKept, OrderedKept, ComparedKept, ManagerDriven, Zenon
     DEF CInv

(* Only SvcCheck accepts a generation, and by then its deadline has passed. *)
LEMMA AcceptedLate ==
    ASSUME ChildType, Compared, [Next]_vars
    PROVE  svc.pc = "check" /\ svc'.pc = "allocated" => deadline_ns = 0
<1> SUFFICES ASSUME svc.pc = "check", svc'.pc = "allocated"
             PROVE  deadline_ns = 0
    BY Zenon
<1>1. CASE SvcCheck
  <2>1. timer_generation = svc.gen
    BY <1>1, SvcMoves, Zenon DEF SvcCheck, ChildType, SvcPlaces
  <2> QED BY <2>1, Zenon DEF Compared
<1>2. CASE SvcStep /\ ~SvcCheck
  BY <1>2, Zenon
     DEF SvcStep, SvcWait, SvcLoadArmed, SvcLoadDeadline, SvcCompare,
        SvcRearm, SvcUndo, SvcClear, SvcEpoch, SvcRunning, SvcCheckAllocated,
        SvcCall, SvcReturn, SvcDone, Move, SleepAgain, Serve
<1>3. ASSUME NEW t \in Threads,
             TimerAlloc(t) \/ TimerFree(t) \/ OpStep(t)
      PROVE  UNCHANGED svc
  BY <1>3, Zenon DEF TimerAlloc, TimerFree, OpStep, AllocClear, AllocPublish,
        SetEpoch, SetOld, SetDeadline, SetArmed, SetDefer, SetArm, SetUndo,
        FreeGeneration, FreeArmed, FreeFn, FreeCancel, FreeWait, Freed
<1>4. ASSUME NEW t \in Threads, NEW d \in Timeouts, SetOneshot(t, d)
      PROVE  UNCHANGED svc
  BY <1>4, Zenon DEF SetOneshot
<1>5. CASE Interrupt \/ Signal \/ Network \/ UNCHANGED vars
  BY <1>5, Zenon DEF Interrupt, Signal, Network, vars
<1>6. CASE Tick
  BY <1>6, Zenon DEF Tick
<1>7. CASE Restart
  BY <1>7, Zenon DEF Restart, Asleep
<1> QED BY <1>1, <1>2, <1>3, <1>4, <1>5, <1>6, <1>7, Zenon DEF Next

(* The callback barrier: once task_timer_free has returned, the callback of *)
(* the allocation it freed neither runs nor starts, for any number of       *)
(* client threads and of timers allocated, set and freed.                   *)
THEOREM FreeIsABarrier == Safety => []NoCallbackAfterFree
<1>1. CInv => NoCallbackAfterFree
  BY Zenon DEF CInv
<1> QED BY <1>1, ChildInits, ChildStep, PTL DEF Safety

(* A generation is accepted for the callback only when its deadline has     *)
(* passed, however the wake-up came about.                                  *)
THEOREM FiresInTime == Safety => NeverEarly
<1>1. CInv /\ [Next]_vars
        => [svc.pc = "check" /\ svc'.pc = "allocated" => deadline_ns = 0]_vars
  BY AcceptedLate, Zenon DEF CInv
<1> QED BY <1>1, ChildInits, ChildStep, PTL DEF Safety, NeverEarly

(* The PIT covers every armed deadline also when the requests are those of  *)
(* the child's timer code, the child is replaced in the middle of any of    *)
(* them and the network worker shares the PIT.                              *)
THEOREM ChildAlwaysCovered == Safety => []HardwareCovers
<1>1. MInv => HardwareCovers
  BY Zenon DEF MInv
<1> QED BY <1>1, ChildInits, ChildStep, PTL DEF Safety
=============================================================================
