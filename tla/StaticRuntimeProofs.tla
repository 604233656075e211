------------------------ MODULE StaticRuntimeProofs ------------------------
(***************************************************************************)
(* The static applets for any number of workers, any commands and          *)
(* pipelines and any place where a start fails: descriptors and slots are  *)
(* accounted for, one worker parses its options at a time, and the slots   *)
(* implement the table of children of module ChildTable.                   *)
(*                                                                         *)
(* None of the three is inductive by itself.  AppletInv adds what ties a   *)
(* slot to its thread: a slot that is free, or that has no pid, has no     *)
(* thread (so a release takes nothing from a running applet), "done" is    *)
(* set exactly while the thread is past its applet, no pid is in two       *)
(* slots, and the slot a failed start gives up has no pid.                 *)
(***************************************************************************)
EXTENDS StaticRuntime, FiniteSetTheorems, TLAPS

ThreadSteps == {"off", "new", "options", "getopt", "run", "exit", "close",
                "done", "gone"}

\* A slot's record and the fields the invariant speaks of.
WorkerShape(w) ==
    w = [in_use |-> w.in_use, done |-> w.done, tid |-> w.tid,
         status |-> w.status, getopt_locked |-> w.getopt_locked,
         optind |-> w.optind, fd_map |-> w.fd_map, cmd |-> w.cmd,
         todo |-> w.todo]
WorkerTypes(w) ==
    /\ w.in_use \in BOOLEAN /\ w.done \in BOOLEAN
    /\ w.getopt_locked \in BOOLEAN /\ w.tid \in Nat /\ w.optind \in Nat
    /\ w.fd_map = [fd \in 0..2 |-> w.fd_map[fd]]

\* What holds of one slot, its thread at step l and the next pid n.
Slot(w, l, n) ==
    /\ WorkerShape(w) /\ WorkerTypes(w) /\ l \in ThreadSteps
    /\ ~w.in_use => l = "off" /\ w.fd_map = NoFds
    /\ w.tid = 0 => l = "off"
    /\ w.in_use => (w.done <=> l \in {"done", "gone"})
    /\ w.tid < n
    /\ w.getopt_locked => l \in {"options", "getopt", "exit"}
    /\ l = "getopt" => w.getopt_locked

SlotsRight ==
    /\ worker = [s \in Slots |-> worker[s]]
    /\ thread = [s \in Slots |-> thread[s]]
    /\ next_tid \in Nat \ {0}
    /\ \A s \in Slots : Slot(worker[s], thread[s], next_tid)

\* No pid is in two slots.
PidsDiffer ==
    \A s, t \in Slots :
        /\ worker[s].in_use /\ worker[t].in_use
        /\ worker[s].tid = worker[t].tid /\ worker[s].tid # 0
        => s = t

\* The launcher: where it stands in the list of slots of its command.
ShellRight ==
    /\ shell = [pc |-> shell.pc, cmds |-> shell.cmds, slots |-> shell.slots,
                i |-> shell.i, ends |-> shell.ends, pid |-> shell.pid,
                ret |-> shell.ret]
    /\ shell.slots \in Seq(Slots) /\ shell.i \in Nat \ {0}
    /\ shell.pc = "join" => shell.i <= Len(shell.slots)
    /\ shell.pc = "close" => shell.i = 1 /\ shell.slots # <<>>
    /\ shell.pc = "start" => shell.cmds # <<>>
    /\ shell.pc = "refuse" => /\ shell.slots # <<>>
                              /\ worker[shell.slots[Len(shell.slots)]].tid = 0
                              /\ shell.cmds = <<>> => shell.ends = {}

GetoptTypes == /\ getopt_lock \in BOOLEAN
               /\ optind \in [of : 0..Workers, at : Nat]

CountTypes == static_current \in Int /\ doubled \in Int

(* The inductive invariant.                                                 *)
AppletInv == /\ SlotsRight /\ PidsDiffer /\ ShellRight /\ GetoptTypes
             /\ CountTypes /\ GetoptSerialized /\ SlotsAccounted

----------------------------------------------------------------------------
(* One field of a slot changes: the record keeps its shape.                 *)
LEMMA FieldSet ==
    ASSUME NEW w, WorkerShape(w), NEW v
    PROVE  /\ WorkerShape([w EXCEPT !.todo = v])
           /\ WorkerShape([w EXCEPT !.status = v])
           /\ WorkerShape([w EXCEPT !.optind = v])
           /\ WorkerShape([w EXCEPT !.getopt_locked = v])
           /\ WorkerShape([w EXCEPT !.done = v])
           /\ WorkerShape([w EXCEPT !.in_use = v])
           /\ WorkerShape([w EXCEPT !.fd_map = v])
           /\ WorkerShape([w EXCEPT !.tid = v])
           /\ WorkerShape([w EXCEPT !.cmd = v])
<1>1. WorkerShape([w EXCEPT !.todo = v])
  BY DEF WorkerShape
<1>2. WorkerShape([w EXCEPT !.status = v])
  BY DEF WorkerShape
<1>3. WorkerShape([w EXCEPT !.optind = v])
  BY DEF WorkerShape
<1>4. WorkerShape([w EXCEPT !.getopt_locked = v])
  BY DEF WorkerShape
<1>5. WorkerShape([w EXCEPT !.done = v])
  BY DEF WorkerShape
<1>6. WorkerShape([w EXCEPT !.in_use = v])
  BY DEF WorkerShape
<1>7. WorkerShape([w EXCEPT !.fd_map = v])
  BY DEF WorkerShape
<1>8. WorkerShape([w EXCEPT !.tid = v])
  BY DEF WorkerShape
<1>9. WorkerShape([w EXCEPT !.cmd = v])
  BY DEF WorkerShape
<1> QED BY <1>1, <1>2, <1>3, <1>4, <1>5, <1>6, <1>7, <1>8, <1>9, ZenonT(30)

(* A step of a slot's thread changes its own slot and no other.             *)
LEMMA SlotSet ==
    ASSUME SlotsRight, NEW s \in Slots, NEW w, NEW l,
           worker' = [worker EXCEPT ![s] = w],
           thread' = [thread EXCEPT ![s] = l]
    PROVE  /\ worker'[s] = w /\ thread'[s] = l
           /\ \A t \in Slots \ {s} : worker'[t] = worker[t] /\ thread'[t] = thread[t]
           /\ worker' = [t \in Slots |-> worker'[t]]
           /\ thread' = [t \in Slots |-> thread'[t]]
BY Zenon DEF SlotsRight

\* What a step of the thread of slot s does to the state: its slot stays
\* right and keeps its pid, no other slot changes, the descriptors follow the
\* slot's map, and the lock follows getopt_locked.
ThreadMove(s) ==
    /\ UNCHANGED Shared
    /\ worker' = [t \in Slots |-> worker'[t]]
    /\ thread' = [t \in Slots |-> thread'[t]]
    /\ \A t \in Slots \ {s} : worker'[t] = worker[t] /\ thread'[t] = thread[t]
    /\ Slot(worker'[s], thread'[s], next_tid)
    /\ worker'[s].in_use = TRUE /\ worker[s].in_use = TRUE
    /\ worker'[s].tid = worker[s].tid
    /\ worker[s].done => worker'[s].done
    /\ open' = (open \ Held(s, worker[s].fd_map)) \cup Held(s, worker'[s].fd_map)
    /\ GetoptTypes'

LockSame(s) ==
    /\ getopt_lock' = getopt_lock /\ optind'.of = optind.of
    /\ worker'[s].getopt_locked = worker[s].getopt_locked
    /\ thread'[s] # "getopt"
LockTaken(s) ==
    /\ worker[s].getopt_locked \/ ~getopt_lock
    /\ getopt_lock' = TRUE /\ worker'[s].getopt_locked = TRUE
    /\ optind'.of = s
LockKeptOrGiven(s) ==
    /\ getopt_lock' = (getopt_lock /\ (worker[s].getopt_locked => worker'[s].getopt_locked))
    /\ worker'[s].getopt_locked => worker[s].getopt_locked
    /\ optind'.of = optind.of /\ thread'[s] # "getopt"

----------------------------------------------------------------------------
(* The descriptors of a slot carry its number, and a slot without any has   *)
(* none.                                                                    *)
LEMMA HeldBy ==
    ASSUME NEW s
    PROVE  /\ \A m : \A d \in Held(s, m) : d.by = s
           /\ Held(s, NoFds) = {}
BY DEF Held, NoFds

(* LKL holds a slot's descriptors open.                                     *)
LEMMA HeldOpen ==
    ASSUME AppletInv, NEW s \in Slots
    PROVE  Held(s, worker[s].fd_map) \subseteq open
BY Zenon DEF AppletInv, SlotsAccounted, DescriptorsAccounted

(* What holds of a slot whose thread runs.                                  *)
LEMMA RunningSlot ==
    ASSUME AppletInv, NEW s \in Slots
    PROVE  /\ Slot(worker[s], thread[s], next_tid)
           /\ thread[s] # "off" => worker[s].in_use = TRUE /\ worker[s].tid # 0
           /\ WorkerShape(worker[s]) /\ WorkerTypes(worker[s])
<1>1. Slot(worker[s], thread[s], next_tid)
  BY Zenon DEF AppletInv, SlotsRight
<1> QED BY <1>1, Zenon DEF Slot, WorkerTypes

(* A step that leaves the slot's descriptors alone.                         *)
LEMMA Moves ==
    ASSUME AppletInv, NEW s \in Slots, NEW w, NEW l,
           worker' = [worker EXCEPT ![s] = w],
           thread' = [thread EXCEPT ![s] = l],
           UNCHANGED Shared, UNCHANGED open, thread[s] # "off",
           Slot(w, l, next_tid), w.in_use = worker[s].in_use,
           w.tid = worker[s].tid, w.fd_map = worker[s].fd_map,
           worker[s].done => w.done, GetoptTypes'
    PROVE  ThreadMove(s)
<1>1. worker[s].in_use = TRUE
  BY RunningSlot, Zenon
<1>2. /\ worker'[s] = w /\ thread'[s] = l
      /\ \A t \in Slots \ {s} : worker'[t] = worker[t] /\ thread'[t] = thread[t]
      /\ worker' = [t \in Slots |-> worker'[t]]
      /\ thread' = [t \in Slots |-> thread'[t]]
  BY SlotSet, Zenon DEF AppletInv
<1>3. open' = (open \ Held(s, worker[s].fd_map)) \cup Held(s, worker'[s].fd_map)
  BY <1>2, HeldOpen, ZenonT(30)
<1> QED BY <1>1, <1>2, <1>3, ZenonT(30) DEF ThreadMove

(* The thread enters its applet.                                            *)
LEMMA EnterMoves ==
    ASSUME AppletInv, NEW s \in Slots, Enter(s)
    PROVE  ThreadMove(s) /\ LockSame(s)
<1>1. /\ thread[s] = "new" /\ thread' = [thread EXCEPT ![s] = "options"]
      /\ UNCHANGED Shared /\ UNCHANGED <<worker, open, getopt_lock, optind>>
  BY Zenon DEF Enter, Goto
<1>2. worker' = [worker EXCEPT ![s] = worker[s]]
  BY <1>1, Zenon DEF AppletInv, SlotsRight
<1>3. Slot(worker[s], "options", next_tid)
  BY <1>1, RunningSlot, Zenon DEF Slot, ThreadSteps
<1>4. GetoptTypes'
  BY <1>1, Zenon DEF AppletInv, GetoptTypes
<1>5. ThreadMove(s)
  BY <1>1, <1>2, <1>3, <1>4, Moves, Zenon
<1>6. worker'[s] = worker[s] /\ thread'[s] = "options"
  BY <1>1, <1>2, SlotSet, Zenon DEF AppletInv
<1> QED BY <1>1, <1>5, <1>6, ZenonT(30) DEF LockSame

(* The thread ends.                                                         *)
LEMMA EndMoves ==
    ASSUME AppletInv, NEW s \in Slots, ThreadEnds(s)
    PROVE  ThreadMove(s) /\ LockSame(s)
<1>1. /\ thread[s] = "done" /\ thread' = [thread EXCEPT ![s] = "gone"]
      /\ UNCHANGED Shared /\ UNCHANGED <<worker, open, getopt_lock, optind>>
  BY Zenon DEF ThreadEnds, Goto
<1>2. worker' = [worker EXCEPT ![s] = worker[s]]
  BY <1>1, Zenon DEF AppletInv, SlotsRight
<1>3. Slot(worker[s], "gone", next_tid)
  BY <1>1, RunningSlot, Zenon DEF Slot, ThreadSteps
<1>4. GetoptTypes'
  BY <1>1, Zenon DEF AppletInv, GetoptTypes
<1>5. ThreadMove(s)
  BY <1>1, <1>2, <1>3, <1>4, Moves, Zenon
<1>6. worker'[s] = worker[s] /\ thread'[s] = "gone"
  BY <1>1, <1>2, SlotSet, Zenon DEF AppletInv
<1> QED BY <1>1, <1>5, <1>6, ZenonT(30) DEF LockSame

(* bb_getopt_begin.                                                         *)
LEMMA BeginMoves ==
    ASSUME AppletInv, NEW s \in Slots, GetoptBegin(s)
    PROVE  ThreadMove(s) /\ LockTaken(s)
<1> DEFINE w == [worker[s] EXCEPT !.getopt_locked = TRUE]
<1>1. /\ thread[s] = "options" /\ thread' = [thread EXCEPT ![s] = "getopt"]
      /\ UNCHANGED Shared /\ UNCHANGED open
      /\ worker[s].getopt_locked \/ ~getopt_lock
      /\ getopt_lock' = TRUE /\ optind' = [of |-> s, at |-> worker[s].optind]
  BY Zenon DEF GetoptBegin, Goto
<1>2. worker' = [worker EXCEPT ![s] = w]
  BY Zenon DEF GetoptBegin, Goto
<1>3. WorkerShape(w)
  BY RunningSlot, FieldSet, Zenon
<1>4. /\ w.in_use = worker[s].in_use /\ w.done = worker[s].done /\ w.tid = worker[s].tid
      /\ w.optind = worker[s].optind /\ w.fd_map = worker[s].fd_map
      /\ w.getopt_locked = TRUE
  BY RunningSlot DEF WorkerShape
<1> HIDE DEF w
<1>5. Slot(w, "getopt", next_tid)
  BY <1>1, <1>3, <1>4, RunningSlot, Zenon DEF Slot, WorkerTypes, ThreadSteps
<1>6. GetoptTypes'
  <2>1. s \in 0..Workers
    BY AppletAssumption DEF Slots
  <2>2. worker[s].optind \in Nat
    BY RunningSlot, Zenon DEF WorkerTypes
  <2> QED BY <1>1, <2>1, <2>2, Zenon DEF GetoptTypes
<1>7. ThreadMove(s)
  BY <1>1, <1>2, <1>4, <1>5, <1>6, Moves, Zenon
<1>8. worker'[s] = w /\ thread'[s] = "getopt"
  BY <1>1, <1>2, SlotSet, Zenon DEF AppletInv
<1> QED BY <1>1, <1>4, <1>7, <1>8, ZenonT(30) DEF LockTaken

(* task_static_worker gives the lock back.                                  *)
LEMMA GiveUpMoves ==
    ASSUME AppletInv, NEW s \in Slots, GiveUpLock(s)
    PROVE  ThreadMove(s) /\ LockKeptOrGiven(s)
<1> DEFINE w == [worker[s] EXCEPT !.getopt_locked = FALSE]
<1>1. /\ thread[s] = "exit" /\ thread' = [thread EXCEPT ![s] = "close"]
      /\ UNCHANGED Shared /\ UNCHANGED open
      /\ getopt_lock' = (getopt_lock /\ ~worker[s].getopt_locked) /\ UNCHANGED optind
  BY Zenon DEF GiveUpLock, Goto
<1>2. worker' = [worker EXCEPT ![s] = w]
  BY Zenon DEF GiveUpLock, Goto
<1>3. WorkerShape(w)
  BY RunningSlot, FieldSet, Zenon
<1>4. /\ w.in_use = worker[s].in_use /\ w.done = worker[s].done /\ w.tid = worker[s].tid
      /\ w.optind = worker[s].optind /\ w.fd_map = worker[s].fd_map
      /\ w.getopt_locked = FALSE
  BY RunningSlot DEF WorkerShape
<1> HIDE DEF w
<1>5. Slot(w, "close", next_tid)
  BY <1>1, <1>3, <1>4, RunningSlot, Zenon DEF Slot, WorkerTypes, ThreadSteps
<1>6. GetoptTypes'
  <2>1. getopt_lock' \in BOOLEAN
    BY <1>1, Zenon
  <2> QED BY <1>1, <2>1, Zenon DEF AppletInv, GetoptTypes
<1>7. ThreadMove(s)
  BY <1>1, <1>2, <1>4, <1>5, <1>6, Moves, Zenon
<1>8. worker'[s] = w /\ thread'[s] = "close"
  BY <1>1, <1>2, SlotSet, Zenon DEF AppletInv
<1> QED BY <1>1, <1>4, <1>7, <1>8, Zenon DEF LockKeptOrGiven

(* "done" is set.                                                           *)
LEMMA DoneMoves ==
    ASSUME AppletInv, NEW s \in Slots, SetDone(s)
    PROVE  ThreadMove(s) /\ LockSame(s)
<1> DEFINE w == [worker[s] EXCEPT !.done = TRUE]
<1>1. /\ thread[s] = "close" /\ thread' = [thread EXCEPT ![s] = "done"]
      /\ UNCHANGED Shared /\ UNCHANGED open
      /\ UNCHANGED <<getopt_lock, optind>>
  BY Zenon DEF SetDone, Goto
<1>2. worker' = [worker EXCEPT ![s] = w]
  BY Zenon DEF SetDone, Goto
<1>3. WorkerShape(w)
  BY RunningSlot, FieldSet, Zenon
<1>4. /\ w.in_use = worker[s].in_use /\ w.tid = worker[s].tid /\ w.getopt_locked = worker[s].getopt_locked
      /\ w.optind = worker[s].optind /\ w.fd_map = worker[s].fd_map
      /\ w.done = TRUE
  BY RunningSlot DEF WorkerShape
<1> HIDE DEF w
<1>5. Slot(w, "done", next_tid)
  BY <1>1, <1>3, <1>4, RunningSlot, Zenon DEF Slot, WorkerTypes, ThreadSteps
<1>6. GetoptTypes'
  BY <1>1, Zenon DEF AppletInv, GetoptTypes
<1>7. ThreadMove(s)
  BY <1>1, <1>2, <1>4, <1>5, <1>6, Moves, Zenon
<1>8. worker'[s] = w /\ thread'[s] = "done"
  BY <1>1, <1>2, SlotSet, Zenon DEF AppletInv
<1> QED BY <1>1, <1>4, <1>7, <1>8, ZenonT(30) DEF LockSame

(* The applet returns, or its output has no reader.                         *)
LEMMA LeaveMoves ==
    ASSUME AppletInv, NEW s \in Slots, NEW st, thread[s] = "run", Leave(s, st)
    PROVE  ThreadMove(s) /\ LockSame(s)
<1> DEFINE w == [worker[s] EXCEPT !.status = st, !.todo = 0]
<1>1. /\ thread[s] = "run" /\ thread' = [thread EXCEPT ![s] = "exit"]
      /\ UNCHANGED Shared /\ UNCHANGED open
      /\ UNCHANGED <<getopt_lock, optind>>
  BY Zenon DEF Leave, Goto
<1>2. worker' = [worker EXCEPT ![s] = w]
  BY Zenon DEF Leave, Goto
<1>3. WorkerShape(w)
  BY RunningSlot, FieldSet, Zenon
<1>4. /\ w.in_use = worker[s].in_use /\ w.done = worker[s].done /\ w.tid = worker[s].tid
      /\ w.getopt_locked = worker[s].getopt_locked /\ w.optind = worker[s].optind /\ w.fd_map = worker[s].fd_map
  BY RunningSlot DEF WorkerShape
<1> HIDE DEF w
<1>5. Slot(w, "exit", next_tid)
  BY <1>1, <1>3, <1>4, RunningSlot, Zenon DEF Slot, WorkerTypes, ThreadSteps
<1>6. GetoptTypes'
  BY <1>1, Zenon DEF AppletInv, GetoptTypes
<1>7. ThreadMove(s)
  BY <1>1, <1>2, <1>4, <1>5, <1>6, Moves, Zenon
<1>8. worker'[s] = w /\ thread'[s] = "exit"
  BY <1>1, <1>2, SlotSet, Zenon DEF AppletInv
<1> QED BY <1>1, <1>4, <1>7, <1>8, Zenon DEF LockSame

(* getopt and bb_getopt_end.                                                *)
LEMMA GetoptMoves ==
    ASSUME AppletInv, NEW s \in Slots, Getopt(s)
    PROVE  ThreadMove(s) /\ LockKeptOrGiven(s)
<1> DEFINE more == optind.at < Options(worker[s].cmd)
           at == IF more THEN optind.at + 1 ELSE optind.at
           st == IF worker[s].cmd = "usage" THEN 1 ELSE worker[s].status
           l == IF ~more THEN "run"
                ELSE IF worker[s].cmd = "usage" THEN "exit" ELSE "options"
           out == Output(worker[s].cmd)
           w == [worker[s] EXCEPT !.optind = at, !.getopt_locked = more,
                                  !.todo = out, !.status = st]
<1>1. /\ thread[s] = "getopt" /\ thread' = [thread EXCEPT ![s] = l]
      /\ UNCHANGED Shared /\ UNCHANGED open
      /\ optind' = [optind EXCEPT !.at = at]
      /\ getopt_lock' = (getopt_lock /\ more)
  BY Zenon DEF Getopt, Goto
<1>2. worker' = [worker EXCEPT ![s] = w]
  BY Zenon DEF Getopt
<1>3. more \in BOOLEAN /\ at \in Nat /\ optind \in [of : 0..Workers, at : Nat]
  BY DEF Options, AppletInv, GetoptTypes
<1>4. /\ l \in {"run", "exit", "options"}
      /\ more => l \in {"exit", "options"}
  BY Zenon
<1> HIDE DEF more, at, st, l, out
<1>5. WorkerShape(w)
  <2>1. w = [[[[worker[s] EXCEPT !.optind = at] EXCEPT !.getopt_locked = more]
               EXCEPT !.todo = out] EXCEPT !.status = st]
    BY Zenon
  <2> QED BY <2>1, RunningSlot, FieldSet, Zenon
<1>6. /\ w.in_use = worker[s].in_use /\ w.done = worker[s].done
      /\ w.tid = worker[s].tid /\ w.fd_map = worker[s].fd_map
      /\ w.getopt_locked = more /\ w.optind = at
  BY RunningSlot DEF WorkerShape
<1> HIDE DEF w
<1>7. WorkerTypes(w)
  BY <1>3, <1>6, RunningSlot, Zenon DEF WorkerTypes
<1>8. worker[s].getopt_locked = TRUE
  BY <1>1, RunningSlot, Zenon DEF Slot, WorkerTypes
<1>9. Slot(w, l, next_tid)
  BY <1>1, <1>4, <1>5, <1>6, <1>7, RunningSlot, Zenon DEF Slot, ThreadSteps
<1>10. optind' \in [of : 0..Workers, at : Nat] /\ optind'.of = optind.of
  BY <1>1, <1>3, ZenonT(30)
<1>11. GetoptTypes'
  <2>1. getopt_lock' \in BOOLEAN
    BY <1>1, Zenon
  <2> QED BY <1>10, <2>1, Zenon DEF GetoptTypes
<1>12. ThreadMove(s)
  BY <1>1, <1>2, <1>6, <1>9, <1>11, Moves, Zenon
<1>13. worker'[s] = w /\ thread'[s] = l
  BY <1>1, <1>2, SlotSet, Zenon DEF AppletInv
<1>14. getopt_lock' = (getopt_lock /\ (worker[s].getopt_locked => worker'[s].getopt_locked))
  BY <1>1, <1>6, <1>8, <1>13, Zenon
<1>15. l # "getopt"
  BY <1>4, Zenon
<1> QED BY <1>6, <1>8, <1>10, <1>12, <1>13, <1>14, <1>15, ZenonT(30) DEF LockKeptOrGiven

(* luna_bb_write of a unit.                                                 *)
LEMMA WriteMoves ==
    ASSUME AppletInv, NEW s \in Slots, WritePipe(s)
    PROVE  ThreadMove(s) /\ LockSame(s)
<1>1. CASE Leave(s, 1)
  BY <1>1, LeaveMoves, Zenon DEF WritePipe
<1>2. CASE /\ worker' = [worker EXCEPT ![s].todo = @ - 1]
           /\ UNCHANGED <<thread, open, getopt_lock, optind, Shared>>
  <2> DEFINE w == [worker[s] EXCEPT !.todo = worker[s].todo - 1]
  <2>1. /\ thread[s] = "run" /\ UNCHANGED Shared
        /\ UNCHANGED <<thread, open, getopt_lock, optind>>
        /\ worker' = [worker EXCEPT ![s] = w]
    BY <1>2, Zenon DEF WritePipe
  <2>2. WorkerShape(w)
    BY RunningSlot, FieldSet, Zenon
  <2>3. /\ w.in_use = worker[s].in_use /\ w.done = worker[s].done
        /\ w.tid = worker[s].tid /\ w.fd_map = worker[s].fd_map
        /\ w.getopt_locked = worker[s].getopt_locked
        /\ w.optind = worker[s].optind
    BY RunningSlot DEF WorkerShape
  <2> HIDE DEF w
  <2>4. Slot(w, "run", next_tid)
    BY <2>1, <2>2, <2>3, RunningSlot, Zenon DEF Slot, WorkerTypes
  <2>5. GetoptTypes'
    BY <2>1, Zenon DEF AppletInv, GetoptTypes
  <2>6. thread' = [thread EXCEPT ![s] = "run"]
    BY <2>1, Zenon DEF AppletInv, SlotsRight
  <2>7. ThreadMove(s)
    BY <2>1, <2>3, <2>4, <2>5, <2>6, Moves, Zenon
  <2>8. worker'[s] = w /\ thread'[s] = "run"
    BY <2>1, <2>6, SlotSet, ZenonT(30) DEF AppletInv
  <2> QED BY <2>1, <2>3, <2>7, <2>8, ZenonT(30) DEF LockSame
<1> QED BY <1>1, <1>2, Zenon DEF WritePipe

(* luna_bb_read of a chunk.                                                 *)
LEMMA ReadPipeMoves ==
    ASSUME AppletInv, NEW s \in Slots, ReadPipe(s)
    PROVE  ThreadMove(s) /\ LockSame(s)
<1> DEFINE cmd == worker[s].cmd
           in == worker[s].fd_map[0]
           n == IF data[in[2]] < Chunk THEN data[in[2]] ELSE Chunk
           rest == IF cmd = "cat" THEN n ELSE 0
           st == IF cmd = "head" THEN Status(cmd) ELSE worker[s].status
           l == IF cmd = "head" THEN "exit" ELSE "run"
<1>1. CASE Leave(s, Status(cmd))
  BY <1>1, LeaveMoves, Zenon DEF ReadPipe
<1>2. CASE /\ worker' = [worker EXCEPT ![s].todo = rest, ![s].status = st]
           /\ Goto(s, l) /\ UNCHANGED <<open, getopt_lock, optind, Shared>>
  <2> DEFINE w == [worker[s] EXCEPT !.todo = rest, !.status = st]
  <2>1. /\ thread[s] = "run" /\ UNCHANGED Shared
        /\ UNCHANGED <<open, getopt_lock, optind>>
        /\ worker' = [worker EXCEPT ![s] = w]
        /\ thread' = [thread EXCEPT ![s] = l]
    BY <1>2, ZenonT(30) DEF ReadPipe, Goto
  <2>2. l \in {"exit", "run"}
    BY Zenon
  <2> HIDE DEF rest, st, l
  <2>3. WorkerShape(w)
    <3>1. w = [[worker[s] EXCEPT !.todo = rest] EXCEPT !.status = st]
      BY Zenon
    <3> QED BY <3>1, RunningSlot, FieldSet, Zenon
  <2>4. /\ w.in_use = worker[s].in_use /\ w.done = worker[s].done
        /\ w.tid = worker[s].tid /\ w.fd_map = worker[s].fd_map
        /\ w.getopt_locked = worker[s].getopt_locked
        /\ w.optind = worker[s].optind
    BY RunningSlot DEF WorkerShape
  <2> HIDE DEF w
  <2>5. Slot(w, l, next_tid)
    BY <2>1, <2>2, <2>3, <2>4, RunningSlot, Zenon
       DEF Slot, WorkerTypes, ThreadSteps
  <2>6. GetoptTypes'
    BY <2>1, Zenon DEF AppletInv, GetoptTypes
  <2>7. ThreadMove(s)
    BY <2>1, <2>4, <2>5, <2>6, Moves, Zenon
  <2>8. worker'[s] = w /\ thread'[s] = l
    BY <2>1, SlotSet, Zenon DEF AppletInv
  <2> QED BY <2>1, <2>2, <2>4, <2>7, <2>8, ZenonT(30) DEF LockSame
<1> QED BY <1>1, <1>2, Zenon DEF ReadPipe

(* task_static_worker closes one of its descriptors.                        *)
LEMMA CloseFdMoves ==
    ASSUME AppletInv, NEW s \in Slots, CloseFd(s)
    PROVE  ThreadMove(s) /\ LockSame(s)
<1> DEFINE map == worker[s].fd_map
<1>1. PICK fd \in 0..2 :
        /\ map[fd] # ClosedFd
        /\ open' = open \ {[by |-> s, fd |-> fd, obj |-> map[fd]]}
        /\ worker' = [worker EXCEPT ![s].fd_map[fd] = ClosedFd]
  BY Zenon DEF CloseFd
<1> DEFINE next == [map EXCEPT ![fd] = ClosedFd]
           w == [worker[s] EXCEPT !.fd_map = next]
<1>2. /\ thread[s] = "close" /\ UNCHANGED Shared
      /\ UNCHANGED <<thread, getopt_lock, optind>>
      /\ worker' = [worker EXCEPT ![s] = w]
  BY <1>1, Zenon DEF CloseFd
<1>3. map = [f \in 0..2 |-> map[f]]
  BY RunningSlot, Zenon DEF WorkerTypes
<1>4. /\ next = [f \in 0..2 |-> next[f]] /\ next[fd] = ClosedFd
      /\ \A f \in 0..2 \ {fd} : next[f] = map[f]
  BY <1>3, Zenon
<1>5. Held(s, map) \subseteq open
  BY HeldOpen, Zenon
<1> HIDE DEF next, map
<1>6. open' = (open \ Held(s, map)) \cup Held(s, next)
  <2> DEFINE d(m, f) == [by |-> s, fd |-> f, obj |-> m[f]]
  <2>1. \A m, x : x \in Held(s, m) <=> \E f \in 0..2 : m[f] # ClosedFd /\ x = d(m, f)
    BY Zenon DEF Held
  <2>2. \A x : x \in Held(s, next) <=> x \in Held(s, map) /\ x # d(map, fd)
    <3>1. \A f \in 0..2 : d(map, f) = d(map, fd) => f = fd
      BY Zenon
    <3>2. \A f \in 0..2 \ {fd} : d(next, f) = d(map, f) /\ next[f] = map[f]
      BY <1>4, Zenon
    <3> HIDE DEF d
    <3> QED BY <1>4, <2>1, <3>1, <3>2
  <2>3. open' = open \ {d(map, fd)}
    BY <1>1, Zenon DEF map
  <2>4. d(map, fd) \in Held(s, map)
    BY <1>1, <2>1, Zenon DEF map
  <2> HIDE DEF d
  <2> QED BY <1>5, <2>2, <2>3, <2>4, ZenonT(30)
<1>7. WorkerShape(w)
  BY RunningSlot, FieldSet, Zenon
<1>8. /\ w.in_use = worker[s].in_use /\ w.done = worker[s].done
      /\ w.tid = worker[s].tid /\ w.fd_map = next
      /\ w.getopt_locked = worker[s].getopt_locked
      /\ w.optind = worker[s].optind
  BY RunningSlot DEF WorkerShape
<1> HIDE DEF w
<1>9. WorkerTypes(w) /\ worker[s].in_use = TRUE
  BY <1>2, <1>4, <1>8, RunningSlot, Zenon DEF WorkerTypes
<1>10. Slot(w, "close", next_tid)
  BY <1>2, <1>7, <1>8, <1>9, RunningSlot, Zenon DEF Slot
<1>11. thread' = [thread EXCEPT ![s] = "close"]
  BY <1>2, Zenon DEF AppletInv, SlotsRight
<1>12. /\ worker'[s] = w /\ thread'[s] = "close"
       /\ \A t \in Slots \ {s} : worker'[t] = worker[t] /\ thread'[t] = thread[t]
       /\ worker' = [t \in Slots |-> worker'[t]]
       /\ thread' = [t \in Slots |-> thread'[t]]
  BY <1>2, <1>11, SlotSet, Zenon DEF AppletInv
<1>13. GetoptTypes'
  BY <1>2, Zenon DEF AppletInv, GetoptTypes
<1>14. ThreadMove(s)
  BY <1>2, <1>6, <1>8, <1>9, <1>10, <1>12, <1>13, ZenonT(30) DEF ThreadMove, map
<1> QED BY <1>2, <1>8, <1>12, <1>14, ZenonT(30) DEF LockSame

(* Every step of a worker is such a move.                                   *)
LEMMA WorkerMoves ==
    ASSUME AppletInv, NEW s \in Slots, Worker(s)
    PROVE  ThreadMove(s) /\ (LockSame(s) \/ LockTaken(s) \/ LockKeptOrGiven(s))
<1>1. MainReturns(s) => ThreadMove(s) /\ LockSame(s)
  BY LeaveMoves, Zenon DEF MainReturns
<1> QED BY <1>1, EnterMoves, EndMoves, BeginMoves, GetoptMoves, WriteMoves,
           ReadPipeMoves, GiveUpMoves, CloseFdMoves, DoneMoves, ZenonT(30) DEF Worker

(* The open descriptors stay accounted for when those of one slot change.   *)
LEMMA SlotAccounts ==
    ASSUME AppletInv, NEW s \in Slots,
           \A t \in Slots \ {s} : worker'[t].fd_map = worker[t].fd_map,
           open' = (open \ Held(s, worker[s].fd_map)) \cup Held(s, worker'[s].fd_map),
           shell'.ends = shell.ends
    PROVE  (open = (UNION {Held(t, worker[t].fd_map) : t \in Slots})
                   \cup {LauncherEnd(e) : e \in shell.ends})'
<1> DEFINE H(t) == Held(t, worker[t].fd_map)
           K(t) == Held(t, worker'[t].fd_map)
           E == {LauncherEnd(e) : e \in shell.ends}
<1>0. open = (UNION {H(t) : t \in Slots}) \cup E
  BY Zenon DEF AppletInv, SlotsAccounted, DescriptorsAccounted
<1>2. \A t \in Slots \ {s} : K(t) = H(t)
  BY Zenon
<1>3. open' = (open \ H(s)) \cup K(s)
  BY Zenon
<1>4. \A t \in Slots : \A x \in H(t) : x.by = t
  BY HeldBy, Zenon
<1>5. \A x \in E : x.by = 0
  BY DEF LauncherEnd, Launcher
<1>6. 0 \notin Slots
  BY AppletAssumption DEF Slots
<1>7. {LauncherEnd(e) : e \in shell'.ends} = E
  BY Zenon
<1> HIDE DEF H, K, E
<1>1. \A x : x \in open <=> (\E t \in Slots : x \in H(t)) \/ x \in E
  <2> DEFINE U == {H(t) : t \in Slots}
  <2>1. \A h : h \in U <=> \E t \in Slots : h = H(t)
    BY Zenon
  <2>2. \A x : x \in open <=> (\E h \in U : x \in h) \/ x \in E
    BY <1>0, Zenon
  <2> HIDE DEF U
  <2> QED BY <2>1, <2>2, ZenonT(30)
<1>8. \A x : x \in open' <=> (\E t \in Slots : x \in K(t)) \/ x \in E
  <2> SUFFICES ASSUME NEW x
               PROVE  x \in open' <=> (\E t \in Slots : x \in K(t)) \/ x \in E
    BY Zenon
  <2>1. x \in open' <=> (x \in open /\ x \notin H(s)) \/ x \in K(s)
    BY <1>3, Zenon
  <2>2. x \in H(s) /\ x \in E => FALSE
    BY <1>4, <1>5, <1>6, ZenonT(30)
  <2>3. \A t \in Slots \ {s} : x \in H(t) => x \notin H(s)
    BY <1>4, Zenon
  <2> QED BY <1>1, <1>2, <2>1, <2>2, <2>3, Zenon
<1>9. open' = (UNION {K(t) : t \in Slots}) \cup E
  <2> DEFINE U == {K(t) : t \in Slots}
  <2>1. \A h : h \in U <=> \E t \in Slots : h = K(t)
    BY Zenon
  <2> HIDE DEF U
  <2>2. \A x : x \in open' <=> (\E h \in U : x \in h) \/ x \in E
    BY <1>8, <2>1
  <2>3. open' = (UNION U) \cup E
    BY <2>2, Zenon
  <2> QED BY <2>3, Zenon DEF U
<1> QED BY <1>7, <1>9, Zenon DEF K, LauncherEnd, Held

(* The lock, when one slot changes: nothing, bb_getopt_begin, or its end.   *)
LEMMA LockKept ==
    ASSUME AppletInv, NEW s \in Slots,
           \A t \in Slots \ {s} : /\ worker'[t].getopt_locked = worker[t].getopt_locked
                                  /\ thread'[t] = thread[t],
           Slot(worker'[s], thread'[s], next_tid'),
           LockSame(s) \/ LockTaken(s) \/ LockKeptOrGiven(s)
    PROVE  GetoptSerialized'
<1> DEFINE L(t) == worker[t].getopt_locked
<1>1. /\ getopt_lock <=> \E t \in Slots : L(t)
      /\ \A t, u \in Slots : L(t) /\ L(u) => t = u
      /\ \A t \in Slots : L(t) => thread[t] \in {"options", "getopt", "exit"}
      /\ \A t \in Slots : thread[t] = "getopt" => optind.of \in {t, Launcher}
      /\ \A t \in Slots : thread[t] = "getopt" => L(t)
      /\ \A t \in Slots : L(t) \in BOOLEAN
  BY RunningSlot, Zenon DEF AppletInv, GetoptSerialized, Slot, WorkerTypes
<1>2. /\ \A t \in Slots \ {s} : L(t)' = L(t) /\ thread'[t] = thread[t]
      /\ L(s)' \in BOOLEAN
      /\ L(s)' => thread'[s] \in {"options", "getopt", "exit"}
      /\ thread'[s] = "getopt" => L(s)'
  BY Zenon DEF Slot, WorkerTypes
<1>3. getopt_lock \in BOOLEAN
  BY Zenon DEF AppletInv, GetoptTypes
<1>4. CASE LockSame(s)
  <2>1. /\ getopt_lock' = getopt_lock /\ optind'.of = optind.of /\ L(s)' = L(s)
        /\ thread'[s] # "getopt"
    BY <1>4, Zenon DEF LockSame
  <2> HIDE DEF L
  <2>2. /\ getopt_lock' <=> \E t \in Slots : L(t)'
        /\ \A t, u \in Slots : L(t)' /\ L(u)' => t = u
    BY <1>1, <1>2, <2>1, ZenonT(30)
  <2>3. \A t \in Slots : L(t)' => thread'[t] \in {"options", "getopt", "exit"}
    BY <1>1, <1>2, Zenon
  <2>4. \A t \in Slots : thread'[t] = "getopt" => optind'.of \in {t, Launcher}
    BY <1>1, <1>2, <2>1, ZenonT(30)
  <2>5. getopt_lock' = \E t \in Slots : L(t)'
    BY <1>3, <2>1, <2>2, Zenon
  <2> QED BY <2>2, <2>3, <2>4, <2>5, Zenon DEF GetoptSerialized, L, Launcher
<1>5. CASE LockTaken(s)
  <2>1. /\ getopt_lock' = TRUE /\ optind'.of = s /\ L(s)' = TRUE
        /\ L(s) \/ ~getopt_lock
    BY <1>5, Zenon DEF LockTaken
  <2> HIDE DEF L
  <2>2. \A t \in Slots \ {s} : ~L(t) /\ ~L(t)' /\ thread'[t] # "getopt"
    BY <1>1, <1>2, <2>1
  <2>3. getopt_lock' = \E t \in Slots : L(t)'
    BY <2>1, Zenon
  <2>4. \A t, u \in Slots : L(t)' /\ L(u)' => t = u
    BY <2>2, Zenon
  <2>5. \A t \in Slots : L(t)' => thread'[t] \in {"options", "getopt", "exit"}
    BY <1>2, <2>2, Zenon
  <2>6. \A t \in Slots : thread'[t] = "getopt" => optind'.of \in {t, Launcher}
    BY <2>1, <2>2, Zenon
  <2> QED BY <2>3, <2>4, <2>5, <2>6, ZenonT(30) DEF GetoptSerialized, L, Launcher
<1>6. CASE LockKeptOrGiven(s)
  <2>1. /\ getopt_lock' = (getopt_lock /\ (L(s) => L(s)')) /\ optind'.of = optind.of
        /\ L(s)' => L(s) /\ thread'[s] # "getopt"
        /\ thread'[s] # "getopt"
    BY <1>6, ZenonT(30) DEF LockKeptOrGiven
  <2> HIDE DEF L
  <2>2. /\ getopt_lock' <=> \E t \in Slots : L(t)'
        /\ \A t, u \in Slots : L(t)' /\ L(u)' => t = u
    BY <1>1, <1>2, <2>1
  <2>3. \A t \in Slots : L(t)' => thread'[t] \in {"options", "getopt", "exit"}
    BY <1>1, <1>2, Zenon
  <2>4. \A t \in Slots : thread'[t] = "getopt" => optind'.of \in {t, Launcher}
    BY <1>1, <1>2, <2>1, ZenonT(30)
  <2>5. getopt_lock' \in BOOLEAN
    BY <2>1, Zenon
  <2>6. getopt_lock' = \E t \in Slots : L(t)'
    BY <2>2, <2>5, Zenon
  <2> QED BY <2>2, <2>3, <2>4, <2>6, Zenon DEF GetoptSerialized, L, Launcher
<1> QED BY <1>4, <1>5, <1>6, Zenon

(* A step of a worker keeps the invariant.                                  *)
LEMMA WorkerKeeps ==
    ASSUME AppletInv, NEW s \in Slots, Worker(s)
    PROVE  AppletInv'
<1>1. /\ ThreadMove(s)
      /\ LockSame(s) \/ LockTaken(s) \/ LockKeptOrGiven(s)
  BY WorkerMoves, Zenon
<1>2. UNCHANGED <<static_current, shell, next_tid, ops, doubled>>
  BY <1>1, Zenon DEF ThreadMove, Shared
<1>3. /\ \A t \in Slots \ {s} : worker'[t] = worker[t] /\ thread'[t] = thread[t]
      /\ Slot(worker'[s], thread'[s], next_tid)
      /\ worker'[s].in_use = TRUE /\ worker[s].in_use = TRUE
      /\ worker'[s].tid = worker[s].tid
  BY <1>1, Zenon DEF ThreadMove
<1>4. SlotsRight'
  <2>1. \A t \in Slots : Slot(worker[t], thread[t], next_tid)
    BY RunningSlot, Zenon
  <2>2. \A t \in Slots : Slot(worker'[t], thread'[t], next_tid')
    BY <1>2, <1>3, <2>1, ZenonT(30)
  <2> QED BY <1>1, <1>2, <2>2, ZenonT(30) DEF ThreadMove, AppletInv, SlotsRight
<1>5. \A t \in Slots : worker'[t].in_use = worker[t].in_use /\ worker'[t].tid = worker[t].tid
  BY <1>3, Zenon
<1>6. PidsDiffer'
  BY <1>5 DEF AppletInv, PidsDiffer
<1>7. ShellRight'
  <2>1. shell.slots # <<>> => shell.slots[Len(shell.slots)] \in Slots
    BY DEF AppletInv, ShellRight
  <2> QED BY <1>2, <1>5, <2>1, Zenon DEF AppletInv, ShellRight
<1>8. GetoptTypes' /\ CountTypes'
  BY <1>1, <1>2, Zenon DEF ThreadMove, AppletInv, CountTypes
<1>9. GetoptSerialized'
  BY <1>1, <1>2, <1>3, LockKept, ZenonT(30)
<1>10. DescriptorsAccounted'
  <2>1. (open = (UNION {Held(t, worker[t].fd_map) : t \in Slots})
                \cup {LauncherEnd(e) : e \in shell.ends})'
    BY <1>1, <1>2, <1>3, SlotAccounts, ZenonT(30) DEF ThreadMove
  <2>2. \A t \in Slots : ~worker'[t].in_use => worker'[t].fd_map = NoFds
    BY <1>3, ZenonT(30) DEF AppletInv, SlotsAccounted, DescriptorsAccounted
  <2> QED BY <1>2, <2>1, <2>2, ZenonT(30)
             DEF AppletInv, SlotsAccounted, DescriptorsAccounted
<1>11. CurrentCounts'
  <2>1. {t \in Slots : worker'[t].in_use} = {t \in Slots : worker[t].in_use}
    BY <1>5, Zenon
  <2> QED BY <1>2, <2>1, Zenon DEF AppletInv, SlotsAccounted, CurrentCounts
<1> QED BY <1>4, <1>6, <1>7, <1>8, <1>9, <1>10, <1>11
           DEF AppletInv, SlotsAccounted

----------------------------------------------------------------------------
\* What DescriptorsAccounted says of the launcher's ends.
EndsRight == shell.pc \notin {"start", "refuse", "close", "undo", "failed"}
                => shell.ends = {}

(* A step of the launcher that touches no slot and no descriptor.           *)
LEMMA ShellOnly ==
    ASSUME AppletInv, ShellRight', EndsRight', shell'.ends = shell.ends,
           UNCHANGED <<worker, thread, open, getopt_lock, static_current,
                       next_tid, doubled>>,
           optind' \in {optind, [of |-> Launcher, at |-> 0]}
    PROVE  AppletInv'
<1>1. SlotsRight' /\ PidsDiffer' /\ CountTypes'
  BY Zenon DEF AppletInv, SlotsRight, PidsDiffer, CountTypes
<1>2. optind'.of \in {optind.of, Launcher} /\ GetoptTypes'
  BY AppletAssumption DEF AppletInv, GetoptTypes, Launcher
<1>3. GetoptSerialized'
  BY <1>2, Zenon DEF AppletInv, GetoptSerialized, Launcher
<1>4. SlotsAccounted'
  <2>1. DescriptorsAccounted /\ CurrentCounts
    BY Zenon DEF AppletInv, SlotsAccounted
  <2>2. CurrentCounts'
    BY <2>1, Zenon DEF CurrentCounts
  <2>3. DescriptorsAccounted'
    BY <2>1, Zenon DEF DescriptorsAccounted, EndsRight
  <2> QED BY <2>2, <2>3, Zenon DEF SlotsAccounted
<1> QED BY <1>1, <1>2, <1>3, <1>4, Zenon DEF AppletInv

(* The launcher opens or closes ends of pipes.                              *)
LEMMA EndsOnly ==
    ASSUME AppletInv, ShellRight', EndsRight',
           UNCHANGED <<worker, thread, getopt_lock, optind, static_current,
                       next_tid, doubled>>,
           open' = (open \ {LauncherEnd(e) : e \in shell.ends})
                   \cup {LauncherEnd(e) : e \in shell'.ends}
    PROVE  AppletInv'
<1> DEFINE H(t) == Held(t, worker[t].fd_map)
           U == {H(t) : t \in Slots}
           E == {LauncherEnd(e) : e \in shell.ends}
           F == {LauncherEnd(e) : e \in shell'.ends}
<1>1. SlotsRight' /\ PidsDiffer' /\ CountTypes' /\ GetoptTypes' /\ GetoptSerialized'
  BY Zenon
     DEF AppletInv, SlotsRight, PidsDiffer, CountTypes, GetoptTypes,
         GetoptSerialized
<1>2. CurrentCounts'
  BY Zenon DEF AppletInv, SlotsAccounted, CurrentCounts
<1>3. open = (UNION U) \cup E
  BY Zenon DEF AppletInv, SlotsAccounted, DescriptorsAccounted
<1>4. E \cap (UNION U) = {}
  <2>1. \A t \in Slots : \A x \in H(t) : x.by = t
    BY HeldBy, Zenon
  <2>2. \A x \in E : x.by = 0
    BY DEF LauncherEnd, Launcher
  <2>3. 0 \notin Slots
    BY AppletAssumption DEF Slots
  <2>4. \A h : h \in U <=> \E t \in Slots : h = H(t)
    BY Zenon
  <2> HIDE DEF E, U, H
  <2>5. ASSUME NEW x \in E, x \in UNION U PROVE FALSE
    <3>1. PICK h \in U : x \in h
      BY <2>5, Zenon
    <3>2. PICK t \in Slots : h = H(t)
      BY <2>4, Zenon
    <3> QED BY <2>1, <2>2, <2>3, <3>1, <3>2, ZenonT(30)
  <2> QED BY <2>5, Zenon
<1>5. open' = (open \ E) \cup F
  BY Zenon
<1> HIDE DEF E, U, F
<1>6. open' = (UNION U) \cup F
  BY <1>3, <1>4, <1>5, ZenonT(30)
<1>7. DescriptorsAccounted'
  BY <1>6
     DEF U, F, H, AppletInv, SlotsAccounted, DescriptorsAccounted, EndsRight,
              Held, LauncherEnd
<1> QED BY <1>1, <1>2, <1>7, Zenon DEF AppletInv, SlotsAccounted

(* The slots in use are counted.                                            *)
LEMMA InUseCount ==
    ASSUME NEW A \in SUBSET Slots, NEW s \in Slots
    PROVE  /\ Cardinality(A) \in Nat
           /\ s \notin A => Cardinality(A \cup {s}) = Cardinality(A) + 1
           /\ s \in A => Cardinality(A \ {s}) = Cardinality(A) - 1
<1>1. IsFiniteSet(Slots)
  BY FS_Interval, AppletAssumption DEF Slots
<1>2. IsFiniteSet(A)
  BY <1>1, FS_Subset, Zenon
<1> QED BY <1>2, FS_CardinalityType, FS_AddElement, FS_RemoveElement, Zenon

(* A slot right for one pid count is right for a later one.                 *)
LEMMA SlotLater ==
    ASSUME NEW w, NEW l, NEW n \in Nat, NEW m \in Nat, n <= m, Slot(w, l, n)
    PROVE  Slot(w, l, m)
BY DEF Slot, WorkerTypes

(* The launcher changes one slot.                                           *)
LEMMA SlotChanges ==
    ASSUME AppletInv, ShellRight', EndsRight', NEW s \in Slots, NEW w, NEW l,
           worker' = [worker EXCEPT ![s] = w],
           thread' = [thread EXCEPT ![s] = l],
           next_tid' \in {next_tid, next_tid + 1}, Slot(w, l, next_tid'),
           w.in_use /\ w.tid # 0 => \A t \in Slots : worker[t].tid # w.tid,
           UNCHANGED <<getopt_lock, optind>>, l # "getopt",
           w.getopt_locked = worker[s].getopt_locked,
           open' = (open \ Held(s, worker[s].fd_map)) \cup Held(s, w.fd_map),
           shell'.ends = shell.ends, CountTypes', CurrentCounts'
    PROVE  AppletInv'
<1>1. /\ worker'[s] = w /\ thread'[s] = l
      /\ \A t \in Slots \ {s} : worker'[t] = worker[t] /\ thread'[t] = thread[t]
      /\ worker' = [t \in Slots |-> worker'[t]]
      /\ thread' = [t \in Slots |-> thread'[t]]
  BY SlotSet, Zenon DEF AppletInv
<1>2. SlotsRight'
  <2>1. next_tid \in Nat \ {0} /\ next_tid' \in Nat \ {0} /\ next_tid <= next_tid'
    BY DEF AppletInv, SlotsRight
  <2>2. \A t \in Slots \ {s} : Slot(worker'[t], thread'[t], next_tid')
    BY <1>1, <2>1, RunningSlot, SlotLater, Zenon
  <2> QED BY <1>1, <2>1, <2>2 DEF SlotsRight
<1>3. PidsDiffer'
  BY <1>1 DEF AppletInv, PidsDiffer
<1>4. GetoptTypes'
  BY Zenon DEF AppletInv, GetoptTypes
<1>5. GetoptSerialized'
  <2>1. LockSame(s)
    BY <1>1, Zenon DEF LockSame
  <2> QED BY <1>1, <2>1, LockKept
<1>6. DescriptorsAccounted'
  <2>1. (open = (UNION {Held(t, worker[t].fd_map) : t \in Slots})
                \cup {LauncherEnd(e) : e \in shell.ends})'
    BY <1>1, SlotAccounts, ZenonT(30)
  <2>2. \A t \in Slots : ~worker'[t].in_use => worker'[t].fd_map = NoFds
    BY <1>2, ZenonT(30) DEF SlotsRight, Slot
  <2> QED BY <2>1, <2>2, Zenon DEF DescriptorsAccounted, EndsRight
<1> QED BY <1>2, <1>3, <1>4, <1>5, <1>6 DEF AppletInv, SlotsAccounted

(* The record of a free slot.                                               *)
LEMMA FreeShape ==
    /\ WorkerShape(FreeWorker) /\ FreeWorker.in_use = FALSE
    /\ FreeWorker.done = FALSE /\ FreeWorker.tid = 0
    /\ FreeWorker.getopt_locked = FALSE /\ FreeWorker.optind = 0
    /\ FreeWorker.fd_map = NoFds
BY Zenon DEF FreeWorker, WorkerShape

(* task_static_start of a free slot, up to the thread.                      *)
LEMMA StartedKeeps ==
    ASSUME AppletInv, ShellRight', EndsRight', shell'.ends = shell.ends,
           NEW s \in Slots, FirstFree(s), NEW cmd, NEW in, NEW out,
           Started(s, cmd, in, out), UNCHANGED <<getopt_lock, optind, doubled>>
    PROVE  AppletInv'
<1> DEFINE map == FdMap(in, out)
           w == [FreeWorker EXCEPT !.in_use = TRUE, !.tid = next_tid,
                                   !.cmd = cmd, !.fd_map = map]
<1>1. /\ worker' = [worker EXCEPT ![s] = w]
      /\ thread' = [thread EXCEPT ![s] = "new"]
      /\ open' = open \cup Held(s, map)
      /\ next_tid' = next_tid + 1 /\ static_current' = static_current + 1
  BY Zenon DEF Started
<1>2. map = [fd \in 0..2 |-> map[fd]]
  BY DEF FdMap
<1> HIDE DEF map
<1>3. /\ WorkerShape(w) /\ w.in_use = TRUE /\ w.done = FALSE
      /\ w.tid = next_tid /\ w.getopt_locked = FALSE /\ w.optind = 0
      /\ w.fd_map = map
  <2>1. w = [[[[FreeWorker EXCEPT !.in_use = TRUE] EXCEPT !.tid = next_tid]
               EXCEPT !.cmd = cmd] EXCEPT !.fd_map = map]
    BY Zenon
  <2>2. WorkerShape(w)
    BY <2>1, FreeShape, FieldSet, Zenon
  <2>3. /\ w.in_use = TRUE /\ w.done = FreeWorker.done
        /\ w.tid = next_tid
        /\ w.getopt_locked = FreeWorker.getopt_locked
        /\ w.optind = FreeWorker.optind /\ w.fd_map = map
    BY FreeShape, Zenon DEF WorkerShape
  <2> HIDE DEF w
  <2> QED BY <2>2, <2>3, FreeShape, ZenonT(30)
<1> HIDE DEF w
<1>4. next_tid \in Nat \ {0}
  BY ZenonT(30) DEF AppletInv, SlotsRight
<1>5. Slot(w, "new", next_tid + 1)
  <2>1. w.tid \in Nat /\ w.optind \in Nat
    BY <1>3, <1>4
  <2>2. WorkerTypes(w)
    BY <1>2, <1>3, <2>1, Zenon DEF WorkerTypes
  <2> QED BY <1>3, <1>4, <2>2 DEF Slot, ThreadSteps
<1>6. /\ worker[s].in_use = FALSE /\ worker[s].fd_map = NoFds
      /\ worker[s].getopt_locked = FALSE
  BY RunningSlot, Zenon DEF FirstFree, FreeSlots, Slot, WorkerTypes
<1>7. \A t \in Slots : worker[t].tid # next_tid
  <2> SUFFICES ASSUME NEW t \in Slots PROVE worker[t].tid # next_tid
    BY Zenon
  <2>1. worker[t].tid \in Nat /\ worker[t].tid < next_tid
    BY RunningSlot, ZenonT(30) DEF Slot, WorkerTypes
  <2> QED BY <1>4, <2>1
<1>8. open' = (open \ Held(s, worker[s].fd_map)) \cup Held(s, w.fd_map)
  BY <1>1, <1>3, <1>6, HeldBy
<1>9. CountTypes' /\ CurrentCounts'
  <2> DEFINE A == {t \in Slots : worker[t].in_use}
             B == {t \in Slots : worker'[t].in_use}
  <2>1. B = A \cup {s} /\ s \notin A
    <3>1. /\ worker'[s].in_use = w.in_use
          /\ \A t \in Slots \ {s} : worker'[t].in_use = worker[t].in_use
      BY <1>1, <1>3, <1>6, SlotSet, Zenon DEF AppletInv
    <3> QED BY <1>1, <1>3, <1>6, <3>1
  <2>2. static_current = Cardinality(A) - doubled /\ CountTypes
    BY Zenon DEF AppletInv, SlotsAccounted, CurrentCounts
  <2>3. A \in SUBSET Slots
    BY Zenon
  <2> HIDE DEF A, B
  <2>4. Cardinality(B) = Cardinality(A) + 1 /\ Cardinality(A) \in Nat
    BY <2>1, <2>3, InUseCount, Zenon
  <2>5. static_current' = Cardinality(B) - doubled'
    BY <1>1, <2>2, <2>4, SMTT(30) DEF CountTypes
  <2>6. CountTypes'
    BY <1>1, <2>2 DEF CountTypes
  <2> QED BY <2>5, <2>6, ZenonT(30) DEF CurrentCounts, B
<1> QED BY <1>1, <1>3, <1>5, <1>6, <1>7, <1>8, <1>9, SlotChanges, Zenon

(* task_static_start that fails: the slot is in use and has no thread.      *)
LEMMA StartFailedKeeps ==
    ASSUME AppletInv, ShellRight', EndsRight', shell'.ends = shell.ends,
           NEW s \in Slots, FirstFree(s), NEW cmd, NEW in, NEW out,
           StartFailed(s, cmd, in, out),
           UNCHANGED <<getopt_lock, optind, doubled>>
    PROVE  AppletInv'
<1>1. PICK n \in 0..IF Allowed(cmd) THEN 3 ELSE 0 :
        LET map == [fd \in 0..2 |-> IF fd < n THEN FdMap(in, out)[fd] ELSE ClosedFd] IN
        /\ worker' = [worker EXCEPT ![s] =
                        [FreeWorker EXCEPT !.in_use = TRUE, !.fd_map = map]]
        /\ open' = open \cup Held(s, map)
  BY Zenon DEF StartFailed
<1> DEFINE map == [fd \in 0..2 |-> IF fd < n THEN FdMap(in, out)[fd] ELSE ClosedFd]
           w == [FreeWorker EXCEPT !.in_use = TRUE, !.fd_map = map]
<1>2. /\ worker' = [worker EXCEPT ![s] = w] /\ open' = open \cup Held(s, map)
      /\ UNCHANGED <<thread, next_tid>> /\ static_current' = static_current + 1
  BY <1>1, Zenon DEF StartFailed
<1>3. map = [fd \in 0..2 |-> map[fd]]
  BY Zenon
<1> HIDE DEF map
<1>4. /\ WorkerShape(w) /\ w.in_use = TRUE /\ w.done = FALSE
      /\ w.tid = 0 /\ w.getopt_locked = FALSE /\ w.optind = 0
      /\ w.fd_map = map
  <2>1. w = [[FreeWorker EXCEPT !.in_use = TRUE] EXCEPT !.fd_map = map]
    BY Zenon
  <2>2. WorkerShape(w)
    BY <2>1, FreeShape, FieldSet, Zenon
  <2>3. /\ w.in_use = TRUE /\ w.done = FreeWorker.done
        /\ w.tid = FreeWorker.tid
        /\ w.getopt_locked = FreeWorker.getopt_locked
        /\ w.optind = FreeWorker.optind /\ w.fd_map = map
    BY FreeShape, ZenonT(30) DEF WorkerShape
  <2> HIDE DEF w
  <2> QED BY <2>2, <2>3, FreeShape
<1> HIDE DEF w
<1>5. next_tid \in Nat \ {0}
  BY Zenon DEF AppletInv, SlotsRight
<1>6. Slot(w, "off", next_tid)
  <2>1. w.tid \in Nat /\ w.optind \in Nat
    BY <1>4
  <2>2. WorkerTypes(w)
    BY <1>3, <1>4, <2>1, Zenon DEF WorkerTypes
  <2> QED BY <1>4, <1>5, <2>2 DEF Slot, ThreadSteps
<1>7. /\ worker[s].in_use = FALSE /\ worker[s].fd_map = NoFds
      /\ worker[s].getopt_locked = FALSE /\ thread[s] = "off"
  BY RunningSlot, ZenonT(30) DEF FirstFree, FreeSlots, Slot, WorkerTypes
<1>8. open' = (open \ Held(s, worker[s].fd_map)) \cup Held(s, w.fd_map)
  BY <1>2, <1>4, <1>7, HeldBy
<1>9. thread' = [thread EXCEPT ![s] = "off"]
  BY <1>2, <1>7, ZenonT(30) DEF AppletInv, SlotsRight
<1>10. CountTypes' /\ CurrentCounts'
  <2> DEFINE A == {t \in Slots : worker[t].in_use}
             B == {t \in Slots : worker'[t].in_use}
  <2>1. B = A \cup {s} /\ s \notin A
    <3>1. /\ worker'[s].in_use = w.in_use
          /\ \A t \in Slots \ {s} : worker'[t].in_use = worker[t].in_use
      BY <1>2, <1>4, <1>7, <1>9, SlotSet, Zenon DEF AppletInv
    <3> QED BY <1>2, <1>4, <1>7, <1>9, <3>1
  <2>2. static_current = Cardinality(A) - doubled /\ CountTypes
    BY Zenon DEF AppletInv, SlotsAccounted, CurrentCounts
  <2>3. A \in SUBSET Slots
    BY Zenon
  <2> HIDE DEF A, B
  <2>4. Cardinality(B) = Cardinality(A) + 1 /\ Cardinality(A) \in Nat
    BY <2>1, <2>3, InUseCount, Zenon
  <2>5. static_current' = Cardinality(B) - doubled'
    BY <1>2, <2>2, <2>4 DEF CountTypes
  <2>6. CountTypes'
    BY <1>2, <2>2 DEF CountTypes
  <2> QED BY <2>5, <2>6, Zenon DEF CurrentCounts, B
<1> QED BY <1>2, <1>4, <1>6, <1>7, <1>8, <1>9, <1>10, SlotChanges, Zenon

(* task_static_release of a slot whose thread is over.                      *)
LEMMA ReleaseKeeps ==
    ASSUME AppletInv, ShellRight', EndsRight', shell'.ends = shell.ends,
           NEW s \in Slots, Release(s), thread[s] \in {"off", "gone"},
           thread' = [thread EXCEPT ![s] = "off"],
           UNCHANGED <<getopt_lock, optind, next_tid>>
    PROVE  AppletInv'
<1> DEFINE w == [worker[s] EXCEPT !.in_use = FALSE, !.fd_map = NoFds]
<1>1. /\ worker' = [worker EXCEPT ![s] = w]
      /\ open' = open \ Held(s, worker[s].fd_map)
      /\ static_current' = static_current - 1
      /\ doubled' = doubled + (IF worker[s].in_use THEN 0 ELSE 1)
  BY ZenonT(30) DEF Release
<1>2. WorkerShape(w)
  <2>1. w = [[worker[s] EXCEPT !.in_use = FALSE] EXCEPT !.fd_map = NoFds]
    BY Zenon
  <2> QED BY <2>1, RunningSlot, FieldSet, Zenon
<1>3. /\ w.in_use = FALSE /\ w.done = worker[s].done /\ w.tid = worker[s].tid
      /\ w.getopt_locked = worker[s].getopt_locked
      /\ w.optind = worker[s].optind /\ w.fd_map = NoFds
  BY RunningSlot DEF WorkerShape
<1> HIDE DEF w
<1>4. Slot(w, "off", next_tid)
  <2>1. NoFds = [fd \in 0..2 |-> NoFds[fd]]
    BY Zenon DEF NoFds
  <2>2. WorkerTypes(w)
    BY <1>3, <2>1, RunningSlot, Zenon DEF WorkerTypes
  <2>3. ~worker[s].getopt_locked
    BY RunningSlot, ZenonT(30) DEF Slot, WorkerTypes
  <2> QED BY <1>2, <1>3, <2>2, <2>3, RunningSlot, Zenon DEF Slot, ThreadSteps
<1>5. open' = (open \ Held(s, worker[s].fd_map)) \cup Held(s, w.fd_map)
  BY <1>1, <1>3, HeldBy, ZenonT(30)
<1>6. CountTypes' /\ CurrentCounts'
  <2> DEFINE A == {t \in Slots : worker[t].in_use}
             B == {t \in Slots : worker'[t].in_use}
  <2>1. B = A \ {s} /\ (s \in A <=> worker[s].in_use)
    <3>1. /\ worker'[s].in_use = w.in_use
          /\ \A t \in Slots \ {s} : worker'[t].in_use = worker[t].in_use
      BY <1>1, <1>3, SlotSet, Zenon DEF AppletInv
    <3> QED BY <1>1, <1>3, <3>1, ZenonT(30)
  <2>2. static_current = Cardinality(A) - doubled /\ CountTypes
    BY Zenon DEF AppletInv, SlotsAccounted, CurrentCounts
  <2>3. A \in SUBSET Slots
    BY Zenon
  <2> HIDE DEF A, B
  <2>4. /\ Cardinality(A) \in Nat
        /\ s \in A => Cardinality(B) = Cardinality(A) - 1
        /\ s \notin A => B = A
    BY <2>1, <2>3, InUseCount, ZenonT(30)
  <2>5. static_current' = Cardinality(B) - doubled'
    <3>1. CASE worker[s].in_use
      BY <1>1, <2>1, <2>2, <2>4, <3>1 DEF CountTypes
    <3>2. CASE ~worker[s].in_use
      <4>1. doubled' = doubled + 1 /\ B = A
        BY <1>1, <2>1, <2>4, <3>2, Zenon
      <4> QED BY <1>1, <2>2, <2>4, <4>1 DEF CountTypes
    <3> QED BY <3>1, <3>2, ZenonT(30)
  <2>6. CountTypes'
    BY <1>1, <2>2 DEF CountTypes
  <2> QED BY <2>5, <2>6, ZenonT(30) DEF CurrentCounts, B
<1> QED BY <1>1, <1>3, <1>4, <1>5, <1>6, SlotChanges, Zenon

(* task_static_join.                                                        *)
LEMMA JoinKeeps ==
    ASSUME AppletInv, ShellRight', EndsRight', shell'.ends = shell.ends,
           NEW s \in Slots, Join(s), UNCHANGED <<getopt_lock, optind, next_tid>>
    PROVE  AppletInv'
BY ReleaseKeeps, Zenon DEF Join

----------------------------------------------------------------------------
(* What holds of the launcher.                                              *)
LEMMA ShellHas ==
    ASSUME AppletInv
    PROVE  /\ ShellRight /\ EndsRight /\ SlotsRight
           /\ shell.pc \in {"idle", "join", "wait", "final"} => shell.ends = {}
<1>1. ShellRight /\ EndsRight /\ SlotsRight
  BY Zenon DEF AppletInv, SlotsAccounted, DescriptorsAccounted, EndsRight
<1> QED BY <1>1, Zenon DEF EndsRight

(* A command returns, or the shell is left.                                 *)
LEMMA IdleShell ==
    ASSUME NEW ret,
           shell' = Idle(ret) \/ shell' = At("final") \/ shell' = At("ended")
             \/ shell' = [At("wait") EXCEPT !.pid = ret]
    PROVE  ShellRight' /\ EndsRight' /\ shell'.ends = {}
<1>1. /\ shell' = [pc |-> shell'.pc, cmds |-> shell'.cmds, slots |-> shell'.slots,
                   i |-> shell'.i, ends |-> shell'.ends, pid |-> shell'.pid,
                   ret |-> shell'.ret]
      /\ shell'.slots = <<>> /\ shell'.i = 1 /\ shell'.ends = {}
      /\ shell'.pc \in {"idle", "final", "ended", "wait"}
  BY DEF Idle, At
<1>2. <<>> \in Seq(Slots)
  OBVIOUS
<1> QED BY <1>1, <1>2 DEF ShellRight, EndsRight

(* A command that has one slot, to join or to release.                      *)
LEMMA SlotShell ==
    ASSUME NEW s \in Slots, NEW l \in {"join", "refuse"},
           shell' = [At(l) EXCEPT !.slots = <<s>>],
           l = "refuse" => worker'[s].tid = 0
    PROVE  ShellRight' /\ EndsRight' /\ shell'.ends = {}
<1>1. /\ shell' = [pc |-> shell'.pc, cmds |-> shell'.cmds, slots |-> shell'.slots,
                   i |-> shell'.i, ends |-> shell'.ends, pid |-> shell'.pid,
                   ret |-> shell'.ret]
      /\ shell'.slots = <<s>> /\ shell'.i = 1 /\ shell'.ends = {}
      /\ shell'.pc = l /\ shell'.cmds = <<>>
  BY Zenon DEF At
<1>2. /\ <<s>> \in Seq(Slots) /\ Len(<<s>>) = 1 /\ <<s>>[1] = s /\ <<s>> # <<>>
  OBVIOUS
<1> QED BY <1>1, <1>2 DEF ShellRight, EndsRight

(* A wait that found its child.                                             *)
LEMMA JoinShell ==
    ASSUME NEW s \in Slots, NEW pid,
           shell' = [At("join") EXCEPT !.slots = <<s>>, !.pid = pid]
    PROVE  ShellRight' /\ EndsRight' /\ shell'.ends = {}
<1>1. /\ shell' = [pc |-> shell'.pc, cmds |-> shell'.cmds, slots |-> shell'.slots,
                   i |-> shell'.i, ends |-> shell'.ends, pid |-> shell'.pid,
                   ret |-> shell'.ret]
      /\ shell'.slots = <<s>> /\ shell'.i = 1 /\ shell'.ends = {}
      /\ shell'.pc = "join" /\ shell'.cmds = <<>>
  BY Zenon DEF At
<1>2. <<s>> \in Seq(Slots) /\ Len(<<s>>) = 1
  OBVIOUS
<1> QED BY <1>1, <1>2 DEF ShellRight, EndsRight

(* The launcher goes on with the same pipes and arguments.                  *)
LEMMA SameShell ==
    ASSUME AppletInv, NEW l, NEW i \in Nat \ {0}, NEW sl \in Seq(Slots),
           shell' \in {[shell EXCEPT !.pc = l, !.i = i, !.slots = sl],
                       [shell EXCEPT !.slots = sl, !.i = i, !.pc = l]}
    PROVE  /\ shell' = [pc |-> shell'.pc, cmds |-> shell'.cmds, slots |-> shell'.slots,
                        i |-> shell'.i, ends |-> shell'.ends, pid |-> shell'.pid,
                        ret |-> shell'.ret]
           /\ shell'.pc = l /\ shell'.i = i /\ shell'.slots = sl
           /\ shell'.cmds = shell.cmds /\ shell'.ends = shell.ends
<1>1. shell = [pc |-> shell.pc, cmds |-> shell.cmds, slots |-> shell.slots,
               i |-> shell.i, ends |-> shell.ends, pid |-> shell.pid,
               ret |-> shell.ret]
  BY ShellHas, Zenon DEF ShellRight
<1>2. shell' = [pc |-> l, cmds |-> shell.cmds, slots |-> sl, i |-> i,
                ends |-> shell.ends, pid |-> shell.pid, ret |-> shell.ret]
  BY <1>1, ZenonT(30)
<1> QED BY <1>2, Zenon

(* A slot whose start failed has no pid.                                    *)
LEMMA FailedTid ==
    ASSUME AppletInv, NEW s \in Slots, NEW cmd, NEW in, NEW out,
           StartFailed(s, cmd, in, out)
    PROVE  worker'[s].tid = 0
<1>1. PICK map : worker' = [worker EXCEPT ![s] =
                              [FreeWorker EXCEPT !.in_use = TRUE, !.fd_map = map]]
  BY Zenon DEF StartFailed
<1>2. worker'[s] = [FreeWorker EXCEPT !.in_use = TRUE, !.fd_map = map]
  BY <1>1, ShellHas, ZenonT(30) DEF SlotsRight
<1> QED BY <1>2, FreeShape, Zenon DEF WorkerShape

(* luna_bb_run_static.                                                      *)
LEMMA RunStaticKeeps ==
    ASSUME AppletInv, NEW cmd, RunStatic(cmd)
    PROVE  AppletInv'
<1>1. shell.pc = "idle" /\ UNCHANGED <<getopt_lock, optind, doubled>>
  BY Zenon DEF RunStatic, Type
<1>2. shell.ends = {}
  BY <1>1, ShellHas, Zenon
<1>3. CASE /\ shell' = Idle(-1)
           /\ UNCHANGED <<worker, open, thread, next_tid, static_current>>
  BY <1>1, <1>2, <1>3, IdleShell, ShellOnly
<1>4. ASSUME NEW s \in Slots, FirstFree(s), Started(s, cmd, Tty, Tty),
             shell' = [At("join") EXCEPT !.slots = <<s>>]
      PROVE  AppletInv'
  <2>1. ShellRight' /\ EndsRight' /\ shell'.ends = {}
    BY <1>4, SlotShell, Zenon
  <2> QED BY <1>1, <1>2, <1>4, <2>1, StartedKeeps, ZenonT(30)
<1>5. ASSUME NEW s \in Slots, FirstFree(s), StartFailed(s, cmd, Tty, Tty),
             shell' = [At("refuse") EXCEPT !.slots = <<s>>]
      PROVE  AppletInv'
  <2>1. worker'[s].tid = 0
    BY <1>5, FailedTid, ZenonT(30)
  <2>2. ShellRight' /\ EndsRight' /\ shell'.ends = {}
    BY <1>5, <2>1, SlotShell, ZenonT(30)
  <2> QED BY <1>1, <1>2, <1>5, <2>2, StartFailedKeeps, ZenonT(30)
<1> QED BY <1>3, <1>4, <1>5, ZenonT(30) DEF RunStatic

(* luna_bb_spawn_static.                                                    *)
LEMMA SpawnStaticKeeps ==
    ASSUME AppletInv, NEW cmd, SpawnStatic(cmd)
    PROVE  AppletInv'
<1>1. shell.pc = "idle" /\ UNCHANGED <<getopt_lock, optind, doubled>>
  BY SMTT(30) DEF SpawnStatic, Type
<1>2. shell.ends = {}
  BY <1>1, ShellHas, Zenon
<1>3. CASE /\ shell' = Idle(-1)
           /\ UNCHANGED <<worker, open, thread, next_tid, static_current>>
  BY <1>1, <1>2, <1>3, IdleShell, ShellOnly, Zenon
<1>4. ASSUME NEW s \in Slots, FirstFree(s), Started(s, cmd, Tty, Tty),
             shell' = Idle(next_tid)
      PROVE  AppletInv'
  <2>1. ShellRight' /\ EndsRight' /\ shell'.ends = {}
    BY <1>4, IdleShell, SMTT(30)
  <2> QED BY <1>1, <1>2, <1>4, <2>1, StartedKeeps, ZenonT(30)
<1>5. ASSUME NEW s \in Slots, FirstFree(s), StartFailed(s, cmd, Tty, Tty),
             shell' = [At("refuse") EXCEPT !.slots = <<s>>]
      PROVE  AppletInv'
  <2>1. worker'[s].tid = 0
    BY <1>5, FailedTid, Zenon
  <2>2. ShellRight' /\ EndsRight' /\ shell'.ends = {}
    BY <1>5, <2>1, SlotShell, Zenon
  <2> QED BY <1>1, <1>2, <1>5, <2>2, StartFailedKeeps, Zenon
<1> QED BY <1>3, <1>4, <1>5, ZenonT(30) DEF SpawnStatic

(* The launcher turns to the rollback.                                      *)
LEMMA UndoShell ==
    ASSUME AppletInv, shell.pc \in {"start", "refuse"},
           shell' = [shell EXCEPT !.pc = "undo", !.i = 1]
    PROVE  ShellRight' /\ EndsRight' /\ shell'.ends = shell.ends
<1>1. shell.slots \in Seq(Slots)
  BY ShellHas, Zenon DEF ShellRight
<1>2. shell' = [shell EXCEPT !.pc = "undo", !.i = 1, !.slots = shell.slots]
  BY ShellHas, Zenon DEF ShellRight
<1>3. /\ shell' = [pc |-> shell'.pc, cmds |-> shell'.cmds, slots |-> shell'.slots,
                   i |-> shell'.i, ends |-> shell'.ends, pid |-> shell'.pid,
                   ret |-> shell'.ret]
      /\ shell'.pc = "undo" /\ shell'.i = 1 /\ shell'.slots = shell.slots
      /\ shell'.cmds = shell.cmds /\ shell'.ends = shell.ends
  <2> DEFINE one == 1
             l == "undo"
  <2>1. one \in Nat \ {0}
    OBVIOUS
  <2>2. shell' = [shell EXCEPT !.pc = l, !.i = one, !.slots = shell.slots]
    BY <1>2, Zenon
  <2> HIDE DEF one, l
  <2>3. /\ shell' = [pc |-> shell'.pc, cmds |-> shell'.cmds, slots |-> shell'.slots,
                     i |-> shell'.i, ends |-> shell'.ends, pid |-> shell'.pid,
                     ret |-> shell'.ret]
        /\ shell'.pc = l /\ shell'.i = one /\ shell'.slots = shell.slots
        /\ shell'.cmds = shell.cmds /\ shell'.ends = shell.ends
    <3>1. shell' \in {[shell EXCEPT !.pc = l, !.i = one, !.slots = shell.slots],
                      [shell EXCEPT !.slots = shell.slots, !.i = one, !.pc = l]}
      BY <2>2, Zenon
    <3> QED BY <1>1, <2>1, <3>1, SameShell, Zenon
  <2> QED BY <2>3, Zenon DEF one, l
<1> QED BY <1>1, <1>3 DEF ShellRight, EndsRight

(* luna_bb_run_pipeline up to its pipes.                                    *)
LEMMA RunPipelineKeeps ==
    ASSUME AppletInv, NEW cs, RunPipeline(cs)
    PROVE  AppletInv'
<1>1. /\ shell.pc = "idle"
      /\ UNCHANGED <<worker, thread, getopt_lock, optind, static_current,
                     next_tid, doubled>>
  BY Zenon DEF RunPipeline, Type
<1>2. shell.ends = {}
  BY <1>1, ShellHas, ZenonT(30)
<1>3. CASE shell' = Idle(-1) /\ UNCHANGED open
  BY <1>1, <1>2, <1>3, IdleShell, ShellOnly, ZenonT(30)
<1>4. ASSUME NEW n \in 0..Len(cs) - 1, NEW ok \in BOOLEAN, NEW ends,
             open' = open \cup {LauncherEnd(e) : e \in ends},
             shell' = [At(IF ok THEN "start" ELSE "failed") EXCEPT
                         !.cmds = cs, !.ends = ends]
      PROVE  AppletInv'
  <2> DEFINE l == IF ok THEN "start" ELSE "failed"
  <2>1. l \in {"start", "failed"}
    BY Zenon
  <2>2. shell' = [At(l) EXCEPT !.cmds = cs, !.ends = ends]
    BY <1>4, ZenonT(30)
  <2> HIDE DEF l
  <2>3. /\ shell' = [pc |-> shell'.pc, cmds |-> shell'.cmds, slots |-> shell'.slots,
                     i |-> shell'.i, ends |-> shell'.ends, pid |-> shell'.pid,
                     ret |-> shell'.ret]
        /\ shell'.slots = <<>> /\ shell'.i = 1 /\ shell'.ends = ends
        /\ shell'.pc = l /\ shell'.cmds = cs
    BY <2>2, ZenonT(30) DEF At
  <2>4. cs # <<>>
    <3>1. Len(<<>>) - 1 = -1 /\ 0..(-1) = {}
      OBVIOUS
    <3> QED BY <1>4, <3>1, ZenonT(30)
  <2>5. <<>> \in Seq(Slots)
    OBVIOUS
  <2>6. ShellRight' /\ EndsRight'
    BY <2>1, <2>3, <2>4, <2>5 DEF ShellRight, EndsRight
  <2>7. open' = (open \ {LauncherEnd(e) : e \in shell.ends})
                \cup {LauncherEnd(e) : e \in shell'.ends}
    BY <1>2, <1>4, <2>3, Zenon
  <2> QED BY <1>1, <2>6, <2>7, EndsOnly
<1> QED BY <1>3, <1>4, ZenonT(30) DEF RunPipeline

(* A round of the loop that starts the stages.                              *)
LEMMA StartStageKeeps ==
    ASSUME AppletInv, StartStage
    PROVE  AppletInv'
<1> DEFINE n == Len(shell.cmds)
           in == IF shell.i = 1 THEN Tty ELSE ReadEnd(shell.i - 1)
           out == IF shell.i = n THEN Tty ELSE WriteEnd(shell.i)
           cmd == shell.cmds[shell.i]
           l == IF shell.i = n THEN "close" ELSE "start"
           j == IF shell.i = n THEN 1 ELSE shell.i + 1
<1>1. shell.pc = "start" /\ UNCHANGED <<getopt_lock, optind, doubled>>
  BY Zenon DEF StartStage
<1>2. /\ shell.slots \in Seq(Slots) /\ shell.i \in Nat \ {0} /\ shell.cmds # <<>>
  BY <1>1, ShellHas, Zenon DEF ShellRight
<1>3. CASE /\ shell' = [shell EXCEPT !.pc = "undo", !.i = 1]
           /\ UNCHANGED <<worker, open, thread, next_tid, static_current>>
  BY <1>1, <1>3, UndoShell, ShellOnly
<1>4. ASSUME NEW s \in Slots
      PROVE  Append(shell.slots, s) \in Seq(Slots) /\ Append(shell.slots, s) # <<>>
             /\ Append(shell.slots, s)[Len(Append(shell.slots, s))] = s
  BY <1>2
<1>5. ASSUME NEW s \in Slots, FirstFree(s), Started(s, cmd, in, out),
             shell' = [shell EXCEPT !.slots = Append(shell.slots, s), !.i = j, !.pc = l]
      PROVE  AppletInv'
  <2>1. j \in Nat \ {0} /\ l \in {"close", "start"} /\ (l = "close" => j = 1)
    BY <1>2
  <2> HIDE DEF j, l
  <2>2. /\ shell' = [pc |-> shell'.pc, cmds |-> shell'.cmds, slots |-> shell'.slots,
                     i |-> shell'.i, ends |-> shell'.ends, pid |-> shell'.pid,
                     ret |-> shell'.ret]
        /\ shell'.pc = l /\ shell'.i = j /\ shell'.slots = Append(shell.slots, s)
        /\ shell'.cmds = shell.cmds /\ shell'.ends = shell.ends
    BY <1>4, <1>5, <2>1, SameShell, ZenonT(30)
  <2>3. ShellRight' /\ EndsRight'
    BY <1>2, <1>4, <2>1, <2>2, ZenonT(30) DEF ShellRight, EndsRight
  <2> QED BY <1>1, <1>5, <2>2, <2>3, StartedKeeps
<1>6. ASSUME NEW s \in Slots, FirstFree(s), StartFailed(s, cmd, in, out),
             shell' = [shell EXCEPT !.slots = Append(shell.slots, s), !.pc = "refuse"]
      PROVE  AppletInv'
  <2>1. shell = [shell EXCEPT !.i = shell.i]
    BY ShellHas, Zenon DEF ShellRight
  <2>2. shell' = [shell EXCEPT !.slots = Append(shell.slots, s), !.i = shell.i,
                               !.pc = "refuse"]
    BY <1>6, ShellHas, Zenon DEF ShellRight
  <2>3. /\ shell' = [pc |-> shell'.pc, cmds |-> shell'.cmds, slots |-> shell'.slots,
                     i |-> shell'.i, ends |-> shell'.ends, pid |-> shell'.pid,
                     ret |-> shell'.ret]
        /\ shell'.pc = "refuse" /\ shell'.i = shell.i
        /\ shell'.slots = Append(shell.slots, s)
        /\ shell'.cmds = shell.cmds /\ shell'.ends = shell.ends
    BY <1>2, <1>4, <2>2, SameShell, ZenonT(30)
  <2>4. worker'[s].tid = 0
    BY <1>6, FailedTid, Zenon
  <2>5. ShellRight' /\ EndsRight'
    BY <1>2, <1>4, <2>3, <2>4, Zenon DEF ShellRight, EndsRight
  <2> QED BY <1>1, <1>6, <2>3, <2>5, StartFailedKeeps, ZenonT(30)
<1> QED BY <1>3, <1>5, <1>6, ZenonT(30) DEF StartStage

(* The launcher goes on with a slot it has, or with the rollback.           *)
LEMMA NextSlotKeeps ==
    ASSUME AppletInv, NEW s \in Slots, ShellRight', EndsRight', shell'.ends = shell.ends,
           \/ Join(s)
           \/ Release(s) /\ UNCHANGED thread /\ worker[s].tid = 0
           \/ UNCHANGED <<worker, thread, open, static_current, doubled>>,
           UNCHANGED <<getopt_lock, optind, next_tid>>
    PROVE  AppletInv'
<1>1. CASE Join(s)
  BY <1>1, JoinKeeps, Zenon
<1>2. CASE Release(s) /\ UNCHANGED thread /\ worker[s].tid = 0
  <2>1. thread[s] = "off"
    BY <1>2, RunningSlot, Zenon DEF Slot
  <2>2. thread' = [thread EXCEPT ![s] = "off"]
    BY <1>2, <2>1, ShellHas, ZenonT(30) DEF SlotsRight
  <2> QED BY <1>2, <2>1, <2>2, ReleaseKeeps, Zenon
<1>3. CASE UNCHANGED <<worker, thread, open, static_current, doubled>>
  BY <1>3, ShellOnly, ZenonT(30)
<1> QED BY <1>1, <1>2, <1>3, Zenon

(* The launcher goes on to its next slot.                                   *)
LEMMA NextShell ==
    ASSUME AppletInv, shell.pc \in {"join", "undo", "final"},
           shell.pc = "join" => shell.i < Len(shell.slots),
           shell' = [shell EXCEPT !.i = shell.i + 1]
    PROVE  ShellRight' /\ EndsRight' /\ shell'.ends = shell.ends
<1>1. shell.slots \in Seq(Slots) /\ shell.i \in Nat \ {0} /\ shell.i + 1 \in Nat \ {0}
  BY ShellHas DEF ShellRight
<1>2. shell' = [shell EXCEPT !.pc = shell.pc, !.i = shell.i + 1, !.slots = shell.slots]
  BY ShellHas, Zenon DEF ShellRight
<1>3. /\ shell' = [pc |-> shell'.pc, cmds |-> shell'.cmds, slots |-> shell'.slots,
                   i |-> shell'.i, ends |-> shell'.ends, pid |-> shell'.pid,
                   ret |-> shell'.ret]
      /\ shell'.pc = shell.pc /\ shell'.i = shell.i + 1 /\ shell'.slots = shell.slots
      /\ shell'.cmds = shell.cmds /\ shell'.ends = shell.ends
  <2> DEFINE j == shell.i + 1
  <2>1. j \in Nat \ {0}
    BY <1>1, Zenon
  <2>2. shell' = [shell EXCEPT !.pc = shell.pc, !.i = j, !.slots = shell.slots]
    BY <1>2, Zenon
  <2> HIDE DEF j
  <2>3. /\ shell' = [pc |-> shell'.pc, cmds |-> shell'.cmds, slots |-> shell'.slots,
                     i |-> shell'.i, ends |-> shell'.ends, pid |-> shell'.pid,
                     ret |-> shell'.ret]
        /\ shell'.pc = shell.pc /\ shell'.i = j /\ shell'.slots = shell.slots
        /\ shell'.cmds = shell.cmds /\ shell'.ends = shell.ends
    BY <1>1, <2>1, <2>2, SameShell, Zenon
  <2> QED BY <2>3, Zenon DEF j
<1>4. Len(shell.slots) \in Nat
  BY <1>1
<1> QED BY <1>1, <1>3, <1>4, ShellHas DEF ShellRight, EndsRight

(* task_static_start gives up its slot.                                     *)
LEMMA RefuseKeeps ==
    ASSUME AppletInv, Refuse
    PROVE  AppletInv'
<1> DEFINE s == shell.slots[Len(shell.slots)]
<1>1. /\ shell.pc = "refuse" /\ Release(s)
      /\ shell' = IF shell.cmds = <<>> THEN Idle(-1)
                  ELSE [shell EXCEPT !.pc = "undo", !.i = 1]
      /\ UNCHANGED <<thread, getopt_lock, optind, next_tid>>
  BY Zenon DEF Refuse
<1>2. s \in Slots /\ worker[s].tid = 0 /\ (shell.cmds = <<>> => shell.ends = {})
  BY <1>1, ShellHas DEF ShellRight
<1>3. ShellRight' /\ EndsRight' /\ shell'.ends = shell.ends
  BY <1>1, <1>2, IdleShell, UndoShell, Zenon
<1> HIDE DEF s
<1> QED BY <1>1, <1>2, <1>3, NextSlotKeeps, ZenonT(30)

(* The joins of a command, in order.                                        *)
LEMMA JoinNextKeeps ==
    ASSUME AppletInv, JoinNext
    PROVE  AppletInv'
<1> DEFINE s == shell.slots[shell.i]
<1>1. /\ shell.pc = "join" /\ Join(s) /\ UNCHANGED <<getopt_lock, optind, next_tid>>
  BY Zenon DEF JoinNext
<1>2. s \in Slots /\ shell.ends = {}
  BY <1>1, ShellHas DEF ShellRight
<1>3. ShellRight' /\ EndsRight' /\ shell'.ends = shell.ends
  <2>1. CASE shell.i < Len(shell.slots)
    BY <1>1, <2>1, NextShell, Zenon DEF JoinNext
  <2>2. CASE ~(shell.i < Len(shell.slots))
    <3>1. PICK ret : shell' = Idle(ret)
      BY <2>2, Zenon DEF JoinNext
    <3> QED BY <1>2, <3>1, IdleShell, Zenon
  <2> QED BY <2>1, <2>2, Zenon
<1> HIDE DEF s
<1> QED BY <1>1, <1>2, <1>3, NextSlotKeeps, Zenon

(* fail_workers.                                                            *)
LEMMA UndoKeeps ==
    ASSUME AppletInv, Undo
    PROVE  AppletInv'
<1>1. shell.pc = "undo" /\ UNCHANGED <<getopt_lock, optind, next_tid>>
  BY Zenon DEF Undo
<1>2. shell.slots \in Seq(Slots) /\ shell.i \in Nat \ {0} /\ Len(shell.slots) \in Nat
  BY ShellHas DEF ShellRight
<1>3. CASE shell.i > Len(shell.slots)
  <2>1. /\ shell' = [shell EXCEPT !.pc = "failed"]
        /\ UNCHANGED <<worker, thread, open, static_current, doubled>>
    BY <1>2, <1>3 DEF Undo
  <2>2. shell' = [shell EXCEPT !.pc = "failed", !.i = shell.i, !.slots = shell.slots]
    BY <2>1, ShellHas, Zenon DEF ShellRight
  <2>3. /\ shell' = [pc |-> shell'.pc, cmds |-> shell'.cmds, slots |-> shell'.slots,
                   i |-> shell'.i, ends |-> shell'.ends, pid |-> shell'.pid,
                   ret |-> shell'.ret]
      /\ shell'.pc = "failed" /\ shell'.i = shell.i /\ shell'.slots = shell.slots
      /\ shell'.cmds = shell.cmds /\ shell'.ends = shell.ends
    BY <1>2, <2>2, SameShell, ZenonT(30)
  <2>4. ShellRight' /\ EndsRight'
    BY <1>2, <2>3, Zenon DEF ShellRight, EndsRight
  <2> QED BY <1>1, <2>1, <2>3, <2>4, ShellOnly, Zenon
<1>4. CASE shell.i <= Len(shell.slots)
  <2> DEFINE s == shell.slots[shell.i]
  <2>1. /\ shell' = [shell EXCEPT !.i = shell.i + 1]
        /\ IF worker[s].tid # 0 THEN Join(s) ELSE Release(s) /\ UNCHANGED thread
    BY <1>2, <1>4 DEF Undo
  <2>2. s \in Slots
    BY <1>2, <1>4
  <2>3. ShellRight' /\ EndsRight' /\ shell'.ends = shell.ends
    BY <1>1, <2>1, NextShell, Zenon
  <2> HIDE DEF s
  <2> QED BY <1>1, <2>1, <2>2, <2>3, NextSlotKeeps, Zenon
<1> QED BY <1>2, <1>3, <1>4

(* The joins of the workers that are left when the shell returns.           *)
LEMMA FinalJoinKeeps ==
    ASSUME AppletInv, FinalJoin
    PROVE  AppletInv'
<1>1. /\ shell.pc = "final" /\ UNCHANGED <<getopt_lock, optind, next_tid>>
  BY Zenon DEF FinalJoin
<1>2. shell.i \in Nat \ {0} /\ shell.ends = {}
  BY <1>1, ShellHas, Zenon DEF ShellRight
<1>3. CASE shell.i > Workers
  <2>1. shell' = At("ended") /\ UNCHANGED <<worker, thread, open, static_current, doubled>>
    BY <1>3, ZenonT(30) DEF FinalJoin
  <2> QED BY <1>1, <1>2, <2>1, IdleShell, ShellOnly
<1>4. CASE ~(shell.i > Workers)
  <2>1. /\ shell' = [shell EXCEPT !.i = shell.i + 1]
        /\ \/ Join(shell.i)
           \/ UNCHANGED <<worker, thread, open, static_current, doubled>>
    BY <1>4, ZenonT(30) DEF FinalJoin
  <2>2. shell.i \in Slots
    BY <1>2, <1>4, AppletAssumption DEF Slots
  <2>3. ShellRight' /\ EndsRight' /\ shell'.ends = shell.ends
    BY <1>1, <2>1, NextShell, ZenonT(30)
  <2> QED BY <1>1, <2>1, <2>2, <2>3, NextSlotKeeps
<1> QED BY <1>3, <1>4, Zenon

(* The launcher closes an end of a pipe, or has closed them all.            *)
LEMMA CloseEndKeeps ==
    ASSUME AppletInv, CloseEnd
    PROVE  AppletInv'
<1>1. /\ shell.pc \in {"close", "failed"}
      /\ UNCHANGED <<worker, thread, getopt_lock, optind, static_current,
                     next_tid, doubled>>
  BY Zenon DEF CloseEnd
<1>2. ShellRight
  BY ShellHas, Zenon
<1>3. ASSUME NEW e \in shell.ends, open' = open \ {LauncherEnd(e)},
             shell' = [shell EXCEPT !.ends = shell.ends \ {e}]
      PROVE  AppletInv'
  <2> DEFINE rest == shell.ends \ {e}
  <2> HIDE DEF rest
  <2>1. /\ shell' = [pc |-> shell'.pc, cmds |-> shell'.cmds, slots |-> shell'.slots,
                   i |-> shell'.i, ends |-> shell'.ends, pid |-> shell'.pid,
                   ret |-> shell'.ret]
        /\ shell'.pc = shell.pc /\ shell'.i = shell.i /\ shell'.slots = shell.slots
        /\ shell'.cmds = shell.cmds /\ shell'.ends = rest
    BY <1>2, <1>3, Zenon DEF ShellRight, rest
  <2>2. ShellRight' /\ EndsRight'
    BY <1>1, <1>2, <2>1 DEF ShellRight, EndsRight
  <2>3. {LauncherEnd(f) : f \in shell.ends} \subseteq open
    BY Zenon DEF AppletInv, SlotsAccounted, DescriptorsAccounted
  <2>4. \A f, g : LauncherEnd(f) = LauncherEnd(g) => f = g
    BY Zenon DEF LauncherEnd
  <2>5. open' = (open \ {LauncherEnd(f) : f \in shell.ends})
                \cup {LauncherEnd(f) : f \in shell'.ends}
    BY <1>3, <2>1, <2>3, <2>4 DEF rest
  <2> QED BY <1>1, <2>2, <2>5, EndsOnly
<1>4. CASE shell.ends = {} /\ UNCHANGED open /\ shell' = Idle(-1)
  BY <1>1, <1>4, IdleShell, ShellOnly, Zenon
<1>5. CASE /\ shell.ends = {} /\ UNCHANGED open /\ shell.pc = "close"
           /\ shell' = [shell EXCEPT !.pc = "join"]
  <2>1. /\ shell.slots \in Seq(Slots) /\ shell.i = 1 /\ shell.slots # <<>>
        /\ shell.i \in Nat \ {0}
    BY <1>2, <1>5, Zenon DEF ShellRight
  <2>2. shell' = [shell EXCEPT !.pc = "join", !.i = shell.i, !.slots = shell.slots]
    BY <1>2, <1>5, Zenon DEF ShellRight
  <2>3. /\ shell' = [pc |-> shell'.pc, cmds |-> shell'.cmds, slots |-> shell'.slots,
                   i |-> shell'.i, ends |-> shell'.ends, pid |-> shell'.pid,
                   ret |-> shell'.ret]
      /\ shell'.pc = "join" /\ shell'.i = shell.i /\ shell'.slots = shell.slots
      /\ shell'.cmds = shell.cmds /\ shell'.ends = shell.ends
    BY <2>1, <2>2, SameShell, ZenonT(30)
  <2>4. 1 <= Len(shell.slots)
    BY <2>1
  <2>5. ShellRight' /\ EndsRight'
    BY <1>5, <2>1, <2>3, <2>4, Zenon DEF ShellRight, EndsRight
  <2> QED BY <1>1, <1>5, <2>3, <2>5, ShellOnly, Zenon
<1> QED BY <1>1, <1>3, <1>4, <1>5 DEF CloseEnd

(* luna_bb_waitpid before its join.                                         *)
LEMMA WaitpidKeeps ==
    ASSUME AppletInv, shell.pc \in {"idle", "wait"}, NEW pid, NEW nohang,
           Waitpid(pid, nohang),
           UNCHANGED <<worker, thread, open, getopt_lock, optind,
                       static_current, next_tid, doubled>>
    PROVE  AppletInv'
<1>1. shell.ends = {}
  BY ShellHas, Zenon
<1>2. CASE \E s \in Slots : shell' = [At("join") EXCEPT !.slots = <<s>>,
                                                        !.pid = worker[s].tid]
  <2>1. PICK s \in Slots : shell' = [At("join") EXCEPT !.slots = <<s>>,
                                                      !.pid = worker[s].tid]
    BY <1>2, ZenonT(30)
  <2>2. ShellRight' /\ EndsRight' /\ shell'.ends = {}
    BY <2>1, JoinShell, Zenon
  <2> QED BY <1>1, <2>2, ShellOnly, Zenon
<1>3. CASE \/ shell' = Idle(-1) \/ shell' = Idle(0)
           \/ shell' = [At("wait") EXCEPT !.pid = pid]
  BY <1>1, <1>3, IdleShell, ShellOnly, Zenon
<1> QED BY <1>2, <1>3, Zenon DEF Waitpid

(* A builtin in the shell, and the end of the shell.                        *)
LEMMA ShellOwnKeeps ==
    ASSUME AppletInv, Builtin \/ ShellExits
    PROVE  AppletInv'
<1>1. /\ shell.pc = "idle" /\ (shell' = Idle(0) \/ shell' = At("final"))
      /\ UNCHANGED <<worker, thread, open, getopt_lock, static_current,
                     next_tid, doubled>>
      /\ optind' \in {optind, [of |-> Launcher, at |-> 0]}
  BY Zenon DEF Builtin, ShellExits, Type
<1>2. shell.ends = {}
  BY <1>1, ShellHas, ZenonT(30)
<1> QED BY <1>1, <1>2, IdleShell, ShellOnly, Zenon

(* The start of the shell.                                                  *)
LEMMA AppletInits == AppletInit => AppletInv
<1> SUFFICES ASSUME AppletInit PROVE AppletInv
  BY ZenonT(30)
<1>1. /\ worker = [s \in Slots |-> FreeWorker] /\ thread = [s \in Slots |-> "off"]
      /\ open = {} /\ getopt_lock = FALSE /\ optind = [of |-> 0, at |-> 0]
      /\ static_current = 0 /\ doubled = 0 /\ next_tid = 1 /\ shell = Idle(0)
  BY Zenon DEF AppletInit, Launcher
<1>2. Slot(FreeWorker, "off", 1)
  <2>1. NoFds = [fd \in 0..2 |-> NoFds[fd]]
    BY Zenon DEF NoFds
  <2>2. WorkerTypes(FreeWorker)
    <3>1. FreeWorker.tid \in Nat /\ FreeWorker.optind \in Nat
      BY FreeShape
    <3> QED BY <2>1, <3>1, FreeShape, Zenon DEF WorkerTypes
  <2> QED BY <2>2, FreeShape DEF Slot, ThreadSteps
<1>3. \A s \in Slots : worker[s] = FreeWorker /\ thread[s] = "off"
  BY <1>1, ZenonT(30)
<1>4. SlotsRight
  BY <1>1, <1>2, <1>3 DEF SlotsRight
<1>5. PidsDiffer
  BY <1>3, FreeShape DEF PidsDiffer
<1>6. /\ shell = [pc |-> shell.pc, cmds |-> shell.cmds, slots |-> shell.slots,
                  i |-> shell.i, ends |-> shell.ends, pid |-> shell.pid,
                  ret |-> shell.ret]
      /\ shell.pc = "idle" /\ shell.slots = <<>> /\ shell.i = 1 /\ shell.ends = {}
  BY <1>1, ZenonT(30) DEF Idle, At
<1>7. ShellRight
  <2>1. <<>> \in Seq(Slots)
    OBVIOUS
  <2> QED BY <1>6, <2>1 DEF ShellRight
<1>8. GetoptTypes /\ CountTypes
  <2>1. 0 \in 0..Workers /\ 0 \in Nat /\ 0 \in Int
    BY AppletAssumption
  <2>2. optind \in [of : 0..Workers, at : Nat]
    BY <1>1, <2>1, ZenonT(30)
  <2> QED BY <1>1, <2>1, <2>2, Zenon DEF GetoptTypes, CountTypes
<1>9. GetoptSerialized
  BY <1>1, <1>3, FreeShape, Zenon DEF GetoptSerialized
<1>10. DescriptorsAccounted
  <2> DEFINE U == {Held(s, worker[s].fd_map) : s \in Slots}
             E == {LauncherEnd(e) : e \in shell.ends}
  <2>1. \A s \in Slots : Held(s, worker[s].fd_map) = {}
    BY <1>3, FreeShape, HeldBy, ZenonT(30)
  <2>2. U \subseteq {{}}
    BY <2>1, Zenon
  <2>3. E = {}
    BY <1>6, ZenonT(30)
  <2> HIDE DEF U, E
  <2>4. open = (UNION U) \cup E
    BY <1>1, <2>2, <2>3, ZenonT(30)
  <2> QED BY <1>3, <1>6, <2>4, FreeShape, ZenonT(30) DEF U, E, DescriptorsAccounted
<1>11. CurrentCounts
  <2>1. {s \in Slots : worker[s].in_use} = {}
    BY <1>3, FreeShape, ZenonT(30)
  <2>2. Cardinality({}) = 0
    BY FS_EmptySet, ZenonT(30)
  <2> QED BY <1>1, <2>1, <2>2 DEF CurrentCounts
<1> QED BY <1>4, <1>5, <1>7, <1>8, <1>9, <1>10, <1>11, SMTT(30)
           DEF AppletInv, SlotsAccounted

(* The invariant is inductive.                                              *)
LEMMA AppletStep == AppletInv /\ [AppletNext]_applet_vars => AppletInv'
<1> SUFFICES ASSUME AppletInv, [AppletNext]_applet_vars PROVE AppletInv'
  BY Zenon
<1>1. CASE \E s \in Slots : Worker(s)
  BY <1>1, WorkerKeeps, ZenonT(30)
<1>2. CASE ShellStep
  <2>1. WaitAgain => AppletInv'
    BY WaitpidKeeps, ZenonT(30) DEF WaitAgain
  <2> QED BY <1>2, <2>1, StartStageKeeps, RefuseKeeps, CloseEndKeeps, JoinNextKeeps,
             UndoKeeps, FinalJoinKeeps DEF ShellStep
<1>3. CASE \E pid \in {-1} \cup 1..next_tid - 1, nohang \in BOOLEAN : Wait(pid, nohang)
  BY <1>3, WaitpidKeeps, ZenonT(30) DEF Wait, Type
<1>4. CASE Shell
  BY <1>2, <1>3, <1>4, RunStaticKeeps, SpawnStaticKeeps, RunPipelineKeeps,
     ShellOwnKeeps, Zenon DEF Shell
<1>5. CASE UNCHANGED applet_vars
  <2>1. UNCHANGED <<worker, thread, open, getopt_lock, optind, static_current,
                    shell, next_tid, doubled>>
    BY <1>5, ZenonT(30) DEF applet_vars
  <2>2. ShellRight' /\ EndsRight'
    BY <2>1, ShellHas, ZenonT(30) DEF ShellRight, EndsRight
  <2> QED BY <2>1, <2>2, ShellOnly, ZenonT(30)
<1> QED BY <1>1, <1>4, <1>5, Zenon DEF AppletNext

(* Every descriptor LKL holds is named by the slot or pipe array that       *)
(* closes it, and the count of slots is right, for any number of workers    *)
(* and any commands.                                                        *)
THEOREM ResourcesAccounted == AppletSpec => []SlotsAccounted
<1>1. AppletInv => SlotsAccounted
  BY DEF AppletInv
<1> QED BY <1>1, AppletInits, AppletStep, PTL DEF AppletSpec

(* One worker at a time parses its options, from its own optind or from     *)
(* the start the shell set, and none ends with the lock.                    *)
THEOREM OptionsSerialized == AppletSpec => []GetoptSerialized
<1>1. AppletInv => GetoptSerialized
  BY Zenon DEF AppletInv
<1> QED BY <1>1, AppletInits, AppletStep, PTL DEF AppletSpec

----------------------------------------------------------------------------
\* The implementation of ChildTable: a pid as a slot has it.
InSlot(p) == \E s \in Slots : worker[s].in_use /\ worker[s].tid = p
DoneIn(p) == \E s \in Slots : worker[s].in_use /\ worker[s].tid = p /\ worker[s].done

(* What the shell sees of a pid.                                            *)
LEMMA ChildIs ==
    /\ Children = [p \in 1..MaxPid |-> Children[p]]
    /\ \A p \in 1..MaxPid :
         /\ p >= next_tid => Children[p] = "unborn"
         /\ ~(p >= next_tid) /\ InSlot(p) /\ DoneIn(p) => Children[p] = "ended"
         /\ ~(p >= next_tid) /\ InSlot(p) /\ ~DoneIn(p) => Children[p] = "running"
         /\ ~(p >= next_tid) /\ ~InSlot(p) => Children[p] = "collected"
BY Zenon DEF Children, InSlot, DoneIn

(* What the shell sees of a pid after a step.                               *)
LEMMA ChildBecomes ==
    ASSUME NEW p \in 1..MaxPid
    PROVE  /\ p >= next_tid' => Children'[p] = "unborn"
           /\ ~(p >= next_tid') /\ InSlot(p)' /\ DoneIn(p)' => Children'[p] = "ended"
           /\ ~(p >= next_tid') /\ InSlot(p)' /\ ~DoneIn(p)' => Children'[p] = "running"
           /\ ~(p >= next_tid') /\ ~InSlot(p)' => Children'[p] = "collected"
BY ZenonT(30) DEF Children, InSlot, DoneIn

(* Children is one function of the slots and of the next pid.               *)
LEMMA ChildSame ==
    ASSUME NEW p \in 1..MaxPid, (p >= next_tid') <=> (p >= next_tid),
           InSlot(p)' <=> InSlot(p), DoneIn(p)' <=> DoneIn(p)
    PROVE  Children'[p] = Children[p]
BY Zenon DEF Children, InSlot, DoneIn

(* One pid changes what it is.                                              *)
LEMMA ChildSet ==
    ASSUME NEW p \in 1..MaxPid, NEW v, Children'[p] = v,
           \A q \in (1..MaxPid) \ {p} : Children'[q] = Children[q]
    PROVE  Children' = [Children EXCEPT ![p] = v]
<1>1. Children = [q \in 1..MaxPid |-> Children[q]]
  BY ChildIs, Zenon
<1>2. Children' = [q \in 1..MaxPid |-> Children'[q]]
  BY Zenon DEF Children
<1> QED BY <1>1, <1>2, ZenonT(30)

(* No pid changes.                                                          *)
LEMMA ChildrenSame ==
    ASSUME \A p \in 1..MaxPid : Children'[p] = Children[p]
    PROVE  Children' = Children
<1>1. Children = [q \in 1..MaxPid |-> Children[q]]
  BY ChildIs, Zenon
<1>2. Children' = [q \in 1..MaxPid |-> Children'[q]]
  BY ZenonT(30) DEF Children
<1> QED BY <1>1, <1>2, ZenonT(30)

(* The pid of a slot in use belongs to that slot alone.                     *)
LEMMA OnlySlot ==
    ASSUME AppletInv, NEW s \in Slots, worker[s].in_use, worker[s].tid # 0
    PROVE  /\ InSlot(worker[s].tid) /\ (DoneIn(worker[s].tid) <=> worker[s].done)
           /\ worker[s].tid \in Nat /\ worker[s].tid >= 1
           /\ ~(worker[s].tid >= next_tid) /\ next_tid \in Nat
<1>1. worker[s].tid \in Nat /\ worker[s].tid < next_tid /\ next_tid \in Nat
  BY RunningSlot, Zenon DEF Slot, WorkerTypes, AppletInv, SlotsRight
<1>2. \A t \in Slots : worker[t].in_use /\ worker[t].tid = worker[s].tid => t = s
  BY ZenonT(30) DEF AppletInv, PidsDiffer
<1>3. InSlot(worker[s].tid)
  BY ZenonT(30) DEF InSlot
<1>4. DoneIn(worker[s].tid) <=> worker[s].done
  BY <1>2, ZenonT(30) DEF DoneIn
<1> QED BY <1>1, <1>3, <1>4

(* A step of a worker is the end of its child, or none of the table.        *)
LEMMA WorkerRefines ==
    ASSUME AppletInv, NEW s \in Slots, ThreadMove(s), AppletInv'
    PROVE  Table!TableNext \/ Children' = Children
<1>0. PICK p : p = worker[s].tid
  BY Zenon
<1>1. /\ \A t \in Slots \ {s} : worker'[t] = worker[t]
      /\ worker'[s].in_use /\ worker[s].in_use /\ worker'[s].tid = p
      /\ worker[s].done => worker'[s].done
  BY <1>0, Zenon DEF ThreadMove
<1>2. next_tid' = next_tid
  BY Zenon DEF ThreadMove, Shared
<1>3. \A q : InSlot(q)' <=> InSlot(q)
  BY <1>0, <1>1, ZenonT(30) DEF InSlot
<1>4. \A q : q # p => (DoneIn(q)' <=> DoneIn(q))
  BY <1>0, <1>1, ZenonT(30) DEF DoneIn
<1>5. \A q \in 1..MaxPid : q # p => Children'[q] = Children[q]
  BY <1>2, <1>3, <1>4, ChildSame
<1>6. CASE ~(p \in 1..MaxPid)
  BY <1>5, <1>6, ChildrenSame
<1>7. CASE p \in 1..MaxPid /\ (DoneIn(p)' <=> DoneIn(p))
  <2>1. Children'[p] = Children[p]
    BY <1>2, <1>3, <1>7, ChildSame, ZenonT(30)
  <2> QED BY <1>5, <2>1, ChildrenSame
<1>8. CASE p \in 1..MaxPid /\ ~(DoneIn(p)' <=> DoneIn(p))
  <2>1. p # 0
    BY <1>8, SMTT(30)
  <2>2. /\ InSlot(p) /\ (DoneIn(p) <=> worker[s].done) /\ ~(p >= next_tid)
    BY <1>0, <1>1, <2>1, OnlySlot, ZenonT(30)
  <2>3. ~DoneIn(p) /\ DoneIn(p)'
    <3>1. worker[s].done => DoneIn(p)'
      BY <1>0, <1>1, ZenonT(30) DEF DoneIn
    <3> QED BY <1>8, <2>2, <3>1
  <2>4. Children[p] = "running"
    BY <1>8, <2>2, <2>3, ChildIs
  <2>5. Children'[p] = "ended"
    BY <1>2, <1>3, <1>8, <2>2, <2>3, ChildBecomes
  <2>6. Children' = [Children EXCEPT ![p] = "ended"]
    BY <1>5, <1>8, <2>5, ChildSet, ZenonT(30)
  <2>7. Table!End(p)
    BY <2>4, <2>6, ZenonT(30) DEF Table!End
  <2> QED BY <1>8, <2>7, ZenonT(30) DEF Table!TableNext, Table!Pids
<1> QED BY <1>6, <1>7, <1>8

(* task_static_start hands out the next pid.                                *)
LEMMA StartedRefines ==
    ASSUME AppletInv, NEW s \in Slots, FirstFree(s), NEW cmd, NEW in, NEW out,
           Started(s, cmd, in, out)
    PROVE  Table!TableNext \/ Children' = Children
<1>0. PICK p : p = next_tid
  BY Zenon
<1>1. /\ p \in Nat \ {0} /\ next_tid' = p + 1
      /\ \A t \in Slots : worker[t].tid \in Nat /\ worker[t].tid < p
  <2>1. \A t \in Slots : worker[t].tid \in Nat /\ worker[t].tid < next_tid
    BY RunningSlot, ZenonT(30) DEF Slot, WorkerTypes
  <2>2. next_tid \in Nat \ {0} /\ next_tid' = next_tid + 1
    BY ZenonT(30) DEF AppletInv, SlotsRight, Started
  <2> QED BY <1>0, <2>1, <2>2, ZenonT(30)
<1>2. /\ worker'[s].in_use /\ worker'[s].tid = p /\ ~worker'[s].done
      /\ \A t \in Slots \ {s} : worker'[t] = worker[t]
      /\ ~worker[s].in_use
  <2> DEFINE w == [FreeWorker EXCEPT !.in_use = TRUE, !.tid = next_tid,
                                     !.cmd = cmd, !.fd_map = FdMap(in, out)]
  <2>1. worker' = [worker EXCEPT ![s] = w]
    BY Zenon DEF Started
  <2>2. w.in_use = TRUE /\ w.tid = next_tid /\ w.done = FreeWorker.done
    BY FreeShape, ZenonT(30) DEF WorkerShape
  <2> HIDE DEF w
  <2> QED BY <1>0, <2>1, <2>2, FreeShape, ShellHas
          DEF FirstFree, FreeSlots, SlotsRight
<1>3. \A q \in 1..MaxPid : q # p =>
        /\ (q >= next_tid') <=> (q >= next_tid)
        /\ InSlot(q)' <=> InSlot(q)
        /\ DoneIn(q)' <=> DoneIn(q)
  BY <1>0, <1>1, <1>2 DEF InSlot, DoneIn
<1>4. \A q \in 1..MaxPid : q # p => Children'[q] = Children[q]
  BY <1>3, ChildSame, Zenon
<1>5. CASE ~(p \in 1..MaxPid)
  BY <1>4, <1>5, ChildrenSame, Zenon
<1>6. CASE p \in 1..MaxPid
  <2>1. InSlot(p)' /\ ~DoneIn(p)'
    <3>1. \A t \in Slots : worker'[t].tid = p => t = s
      BY <1>1, <1>2, SMTT(30)
    <3> QED BY <1>2, <3>1, Zenon DEF InSlot, DoneIn
  <2>2. Children'[p] = "running"
    BY <1>1, <1>6, <2>1, ChildBecomes, SMTT(30)
  <2>3. Children' = [Children EXCEPT ![p] = "running"]
    BY <1>4, <1>6, <2>2, ChildSet, Zenon
  <2>4. Children[p] = "unborn"
    BY <1>0, <1>1, <1>6, ChildIs, SMTT(30)
  <2>5. \A q \in 1..MaxPid : q < p => Children[q] # "unborn"
    BY <1>0, <1>1, ChildIs
  <2>6. Table!Fork(p)
    BY <2>3, <2>4, <2>5, ZenonT(30) DEF Table!Fork, Table!Pids
  <2> QED BY <1>6, <2>6, Zenon DEF Table!TableNext, Table!Pids
<1> QED BY <1>5, <1>6, Zenon

(* A slot without a pid is nothing to the shell.                            *)
LEMMA NoPidRefines ==
    ASSUME AppletInv, NEW s \in Slots, NEW w,
           worker' = [worker EXCEPT ![s] = w], UNCHANGED next_tid, w.tid = 0,
           ~worker[s].in_use \/ worker[s].tid = 0
    PROVE  Children' = Children
<1>1. worker'[s].tid = 0 /\ \A t \in Slots \ {s} : worker'[t] = worker[t]
  BY ShellHas, ZenonT(30) DEF SlotsRight
<1>2. \A q \in 1..MaxPid : (InSlot(q)' <=> InSlot(q)) /\ (DoneIn(q)' <=> DoneIn(q))
  BY <1>1 DEF InSlot, DoneIn
<1> QED BY <1>2, ChildSame, ChildrenSame

(* task_static_join collects the child, which has ended.                    *)
LEMMA JoinRefines ==
    ASSUME AppletInv, NEW s \in Slots, Join(s), UNCHANGED next_tid
    PROVE  Table!TableNext \/ Children' = Children
<1>0. PICK p : p = worker[s].tid
  BY Zenon
<1>1. thread[s] = "gone" /\ Release(s)
  BY Zenon DEF Join
<1>2. worker[s].in_use /\ worker[s].done /\ worker[s].tid # 0
  BY <1>1, RunningSlot, Zenon DEF Slot
<1>3. /\ InSlot(p) /\ DoneIn(p) /\ ~(p >= next_tid)
  BY <1>0, <1>2, OnlySlot, Zenon
<1>4. ~worker'[s].in_use /\ \A t \in Slots \ {s} : worker'[t] = worker[t]
  <2> DEFINE w == [worker[s] EXCEPT !.in_use = FALSE, !.fd_map = NoFds]
  <2>1. worker' = [worker EXCEPT ![s] = w]
    BY <1>1, ZenonT(30) DEF Release
  <2>2. w.in_use = FALSE
    BY RunningSlot DEF WorkerShape
  <2> HIDE DEF w
  <2> QED BY <2>1, <2>2, ShellHas, ZenonT(30) DEF SlotsRight
<1>5. \A t \in Slots : worker[t].in_use /\ worker[t].tid = p => t = s
  BY <1>0, <1>2, ZenonT(30) DEF AppletInv, PidsDiffer
<1>6. \A q \in 1..MaxPid : q # p =>
        /\ InSlot(q)' <=> InSlot(q)
        /\ DoneIn(q)' <=> DoneIn(q)
  BY <1>0, <1>4, ZenonT(30) DEF InSlot, DoneIn
<1>7. \A q \in 1..MaxPid : q # p => Children'[q] = Children[q]
  BY <1>6, ChildSame, ZenonT(30)
<1>8. CASE ~(p \in 1..MaxPid)
  BY <1>7, <1>8, ChildrenSame
<1>9. CASE p \in 1..MaxPid
  <2>1. ~InSlot(p)'
    BY <1>4, <1>5 DEF InSlot
  <2>2. Children'[p] = "collected"
    BY <1>3, <1>9, <2>1, ChildBecomes
  <2>3. Children' = [Children EXCEPT ![p] = "collected"]
    BY <1>7, <1>9, <2>2, ChildSet, ZenonT(30)
  <2>4. Children[p] = "ended"
    BY <1>3, <1>9, ChildIs, ZenonT(30)
  <2>5. Table!Collect(p)
    BY <2>3, <2>4 DEF Table!Collect
  <2> QED BY <1>9, <2>5, SMTT(30) DEF Table!TableNext, Table!Pids
<1> QED BY <1>8, <1>9, Zenon

(* What a step of the launcher does to the slots.                           *)
LEMMA ShellEffect ==
    ASSUME AppletInv, Shell
    PROVE  \/ UNCHANGED <<worker, next_tid>>
           \/ \E s \in Slots :
                \/ FirstFree(s) /\ \E cmd, in, out : Started(s, cmd, in, out)
                \/ FirstFree(s) /\ \E cmd, in, out : StartFailed(s, cmd, in, out)
                \/ Release(s) /\ worker[s].tid = 0 /\ UNCHANGED next_tid
                \/ Join(s) /\ UNCHANGED next_tid
<1>1. CASE \E cmd \in Commands : RunStatic(cmd) \/ SpawnStatic(cmd)
  BY <1>1, ZenonT(30) DEF RunStatic, SpawnStatic
<1>2. CASE \E cs \in Pipelines : RunPipeline(cs)
  BY <1>2, Zenon DEF RunPipeline
<1>3. CASE \/ \E pid \in {-1} \cup 1..next_tid - 1, nohang \in BOOLEAN : Wait(pid, nohang)
           \/ Builtin \/ ShellExits \/ CloseEnd \/ WaitAgain
  BY <1>3, Zenon DEF Wait, Builtin, ShellExits, CloseEnd, WaitAgain
<1>4. CASE StartStage
  BY <1>4, ZenonT(30) DEF StartStage
<1>5. CASE Refuse
  <2> DEFINE s == shell.slots[Len(shell.slots)]
  <2>1. s \in Slots /\ worker[s].tid = 0
    BY <1>5, ShellHas DEF ShellRight, Refuse
  <2>2. Release(s) /\ UNCHANGED next_tid
    BY <1>5, Zenon DEF Refuse
  <2> HIDE DEF s
  <2> QED BY <2>1, <2>2, Zenon
<1>6. CASE JoinNext
  <2> DEFINE s == shell.slots[shell.i]
  <2>1. s \in Slots
    BY <1>6, ShellHas DEF ShellRight, JoinNext
  <2>2. Join(s) /\ UNCHANGED next_tid
    BY <1>6, Zenon DEF JoinNext
  <2> HIDE DEF s
  <2> QED BY <2>1, <2>2, Zenon
<1>7. CASE Undo
  <2> DEFINE s == shell.slots[shell.i]
  <2>1. CASE shell.i > Len(shell.slots) /\ UNCHANGED worker
    BY <1>7, <2>1, SMTT(30) DEF Undo
  <2>2. CASE /\ shell.i <= Len(shell.slots)
             /\ IF worker[s].tid # 0 THEN Join(s) ELSE Release(s) /\ UNCHANGED thread
    <3>1. s \in Slots
      BY <2>2, ShellHas DEF ShellRight
    <3>2. UNCHANGED next_tid
      BY <1>7, Zenon DEF Undo
    <3> HIDE DEF s
    <3> QED BY <2>2, <3>1, <3>2, SMTT(30)
  <2> QED BY <1>7, <2>1, <2>2, Zenon DEF Undo
<1>8. CASE FinalJoin
  <2>1. UNCHANGED next_tid /\ shell.i \in Nat \ {0}
    BY <1>8, ShellHas, Zenon DEF FinalJoin, ShellRight
  <2>2. CASE shell.i > Workers
    BY <1>8, <2>1, <2>2, ZenonT(30) DEF FinalJoin
  <2>3. CASE ~(shell.i > Workers)
    <3>1. shell.i \in Slots
      BY <2>1, <2>3, AppletAssumption DEF Slots
    <3>2. Join(shell.i) \/ UNCHANGED worker
      BY <1>8, <2>3 DEF FinalJoin
    <3> QED BY <2>1, <3>1, <3>2, ZenonT(30)
  <2> QED BY <2>2, <2>3, Zenon
<1> QED BY <1>1, <1>2, <1>3, <1>4, <1>5, <1>6, <1>7, <1>8, ZenonT(30)
           DEF Shell, ShellStep

(* Every step is a step of the table, or none.                              *)
LEMMA StepRefines ==
    AppletInv /\ AppletInv' /\ [AppletNext]_applet_vars
        => [Table!TableNext]_Children
<1> SUFFICES ASSUME AppletInv, AppletInv', [AppletNext]_applet_vars
             PROVE  Table!TableNext \/ Children' = Children
  BY ZenonT(30)
<1>1. UNCHANGED <<worker, next_tid>> => Children' = Children
  BY ZenonT(30) DEF Children
<1>2. CASE \E s \in Slots : Worker(s)
  BY <1>2, WorkerMoves, WorkerRefines, ZenonT(30)
<1>3. CASE Shell
  <2>1. ASSUME NEW s \in Slots, FirstFree(s), NEW cmd, NEW in, NEW out,
               StartFailed(s, cmd, in, out)
        PROVE  Children' = Children
    <3>1. PICK map : worker' = [worker EXCEPT ![s] =
                                  [FreeWorker EXCEPT !.in_use = TRUE, !.fd_map = map]]
      BY <2>1, Zenon DEF StartFailed
    <3> DEFINE w == [FreeWorker EXCEPT !.in_use = TRUE, !.fd_map = map]
    <3>2. worker' = [worker EXCEPT ![s] = w] /\ UNCHANGED next_tid /\ ~worker[s].in_use
      BY <2>1, <3>1, Zenon DEF StartFailed, FirstFree, FreeSlots
    <3>3. w.tid = 0
      BY FreeShape, Zenon DEF WorkerShape
    <3> HIDE DEF w
    <3> QED BY <3>2, <3>3, NoPidRefines, Zenon
  <2>2. ASSUME NEW s \in Slots, Release(s), worker[s].tid = 0, UNCHANGED next_tid
        PROVE  Children' = Children
    <3> DEFINE w == [worker[s] EXCEPT !.in_use = FALSE, !.fd_map = NoFds]
    <3>1. worker' = [worker EXCEPT ![s] = w]
      BY <2>2, Zenon DEF Release
    <3>2. w.tid = 0
      BY <2>2, RunningSlot DEF WorkerShape
    <3> HIDE DEF w
    <3> QED BY <2>2, <3>1, <3>2, NoPidRefines, Zenon
  <2> QED BY <1>1, <1>3, <2>1, <2>2, ShellEffect, StartedRefines, JoinRefines
<1>4. CASE UNCHANGED applet_vars
  BY <1>1, <1>4, Zenon DEF applet_vars
<1> QED BY <1>2, <1>3, <1>4 DEF AppletNext

(* The runtime implements the table of children: none is lost, merged or    *)
(* collected before its end or twice.                                       *)
THEOREM ChildTableImplemented == AppletSpec => ImplementsChildTable
<1>1. AppletInit => Table!TableInit
  <2> SUFFICES ASSUME AppletInit PROVE Children = [p \in 1..MaxPid |-> "unborn"]
    BY Zenon DEF Table!TableInit, Table!Pids
  <2>1. \A p \in 1..MaxPid : p >= next_tid
    BY DEF AppletInit
  <2>2. \A p \in 1..MaxPid : Children[p] = "unborn"
    BY <2>1, ChildIs, Zenon
  <2> QED BY <2>2, ChildIs, Zenon
<1> QED BY <1>1, AppletInits, AppletStep, StepRefines, PTL
        DEF AppletSpec, ImplementsChildTable, Table!TableSpec
============================================================================
