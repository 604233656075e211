--------------------------- MODULE StaticRuntime ---------------------------
(***************************************************************************)
(* The static BusyBox runtime (lkl_task_user.c): the shell starts applets  *)
(* in the foreground, in the background and as pipelines, each applet on a *)
(* thread of its own with one of the worker slots, and collects them.      *)
(*                                                                         *)
(* The launcher is the shell's thread, the only one that allocates and     *)
(* releases slots; every worker thread interleaves with it and with the    *)
(* other workers.  Allocating a slot and starting it touches only that     *)
(* slot and is one action; each close, each join and each step of a        *)
(* worker is an action of its own.                                         *)
(*                                                                         *)
(* External: LKL's pipes and descriptors (a bounded byte count, a reader   *)
(* sees the end when no writing end is open, a writer fails when no        *)
(* reading end is), the thread pool (module HostThreads) and the applets,  *)
(* which are reduced to the calls they make.                               *)
(***************************************************************************)
EXTENDS Integers, Sequences, FiniteSets

CONSTANTS Workers,       \* LUNA_STATIC_WORKERS
          PipeSize,      \* LUNA_PIPELINE_PIPE_SIZE, in units
          Chunk,         \* what one read takes at most, in units
          Commands,      \* command lines the user may type
          Pipelines,     \* pipelines the user may type: sequences of commands
          MaxOps,        \* bound: commands typed in the session
          StartMayFail   \* pipe2, dup and thread_create may fail

ASSUME AppletAssumption == Workers \in Nat /\ MaxOps \in Nat

Slots == 1..Workers
Launcher == 0
MaxPid == MaxOps * Workers

\* What tells the applets apart.  "printf" writes, "cat" copies, "head" reads
\* once and leaves, "false" only returns 1, "usage" stops in its options,
\* "vi" is not in the list of task_static_command_allowed.
Allowed(c) == c # "vi"
Options(c) == IF c \in {"head", "usage"} THEN 1 ELSE 0
Output(c) == IF c = "printf" THEN PipeSize + 1 ELSE 0
Reads(c) == c \in {"cat", "head"}
Status(c) == IF c \in {"false", "usage"} THEN 1 ELSE 0

Tty == <<"tty", 0>>
ReadEnd(k) == <<"r", k>>
WriteEnd(k) == <<"w", k>>
ClosedFd == <<"closed", 0>>

VARIABLES worker,     \* task_static_workers
          thread,     \* per slot, where its thread is
          open,       \* LKL's descriptors: who holds one, under which number,
                      \* and what it refers to
          data,       \* per pipe, the units in it
          getopt_lock,       \* task_static_getopt_lock
          optind,     \* glibc's optind: whose parse it belongs to, and where
          static_current,    \* task_static_current
          shell,      \* the launcher: its step, arguments and results
          next_tid,   \* the next pid the thread pool hands out
          ops,        \* commands typed so far
          doubled     \* history: releases of a slot that was already free

applet_vars == <<worker, thread, open, data, getopt_lock, optind, static_current, shell, next_tid,
                 ops, doubled>>

FdMap(in, out) == [fd \in 0..2 |-> CASE fd = 0 -> in [] fd = 1 -> out
                                     [] fd = 2 -> Tty]
NoFds == [fd \in 0..2 |-> ClosedFd]
\* A slot as task_static_allocate leaves it, but for in_use; the optind of an
\* applet begins at 0 because BusyBox resets it before it runs one.
FreeWorker == [in_use |-> FALSE, done |-> FALSE, tid |-> 0, status |-> 255,
               getopt_locked |-> FALSE, optind |-> 0, fd_map |-> NoFds,
               cmd |-> "none", todo |-> 0]
At(l) == [pc |-> l, cmds |-> <<>>, slots |-> <<>>, i |-> 1, ends |-> {},
          pid |-> 0, ret |-> 0]
Idle(ret) == [At("idle") EXCEPT !.ret = ret]

\* luna_lkl_task_user_shell clears the table and starts the shell.
AppletInit == /\ worker = [s \in Slots |-> FreeWorker]
              /\ thread = [s \in Slots |-> "off"]
              /\ open = {} /\ data = [k \in 1..Workers - 1 |-> 0]
              /\ getopt_lock = FALSE /\ optind = [of |-> Launcher, at |-> 0]
              /\ static_current = 0 /\ doubled = 0
              /\ shell = Idle(0) /\ next_tid = 1 /\ ops = 0

----------------------------------------------------------------------------
(* Descriptors                                                             *)

\* The descriptors behind the virtual 0, 1 and 2 of slot s.
Held(s, map) == {[by |-> s, fd |-> fd, obj |-> map[fd]] :
                   fd \in {f \in 0..2 : map[f] # ClosedFd}}
LauncherEnd(e) == [by |-> Launcher, fd |-> 0, obj |-> e]
HasReader(k) == \E d \in open : d.obj = ReadEnd(k)
HasWriter(k) == \E d \in open : d.obj = WriteEnd(k)

----------------------------------------------------------------------------
(* task_static_allocate, task_static_start, task_static_release           *)

FreeSlots == {s \in Slots : ~worker[s].in_use}
FirstFree(s) == s \in FreeSlots /\ \A t \in FreeSlots : s <= t

\* A start that succeeds: argv copied, three descriptors duplicated, the
\* thread created and its tid stored.
Started(s, c, in, out) ==
    /\ worker' = [worker EXCEPT ![s] =
                    [FreeWorker EXCEPT !.in_use = TRUE, !.tid = next_tid,
                       !.cmd = c, !.fd_map = FdMap(in, out)]]
    /\ open' = open \cup Held(s, FdMap(in, out))
    /\ thread' = [thread EXCEPT ![s] = "new"]
    /\ next_tid' = next_tid + 1
    /\ static_current' = static_current + 1

\* A start that fails: at the argument list or the list of commands before
\* anything is duplicated, at one of the dups, or at the thread.  The slot is
\* released in the next step (Refuse).
StartFailed(s, c, in, out) ==
    /\ StartMayFail \/ ~Allowed(c)
    /\ \E n \in 0..IF Allowed(c) THEN 3 ELSE 0 :
         LET map == [fd \in 0..2 |-> IF fd < n THEN FdMap(in, out)[fd] ELSE ClosedFd] IN
         /\ worker' = [worker EXCEPT ![s] =
                         [FreeWorker EXCEPT !.in_use = TRUE, !.fd_map = map]]
         /\ open' = open \cup Held(s, map)
    /\ static_current' = static_current + 1
    /\ UNCHANGED <<thread, next_tid>>

\* Mutant: the descriptors stay open when the slot is released.
ReleaseKeepingFds(s) ==
    /\ worker' = [worker EXCEPT ![s].in_use = FALSE, ![s].fd_map = NoFds]
    /\ static_current' = static_current - 1
    /\ doubled' = doubled + (IF worker[s].in_use THEN 0 ELSE 1)
    /\ UNCHANGED open

\* task_static_release
Release(s) ==
    /\ open' = open \ Held(s, worker[s].fd_map)
    /\ worker' = [worker EXCEPT ![s].in_use = FALSE, ![s].fd_map = NoFds]
    /\ static_current' = static_current - 1
    /\ doubled' = doubled + (IF worker[s].in_use THEN 0 ELSE 1)

----------------------------------------------------------------------------
(* The shell's commands                                                    *)

Type == shell.pc = "idle" /\ ops < MaxOps /\ ops' = ops + 1

\* luna_bb_run_static: a foreground applet, joined at once.
RunStatic(c) ==
    /\ Type
    /\ UNCHANGED <<data, getopt_lock, optind, doubled>>
    /\ \/ /\ FreeSlots = {} /\ shell' = Idle(-1)
          /\ UNCHANGED <<worker, open, thread, next_tid, static_current>>
       \/ \E s \in Slots : FirstFree(s) /\
            \/ /\ Allowed(c) /\ Started(s, c, Tty, Tty)
               /\ shell' = [At("join") EXCEPT !.slots = <<s>>]
            \/ StartFailed(s, c, Tty, Tty) /\ shell' = [At("refuse") EXCEPT !.slots = <<s>>]

\* luna_bb_spawn_static: a background applet.
SpawnStatic(c) ==
    /\ Type
    /\ UNCHANGED <<data, getopt_lock, optind, doubled>>
    /\ \/ /\ FreeSlots = {} /\ shell' = Idle(-1)
          /\ UNCHANGED <<worker, open, thread, next_tid, static_current>>
       \/ \E s \in Slots : FirstFree(s) /\
            \/ Allowed(c) /\ Started(s, c, Tty, Tty) /\ shell' = Idle(next_tid)
            \/ StartFailed(s, c, Tty, Tty) /\ shell' = [At("refuse") EXCEPT !.slots = <<s>>]

\* luna_bb_run_pipeline up to its pipes: a stage that is not allowed is
\* refused before anything is made; n pipes are made and then a pipe2 or
\* F_SETPIPE_SZ fails, or all of them are made.
RunPipeline(cs) ==
    /\ Type
    /\ UNCHANGED <<worker, thread, getopt_lock, optind, static_current, next_tid, doubled>>
    /\ data' = [k \in 1..Workers - 1 |-> 0]
    /\ \/ /\ \E i \in DOMAIN cs : ~Allowed(cs[i])
          /\ shell' = Idle(-1) /\ UNCHANGED open
       \/ /\ \A i \in DOMAIN cs : Allowed(cs[i])
          /\ \E n \in 0..Len(cs) - 1, ok \in BOOLEAN :
               LET ends == {ReadEnd(k) : k \in 1..n} \cup {WriteEnd(k) : k \in 1..n} IN
               /\ IF ok THEN n = Len(cs) - 1 ELSE StartMayFail
               /\ open' = open \cup {LauncherEnd(e) : e \in ends}
               /\ shell' = [At(IF ok THEN "start" ELSE "failed") EXCEPT
                              !.cmds = cs, !.ends = ends]

\* One round of the loop that starts the stages.
StartStage ==
    LET i == shell.i
        n == Len(shell.cmds)
        in == IF i = 1 THEN Tty ELSE ReadEnd(i - 1)
        out == IF i = n THEN Tty ELSE WriteEnd(i)
    IN /\ shell.pc = "start"
       /\ UNCHANGED <<data, getopt_lock, optind, doubled, ops>>
       /\ \/ /\ FreeSlots = {}
             /\ shell' = [shell EXCEPT !.pc = "undo", !.i = 1]
             /\ UNCHANGED <<worker, open, thread, next_tid, static_current>>
          \/ \E s \in Slots : FirstFree(s) /\
               \/ /\ Started(s, shell.cmds[i], in, out)
                  /\ shell' = [shell EXCEPT !.slots = Append(@, s),
                                 !.i = IF i = n THEN 1 ELSE i + 1,
                                 !.pc = IF i = n THEN "close" ELSE "start"]
               \/ /\ StartFailed(s, shell.cmds[i], in, out)
                  /\ shell' = [shell EXCEPT !.slots = Append(@, s), !.pc = "refuse"]

\* task_static_start releases the slot it could not start and returns an
\* error; a pipeline is then rolled back.
Refuse ==
    /\ shell.pc = "refuse"
    /\ Release(shell.slots[Len(shell.slots)])
    /\ shell' = IF shell.cmds = <<>> THEN Idle(-1)
                ELSE [shell EXCEPT !.pc = "undo", !.i = 1]
    /\ UNCHANGED <<thread, data, getopt_lock, optind, next_tid, ops>>

\* Mutant: the array is cleared but the ends stay open.
CloseEndForgotten ==
    /\ shell.pc \in {"close", "failed"}
    /\ shell' = IF shell.pc = "close" THEN [shell EXCEPT !.pc = "join", !.ends = {}]
                                      ELSE Idle(-1)
    /\ UNCHANGED <<worker, thread, open, data, getopt_lock, optind, static_current, next_tid, ops,
                   doubled>>

\* Both loops that close the launcher's ends, in the order of the array.
NextEnd(e) == /\ e \in shell.ends
              /\ \A f \in shell.ends : e[2] < f[2] \/ (e[2] = f[2] /\
                                        (e[1] = "r" \/ f[1] = "w"))
CloseEnd ==
    /\ shell.pc \in {"close", "failed"}
    /\ \/ \E e \in shell.ends :
            /\ NextEnd(e)
            /\ open' = open \ {LauncherEnd(e)}
            /\ shell' = [shell EXCEPT !.ends = @ \ {e}]
       \/ /\ shell.ends = {} /\ UNCHANGED open
          /\ shell' = IF shell.pc = "close" THEN [shell EXCEPT !.pc = "join"]
                                            ELSE Idle(-1)
    /\ UNCHANGED <<worker, thread, data, getopt_lock, optind, static_current, next_tid, ops,
                   doubled>>

----------------------------------------------------------------------------
(* task_static_join, the rollback and waitpid                              *)

\* Mutant: the join does not wait for the thread.
JoinRunning(s) == thread[s] # "new" /\ thread' = [thread EXCEPT ![s] = "off"] /\ Release(s)

\* task_static_join of a worker whose thread was created: thread_join waits
\* for the end of the thread, then the slot is released.
Join(s) == thread[s] = "gone" /\ thread' = [thread EXCEPT ![s] = "off"] /\ Release(s)

\* The joins of run_static, run_pipeline and waitpid, in order; the last
\* status is the result, waitpid returns the pid.
JoinNext ==
    /\ shell.pc = "join"
    /\ LET s == shell.slots[shell.i] IN
       /\ Join(s)
       /\ shell' = IF shell.i < Len(shell.slots) THEN [shell EXCEPT !.i = @ + 1]
                   ELSE Idle(IF shell.pid # 0 THEN shell.pid ELSE worker[s].status)
    /\ UNCHANGED <<data, getopt_lock, optind, next_tid, ops>>

\* fail_workers: the stages that run are joined, the one whose start failed
\* is released (again); then the pipes are closed.
Undo ==
    /\ shell.pc = "undo"
    /\ \/ /\ shell.i > Len(shell.slots)
          /\ shell' = [shell EXCEPT !.pc = "failed"]
          /\ UNCHANGED <<worker, thread, open, static_current, doubled>>
       \/ /\ shell.i <= Len(shell.slots)
          /\ shell' = [shell EXCEPT !.i = @ + 1]
          /\ LET s == shell.slots[shell.i] IN
               IF worker[s].tid # 0 THEN Join(s)
                                    ELSE Release(s) /\ UNCHANGED thread
    /\ UNCHANGED <<data, getopt_lock, optind, next_tid, ops>>

\* luna_bb_waitpid: for one pid or for any (-1), blocking or WNOHANG.
Waitpid(pid, nohang) ==
    LET matching == {s \in Slots : worker[s].in_use /\ pid \in {-1, worker[s].tid}}
        ended == {s \in matching : worker[s].done}
    IN IF ended # {}
       THEN \E s \in ended : /\ \A t \in ended : s <= t
                             /\ shell' = [At("join") EXCEPT !.slots = <<s>>,
                                            !.pid = worker[s].tid]
       ELSE shell' = IF matching = {} THEN Idle(-1)
                     ELSE IF nohang THEN Idle(0)
                     ELSE [At("wait") EXCEPT !.pid = pid]

Wait(pid, nohang) ==
    /\ Type /\ Waitpid(pid, nohang)
    /\ UNCHANGED <<worker, thread, open, data, getopt_lock, optind, static_current, next_tid,
                   doubled>>

WaitAgain ==
    /\ shell.pc = "wait" /\ Waitpid(shell.pid, FALSE)
    /\ UNCHANGED <<worker, thread, open, data, getopt_lock, optind, static_current, next_tid,
                   ops, doubled>>

\* A builtin or nofork applet in the shell's own thread: bb_getopt_begin
\* returns at once, and getopt uses glibc's optind without the lock.
Builtin ==
    /\ Type /\ optind' = [of |-> Launcher, at |-> 0]
    /\ shell' = Idle(0)
    /\ UNCHANGED <<worker, thread, open, data, getopt_lock, static_current, next_tid, doubled>>

\* The shell returns; luna_lkl_task_user_shell joins what is left.
ShellExits ==
    /\ shell.pc = "idle" /\ shell' = At("final")
    /\ UNCHANGED <<worker, thread, open, data, getopt_lock, optind, static_current, next_tid,
                   ops, doubled>>

FinalJoin ==
    /\ shell.pc = "final"
    /\ IF shell.i > Workers
       THEN shell' = At("ended") /\ UNCHANGED <<worker, thread, open, static_current, doubled>>
       ELSE /\ shell' = [shell EXCEPT !.i = @ + 1]
            /\ IF worker[shell.i].in_use THEN Join(shell.i)
               ELSE UNCHANGED <<worker, thread, open, static_current, doubled>>
    /\ UNCHANGED <<data, getopt_lock, optind, next_tid, ops>>

ShellStep == StartStage \/ Refuse \/ CloseEnd \/ JoinNext \/ Undo \/ WaitAgain \/ FinalJoin

Shell == \/ \E c \in Commands : RunStatic(c) \/ SpawnStatic(c)
         \/ \E cs \in Pipelines : RunPipeline(cs)
         \/ \E pid \in {-1} \cup 1..next_tid - 1, nohang \in BOOLEAN : Wait(pid, nohang)
         \/ Builtin
         \/ ShellExits
         \/ ShellStep

----------------------------------------------------------------------------
(* task_static_worker and the calls its applet makes                       *)

Goto(s, l) == thread' = [thread EXCEPT ![s] = l]
Shared == <<static_current, shell, next_tid, ops, doubled>>

\* The thread stores its tid, prepares its copy of libbb and enters the
\* applet.
Enter(s) ==
    /\ thread[s] = "new" /\ Goto(s, "options")
    /\ UNCHANGED <<worker, open, data, getopt_lock, optind, Shared>>

\* bb_getopt_begin: the lock is taken for the first option and kept; the
\* slot's optind becomes glibc's.
GetoptBegin(s) ==
    /\ thread[s] = "options"
    /\ worker[s].getopt_locked \/ ~getopt_lock
    /\ getopt_lock' = TRUE /\ optind' = [of |-> s, at |-> worker[s].optind]
    /\ worker' = [worker EXCEPT ![s].getopt_locked = TRUE]
    /\ Goto(s, "getopt")
    /\ UNCHANGED <<open, data, Shared>>

\* getopt and bb_getopt_end: an option advances optind, which is saved; at
\* the end of the options the lock is given back.  "usage" leaves through
\* luna_bb_exit with the lock held.
Getopt(s) ==
    LET more == optind.at < Options(worker[s].cmd)
        at == IF more THEN optind.at + 1 ELSE optind.at
    IN /\ thread[s] = "getopt"
       /\ optind' = [optind EXCEPT !.at = at]
       /\ getopt_lock' = (getopt_lock /\ more)
       /\ worker' = [worker EXCEPT ![s].optind = at, ![s].getopt_locked = more,
                       ![s].todo = Output(worker[s].cmd),
                       ![s].status = IF worker[s].cmd = "usage" THEN 1 ELSE @]
       /\ Goto(s, IF ~more THEN "run"
                  ELSE IF worker[s].cmd = "usage" THEN "exit" ELSE "options")
       /\ UNCHANGED <<open, data, Shared>>

Leave(s, status) == /\ worker' = [worker EXCEPT ![s].status = status, ![s].todo = 0]
                    /\ Goto(s, "exit")
                    /\ UNCHANGED <<open, data, getopt_lock, optind, Shared>>

\* luna_bb_write of one unit to descriptor 1: a pipe takes it when there is
\* room, the write blocks when there is none and fails when no reading end
\* is open.
WritePipe(s) ==
    LET out == worker[s].fd_map[1] IN
    /\ thread[s] = "run" /\ worker[s].todo > 0
    /\ \/ /\ out[1] = "w" /\ ~HasReader(out[2]) /\ Leave(s, 1)
       \/ /\ out[1] = "w" => HasReader(out[2]) /\ data[out[2]] < PipeSize
          /\ data' = IF out[1] = "w" THEN [data EXCEPT ![out[2]] = @ + 1] ELSE data
          /\ worker' = [worker EXCEPT ![s].todo = @ - 1]
          /\ UNCHANGED <<thread, open, getopt_lock, optind, Shared>>

\* luna_bb_read of up to a chunk from descriptor 0: the terminal is at its
\* end; a pipe gives what it holds, blocks while it is empty and a writing
\* end is open, and is at its end otherwise.  cat writes what it read, head
\* leaves after its first read.
ReadPipe(s) ==
    LET c == worker[s].cmd
        in == worker[s].fd_map[0]
        n == IF data[in[2]] < Chunk THEN data[in[2]] ELSE Chunk
    IN /\ thread[s] = "run" /\ worker[s].todo = 0 /\ Reads(c)
       /\ \/ /\ in[1] = "r" => data[in[2]] = 0 /\ ~HasWriter(in[2])
             /\ Leave(s, Status(c))
          \/ /\ in[1] = "r" /\ n > 0
             /\ data' = [data EXCEPT ![in[2]] = @ - n]
             /\ worker' = [worker EXCEPT ![s].todo = IF c = "cat" THEN n ELSE 0,
                             ![s].status = IF c = "head" THEN Status(c) ELSE @]
             /\ Goto(s, IF c = "head" THEN "exit" ELSE "run")
             /\ UNCHANGED <<open, getopt_lock, optind, Shared>>

\* The applet's main function returns.
MainReturns(s) ==
    /\ thread[s] = "run" /\ worker[s].todo = 0 /\ ~Reads(worker[s].cmd)
    /\ Leave(s, Status(worker[s].cmd))

\* Mutant: an applet that leaves in its options keeps the lock.
GiveUpLockNever(s) ==
    /\ thread[s] = "exit"
    /\ Goto(s, "close")
    /\ UNCHANGED <<worker, getopt_lock, open, data, optind, Shared>>

\* Back in task_static_worker: a getopt lock still held is given back,
GiveUpLock(s) ==
    /\ thread[s] = "exit"
    /\ getopt_lock' = (getopt_lock /\ ~worker[s].getopt_locked)
    /\ worker' = [worker EXCEPT ![s].getopt_locked = FALSE]
    /\ Goto(s, "close")
    /\ UNCHANGED <<open, data, optind, Shared>>

\* the descriptors are closed one by one,
CloseFd(s) ==
    /\ thread[s] = "close"
    /\ \E fd \in 0..2 :
         /\ worker[s].fd_map[fd] # ClosedFd
         /\ \A f \in 0..2 : f < fd => worker[s].fd_map[f] = ClosedFd
         /\ open' = open \ {[by |-> s, fd |-> fd, obj |-> worker[s].fd_map[fd]]}
         /\ worker' = [worker EXCEPT ![s].fd_map[fd] = ClosedFd]
    /\ UNCHANGED <<thread, data, getopt_lock, optind, Shared>>

\* "done" is set,
SetDone(s) ==
    /\ thread[s] = "close" /\ worker[s].fd_map = NoFds
    /\ worker' = [worker EXCEPT ![s].done = TRUE]
    /\ Goto(s, "done")
    /\ UNCHANGED <<open, data, getopt_lock, optind, Shared>>

\* and the shell's SIGCHLD handler is called before the thread ends.
ThreadEnds(s) ==
           /\ thread[s] = "done" /\ Goto(s, "gone")
           /\ UNCHANGED <<worker, open, data, getopt_lock, optind, Shared>>

Worker(s) == \/ Enter(s) \/ GetoptBegin(s) \/ Getopt(s)
             \/ WritePipe(s) \/ ReadPipe(s) \/ MainReturns(s)
             \/ GiveUpLock(s) \/ CloseFd(s) \/ SetDone(s) \/ ThreadEnds(s)

AppletNext == Shell \/ \E s \in Slots : Worker(s)

\* Every thread of the child is scheduled, round robin; the user may stop
\* typing, but a command that was typed is carried out.
AppletSpec == /\ AppletInit /\ [][AppletNext]_applet_vars
              /\ WF_applet_vars(ShellStep) /\ \A s \in Slots : WF_applet_vars(Worker(s))

----------------------------------------------------------------------------
(* Properties                                                              *)

\* The children as the shell sees them: a pid that was handed out and is in
\* no slot any more has been collected.
Children ==
    [p \in 1..MaxPid |->
       IF p >= next_tid THEN "unborn"
       ELSE IF \E s \in Slots : worker[s].in_use /\ worker[s].tid = p
       THEN IF \E s \in Slots : /\ worker[s].in_use /\ worker[s].tid = p
                                /\ worker[s].done THEN "ended" ELSE "running"
       ELSE "collected"]

Table == INSTANCE ChildTable WITH child <- Children

\* Slot reuse, early exits, rollbacks and waits for any child never lose,
\* merge or repeat a child: a slot is released, and its pid collected, only
\* after its thread set "done", and each pid once (task_static_join,
\* luna_bb_waitpid).
ImplementsChildTable == Table!TableSpec

\* Every descriptor that LKL holds open for the runtime is named by the slot
\* or the pipe array that will close it, on every failure path too, and a
\* command that has returned leaves no end of a pipe open in the launcher:
\* a leaked writing end would keep a reader from ever seeing its end.
DescriptorsAccounted ==
    /\ open = (UNION {Held(s, worker[s].fd_map) : s \in Slots})
              \cup {LauncherEnd(e) : e \in shell.ends}
    /\ \A s \in Slots : ~worker[s].in_use => worker[s].fd_map = NoFds
    /\ shell.pc \notin {"start", "refuse", "close", "undo", "failed"} => shell.ends = {}

\* task_static_current counts the slots in use, less one for every stage
\* whose start failed in a pipeline: task_static_start has released its slot
\* and fail_workers releases it again.
CurrentCounts ==
    static_current = Cardinality({s \in Slots : worker[s].in_use}) - doubled

\* What the runtime holds is accounted for: descriptors and slots.
SlotsAccounted == DescriptorsAccounted /\ CurrentCounts

\* The getopt lock belongs to one worker that is still parsing, or leaving,
\* its options: no two workers parse at once, no worker continues from the
\* optind of another, and a worker that ends does not keep the lock
\* (bb_getopt_begin, bb_getopt_end, task_static_worker).  The shell's own
\* parse takes no lock and may come in between.
GetoptSerialized ==
    /\ getopt_lock = (\E s \in Slots : worker[s].getopt_locked)
    /\ \A s \in Slots :
         /\ worker[s].getopt_locked =>
              /\ thread[s] \in {"options", "getopt", "exit"}
              /\ \A t \in Slots : worker[t].getopt_locked => t = s
         /\ thread[s] = "getopt" => optind.of \in {s, Launcher}

Busy == shell.pc \notin {"idle", "ended"}

\* Every command the shell was given comes back, with workers blocked on
\* full and empty pipes, stages that leave early and the getopt lock
\* contended, and at the end of the session every worker is joined: the
\* shell is not busy for ever.  The rollback of a pipeline is left out: see
\* CommandsReturn.
ReturnsUnlessRolledBack == []<>(~Busy \/ shell.pc = "undo")

\* Every command comes back, "worker slots exhausted" included.
CommandsReturn == Busy ~> ~Busy
=============================================================================
