---------------------------- MODULE TaskProofs -----------------------------
(***************************************************************************)
(* Three tables of the child task.                                         *)
(*                                                                         *)
(* The thread table of the host operations, for any number of slots, of    *)
(* client threads and of destructor passes. Its properties are not         *)
(* inductive by themselves, since that a slot is not taken back under its  *)
(* thread rests on who may hold a claim on it, and that on the tids LKL    *)
(* knows of.                                                               *)
(*                                                                         *)
(* The page map of the heap, which the manager mirrors, for any number of  *)
(* pages, allocations and threads.                                         *)
(*                                                                         *)
(* The batches of the block device, for any number of batches and threads. *)
(***************************************************************************)
EXTENDS HostThreads, ChildHeap, BatchPool, FiniteSetTheorems, TLAPS

JoinLabels == {"test", "poll", "wait", "blocked", "reclaim"}
Working == {"begin", "body", "detached", "cleanup", "exit"}
Finished == {"signal", "suspend"}

\* The thread on a slot: the slot is in use and the thread's, "exited" tells
\* the two halves of its life apart, and the Notification is silent until it
\* has finished.
SlotOK(s) ==
    /\ run[s].pc # "off" => slot[s].used
    /\ run[s].pc \notin {"off", "begin"} => run[s].tid = slot[s].tid
    /\ run[s].pc \in Working => ~slot[s].exited
    /\ run[s].pc \in Finished => slot[s].exited
    /\ slot[s].used /\ ~slot[s].exited => ~ntfn[s]
    /\ run[s].pc \notin {"body", "detached", "cleanup"} => ~tls[s]
    /\ slot[s].used => slot[s].tid \in FirstTid..next_tid - 1
    /\ slot[s].used /\ slot[s].tid \in joinable =>
         ~slot[s].detached /\ (run[s].pc # "off" => run[s].kind = "joined")

\* A tid is used for one slot.
TidsDiffer ==
    \A s, t \in Slots : slot[s].used /\ slot[t].used /\ slot[s].tid = slot[t].tid
                            => s = t

\* Between the claim and the return of create, the slot is the new thread's
\* and LKL does not know its tid.
Created(c) ==
    /\ call[c].slot \in Slots
    /\ slot[call[c].slot].used /\ slot[call[c].slot].tid = call[c].tid
    /\ ~slot[call[c].slot].detached

CreateOK(c) ==
    /\ call[c].pc \in {"start", "return"} =>
         /\ call[c].slot \in Slots
         /\ call[c].tid \in FirstTid..next_tid - 1
         /\ call[c].tid \notin joinable
    /\ call[c].pc = "start" =>
         Created(c) /\ run[call[c].slot].pc = "off" /\ ~slot[call[c].slot].exited
    /\ call[c].pc = "return" /\ call[c].kind = "joined" =>
         /\ Created(c)
         /\ run[call[c].slot].pc # "off" => run[call[c].slot].kind = "joined"

\* A join holds the claim on the slot of its thread, and goes on to take the
\* slot back only once the thread has finished.
JoinOK(c) ==
    /\ call[c].pc \in JoinLabels =>
         /\ call[c].slot \in Slots
         /\ slot[call[c].slot].used /\ slot[call[c].slot].tid = call[c].tid
         /\ slot[call[c].slot].join_claimed
         /\ call[c].tid \in joinable
    /\ call[c].pc \in {"poll", "reclaim"} => slot[call[c].slot].exited

Apart(c, d) ==
    /\ call[c].pc \in {"start", "return"} /\ call[d].pc \in {"start", "return"}
         => call[c].tid # call[d].tid
    /\ call[c].pc \in JoinLabels /\ call[d].pc \in JoinLabels
         => call[c].slot # call[d].slot

TInv ==
    /\ ThreadTypeOK
    /\ \A s \in Slots : SlotOK(s)
    /\ TidsDiffer
    /\ joinable \subseteq FirstTid..next_tid - 1
    /\ \A c \in Clients : CreateOK(c) /\ JoinOK(c)
    /\ \A c, d \in Clients : c # d => Apart(c, d)

----------------------------------------------------------------------------
\* Initially the table is empty (task_threads is zero).
LEMMA ThreadsInit == ThreadInit => TInv
BY ThreadsAssumption, SMT
   DEF ThreadInit, TInv, ThreadTypeOK, SlotType, RunLabels, CallLabels,
   RunType, CallType, Kinds, EmptySlot, FreedSlot, NoRun, Idle, SlotOK, TidsDiffer, CreateOK, JoinOK, Apart,
   JoinLabels, Working, Finished, FirstTid

\* A thread's step to another label keeps the type of its record.
LEMMA RunPc == ASSUME NEW r \in RunType, NEW l \in RunLabels
               PROVE  [r EXCEPT !.pc = l] \in RunType
BY Zenon DEF RunType

\* So does a call's step.
LEMMA CallPc == ASSUME NEW r \in CallType, NEW l \in CallLabels
                PROVE  [r EXCEPT !.pc = l] \in CallType
BY Zenon DEF CallType

\* The records that are assigned as a whole have their type.
LEMMA OffIdle == NoRun \in RunType /\ Idle \in CallType
BY ThreadsAssumption
   DEF NoRun, Idle, RunType, CallType, RunLabels, CallLabels, Kinds

\* A further cleanup pass keeps the type of the thread's record.
LEMMA RunPass == ASSUME NEW r \in RunType, NEW n \in 0..Passes - 1
                 PROVE  [r EXCEPT !.pass = n] \in RunType
BY Zenon DEF RunType

\* The thread that sel4utils_start_thread sets going.
LEMMA RunNew == ASSUME NEW kind \in Kinds
                PROVE  [pc |-> "begin", tid |-> 0, kind |-> kind, pass |-> 0] \in RunType
BY ThreadsAssumption DEF RunType, RunLabels

\* The call record that create and join write.
LEMMA CallNew == ASSUME NEW l \in CallLabels, NEW s \in Slots, NEW tid \in 0..MaxTid,
                        NEW kind \in Kinds
                 PROVE  [pc |-> l, slot |-> s, tid |-> tid, kind |-> kind] \in CallType
BY Zenon DEF CallType

\* The slots that create and join write.
LEMMA SlotNew == /\ \A tid \in 0..MaxTid : NewSlot(tid) \in SlotType
                 /\ \A b \in BOOLEAN : FreedSlot(b) \in SlotType
BY ThreadsAssumption DEF NewSlot, FreedSlot, SlotType

\* The fields of a slot that a failed start and a join's claim assign.
LEMMA SlotFields == ASSUME NEW r \in SlotType
                    PROVE  /\ [r EXCEPT !.used = FALSE, !.tid = 0] \in SlotType
                           /\ [r EXCEPT !.join_claimed = TRUE] \in SlotType
<1>1. [r EXCEPT !.used = FALSE] \in SlotType
  BY Zenon DEF SlotType
<1>2. 0 \in 0..MaxTid
  BY ThreadsAssumption
<1>3. ASSUME NEW q \in SlotType PROVE [q EXCEPT !.tid = 0] \in SlotType
  BY <1>2, Zenon DEF SlotType
<1>4. [r EXCEPT !.used = FALSE, !.tid = 0] \in SlotType
  BY <1>1, <1>3, Zenon
<1> QED BY <1>4, Zenon DEF SlotType

\* Create: whatever is reaped was detached and had finished, so neither a join
\* nor a create that LKL will join on refers to it; the claimed slot is nobody's.
LEMMA CreateInv ==
  ASSUME TInv, NEW c \in Clients, NEW kind \in Kinds, Create(c, kind)
  PROVE  TInv'
<1>1. /\ call[c].pc = "idle" /\ next_tid \in FirstTid..MaxTid
      /\ next_tid' = next_tid + 1
      /\ UNCHANGED <<tls, joinable>>
  BY ThreadsAssumption DEF Create, TInv, ThreadTypeOK, FirstTid
<1>2. PICK s \in Claimable :
        /\ slot' = [Reaped(slot) EXCEPT ![s] = NewSlot(next_tid)]
        /\ call' = [call EXCEPT ![c] = [pc |-> "start", slot |-> s,
                                        tid |-> next_tid, kind |-> kind]]
        /\ ntfn' = [t \in Slots |-> ntfn[t] /\ t \notin Reapable \cup {s}]
  BY ZenonT(30) DEF Create, First
<1>3. run' = [t \in Slots |-> IF t \in Reapable THEN NoRun ELSE run[t]]
  BY Zenon DEF Create
<1>4. s \in Slots /\ run'[s].pc = "off" /\ ~tls[s]
  BY <1>2, <1>3, ZenonT(30)
     DEF Claimable, Reapable, TInv, SlotOK, NoRun, Working, Finished
<1>5. /\ slot'[s] = NewSlot(next_tid) /\ ~ntfn'[s]
      /\ \A t \in Slots \ {s} : \/ /\ slot[t].used /\ slot[t].detached /\ slot[t].exited
                                   /\ slot'[t] = EmptySlot /\ run'[t] = NoRun
                                \/ /\ slot'[t] = slot[t] /\ run'[t] = run[t]
                                   /\ ntfn'[t] = ntfn[t]
  BY <1>2, <1>3, <1>4, Zenon DEF Reaped, Reapable, TInv, ThreadTypeOK
<1>6. \A d \in Clients : /\ call[d].pc \in JoinLabels => call[d].slot # s
                         /\ call[d].pc = "start" => call[d].slot # s
                         /\ call[d].pc = "return" /\ call[d].kind = "joined"
                              => call[d].slot # s
  BY <1>2, Zenon
     DEF Claimable, Reapable, TInv, SlotOK, CreateOK, Created, JoinOK
<1>7. ThreadTypeOK'
  <2>1. slot' \in [Slots -> SlotType]
    <3>1. NewSlot(next_tid) \in SlotType /\ EmptySlot \in SlotType
      <4>1. next_tid \in 0..MaxTid
        BY <1>1, ThreadsAssumption DEF FirstTid
      <4> QED BY <4>1, SlotNew, Zenon DEF EmptySlot
    <3>2. Reaped(slot) \in [Slots -> SlotType]
      BY <3>1, Zenon DEF Reaped, TInv, ThreadTypeOK
    <3> QED BY <1>2, <3>1, <3>2, Zenon
  <2>2. call' \in [Clients -> CallType]
    BY <1>1, <1>2, <1>4, CallNew DEF TInv, ThreadTypeOK, CallLabels, FirstTid
  <2>3. run' \in [Slots -> RunType]
    BY <1>3, OffIdle, Zenon DEF TInv, ThreadTypeOK
  <2>4. ntfn' \in [Slots -> BOOLEAN]
    BY <1>2, Zenon
  <2>5. next_tid' \in FirstTid..MaxTid + 1
    BY <1>1, ThreadsAssumption DEF FirstTid
  <2> QED BY <1>1, <2>1, <2>2, <2>3, <2>4, <2>5, Zenon DEF TInv, ThreadTypeOK
<1>8. \A t \in Slots : SlotOK(t)'
  <2>1. SlotOK(s)'
    BY <1>1, <1>4, <1>5 DEF TInv, SlotOK, NewSlot, Working, Finished, FirstTid
  <2>2. ASSUME NEW t \in Slots \ {s} PROVE SlotOK(t)'
    <3>1. CASE slot'[t] = EmptySlot /\ run'[t] = NoRun /\ slot[t].used /\ slot[t].exited
      <4>1. SlotOK(t)
        BY Zenon DEF TInv
      <4>2. run[t].pc \notin {"body", "detached", "cleanup"}
        BY <3>1, <4>1, Zenon DEF SlotOK, Working
      <4> QED BY <1>1, <3>1, <4>1, <4>2
                 DEF SlotOK, EmptySlot, FreedSlot, NoRun, Working, Finished
    <3>2. CASE slot'[t] = slot[t] /\ run'[t] = run[t] /\ ntfn'[t] = ntfn[t]
      BY <1>1, <3>2, SMTT(30) DEF TInv, SlotOK, FirstTid
    <3> QED BY <1>5, <3>1, <3>2, Zenon
  <2> QED BY <2>1, <2>2, Zenon
<1>9. TidsDiffer' /\ (joinable \subseteq FirstTid..next_tid - 1)'
  BY <1>1, <1>5
     DEF TInv, SlotOK, TidsDiffer, NewSlot, EmptySlot, FreedSlot, FirstTid
<1>10. ASSUME NEW d \in Clients \ {c} PROVE CreateOK(d)' /\ JoinOK(d)'
  <2>1. call'[d] = call[d]
    BY <1>2, Zenon DEF TInv, ThreadTypeOK
  <2>2. CreateOK(d)'
    <3>1. CreateOK(d)
      BY Zenon DEF TInv
    <3>2. CASE call[d].pc = "start" \/ (call[d].pc = "return" /\ call[d].kind = "joined")
      <4> DEFINE t == call[d].slot
      <4>1. t \in Slots \ {s} /\ ~slot[t].detached
        BY <1>6, <3>1, <3>2, Zenon DEF CreateOK, Created
      <4>2. slot'[t] = slot[t] /\ run'[t] = run[t]
        BY <1>5, <4>1, Zenon
      <4> HIDE DEF t
      <4> QED BY <1>1, <2>1, <3>1, <4>2, SMTT(30)
                 DEF CreateOK, Created, FirstTid, t
    <3>3. CASE ~(call[d].pc = "start" \/ (call[d].pc = "return" /\ call[d].kind = "joined"))
      BY <1>1, <2>1, <3>1, <3>3 DEF CreateOK, FirstTid
    <3> QED BY <3>2, <3>3, Zenon
  <2>3. JoinOK(d)'
    <3>1. JoinOK(d)
      BY Zenon DEF TInv
    <3>2. CASE call[d].pc \in JoinLabels
      <4> DEFINE t == call[d].slot
      <4>1. t \in Slots \ {s} /\ slot[t].used /\ slot[t].tid \in joinable
        BY <1>6, <3>1, <3>2, Zenon DEF JoinOK
      <4>2. ~slot[t].detached
        BY <4>1, Zenon DEF TInv, SlotOK
      <4>3. slot'[t] = slot[t]
        BY <1>5, <4>1, <4>2, Zenon
      <4> HIDE DEF t
      <4> QED BY <1>1, <2>1, <3>1, <4>3, Zenon DEF JoinOK, t
    <3>3. CASE call[d].pc \notin JoinLabels
      BY <2>1, <3>3, Zenon DEF JoinOK, JoinLabels
    <3> QED BY <3>2, <3>3, Zenon
  <2> QED BY <2>2, <2>3, Zenon
<1>11. CreateOK(c)' /\ JoinOK(c)'
  <2>1. call'[c] = [pc |-> "start", slot |-> s, tid |-> next_tid, kind |-> kind]
    BY <1>2, Zenon DEF TInv, ThreadTypeOK
  <2>2. next_tid \in FirstTid..next_tid' - 1 /\ next_tid \notin joinable'
    BY <1>1, ThreadsAssumption, SMTT(30) DEF TInv, FirstTid
  <2>3. CreateOK(c)'
    BY <1>4, <1>5, <2>1, <2>2, SMTT(30) DEF CreateOK, Created, NewSlot
  <2> QED BY <2>1, <2>3 DEF JoinOK, JoinLabels
<1>12. \A d, e \in Clients : d # e => Apart(d, e)'
  BY <1>1, <1>2 DEF TInv, ThreadTypeOK, CreateOK, Apart, JoinLabels, FirstTid
<1> QED BY <1>7, <1>8, <1>9, <1>10, <1>11, <1>12, Zenon DEF TInv

\* The new thread begins on a slot without one.
LEMMA StartThreadInv == ASSUME TInv, NEW c \in Clients, StartThread(c) PROVE TInv'
<1> USE DEF StartThread, CallTo
<1>1. ThreadTypeOK'
  <2>1. call[c].kind \in Kinds
    BY Zenon DEF TInv, ThreadTypeOK, CallType
  <2> QED BY <2>1, RunNew, CallPc, Zenon DEF TInv, ThreadTypeOK, CallLabels
<1>2. \A s \in Slots : SlotOK(s)'
  BY
     DEF TInv, ThreadTypeOK, SlotType, SlotOK, Working, Finished, TidsDiffer,
         CreateOK, Created
<1>3. TidsDiffer' /\ (joinable \subseteq FirstTid..next_tid - 1)'
  BY Zenon DEF TInv, TidsDiffer
<1>4. \A d \in Clients : CreateOK(d)'
  <2> SUFFICES ASSUME NEW d \in Clients, CreateOK(d),
                      run \in [Slots -> RunType], call \in [Clients -> CallType]
               PROVE  CreateOK(d)'
    BY Zenon DEF TInv, ThreadTypeOK
  <2>1. CASE d = c
    BY <2>1, SMTT(30) DEF CreateOK, Created
  <2>2. CASE d # c
    <3>1. CreateOK(c) /\ Apart(c, d) /\ TidsDiffer
      BY <2>2, Zenon DEF TInv
    <3>2. call'[d] = call[d]
      BY <2>2, Zenon
    <3>3. CASE call[d].pc = "start" \/ (call[d].pc = "return" /\ call[d].kind = "joined")
      <4>1. call[c].slot \in Slots /\ call[c].slot # call[d].slot
        BY <3>1, <3>3, Zenon DEF CreateOK, Created, Apart
      <4>2. call[d].slot \in Slots
        BY <3>3, Zenon DEF CreateOK, Created
      <4>3. run'[call[d].slot] = run[call[d].slot]
        BY <4>1, <4>2, Zenon
      <4> QED BY <3>2, <4>3 DEF CreateOK, Created
    <3> QED BY <3>2, <3>3, Zenon DEF CreateOK
  <2> QED BY <2>1, <2>2, Zenon
<1>5. \A d \in Clients : JoinOK(d)'
  BY DEF TInv, ThreadTypeOK, JoinOK, JoinLabels
<1>6. \A d, e \in Clients : d # e => Apart(d, e)'
  BY DEF TInv, ThreadTypeOK, Apart, JoinLabels
<1> QED BY <1>1, <1>2, <1>3, <1>4, <1>5, <1>6, Zenon DEF TInv

\* A slot given back after a failed start is known to nobody.
LEMMA StartFailsInv == ASSUME TInv, NEW c \in Clients, StartFails(c) PROVE TInv'
<1> USE DEF StartFails, Return, Idle
<1>1. ThreadTypeOK'
  <2>1. PICK s \in Slots : slot' = [slot EXCEPT ![s] =
                                      [slot[s] EXCEPT !.used = FALSE, !.tid = 0]]
    BY Zenon DEF TInv, CreateOK
  <2>2. slot' \in [Slots -> SlotType]
    <3>1. [slot[s] EXCEPT !.used = FALSE, !.tid = 0] \in SlotType
      BY SlotFields, Zenon DEF TInv, ThreadTypeOK
    <3> QED BY <2>1, <3>1, ZenonT(30) DEF TInv, ThreadTypeOK
  <2> QED BY <2>2, OffIdle, Zenon DEF TInv, ThreadTypeOK
<1>2. \A s \in Slots : SlotOK(s)'
  BY
     DEF TInv, ThreadTypeOK, SlotType, SlotOK, Working, Finished, TidsDiffer,
         CreateOK, Created
<1>3. TidsDiffer' /\ (joinable \subseteq FirstTid..next_tid - 1)'
  BY DEF TInv, TidsDiffer
<1>4. \A d \in Clients : CreateOK(d)'
  <2> SUFFICES ASSUME NEW d \in Clients, CreateOK(d),
                      run \in [Slots -> RunType], call \in [Clients -> CallType]
               PROVE  CreateOK(d)'
    BY Zenon DEF TInv, ThreadTypeOK
  <2>1. CASE d = c
    BY <2>1, Zenon DEF CreateOK
  <2>2. CASE d # c
    <3>1. CreateOK(c) /\ Apart(c, d) /\ slot \in [Slots -> SlotType]
      BY <2>2, Zenon DEF TInv, ThreadTypeOK
    <3>2. call'[d] = call[d]
      BY <2>2, Zenon
    <3>3. CASE call[d].pc = "start" \/ (call[d].pc = "return" /\ call[d].kind = "joined")
      <4>1. call[c].slot \in Slots /\ call[c].slot # call[d].slot
        BY <3>1, <3>3, Zenon DEF CreateOK, Created, Apart
      <4>2. call[d].slot \in Slots
        BY <3>3, Zenon DEF CreateOK, Created
      <4>3. slot'[call[d].slot] = slot[call[d].slot]
        BY <3>1, <4>1, <4>2, Zenon
      <4> QED BY <3>2, <4>3, ZenonT(30) DEF CreateOK, Created
    <3> QED BY <3>2, <3>3, Zenon DEF CreateOK
  <2> QED BY <2>1, <2>2, Zenon
<1>5. \A d \in Clients : JoinOK(d)'
  BY DEF TInv, ThreadTypeOK, JoinOK, JoinLabels, CreateOK, Created, TidsDiffer
<1>6. \A d, e \in Clients : d # e => Apart(d, e)'
  BY DEF TInv, ThreadTypeOK, Apart, JoinLabels
<1> QED BY <1>1, <1>2, <1>3, <1>4, <1>5, <1>6, Zenon DEF TInv

\* LKL learns the tid of a thread to join: no other call has it.
LEMMA CreateReturnsInv == ASSUME TInv, NEW c \in Clients, CreateReturns(c) PROVE TInv'
<1>1. /\ call[c].pc = "return" /\ call' = [call EXCEPT ![c] = Idle]
      /\ UNCHANGED <<slot, ntfn, tls, next_tid, run>>
  BY Zenon DEF CreateReturns, Return
<1>2. \/ joinable' = joinable
      \/ call[c].kind = "joined" /\ joinable' = joinable \cup {call[c].tid}
  BY <1>1, Zenon DEF CreateReturns, TInv, CreateOK, Created
<1>3. (joinable \subseteq FirstTid..next_tid - 1)' /\ next_tid \in FirstTid..MaxTid + 1
  BY <1>1, <1>2, ZenonT(30) DEF TInv, CreateOK, ThreadTypeOK
<1>4. ThreadTypeOK'
  BY <1>1, <1>3, OffIdle, ThreadsAssumption, SMTT(30)
     DEF TInv, ThreadTypeOK, FirstTid
<1>5. \A s \in Slots : SlotOK(s)'
  <2> SUFFICES ASSUME NEW s \in Slots PROVE SlotOK(s)'
    BY Zenon
  <2>1. SlotOK(s) /\ CreateOK(c) /\ TidsDiffer
    BY Zenon DEF TInv
  <2>2. CASE joinable' = joinable
    BY <1>1, <2>1, <2>2, Zenon DEF SlotOK
  <2>3. CASE call[c].kind = "joined" /\ joinable' = joinable \cup {call[c].tid}
    <3>1. slot[s].used /\ slot[s].tid = call[c].tid =>
            ~slot[s].detached /\ (run[s].pc # "off" => run[s].kind = "joined")
      BY <1>1, <2>1, <2>3, Zenon DEF CreateOK, Created, TidsDiffer
    <3> QED BY <1>1, <2>1, <2>3, <3>1, Zenon DEF SlotOK
  <2> QED BY <1>2, <2>2, <2>3, Zenon
<1>6. TidsDiffer'
  BY <1>1, Zenon DEF TInv, TidsDiffer
<1>7. \A d \in Clients : CreateOK(d)'
  <2> SUFFICES ASSUME NEW d \in Clients, CreateOK(d),
                      run \in [Slots -> RunType], call \in [Clients -> CallType]
               PROVE  CreateOK(d)'
    BY Zenon DEF TInv, ThreadTypeOK
  <2>1. CASE d = c
    BY <1>1, <2>1, Zenon DEF CreateOK, Idle
  <2>2. CASE d # c
    <3>1. Apart(c, d)
      BY <2>2, Zenon DEF TInv
    <3>2. call'[d] = call[d]
      BY <1>1, <2>2, Zenon
    <3>3. call[d].pc \in {"start", "return"} => call[d].tid \notin joinable'
      BY <1>1, <1>2, <3>1, Zenon DEF CreateOK, Apart
    <3> QED BY <1>1, <3>2, <3>3, Zenon DEF CreateOK, Created
  <2> QED BY <2>1, <2>2, Zenon
<1>8. \A d \in Clients : JoinOK(d)'
  BY <1>1, <1>2, Zenon DEF TInv, ThreadTypeOK, JoinOK, JoinLabels, Idle
<1>9. \A d, e \in Clients : d # e => Apart(d, e)'
  BY <1>1 DEF TInv, ThreadTypeOK, Apart, JoinLabels, Idle
<1> QED BY <1>3, <1>4, <1>5, <1>6, <1>7, <1>8, <1>9, Zenon DEF TInv

\* The trampoline reads its own slot's tid.
LEMMA TrampolineInv == ASSUME TInv, NEW t \in Slots, Trampoline(t) PROVE TInv'
<1> USE DEF Trampoline, At
<1>1. ThreadTypeOK'
  <2>1. run[t] \in RunType /\ slot[t].tid \in 0..MaxTid
    BY Zenon DEF TInv, ThreadTypeOK, SlotType
  <2>2. [run[t] EXCEPT !.pc = "body", !.tid = slot[t].tid] \in RunType
    BY <2>1, Zenon DEF RunType, RunLabels
  <2> QED BY <2>2, Zenon DEF TInv, ThreadTypeOK
<1>2. \A s \in Slots : SlotOK(s)'
  BY DEF TInv, ThreadTypeOK, SlotOK, Working, Finished
<1>3. TidsDiffer' /\ (joinable \subseteq FirstTid..next_tid - 1)'
  BY Zenon DEF TInv, TidsDiffer
<1>4. \A d \in Clients : CreateOK(d)'
  <2> SUFFICES ASSUME NEW d \in Clients, CreateOK(d),
                      run \in [Slots -> RunType], call \in [Clients -> CallType]
               PROVE  CreateOK(d)'
    BY Zenon DEF TInv, ThreadTypeOK
  <2> QED BY DEF CreateOK, Created
<1>5. \A d \in Clients : JoinOK(d)'
  BY Zenon DEF TInv, JoinOK
<1>6. \A d, e \in Clients : d # e => Apart(d, e)'
  BY Zenon DEF TInv, Apart
<1> QED BY <1>1, <1>2, <1>3, <1>4, <1>5, <1>6, Zenon DEF TInv

\* A value is set by a running thread.
LEMMA TlsSetInv == ASSUME TInv, NEW t \in Slots, TlsSet(t) PROVE TInv'
<1> USE DEF TlsSet, At
<1>1. ThreadTypeOK'
  BY Zenon DEF TInv, ThreadTypeOK
<1>2. \A s \in Slots : SlotOK(s)'
  BY SMTT(30) DEF TInv, SlotOK
<1>3. TidsDiffer' /\ (joinable \subseteq FirstTid..next_tid - 1)'
  BY Zenon DEF TInv, TidsDiffer
<1>4. \A d \in Clients : CreateOK(d)'
  <2> SUFFICES ASSUME NEW d \in Clients, CreateOK(d),
                      run \in [Slots -> RunType], call \in [Clients -> CallType]
               PROVE  CreateOK(d)'
    BY Zenon DEF TInv, ThreadTypeOK
  <2> QED BY Zenon DEF CreateOK, Created
<1>5. \A d \in Clients : JoinOK(d)'
  BY ZenonT(30) DEF TInv, JoinOK
<1>6. \A d, e \in Clients : d # e => Apart(d, e)'
  BY Zenon DEF TInv, Apart
<1> QED BY <1>1, <1>2, <1>3, <1>4, <1>5, <1>6, ZenonT(30) DEF TInv

\* A thread that detaches itself is one nobody joins, and its tid finds its
\* own slot.
LEMMA DetachInv == ASSUME TInv, NEW t \in Slots, Detach(t) PROVE TInv'
<1> USE DEF Detach, At, RunTo, ThreadByTid
<1>1. ThreadTypeOK'
  BY RunPc, ZenonT(30) DEF TInv, ThreadTypeOK, RunLabels, SlotType
<1>2. \A s \in Slots : SlotOK(s)'
  BY DEF TInv, ThreadTypeOK, SlotOK, Working, Finished
<1>3. TidsDiffer' /\ (joinable \subseteq FirstTid..next_tid - 1)'
  BY DEF TInv, TidsDiffer
<1>4. \A d \in Clients : CreateOK(d)'
  <2> SUFFICES ASSUME NEW d \in Clients, CreateOK(d),
                      run \in [Slots -> RunType], call \in [Clients -> CallType]
               PROVE  CreateOK(d)'
    BY Zenon DEF TInv, ThreadTypeOK
  <2>1. /\ SlotOK(t) /\ TidsDiffer /\ slot \in [Slots -> SlotType]
        /\ run[t].pc = "body" /\ run[t].kind = "detaching"
    BY Zenon DEF TInv, ThreadTypeOK
  <2>2. slot[t].used /\ slot[t].tid = run[t].tid
    BY <2>1, Zenon DEF SlotOK, Working
  <2>3. ThreadByTid(run[t].tid) \subseteq {t}
    BY <2>1, <2>2, Zenon DEF TidsDiffer
  <2>4. \A u \in Slots \ {t} : slot'[u] = slot[u] /\ run'[u] = run[u]
    BY <2>3, Zenon
  <2>5. UNCHANGED <<call, joinable, next_tid>>
    BY Zenon
  <2>6. CASE call[d].pc = "start" \/ (call[d].pc = "return" /\ call[d].kind = "joined")
    <3>1. call[d].slot \in Slots \ {t}
      BY <2>1, <2>6, Zenon DEF CreateOK, Created
    <3> QED BY <2>4, <2>5, <3>1, ZenonT(30) DEF CreateOK, Created
  <2> QED BY <2>5, <2>6, Zenon DEF CreateOK
<1>5. \A d \in Clients : JoinOK(d)'
  BY DEF TInv, ThreadTypeOK, JoinOK, JoinLabels
<1>6. \A d, e \in Clients : d # e => Apart(d, e)'
  BY Zenon DEF TInv, Apart
<1> QED BY <1>1, <1>2, <1>3, <1>4, <1>5, <1>6, Zenon DEF TInv

\* The body ends.
LEMMA BodyEndsInv == ASSUME TInv, NEW t \in Slots, BodyEnds(t) PROVE TInv'
<1> USE DEF BodyEnds, At, RunTo
<1>1. ThreadTypeOK'
  BY RunPc, Zenon DEF TInv, ThreadTypeOK, RunLabels
<1>2. \A s \in Slots : SlotOK(s)'
  BY DEF TInv, ThreadTypeOK, SlotOK, Working, Finished
<1>3. TidsDiffer' /\ (joinable \subseteq FirstTid..next_tid - 1)'
  BY Zenon DEF TInv, TidsDiffer
<1>4. \A d \in Clients : CreateOK(d)'
  <2> SUFFICES ASSUME NEW d \in Clients, CreateOK(d),
                      run \in [Slots -> RunType], call \in [Clients -> CallType]
               PROVE  CreateOK(d)'
    BY Zenon DEF TInv, ThreadTypeOK
  <2> QED BY DEF CreateOK, Created
<1>5. \A d \in Clients : JoinOK(d)'
  BY Zenon DEF TInv, JoinOK
<1>6. \A d, e \in Clients : d # e => Apart(d, e)'
  BY Zenon DEF TInv, Apart
<1> QED BY <1>1, <1>2, <1>3, <1>4, <1>5, <1>6, Zenon DEF TInv

\* The last cleanup pass leaves no value.
LEMMA CleanupInv ==
  ASSUME TInv, NEW t \in Slots, NEW again \in BOOLEAN, CleanupPass(t, again)
  PROVE  TInv'
<1>1. /\ run[t].pc = "cleanup"
      /\ UNCHANGED <<slot, ntfn, next_tid, call, joinable>>
  BY Zenon DEF CleanupPass, At
<1>2. /\ run' \in [Slots -> RunType] /\ tls' \in [Slots -> BOOLEAN]
      /\ \A s \in Slots : s # t => run'[s] = run[s] /\ tls'[s] = tls[s]
      /\ run'[t].tid = run[t].tid /\ run'[t].kind = run[t].kind
      /\ run'[t].pc = "cleanup" \/ (run'[t].pc = "exit" /\ ~tls'[t])
  <2>1. CASE again /\ run[t].pass + 1 < Passes
    <3> DEFINE n == run[t].pass + 1
    <3>1. run' = [run EXCEPT ![t].pass = n] /\ tls' = tls
      BY <2>1, Zenon DEF CleanupPass
    <3>2. run[t] \in RunType
      BY Zenon DEF TInv, ThreadTypeOK
    <3>3. n \in 0..Passes - 1
      BY <2>1, <3>2, ThreadsAssumption DEF RunType
    <3> HIDE DEF n
    <3>4. run' \in [Slots -> RunType]
      BY <3>1, <3>3, RunPass, Zenon DEF TInv, ThreadTypeOK
    <3>5. /\ run'[t].tid = run[t].tid /\ run'[t].kind = run[t].kind
          /\ run'[t].pc = run[t].pc
      BY <3>1, <3>2, Zenon DEF TInv, ThreadTypeOK, RunType
    <3> QED BY <1>1, <3>1, <3>4, <3>5, Zenon DEF TInv, ThreadTypeOK
  <2>2. CASE ~(again /\ run[t].pass + 1 < Passes)
    <3>1. run' = [run EXCEPT ![t].pc = "exit"] /\ tls' = [tls EXCEPT ![t] = FALSE]
      BY <2>2, Zenon DEF CleanupPass, RunTo
    <3>2. run' \in [Slots -> RunType]
      BY <3>1, RunPc, ZenonT(30) DEF TInv, ThreadTypeOK, RunLabels
    <3> QED BY <3>1, <3>2, Zenon DEF TInv, ThreadTypeOK, RunType
  <2> QED BY <2>1, <2>2, Zenon
<1>3. ThreadTypeOK'
  BY <1>1, <1>2, Zenon DEF TInv, ThreadTypeOK
<1>4. \A s \in Slots : SlotOK(s)'
  <2> SUFFICES ASSUME NEW s \in Slots, SlotOK(s) PROVE SlotOK(s)'
    BY Zenon DEF TInv
  <2>1. CASE s = t
    BY <1>1, <1>2, <2>1, ZenonT(30) DEF SlotOK, Working, Finished
  <2>2. CASE s # t
    BY <1>1, <1>2, <2>2, ZenonT(30) DEF SlotOK
  <2> QED BY <2>1, <2>2, Zenon
<1>5. TidsDiffer' /\ (joinable \subseteq FirstTid..next_tid - 1)'
  BY <1>1, Zenon DEF TInv, TidsDiffer
<1>6. \A d \in Clients : CreateOK(d)'
  <2> SUFFICES ASSUME NEW d \in Clients, CreateOK(d),
                      run \in [Slots -> RunType], call \in [Clients -> CallType]
               PROVE  CreateOK(d)'
    BY Zenon DEF TInv, ThreadTypeOK
  <2> QED BY <1>1, <1>2, Zenon DEF CreateOK, Created
<1>7. \A d \in Clients : JoinOK(d)'
  BY <1>1, ZenonT(30) DEF TInv, JoinOK
<1>8. \A d, e \in Clients : d # e => Apart(d, e)'
  BY <1>1, Zenon DEF TInv, Apart
<1> QED BY <1>3, <1>4, <1>5, <1>6, <1>7, <1>8, Zenon DEF TInv

\* The thread announces its end.
LEMMA SetExitedInv == ASSUME TInv, NEW t \in Slots, SetExited(t) PROVE TInv'
<1> USE DEF SetExited, At, RunTo
<1>1. ThreadTypeOK'
  BY RunPc, ZenonT(30) DEF TInv, ThreadTypeOK, RunLabels, SlotType
<1>2. \A s \in Slots : SlotOK(s)'
  BY DEF TInv, ThreadTypeOK, SlotOK, Working, Finished
<1>3. TidsDiffer' /\ (joinable \subseteq FirstTid..next_tid - 1)'
  BY DEF TInv, TidsDiffer
<1>4. \A d \in Clients : CreateOK(d)'
  <2> SUFFICES ASSUME NEW d \in Clients, CreateOK(d),
                      run \in [Slots -> RunType], call \in [Clients -> CallType]
               PROVE  CreateOK(d)'
    BY Zenon DEF TInv, ThreadTypeOK
  <2> QED BY DEF CreateOK, Created
<1>5. \A d \in Clients : JoinOK(d)'
  BY DEF TInv, JoinOK
<1>6. \A d, e \in Clients : d # e => Apart(d, e)'
  BY Zenon DEF TInv, Apart
<1> QED BY <1>1, <1>2, <1>3, <1>4, <1>5, <1>6, ZenonT(30) DEF TInv

\* Only a finished thread signals.
LEMMA SignalJoinInv == ASSUME TInv, NEW t \in Slots, SignalJoin(t) PROVE TInv'
<1>1. /\ run[t].pc = "signal" /\ slot[t].exited
      /\ run' = [run EXCEPT ![t].pc = "suspend"]
      /\ UNCHANGED <<slot, tls, next_tid, joinable>>
  BY Zenon DEF SignalJoin, At, RunTo, TInv, SlotOK, Finished
<1>2. /\ ntfn' \in [Slots -> BOOLEAN]
      /\ \A s \in Slots : s # t => ntfn'[s] = ntfn[s]
  BY Zenon DEF SignalJoin, TInv, ThreadTypeOK
<1>3. /\ call' \in [Clients -> CallType]
      /\ \A d \in Clients : \/ call'[d] = call[d]
                            \/ /\ call[d].pc = "blocked" /\ call[d].slot = t
                               /\ call'[d] = [call[d] EXCEPT !.pc = "reclaim"]
  <2>1. CASE UNCHANGED call
    BY <2>1, Zenon DEF TInv, ThreadTypeOK
  <2>2. CASE \E d \in Waiting(t) : CallTo(d, "reclaim")
    <3>1. PICK d \in Clients : /\ call[d].pc = "blocked" /\ call[d].slot = t
                              /\ call' = [call EXCEPT ![d].pc = "reclaim"]
      BY <2>2, Zenon DEF Waiting, CallTo
    <3> QED BY <3>1, CallPc, Zenon DEF TInv, ThreadTypeOK, CallLabels
  <2> QED BY <2>1, <2>2, Zenon DEF SignalJoin
<1>4. \A d \in Clients :
        /\ call'[d].slot = call[d].slot /\ call'[d].tid = call[d].tid
        /\ call'[d].kind = call[d].kind
        /\ \/ call'[d].pc = call[d].pc
           \/ call[d].pc = "blocked" /\ call[d].slot = t /\ call'[d].pc = "reclaim"
  BY <1>3 DEF TInv, ThreadTypeOK, CallType
<1>5. ThreadTypeOK'
  BY <1>1, <1>2, <1>3, RunPc, Zenon DEF TInv, ThreadTypeOK, RunLabels
<1>6. \A s \in Slots : SlotOK(s)'
  BY <1>1, <1>2 DEF TInv, ThreadTypeOK, RunType, SlotOK, Working, Finished
<1>7. TidsDiffer' /\ (joinable \subseteq FirstTid..next_tid - 1)'
  BY <1>1, Zenon DEF TInv, TidsDiffer
<1>8. \A d \in Clients : CreateOK(d)'
  BY <1>1, <1>4, SMTT(30) DEF TInv, ThreadTypeOK, RunType, CreateOK, Created
<1>9. \A d \in Clients : JoinOK(d)'
  BY <1>1, <1>4, SMTT(30) DEF TInv, JoinOK, JoinLabels
<1>10. \A d, e \in Clients : d # e => Apart(d, e)'
  BY <1>4, SMTT(30) DEF TInv, Apart, JoinLabels
<1> QED BY <1>5, <1>6, <1>7, <1>8, <1>9, <1>10, Zenon DEF TInv

\* A thread suspends itself when it has finished.
LEMMA SuspendSelfInv == ASSUME TInv, NEW t \in Slots, SuspendSelf(t) PROVE TInv'
<1> USE DEF SuspendSelf, At, NoRun
<1>1. ThreadTypeOK'
  BY OffIdle, Zenon DEF TInv, ThreadTypeOK
<1>2. \A s \in Slots : SlotOK(s)'
  BY DEF TInv, ThreadTypeOK, SlotOK, Working, Finished
<1>3. TidsDiffer' /\ (joinable \subseteq FirstTid..next_tid - 1)'
  BY Zenon DEF TInv, TidsDiffer
<1>4. \A d \in Clients : CreateOK(d)'
  <2> SUFFICES ASSUME NEW d \in Clients, CreateOK(d),
                      run \in [Slots -> RunType], call \in [Clients -> CallType]
               PROVE  CreateOK(d)'
    BY Zenon DEF TInv, ThreadTypeOK
  <2> QED BY Zenon DEF CreateOK, Created
<1>5. \A d \in Clients : JoinOK(d)'
  BY Zenon DEF TInv, JoinOK
<1>6. \A d, e \in Clients : d # e => Apart(d, e)'
  BY Zenon DEF TInv, Apart
<1> QED BY <1>1, <1>2, <1>3, <1>4, <1>5, <1>6, Zenon DEF TInv

\* One join claims a slot.
LEMMA JoinClaimInv ==
  ASSUME TInv, NEW c \in Clients, NEW tid \in joinable, JoinClaim(c, tid)
  PROVE  TInv'
<1> USE DEF JoinClaim, ThreadByTid, CanClaim
<1>1. ThreadTypeOK'
  <2>1. PICK s \in Slots :
          /\ slot' = [slot EXCEPT ![s].join_claimed = TRUE]
          /\ call' = [call EXCEPT ![c] = [pc |-> "test", slot |-> s,
                                          tid |-> tid, kind |-> "joined"]]
    BY Zenon
  <2>2. slot' \in [Slots -> SlotType]
    BY <2>1, SlotFields, Zenon DEF TInv, ThreadTypeOK
  <2>3. [pc |-> "test", slot |-> s, tid |-> tid, kind |-> "joined"] \in CallType
    <3>1. tid \in 0..MaxTid
      BY ThreadsAssumption DEF TInv, ThreadTypeOK, FirstTid
    <3> QED BY <3>1, CallNew, Zenon DEF CallLabels, Kinds
  <2> QED BY <2>1, <2>2, <2>3, Zenon DEF TInv, ThreadTypeOK
<1>2. \A s \in Slots : SlotOK(s)'
  BY DEF TInv, SlotOK
<1>3. TidsDiffer' /\ (joinable \subseteq FirstTid..next_tid - 1)'
  BY DEF TInv, TidsDiffer
<1>4. \A d \in Clients : CreateOK(d)'
  <2> SUFFICES ASSUME NEW d \in Clients, CreateOK(d),
                      run \in [Slots -> RunType], call \in [Clients -> CallType]
               PROVE  CreateOK(d)'
    BY Zenon DEF TInv, ThreadTypeOK
  <2> QED BY DEF CreateOK, Created
<1>5. \A d \in Clients : JoinOK(d)'
  BY DEF TInv, ThreadTypeOK, JoinOK, JoinLabels
<1>6. \A d, e \in Clients : d # e => Apart(d, e)'
  BY DEF TInv, ThreadTypeOK, JoinOK, Apart, JoinLabels
<1> QED BY <1>1, <1>2, <1>3, <1>4, <1>5, <1>6, Zenon DEF TInv

\* The test of "exited": a join goes on to poll only a finished thread.
LEMMA JoinTestInv == ASSUME TInv, NEW c \in Clients, JoinTest(c) PROVE TInv'
<1> USE DEF JoinTest, CallTo
<1>1. ThreadTypeOK'
  BY CallPc, Zenon DEF TInv, ThreadTypeOK, CallLabels
<1>2. \A s \in Slots : SlotOK(s)'
  BY ZenonT(30) DEF TInv, SlotOK
<1>3. TidsDiffer' /\ (joinable \subseteq FirstTid..next_tid - 1)'
  BY Zenon DEF TInv, TidsDiffer
<1>4. \A d \in Clients : CreateOK(d)'
  <2> SUFFICES ASSUME NEW d \in Clients, CreateOK(d),
                      run \in [Slots -> RunType], call \in [Clients -> CallType]
               PROVE  CreateOK(d)'
    BY Zenon DEF TInv, ThreadTypeOK
  <2> QED BY DEF CreateOK, Created
<1>5. \A d \in Clients : JoinOK(d)'
  BY DEF TInv, ThreadTypeOK, JoinOK, JoinLabels
<1>6. \A d, e \in Clients : d # e => Apart(d, e)'
  BY DEF TInv, ThreadTypeOK, Apart, JoinLabels
<1> QED BY <1>1, <1>2, <1>3, <1>4, <1>5, <1>6, ZenonT(30) DEF TInv

\* The poll takes a signal that was left.
LEMMA JoinPollInv == ASSUME TInv, NEW c \in Clients, JoinPoll(c) PROVE TInv'
<1> USE DEF JoinPoll, CallTo
<1>1. ThreadTypeOK'
  BY CallPc, Zenon DEF TInv, ThreadTypeOK, CallLabels
<1>2. \A s \in Slots : SlotOK(s)'
  BY DEF TInv, SlotOK
<1>3. TidsDiffer' /\ (joinable \subseteq FirstTid..next_tid - 1)'
  BY Zenon DEF TInv, TidsDiffer
<1>4. \A d \in Clients : CreateOK(d)'
  <2> SUFFICES ASSUME NEW d \in Clients, CreateOK(d),
                      run \in [Slots -> RunType], call \in [Clients -> CallType]
               PROVE  CreateOK(d)'
    BY Zenon DEF TInv, ThreadTypeOK
  <2> QED BY DEF CreateOK, Created
<1>5. \A d \in Clients : JoinOK(d)'
  BY DEF TInv, ThreadTypeOK, JoinOK, JoinLabels
<1>6. \A d, e \in Clients : d # e => Apart(d, e)'
  BY DEF TInv, ThreadTypeOK, Apart, JoinLabels
<1> QED BY <1>1, <1>2, <1>3, <1>4, <1>5, <1>6, Zenon DEF TInv

\* A signal found by the wait is this thread's, since a slot in use is silent
\* until its thread has finished.
LEMMA JoinWaitInv == ASSUME TInv, NEW c \in Clients, JoinWait(c) PROVE TInv'
<1> USE DEF JoinWait, CallTo
<1>1. ThreadTypeOK'
  BY CallPc, Zenon DEF TInv, ThreadTypeOK, CallLabels
<1>2. \A s \in Slots : SlotOK(s)'
  BY DEF TInv, SlotOK
<1>3. TidsDiffer' /\ (joinable \subseteq FirstTid..next_tid - 1)'
  BY Zenon DEF TInv, TidsDiffer
<1>4. \A d \in Clients : CreateOK(d)'
  <2> SUFFICES ASSUME NEW d \in Clients, CreateOK(d),
                      run \in [Slots -> RunType], call \in [Clients -> CallType]
               PROVE  CreateOK(d)'
    BY Zenon DEF TInv, ThreadTypeOK
  <2> QED BY DEF CreateOK, Created
<1>5. \A d \in Clients : JoinOK(d)'
  BY DEF TInv, ThreadTypeOK, JoinOK, JoinLabels, SlotOK
<1>6. \A d, e \in Clients : d # e => Apart(d, e)'
  BY DEF TInv, ThreadTypeOK, Apart, JoinLabels
<1> QED BY <1>1, <1>2, <1>3, <1>4, <1>5, <1>6, Zenon DEF TInv

\* The slot taken back is one whose thread has finished and to which no other
\* call refers.
LEMMA JoinReclaimInv == ASSUME TInv, NEW c \in Clients, JoinReclaim(c) PROVE TInv'
<1> DEFINE s == call[c].slot
<1>1. /\ call[c].pc = "reclaim" /\ s \in Slots
      /\ slot[s].used /\ slot[s].tid = call[c].tid /\ slot[s].exited
      /\ call[c].tid \in joinable
  BY Zenon DEF JoinReclaim, TInv, JoinOK, JoinLabels
<1>2. /\ slot' = [slot EXCEPT ![s] = FreedSlot(slot[s].join_claimed)]
      /\ run' = [run EXCEPT ![s] = NoRun]
      /\ call' = [call EXCEPT ![c] = Idle]
      /\ UNCHANGED <<ntfn, tls, next_tid, joinable>>
  BY <1>1, Zenon DEF JoinReclaim, Return
<1> HIDE DEF s
<1>3. ThreadTypeOK'
  BY <1>1, <1>2, OffIdle, SlotNew, ZenonT(30) DEF TInv, ThreadTypeOK, SlotType
<1>4. \A t \in Slots : SlotOK(t)'
  BY <1>1, <1>2, SMTT(30)
     DEF TInv, ThreadTypeOK, SlotOK, Working, Finished, NoRun, FreedSlot
<1>5. TidsDiffer' /\ (joinable \subseteq FirstTid..next_tid - 1)'
  BY <1>2, ZenonT(30) DEF TInv, ThreadTypeOK, TidsDiffer, FreedSlot
<1>6. \A d \in Clients : d # c /\ call[d].pc \in {"start", "return"} =>
                           \/ call[d].slot # s
                           \/ call[d].pc = "return" /\ call[d].kind # "joined"
  <2> SUFFICES ASSUME NEW d \in Clients, CreateOK(d),
                      call[d].pc \in {"start", "return"}, call[d].slot = s,
                      ~(call[d].pc = "return" /\ call[d].kind # "joined")
               PROVE  FALSE
    BY Zenon DEF TInv
  <2>1. slot[s].tid = call[d].tid /\ call[d].tid \notin joinable
    BY Zenon DEF CreateOK, Created
  <2> QED BY <1>1, <2>1, Zenon
<1>7. \A d \in Clients : CreateOK(d)'
  <2> SUFFICES ASSUME NEW d \in Clients, CreateOK(d),
                      run \in [Slots -> RunType], call \in [Clients -> CallType]
               PROVE  CreateOK(d)'
    BY Zenon DEF TInv, ThreadTypeOK
  <2>1. CASE d = c
    BY <1>2, <2>1, Zenon DEF CreateOK, Idle
  <2>2. CASE d # c
    <3>1. call'[d] = call[d]
      BY <1>2, <2>2, Zenon
    <3>2. \A u \in Slots \ {s} : slot'[u] = slot[u] /\ run'[u] = run[u]
      BY <1>2, Zenon DEF TInv, ThreadTypeOK
    <3>3. CASE call[d].pc = "start" \/ (call[d].pc = "return" /\ call[d].kind = "joined")
      <4>1. call[d].slot \in Slots \ {s}
        BY <1>6, <2>2, <3>3, Zenon DEF CreateOK, Created
      <4> QED BY <1>2, <3>1, <3>2, <4>1, ZenonT(30) DEF CreateOK, Created
    <3> QED BY <1>2, <3>1, <3>3, Zenon DEF CreateOK
  <2> QED BY <2>1, <2>2, Zenon
<1>8. \A d \in Clients : JoinOK(d)'
  <2> SUFFICES ASSUME NEW d \in Clients, JoinOK(d),
                      slot \in [Slots -> SlotType], call \in [Clients -> CallType]
               PROVE  JoinOK(d)'
    BY Zenon DEF TInv, ThreadTypeOK
  <2>1. CASE d = c
    BY <1>2, <2>1, Zenon DEF JoinOK, JoinLabels, Idle
  <2>2. CASE d # c /\ call[d].pc \in JoinLabels
    <3>1. call'[d] = call[d]
      BY <1>2, <2>2, Zenon
    <3>2. call[d].slot \in Slots \ {s}
      BY <1>1, <2>2, Zenon DEF TInv, Apart, JoinOK, JoinLabels, s
    <3>3. slot'[call[d].slot] = slot[call[d].slot]
      BY <1>2, <3>2, Zenon
    <3> QED BY <1>2, <3>1, <3>3, Zenon DEF JoinOK
  <2>3. CASE d # c /\ call[d].pc \notin JoinLabels
    BY <1>2, <2>3, ZenonT(30) DEF JoinOK, JoinLabels
  <2> QED BY <2>1, <2>2, <2>3, Zenon
<1>9. \A d, e \in Clients : d # e => Apart(d, e)'
  BY <1>2, ZenonT(30) DEF TInv, ThreadTypeOK, Apart, JoinLabels, Idle
<1> QED BY <1>3, <1>4, <1>5, <1>7, <1>8, <1>9, Zenon DEF TInv

\* Nothing happens: the invariant is about the variables only.
LEMMA ThreadsStutter == TInv /\ UNCHANGED thread_vars => TInv'
<1> SUFFICES ASSUME TInv, UNCHANGED thread_vars PROVE TInv'
  BY Zenon
<1>1. ThreadTypeOK' /\ TidsDiffer' /\ (joinable \subseteq FirstTid..next_tid - 1)'
  BY Zenon DEF thread_vars, TInv, ThreadTypeOK, TidsDiffer
<1>2. \A s \in Slots : SlotOK(s)'
  BY ZenonT(30) DEF thread_vars, TInv, SlotOK
<1>3. \A c \in Clients : CreateOK(c)'
  <2> SUFFICES ASSUME NEW c \in Clients, CreateOK(c),
                      run \in [Slots -> RunType], call \in [Clients -> CallType]
               PROVE  CreateOK(c)'
    BY Zenon DEF TInv, ThreadTypeOK
  <2> QED BY Zenon DEF thread_vars, CreateOK, Created
<1>4. \A c \in Clients : JoinOK(c)'
  BY ZenonT(30) DEF thread_vars, TInv, JoinOK
<1>5. \A c, d \in Clients : c # d => Apart(c, d)'
  BY Zenon DEF thread_vars, TInv, Apart
<1> QED BY <1>1, <1>2, <1>3, <1>4, <1>5, Zenon DEF TInv

\* Every operation of the thread table keeps the invariant.
LEMMA ThreadsStep == TInv /\ [ThreadNext]_thread_vars => TInv'
<1> SUFFICES ASSUME TInv, ThreadNext PROVE TInv'
  BY ThreadsStutter, Zenon
<1>1. ASSUME NEW c \in Clients, JoinStep(c) PROVE TInv'
  BY <1>1, JoinTestInv, JoinPollInv, JoinWaitInv, JoinReclaimInv, ZenonT(30) DEF JoinStep
<1>2. ASSUME NEW s \in Slots, RunStep(s) PROVE TInv'
  BY <1>2, TrampolineInv, DetachInv, BodyEndsInv, CleanupInv, SetExitedInv,
     SignalJoinInv, SuspendSelfInv, ZenonT(30) DEF RunStep
<1> QED BY <1>1, <1>2, CreateInv, StartThreadInv, StartFailsInv, CreateReturnsInv,
           JoinClaimInv, TlsSetInv, ZenonT(30) DEF ThreadNext

\* The invariant holds throughout: slots, threads and the calls in progress
\* agree on who owns what.
THEOREM ThreadsInvariant == ThreadSafety => []TInv
BY ThreadsInit, ThreadsStep, PTL DEF ThreadSafety

\* A claimed join finds the slot still its thread's (the tid comparison before
\* the reclaim in task_thread_join never fails).
THEOREM JoinOwnsSlot == ThreadSafety => []JoinKeepsSlot
<1>1. TInv => JoinKeepsSlot
  BY Zenon DEF TInv, JoinOK, JoinLabels, JoinKeepsSlot
<1> QED BY <1>1, ThreadsInvariant, PTL

\* A thread shares its slot with no other (task_thread_create).
THEOREM SlotsExclusive == ThreadSafety => []RunsInOwnSlot
<1>1. TInv => RunsInOwnSlot
  BY Zenon DEF TInv, SlotOK, RunsInOwnSlot
<1> QED BY <1>1, ThreadsInvariant, PTL

\* Reading the tid without the lock is harmless for a thread to be joined
\* ("return selected->tid" in task_thread_create).
THEOREM CreateReturnsOwn == ThreadSafety => []CreateReturnsJoinable
<1>1. TInv => CreateReturnsJoinable
  BY Zenon DEF TInv, CreateOK, Created, CreateReturnsJoinable
<1> QED BY <1>1, ThreadsInvariant, PTL

\* Neither the reaper of create nor join suspends a thread that still works.
THEOREM WorkCompleted == ThreadSafety => NeverCutShort
<1>1. TInv /\ [ThreadNext]_thread_vars =>
        [\A s \in Slots : run[s].pc # "off" /\ run'[s].pc = "off" =>
           run[s].pc \in {"signal", "suspend"} /\ slot[s].exited /\ ~tls[s]]_thread_vars
  <2> SUFFICES ASSUME TInv, ThreadNext, NEW s \in Slots, run[s].pc # "off", run'[s].pc = "off"
               PROVE  run[s].pc \in {"signal", "suspend"} /\ slot[s].exited /\ ~tls[s]
    BY Zenon
  <2>1. slot[s].exited => run[s].pc \in {"signal", "suspend"} /\ ~tls[s]
    BY ZenonT(30) DEF TInv, ThreadTypeOK, RunType, RunLabels, SlotOK, Working
  <2>2. slot[s].exited
    <3>1. ASSUME NEW c \in Clients, NEW kind \in Kinds, Create(c, kind)
          PROVE  slot[s].exited
      BY <3>1, Zenon DEF Create, Reapable
    <3>2. ASSUME NEW c \in Clients, StartThread(c) PROVE slot[s].exited
      BY <3>2, ZenonT(30)
         DEF StartThread, TInv, ThreadTypeOK, RunType, CreateOK
    <3>3. ASSUME NEW c \in Clients, JoinStep(c) PROVE slot[s].exited
      BY <3>3, Zenon
         DEF JoinStep, JoinTest, JoinPoll, JoinWait, JoinReclaim, TInv,
             ThreadTypeOK, JoinOK,
         JoinLabels
    <3>4. ASSUME NEW t \in Slots, RunStep(t) PROVE slot[s].exited
      <4>1. SuspendSelf(t) => /\ run[t].pc = "suspend"
                              /\ \A u \in Slots : u # t => run'[u] = run[u]
        BY Zenon DEF SuspendSelf, At, TInv, ThreadTypeOK
      <4>2. Trampoline(t) \/ Detach(t) \/ BodyEnds(t) \/ SetExited(t) \/ SignalJoin(t)
              => run'[s].pc # "off"
        <5>1. run \in [Slots -> RunType]
          BY Zenon DEF TInv, ThreadTypeOK
        <5>2. ASSUME NEW l \in RunLabels \ {"off"}, RunTo(t, l) PROVE run'[s].pc # "off"
          BY <5>1, <5>2, ZenonT(30) DEF RunTo, RunType
        <5>3. Trampoline(t) => run'[s].pc # "off"
          BY <5>1, ZenonT(30) DEF Trampoline, RunType
        <5> QED BY <5>2, <5>3, ZenonT(30)
                   DEF Detach, BodyEnds, SetExited, SignalJoin, RunLabels
      <4>3. ASSUME NEW again \in BOOLEAN, CleanupPass(t, again) PROVE run'[s].pc # "off"
        <5>1. run \in [Slots -> RunType]
          BY Zenon DEF TInv, ThreadTypeOK
        <5>2. CASE run' = [run EXCEPT ![t].pass = @ + 1]
          BY <5>1, <5>2, Zenon DEF RunType
        <5>3. CASE RunTo(t, "exit")
          BY <5>1, <5>3, Zenon DEF RunTo, RunType
        <5> QED BY <4>3, <5>2, <5>3, Zenon DEF CleanupPass
      <4> QED BY <3>4, <4>1, <4>2, <4>3, ZenonT(30)
                 DEF RunStep, TInv, SlotOK, Finished
    <3>5. ASSUME NEW c \in Clients,
                 \/ StartFails(c) \/ CreateReturns(c)
                 \/ \E tid \in joinable : JoinClaim(c, tid)
          PROVE  slot[s].exited
      BY <3>5, Zenon DEF StartFails, CreateReturns, JoinClaim
    <3>6. ASSUME NEW t \in Slots, TlsSet(t) PROVE slot[s].exited
      BY <3>6, Zenon DEF TlsSet
    <3> QED BY <3>1, <3>2, <3>3, <3>4, <3>5, <3>6, Zenon DEF ThreadNext
  <2> QED BY <2>1, <2>2, Zenon
<1> QED BY <1>1, ThreadsInvariant, PTL DEF ThreadSafety, NeverCutShort

----------------------------------------------------------------------------
(* Only the thread that holds manager_lock is in a call, and what it has   *)
(* found out stays true until it answers: the pages of its search are      *)
(* free, the pages to map fit, the allocation to free exists.              *)
CallOK(t) ==
    /\ ~CallAt(t, "idle") => manager_lock = t
    /\ CallAt(t, "scan") =>
         /\ hcall[t].event = "MAP" /\ hcall[t].pages # 0
         /\ hcall[t].run <= hcall[t].pages
         /\ \A p \in PagesOf([first |-> hcall[t].first, pages |-> hcall[t].run]) :
              p \notin heap_pages
         /\ \A m \in 0..hcall[t].first - 1 : ~Fits(m, hcall[t].pages)
    /\ CallAt(t, "map") => hcall[t].event = "MAP"
    /\ CallAt(t, "unmap") => hcall[t].event = "UNMAP"
    /\ CallAt(t, "reply") => hcall[t].event \in {"MAP", "UNMAP"}
    /\ ~CallAt(t, "scan") /\ hcall[t].event = "MAP" =>
         hcall[t].pages # 0 /\ Fits(hcall[t].first, hcall[t].pages)
    /\ ~CallAt(t, "scan") /\ hcall[t].event = "UNMAP" =>
         [first |-> hcall[t].first, pages |-> hcall[t].pages] \in allocations
    /\ CallAt(t, "idle") => hcall[t].event = "none"

HInv == HTypeOK /\ HeapAgrees /\ \A t \in Callers : CallOK(t)

----------------------------------------------------------------------------
\* Pages is finite, so a set of pages has at most HeapPages elements.
LEMMA PagesFinite ==
    ASSUME NEW S \in SUBSET Pages
    PROVE  Cardinality(S) \in 0..HeapPages
<1>1. IsFiniteSet(Pages) /\ Cardinality(Pages) = HeapPages
  BY FS_Interval, HeapAssumption DEF Pages
<1>2. Cardinality(S) \in Nat /\ Cardinality(S) <= Cardinality(Pages)
  BY <1>1, FS_Subset, FS_CardinalityType, Zenon
<1> QED BY <1>1, <1>2, HeapAssumption

\* If no thread but t waits for an answer, only t's pages are answered for.
LEMMA AnsweredOne ==
    ASSUME NEW c, NEW event, NEW t \in Callers,
           \A u \in Callers \ {t} : c[u].pc # "reply"
    PROVE  Answered(c, event) =
             IF c[t].pc = "reply" /\ c[t].event = event /\ ~c[t].error
             THEN PagesOf(c[t]) ELSE {}
BY Zenon DEF Answered

\* The threads other than the one that acts are not in a call.
LEMMA OthersIdle ==
    ASSUME HInv, NEW t \in Callers, manager_lock \in {t, Nobody},
           NEW u \in Callers \ {t}
    PROVE  hcall[u].pc = "idle" /\ hcall[u].event = "none"
BY HeapAssumption, Zenon DEF HInv, CallOK, CallAt

\* A step of t changes no other thread's call, and these stay as they were.
LEMMA OthersOK ==
    ASSUME HInv, NEW t \in Callers, manager_lock \in {t, Nobody},
           \A u \in Callers \ {t} : hcall'[u] = hcall[u]
    PROVE  /\ \A u \in Callers \ {t} : CallOK(u)'
           /\ \A u \in Callers \ {t} : hcall[u].pc # "reply" /\ hcall'[u].pc # "reply"
<1>1. \A u \in Callers \ {t} : hcall'[u].pc = "idle" /\ hcall'[u].event = "none"
  BY OthersIdle, Zenon
<1>2. \A u \in Callers \ {t} : hcall[u].pc = "idle"
  BY OthersIdle, Zenon
<1> QED BY <1>1, <1>2, Zenon DEF CallOK, CallAt

----------------------------------------------------------------------------
\* task_mem_alloc takes manager_lock, so no other caller is in a request.
LEMMA AllocInv ==
    ASSUME HInv, NEW t \in Callers, NEW n \in Nat \ {0}, HeapAlloc(t, n)
    PROVE  HInv'
<1> DEFINE c == Calling("scan", "MAP", 0, n)
<1>1. /\ manager_lock = Nobody /\ manager_lock' = t /\ n <= HeapPages
      /\ hcall' = [hcall EXCEPT ![t] = c]
      /\ hcall[t].pc = "idle"
      /\ UNCHANGED <<heap_pages, allocations, mapped, peak>>
  BY Zenon DEF HeapAlloc, mheap, CallAt
<1>2. HTypeOK
  BY Zenon DEF HInv
<1>3. hcall'[t] = c /\ \A u \in Callers \ {t} : hcall'[u] = hcall[u]
  BY <1>1, <1>2, ZenonT(30) DEF HTypeOK
<1>4. c = [pc |-> "scan", event |-> "MAP", first |-> 0, run |-> 0, pages |-> n,
           error |-> FALSE]
  BY Zenon DEF Calling
<1> HIDE DEF c
<1>5. HTypeOK'
  BY <1>1, <1>2, <1>4, HeapAssumption DEF HTypeOK
<1>6. HeapAgrees'
  <2>1. /\ Answered(hcall, "MAP") = {} /\ Answered(hcall, "UNMAP") = {}
        /\ Answered(hcall', "MAP") = {} /\ Answered(hcall', "UNMAP") = {}
    <3>1. \A u \in Callers \ {t} : hcall[u].pc # "reply" /\ hcall'[u].pc # "reply"
      BY <1>1, <1>3, OthersOK, Zenon
    <3>2. hcall[t].pc # "reply" /\ hcall'[t].pc # "reply"
      BY <1>1, <1>3, <1>4, SMTT(30)
    <3> QED BY <3>1, <3>2, AnsweredOne, Zenon
  <2> QED BY <1>1, <2>1, Zenon DEF HInv, HeapAgrees
<1>7. CallOK(t)'
  BY <1>1, <1>3, <1>4 DEF CallOK, CallAt, PagesOf
<1>8. \A u \in Callers \ {t} : CallOK(u)'
  BY <1>1, <1>3, OthersOK, Zenon
<1> QED BY <1>5, <1>6, <1>7, <1>8, Zenon DEF HInv

\* task_mem_free takes manager_lock and asks for pages it owns.
LEMMA FreeInv ==
    ASSUME HInv, NEW t \in Callers, NEW a \in allocations, HeapFree(t, a)
    PROVE  HInv'
<1> DEFINE c == Calling("unmap", "UNMAP", a.first, a.pages)
<1>1. /\ manager_lock = Nobody /\ manager_lock' = t
      /\ hcall' = [hcall EXCEPT ![t] = c]
      /\ hcall[t].pc = "idle"
      /\ UNCHANGED <<heap_pages, allocations, mapped, peak>>
  BY Zenon DEF HeapFree, mheap, CallAt
<1>2. HTypeOK
  BY Zenon DEF HInv
<1>3. hcall'[t] = c /\ \A u \in Callers \ {t} : hcall'[u] = hcall[u]
  BY <1>1, <1>2, ZenonT(30) DEF HTypeOK
<1>4. c = [pc |-> "unmap", event |-> "UNMAP", first |-> a.first, run |-> 0,
           pages |-> a.pages, error |-> FALSE]
  BY Zenon DEF Calling
<1>a. /\ a \in [first : Pages, pages : 1..HeapPages]
      /\ a = [first |-> a.first, pages |-> a.pages]
  BY <1>2, ZenonT(30) DEF HTypeOK
<1> HIDE DEF c
<1>5. HTypeOK'
  BY <1>1, <1>2, <1>4, <1>a, HeapAssumption DEF HTypeOK, Pages
<1>6. HeapAgrees'
  <2>1. /\ Answered(hcall, "MAP") = {} /\ Answered(hcall, "UNMAP") = {}
        /\ Answered(hcall', "MAP") = {} /\ Answered(hcall', "UNMAP") = {}
    <3>1. \A u \in Callers \ {t} : hcall[u].pc # "reply" /\ hcall'[u].pc # "reply"
      BY <1>1, <1>3, OthersOK, Zenon
    <3>2. hcall[t].pc # "reply" /\ hcall'[t].pc # "reply"
      BY <1>1, <1>3, <1>4, SMTT(30)
    <3> QED BY <3>1, <3>2, AnsweredOne, Zenon
  <2> QED BY <1>1, <2>1, Zenon DEF HInv, HeapAgrees
<1>7. CallOK(t)'
  BY <1>1, <1>3, <1>4, <1>a DEF CallOK, CallAt, PagesOf
<1>8. \A u \in Callers \ {t} : CallOK(u)'
  BY <1>1, <1>3, OthersOK, Zenon
<1> QED BY <1>5, <1>6, <1>7, <1>8, ZenonT(30) DEF HInv

\* The scan moves on over pages it has seen, and asks for a run of free ones.
LEMMA ScanInv ==
    ASSUME HInv, NEW t \in Callers, HeapScan(t)
    PROVE  HInv'
<1> DEFINE i == hcall[t].first
           j == hcall[t].run
           n == hcall[t].pages
           c == hcall'[t]
<1>1. /\ hcall[t].pc = "scan" /\ manager_lock = t
      /\ hcall[t].event = "MAP" /\ n # 0 /\ j <= n
      /\ \A p \in i..i + j - 1 : p \notin heap_pages
      /\ \A m \in 0..i - 1 : ~(/\ m + n <= HeapPages
                                 /\ m..m + n - 1 \cap heap_pages = {})
      /\ UNCHANGED <<heap_pages, allocations, mapped, peak>>
  BY Zenon DEF HeapScan, mheap, CallAt, HInv, CallOK, PagesOf, Fits
<1>2. /\ HTypeOK /\ i \in 0..HeapPages /\ j \in 0..HeapPages
      /\ n \in 0..HeapPages /\ HeapPages \in Nat
  BY HeapAssumption, Zenon DEF HInv, HTypeOK
<1>3. \/ c = NoCall /\ manager_lock' = Nobody
      \/ /\ i + n <= HeapPages /\ manager_lock' = t
         /\ \/ j = n /\ c = [hcall[t] EXCEPT !.pc = "map"]
            \/ /\ j < n /\ i + j \notin heap_pages
               /\ c = [hcall[t] EXCEPT !.run = j + 1]
            \/ /\ j < n /\ i + j \in heap_pages
               /\ c = [hcall[t] EXCEPT !.first = i + j + 1, !.run = 0]
  <2>1. CASE i + n > HeapPages
    BY <2>1, <1>2, ZenonT(30) DEF HeapScan, Unlock, HTypeOK
  <2>2. CASE ~(i + n > HeapPages)
    <3>1. /\ manager_lock' = t /\ i + n <= HeapPages
          /\ hcall' = CASE j = n -> [hcall EXCEPT ![t].pc = "map"]
                        [] j < n /\ i + j \notin heap_pages ->
                             [hcall EXCEPT ![t].run = j + 1]
                        [] OTHER -> [hcall EXCEPT ![t].first = i + j + 1,
                                                  ![t].run = 0]
      BY <2>2, <1>1, <1>2 DEF HeapScan
    <3>2. CASE j = n
      BY <3>1, <3>2, <1>2 DEF HTypeOK
    <3>3. CASE j < n /\ i + j \notin heap_pages
      BY <3>1, <3>3, <1>2 DEF HTypeOK
    <3>4. CASE j < n /\ i + j \in heap_pages
      BY <3>1, <3>4, <1>2, Zenon DEF HTypeOK
    <3> QED BY <3>2, <3>3, <3>4, <1>1, <1>2
  <2> QED BY <2>1, <2>2, Zenon
<1>4. hcall' = [hcall EXCEPT ![t] = c]
  BY <1>2, Zenon DEF HeapScan, Unlock, HTypeOK
<1>5. \A u \in Callers \ {t} : hcall'[u] = hcall[u]
  BY <1>2, <1>4, Zenon DEF HTypeOK
<1>6. /\ c \in [pc : {"idle", "scan", "map", "unmap", "reply"},
                event : {"none", "MAP", "UNMAP"},
                first : 0..HeapPages, run : 0..HeapPages,
                pages : 0..HeapPages, error : BOOLEAN]
      /\ c.pc # "reply"
  <2>1. CASE c = NoCall
    BY <2>1, <1>2 DEF NoCall, Calling
  <2>2. CASE /\ i + n <= HeapPages
             /\ j = n /\ c = [hcall[t] EXCEPT !.pc = "map"]
    BY <2>2, <1>2 DEF HTypeOK
  <2>3. CASE /\ i + n <= HeapPages
             /\ j < n /\ c = [hcall[t] EXCEPT !.run = j + 1]
    BY <2>3, <1>1, <1>2 DEF HTypeOK
  <2>4. CASE /\ i + n <= HeapPages
             /\ j < n /\ c = [hcall[t] EXCEPT !.first = i + j + 1, !.run = 0]
    <3>1. /\ i + j + 1 \in 0..HeapPages
          /\ hcall[t] \in [pc : {"idle", "scan", "map", "unmap", "reply"},
                event : {"none", "MAP", "UNMAP"},
                first : 0..HeapPages, run : 0..HeapPages,
                pages : 0..HeapPages, error : BOOLEAN]
      BY <2>4, <1>1, <1>2 DEF HTypeOK
    <3>2. c = [[hcall[t] EXCEPT !.first = i + j + 1] EXCEPT !.run = 0]
      BY <2>4, Zenon
    <3>3. hcall[t].pc = "scan" /\ 0 \in 0..HeapPages
      BY <1>1, <1>2
    <3> QED BY <3>1, <3>2, <3>3, Zenon
  <2> QED BY <1>3, <2>1, <2>2, <2>3, <2>4, ZenonT(30)
<1>7. HTypeOK'
  BY <1>1, <1>2, <1>3, <1>4, <1>6, SMTT(30) DEF HTypeOK
<1>8. HeapAgrees'
  <2>1. \A u \in Callers \ {t} : hcall[u].pc # "reply" /\ hcall'[u].pc # "reply"
    BY <1>1, <1>5, OthersOK, Zenon
  <2>2. /\ Answered(hcall, "MAP") = {} /\ Answered(hcall, "UNMAP") = {}
        /\ Answered(hcall', "MAP") = {} /\ Answered(hcall', "UNMAP") = {}
    BY <1>1, <1>6, <2>1, AnsweredOne, ZenonT(30)
  <2> QED BY <1>1, <2>2, Zenon DEF HInv, HeapAgrees
<1>9. CallOK(t)'
  <2>1. CASE c = NoCall /\ manager_lock' = Nobody
    BY <2>1 DEF CallOK, CallAt, NoCall, Calling
  <2>2. CASE /\ i + n <= HeapPages /\ manager_lock' = t
             /\ j = n /\ c = [hcall[t] EXCEPT !.pc = "map"]
    <3>1. c.pc = "map" /\ c.event = "MAP" /\ c.first = i /\ c.pages = n
      BY <2>2, <1>1, <1>2, ZenonT(30) DEF HTypeOK
    <3>2. Fits(i, n)'
      BY <2>2, <1>1 DEF Fits
    <3> QED BY <2>2, <3>1, <3>2, <1>1, ZenonT(30) DEF CallOK, CallAt
  <2>3. CASE /\ i + n <= HeapPages /\ manager_lock' = t
             /\ j < n /\ i + j \notin heap_pages
             /\ c = [hcall[t] EXCEPT !.run = j + 1]
    <3>1. /\ c.pc = "scan" /\ c.event = "MAP" /\ c.first = i /\ c.pages = n
          /\ c.run = j + 1
      BY <2>3, <1>1, <1>2 DEF HTypeOK
    <3>2. \A p \in i..i + (j + 1) - 1 : p \notin heap_pages'
      BY <2>3, <1>1, <1>2
    <3>3. j + 1 <= n
      BY <2>3, <1>2
    <3> QED BY <2>3, <3>1, <3>2, <3>3, <1>1, Zenon DEF CallOK, CallAt, PagesOf, Fits
  <2>4. CASE /\ i + n <= HeapPages /\ manager_lock' = t
             /\ j < n /\ i + j \in heap_pages
             /\ c = [hcall[t] EXCEPT !.first = i + j + 1, !.run = 0]
    <3>1. /\ c.pc = "scan" /\ c.event = "MAP" /\ c.first = i + j + 1
          /\ c.pages = n /\ c.run = 0
      BY <2>4, <1>1, <1>2, Zenon DEF HTypeOK
    <3>2. \A m \in 0..(i + j + 1) - 1 : ~(/\ m + n <= HeapPages
                                          /\ m..m + n - 1 \cap heap_pages = {})
      <4> TAKE m \in 0..(i + j + 1) - 1
      <4>1. CASE m < i
        BY <4>1, <1>1, <1>2
      <4>2. CASE m >= i
        <5>1. i + j \in m..m + n - 1
          BY <4>2, <2>4, <1>2, SMTT(30)
        <5> QED BY <5>1, <2>4, Zenon
      <4> QED BY <4>1, <4>2, <1>2
    <3>3. (i + j + 1)..(i + j + 1) + 0 - 1 = {} /\ 0 <= n
      BY <1>2, SMTT(30)
    <3> QED BY <2>4, <3>1, <3>2, <3>3, <1>1, ZenonT(30) DEF CallOK, CallAt, PagesOf, Fits
  <2> QED BY <1>3, <2>1, <2>2, <2>3, <2>4, Zenon
<1>10. \A u \in Callers \ {t} : CallOK(u)'
  BY <1>1, <1>5, OthersOK, Zenon
<1> QED BY <1>7, <1>8, <1>9, <1>10, Zenon DEF HInv

\* The manager maps or unmaps the pages asked for, all or none.
LEMMA ServiceInv ==
    ASSUME HInv, NEW t \in Callers, NEW fails \in BOOLEAN,
           ServiceMemory(t, fails)
    PROVE  HInv'
<1> DEFINE pages == PagesOf(hcall[t])
           a == [first |-> hcall[t].first, pages |-> hcall[t].pages]
<1>1. HTypeOK /\ HeapAgrees /\ CallOK(t)
  BY Zenon DEF HInv
<1>2. /\ hcall[t].pc \in {"map", "unmap"} /\ manager_lock = t
      /\ UNCHANGED <<heap_pages, allocations, manager_lock>>
  BY <1>1, Zenon DEF ServiceMemory, CallOK, CallAt
<1>3. PICK error \in BOOLEAN :
        /\ hcall' = [hcall EXCEPT ![t].pc = "reply", ![t].error = error]
        /\ error => mapped' = mapped
        /\ ~error /\ hcall[t].pc = "map" => mapped' = mapped \cup pages
        /\ ~error /\ hcall[t].pc = "unmap" => mapped' = mapped \ pages
        /\ peak' = IF Cardinality(mapped') > peak THEN Cardinality(mapped')
                   ELSE peak
  BY <1>2, Zenon DEF ServiceMemory, CallAt
<1>4. /\ hcall'[t] = [[hcall[t] EXCEPT !.pc = "reply"] EXCEPT !.error = error]
      /\ hcall' = [hcall EXCEPT ![t] = hcall'[t]]
  BY <1>1, <1>3, Zenon DEF HTypeOK
<1>5. /\ hcall'[t].pc = "reply" /\ hcall'[t].error = error
      /\ hcall'[t].event = hcall[t].event /\ hcall'[t].first = hcall[t].first
      /\ hcall'[t].pages = hcall[t].pages
  BY <1>1, <1>4 DEF HTypeOK
<1>6. \A u \in Callers \ {t} : hcall'[u] = hcall[u]
  BY <1>1, <1>4, Zenon DEF HTypeOK
<1>7. /\ hcall[t].pc = "map" => /\ hcall[t].event = "MAP"
                               /\ Fits(hcall[t].first, hcall[t].pages)
                               /\ hcall[t].pages # 0
      /\ hcall[t].pc = "unmap" => hcall[t].event = "UNMAP" /\ a \in allocations
  BY <1>1, Zenon DEF CallOK, CallAt
<1>8. /\ hcall[t].first \in 0..HeapPages /\ hcall[t].pages \in 0..HeapPages
      /\ HeapPages \in Nat
  BY <1>1, HeapAssumption, Zenon DEF HTypeOK
<1>9. hcall[t].pc = "map" => pages \subseteq Pages
  BY <1>7, <1>8 DEF Fits, PagesOf, Pages
<1>10. HTypeOK'
  <2>1. mapped' \subseteq Pages
    BY <1>1, <1>2, <1>3, <1>9, Zenon DEF HTypeOK
  <2>2. peak' \in 0..HeapPages
    BY <1>1, <1>3, <2>1, PagesFinite, Zenon DEF HTypeOK
  <2>3. hcall' \in [Callers -> [pc : {"idle", "scan", "map", "unmap", "reply"},
                             event : {"none", "MAP", "UNMAP"},
                             first : 0..HeapPages, run : 0..HeapPages,
                             pages : 0..HeapPages,
                             error : BOOLEAN]]
    <3>1. hcall'[t] \in [pc : {"idle", "scan", "map", "unmap", "reply"},
                        event : {"none", "MAP", "UNMAP"},
                        first : 0..HeapPages, run : 0..HeapPages,
                        pages : 0..HeapPages, error : BOOLEAN]
      BY <1>1, <1>4, Zenon DEF HTypeOK
    <3> QED BY <1>1, <1>4, <3>1, ZenonT(30) DEF HTypeOK
  <2> QED BY <1>1, <1>2, <2>1, <2>2, <2>3, Zenon DEF HTypeOK
<1>11. HeapAgrees'
  <2>1. \A u \in Callers \ {t} : hcall[u].pc # "reply" /\ hcall'[u].pc # "reply"
    BY <1>2, <1>6, OthersOK, Zenon
  <2>2. Answered(hcall, "MAP") = {} /\ Answered(hcall, "UNMAP") = {}
    BY <1>2, <2>1, AnsweredOne, Zenon
  <2>3. mapped = heap_pages
    BY <1>1, <2>2, Zenon DEF HeapAgrees
  <2>4. PagesOf(hcall'[t]) = pages
    BY <1>5, Zenon DEF PagesOf
  <2>5. mapped' = (heap_pages \cup Answered(hcall', "MAP"))
                  \ Answered(hcall', "UNMAP")
    <3>0. \A e \in {"MAP", "UNMAP"} : Answered(hcall', e) =
            IF hcall'[t].pc = "reply" /\ hcall'[t].event = e /\ ~hcall'[t].error
            THEN PagesOf(hcall'[t]) ELSE {}
      BY <2>1, AnsweredOne, Zenon
    <3>1. CASE error
      <4>1. Answered(hcall', "MAP") = {} /\ Answered(hcall', "UNMAP") = {}
        BY <3>0, <3>1, <1>5, Zenon
      <4> QED BY <3>1, <4>1, <2>3, <1>3, Zenon
    <3>2. CASE ~error /\ hcall[t].pc = "map"
      <4>1. Answered(hcall', "MAP") = pages /\ Answered(hcall', "UNMAP") = {}
        <5>1. hcall[t].event = "MAP" /\ "MAP" # "UNMAP"
          BY <3>2, <1>7, Zenon
        <5> QED BY <3>0, <3>2, <2>4, <1>5, <5>1, Zenon
      <4> QED BY <3>2, <4>1, <2>3, <1>3, Zenon
    <3>3. CASE ~error /\ hcall[t].pc = "unmap"
      <4>1. Answered(hcall', "UNMAP") = pages /\ Answered(hcall', "MAP") = {}
        <5>1. hcall[t].event = "UNMAP" /\ "MAP" # "UNMAP"
          BY <3>3, <1>7, Zenon
        <5> QED BY <3>0, <3>3, <2>4, <1>5, <5>1, Zenon
      <4> QED BY <3>3, <4>1, <2>3, <1>3, Zenon
    <3> QED BY <3>1, <3>2, <3>3, <1>2, Zenon
  <2> QED BY <1>1, <1>2, <2>5, Zenon DEF HeapAgrees
<1>12. CallOK(t)'
  BY <1>2, <1>5, <1>7, Zenon DEF CallOK, CallAt, Fits
<1>13. \A u \in Callers \ {t} : CallOK(u)'
  BY <1>2, <1>6, OthersOK, Zenon
<1> QED BY <1>10, <1>11, <1>12, <1>13, ZenonT(30) DEF HInv

\* The reply: the caller records what the manager has done, then unlocks.
LEMMA ReplyInv ==
    ASSUME HInv, NEW t \in Callers, HeapReply(t)
    PROVE  HInv'
<1> DEFINE a == [first |-> hcall[t].first, pages |-> hcall[t].pages]
           pages == PagesOf(a)
<1>1. HTypeOK /\ HeapAgrees /\ CallOK(t)
  BY Zenon DEF HInv
<1>2. /\ hcall[t].pc = "reply" /\ manager_lock = t /\ manager_lock' = Nobody
      /\ hcall[t].event \in {"MAP", "UNMAP"}
      /\ hcall' = [hcall EXCEPT ![t] = NoCall]
      /\ UNCHANGED <<mapped, peak>>
  BY <1>1, Zenon DEF HeapReply, Unlock, mheap, CallOK, CallAt
<1>3. hcall'[t] = NoCall /\ \A u \in Callers \ {t} : hcall'[u] = hcall[u]
  BY <1>1, <1>2, Zenon DEF HTypeOK
<1>4. /\ hcall[t].first \in 0..HeapPages /\ hcall[t].pages \in 0..HeapPages
      /\ HeapPages \in Nat
      /\ NoCall \in [pc : {"idle", "scan", "map", "unmap", "reply"},
                     event : {"none", "MAP", "UNMAP"},
                     first : 0..HeapPages, run : 0..HeapPages,
                     pages : 0..HeapPages, error : BOOLEAN]
  BY <1>1, HeapAssumption, SMTT(30) DEF HTypeOK, NoCall, Calling
<1>5. /\ hcall[t].event = "MAP" => /\ Fits(hcall[t].first, hcall[t].pages)
                                  /\ hcall[t].pages # 0
      /\ hcall[t].event = "UNMAP" => a \in allocations
  BY <1>1, <1>2, Zenon DEF CallOK, CallAt
<1>6. pages = PagesOf(hcall[t])
  BY Zenon DEF PagesOf
<1>7. /\ \A u \in Callers \ {t} : hcall[u].pc # "reply" /\ hcall'[u].pc # "reply"
      /\ \A u \in Callers \ {t} : CallOK(u)'
  BY <1>2, <1>3, OthersOK, Zenon
<1>8. Answered(hcall', "MAP") = {} /\ Answered(hcall', "UNMAP") = {}
  <2>1. hcall'[t].pc # "reply"
    BY <1>3, SMTT(30) DEF NoCall, Calling
  <2> QED BY <1>7, <2>1, AnsweredOne, Zenon
<1>9. CallOK(t)'
  BY <1>3 DEF CallOK, CallAt, NoCall, Calling
<1>10. CASE hcall[t].error
  <2>1. UNCHANGED <<heap_pages, allocations>>
    BY <1>10, Zenon DEF HeapReply
  <2>2. HTypeOK'
    BY <1>1, <1>2, <1>4, <2>1, ZenonT(30) DEF HTypeOK
  <2>3. Answered(hcall, "MAP") = {} /\ Answered(hcall, "UNMAP") = {}
    BY <1>7, <1>10, AnsweredOne, Zenon
  <2>4. HeapAgrees'
    BY <1>1, <1>2, <1>8, <2>1, <2>3, Zenon DEF HeapAgrees
  <2> QED BY <2>2, <2>4, <1>7, <1>9, Zenon DEF HInv
<1>11. CASE ~hcall[t].error /\ hcall[t].event = "MAP"
  <2>1. /\ heap_pages' = heap_pages \cup pages
        /\ allocations' = allocations \cup {a}
    BY <1>11, Zenon DEF HeapReply
  <2>2. /\ pages \subseteq Pages /\ pages \cap heap_pages = {}
        /\ a \in [first : Pages, pages : 1..HeapPages]
    BY <1>4, <1>5, <1>11, SMTT(30) DEF Fits, PagesOf, Pages
  <2>3. HTypeOK'
    BY <1>1, <1>2, <1>4, <2>1, <2>2, Zenon DEF HTypeOK
  <2>4. /\ Answered(hcall, "MAP") = pages /\ Answered(hcall, "UNMAP") = {}
    BY <1>2, <1>6, <1>7, <1>11, AnsweredOne, Zenon
  <2>5. mapped' = heap_pages'
    BY <1>1, <1>2, <2>1, <2>4, Zenon DEF HeapAgrees
  <2> HIDE DEF a, pages
  <2>6. heap_pages' = UNION {PagesOf(b) : b \in allocations'}
    BY <1>1, <2>1, Zenon DEF HeapAgrees, pages
  <2>7. \A b \in allocations : PagesOf(b) \cap pages = {}
    BY <1>1, <2>2, ZenonT(30) DEF HeapAgrees
  <2>8. \A b, d \in allocations' : b # d => PagesOf(b) \cap PagesOf(d) = {}
    BY <1>1, <2>1, <2>7, ZenonT(30) DEF HeapAgrees, pages
  <2> QED BY <2>3, <2>5, <2>6, <2>8, <1>7, <1>8, <1>9, ZenonT(30) DEF HInv, HeapAgrees
<1>12. CASE ~hcall[t].error /\ hcall[t].event = "UNMAP"
  <2>1. /\ heap_pages' = heap_pages \ pages
        /\ allocations' = allocations \ {a}
        /\ a \in allocations
    BY <1>12, <1>5, Zenon DEF HeapReply
  <2>2. HTypeOK'
    BY <1>1, <1>2, <1>4, <2>1, Zenon DEF HTypeOK
  <2>3. Answered(hcall, "MAP") = {} /\ Answered(hcall, "UNMAP") = pages
    BY <1>2, <1>6, <1>7, <1>12, AnsweredOne, Zenon
  <2>4. mapped' = heap_pages'
    BY <1>1, <1>2, <2>1, <2>3, Zenon DEF HeapAgrees
  <2> HIDE DEF a, pages
  <2>5. \A b \in allocations \ {a} : PagesOf(b) \cap pages = {}
    BY <1>1, <2>1, Zenon DEF HeapAgrees, pages
  <2>6. heap_pages' = UNION {PagesOf(b) : b \in allocations'}
    BY <1>1, <2>1, <2>5 DEF HeapAgrees, pages
  <2>7. \A b, d \in allocations' : b # d => PagesOf(b) \cap PagesOf(d) = {}
    BY <1>1, <2>1, Zenon DEF HeapAgrees
  <2> QED BY <2>2, <2>4, <2>6, <2>7, <1>7, <1>8, <1>9, Zenon DEF HInv, HeapAgrees
<1> QED BY <1>2, <1>10, <1>11, <1>12, Zenon

----------------------------------------------------------------------------
(* HInv is inductive: it holds initially and every step of task_heap_alloc,*)
(* task_heap_free and service_memory_request keeps it.                     *)
THEOREM HeapInvariant == HSafety => []HInv
<1>1. HInit => HInv
  <2> SUFFICES ASSUME HInit PROVE HInv
    BY Zenon
  <2>1. HTypeOK
    BY HeapAssumption DEF HInit, HTypeOK, NoCall, Calling
  <2>2. Answered(hcall, "MAP") = {} /\ Answered(hcall, "UNMAP") = {}
    BY Zenon DEF HInit, Answered, NoCall, Calling
  <2>3. HeapAgrees
    BY <2>2, Zenon DEF HInit, HeapAgrees
  <2>4. \A t \in Callers : CallOK(t)
    BY Zenon DEF HInit, CallOK, CallAt, NoCall, Calling
  <2> QED BY <2>1, <2>3, <2>4, Zenon DEF HInv
<1>2. HInv /\ [HNext]_hvars => HInv'
  <2> SUFFICES ASSUME HInv, [HNext]_hvars PROVE HInv'
    BY Zenon
  <2>1. CASE UNCHANGED hvars
    <3>1. UNCHANGED <<heap_pages, allocations, manager_lock, hcall, mapped,
                      peak>>
      BY <2>1, Zenon DEF hvars, cheap, mheap
    <3>2. HTypeOK'
      BY <3>1, Zenon DEF HInv, HTypeOK
    <3>3. HeapAgrees'
      BY <3>1 DEF HInv, HeapAgrees, Answered
    <3>4. \A t \in Callers : CallOK(t)'
      BY <3>1 DEF HInv, CallOK, CallAt, Fits
    <3> QED BY <3>2, <3>3, <3>4, Zenon DEF HInv
  <2>2. ASSUME NEW t \in Callers, HeapStep(t) PROVE HInv'
    <3>1. ASSUME NEW n \in Sizes, HeapAlloc(t, n) PROVE HInv'
      BY <3>1, AllocInv, HeapAssumption, Zenon
    <3>2. ASSUME NEW a \in allocations, HeapFree(t, a) PROVE HInv'
      BY <3>2, FreeInv, Zenon
    <3> QED BY <2>2, <3>1, <3>2, ScanInv, ReplyInv, Zenon DEF HeapStep, HeapCall
  <2>3. ASSUME NEW t \in Callers, NEW fails \in BOOLEAN,
               ServiceMemory(t, fails)
        PROVE  HInv'
    BY <2>3, ServiceInv, Zenon
  <2> QED BY <2>1, <2>2, <2>3, Zenon DEF HNext
<1> QED BY <1>1, <1>2, PTL DEF HSafety

(* task_heap_alloc, task_heap_free and service_memory_request agree on the *)
(* pages in use, for every heap and every number of threads.               *)
THEOREM HeapAgreement == HSafety => []HeapAgrees
<1>1. HInv => HeapAgrees
  BY Zenon DEF HInv
<1> QED BY <1>1, HeapInvariant, PTL

(* task_heap_alloc's search passes over no place where the pages would fit.*)
THEOREM ScanCorrect == HSafety => []ScanMissesNothing
<1>1. HInv => ScanMissesNothing
  BY Zenon DEF HInv, CallOK, ScanMissesNothing
<1> QED BY <1>1, HeapInvariant, PTL

----------------------------------------------------------------------------
(* The sets that Matched counts are finite.                                  *)
LEMMA Finite == ASSUME BatchTypes
                PROVE  \A p \in 1..N + 1 :
                          /\ IsFiniteSet(Scanning(p))
                          /\ IsFiniteSet(FreeFrom(p))
<1> TAKE p \in 1..N + 1
<1>1. IsFiniteSet(Scanning(p))
  <2>1. Scanning(p) \subseteq DiskThreads
    BY Zenon DEF Scanning
  <2> QED BY <2>1, PoolAssumption, FS_Subset, Zenon
<1>2. IsFiniteSet(FreeFrom(p))
  <2>1. IsFiniteSet(p..N)
    BY FS_Interval, PoolAssumption
  <2>2. FreeFrom(p) \subseteq p..N
    BY Zenon DEF FreeFrom
  <2> QED BY <2>1, <2>2, FS_Subset, Zenon
<1> QED BY <1>1, <1>2, Zenon

\* Initially every batch is free and nobody waits for one.
LEMMA PoolInit == BatchInit => BatchInv
<1> SUFFICES ASSUME BatchInit PROVE BatchInv
    BY Zenon
<1>1. BatchTypes
  BY PoolAssumption DEF BatchInit, BatchTypes
<1>2. ASSUME NEW p \in 1..N + 1
      PROVE  Cardinality(Scanning(p)) = 0
  <2>1. Scanning(p) = {}
    BY PoolAssumption DEF BatchInit, Scanning
  <2> QED BY <2>1, FS_EmptySet, Zenon
<1>3. Matched
  <2> SUFFICES ASSUME NEW p \in 1..N + 1
               PROVE  Cardinality(Scanning(p)) <= Cardinality(FreeFrom(p))
      BY Zenon DEF Matched
  <2>1. Cardinality(FreeFrom(p)) \in Nat
    BY <1>1, Finite, FS_CardinalityType, ZenonT(30)
  <2> QED BY <1>2, <2>1
<1>4. TokensExact
  <2>1. FreeFrom(1) = 1..N
    BY Zenon DEF BatchInit, FreeFrom
  <2>2. Cardinality(1..N) = N
    BY FS_Interval, PoolAssumption
  <2>3. 1 \in 1..N + 1
    BY PoolAssumption
  <2> QED BY <1>2, <2>1, <2>2, <2>3, PoolAssumption DEF TokensExact, BatchInit
<1> QED BY <1>1, <1>3, <1>4, Zenon DEF BatchInv

(* A token is taken and a scan begins at the first batch.                    *)
LEMMA DownStep == ASSUME BatchInv, NEW t \in DiskThreads, Down(t)
                  PROVE  BatchInv'
<1> USE DEF BatchInv
<1>1. BatchTypes'
  BY PoolAssumption DEF BatchTypes, Down
<1>2. \A p \in 1..N + 1 : FreeFrom(p)' = FreeFrom(p)
  BY Zenon DEF FreeFrom, Down
<1>3. \A p \in 2..N + 1 : Scanning(p)' = Scanning(p)
  BY DEF Scanning, Down, BatchTypes
<1>4. Scanning(1)' = Scanning(1) \cup {t} /\ t \notin Scanning(1)
  BY DEF Scanning, Down, BatchTypes
<1>5. 1 \in 1..N + 1
  BY PoolAssumption
<1>6. Cardinality(Scanning(1)') = Cardinality(Scanning(1)) + 1
  BY <1>4, <1>5, Finite, FS_AddElement, Zenon
<1>7. /\ Cardinality(Scanning(1)) \in Nat
      /\ Cardinality(FreeFrom(1)) \in Nat
  BY <1>5, Finite, FS_CardinalityType, Zenon
<1>8. TokensExact'
  BY <1>2, <1>5, <1>6, <1>7 DEF TokensExact, Down, BatchTypes
<1>9. Matched'
  <2> SUFFICES ASSUME NEW p \in 1..N + 1
               PROVE  Cardinality(Scanning(p)') <= Cardinality(FreeFrom(p)')
      BY Zenon DEF Matched
  <2>1. CASE p = 1
    BY <2>1, <1>2, <1>5, <1>6, <1>7 DEF TokensExact, Down, BatchTypes
  <2>2. CASE p # 1
    BY <2>2, <1>2, <1>3 DEF Matched
  <2> QED BY <2>1, <2>2, ZenonT(30)
<1> QED BY <1>1, <1>8, <1>9, Zenon

(* A scan claims the free batch it looks at.                                 *)
LEMMA ClaimStep == ASSUME BatchInv, NEW t \in DiskThreads, scan_pos[t] \in 1..N,
                          scan_pos[t] \notin taken,
                          scan_pos' = [scan_pos EXCEPT ![t] = 0],
                          taken' = taken \cup {scan_pos[t]},
                          UNCHANGED <<tokens, owed>>
                   PROVE  BatchInv'
<1> USE DEF BatchInv
<1> DEFINE k == scan_pos[t]
<1>1. BatchTypes'
  <2>1. taken' \subseteq 1..N
    BY Zenon DEF BatchTypes
  <2>2. 0 \in 0..N + 1
    BY PoolAssumption
  <2>3. scan_pos' \in [DiskThreads -> 0..N + 1]
    BY <2>2, Zenon DEF BatchTypes
  <2> QED BY <2>1, <2>3, Zenon DEF BatchTypes
<1>2. ASSUME NEW p \in 1..N + 1, p <= k
      PROVE  /\ Cardinality(Scanning(p)') = Cardinality(Scanning(p)) - 1
             /\ Cardinality(FreeFrom(p)') = Cardinality(FreeFrom(p)) - 1
  <2>1. Scanning(p)' = Scanning(p) \ {t} /\ t \in Scanning(p)
    BY <1>2 DEF Scanning, BatchTypes
  <2>2. FreeFrom(p)' = FreeFrom(p) \ {k} /\ k \in FreeFrom(p)
    BY <1>2 DEF FreeFrom
  <2> QED BY <2>1, <2>2, Finite, FS_RemoveElement, Zenon
<1>3. ASSUME NEW p \in 1..N + 1, p > k
      PROVE  Scanning(p)' = Scanning(p) /\ FreeFrom(p)' = FreeFrom(p)
  BY <1>3 DEF Scanning, FreeFrom, BatchTypes
<1>4. \A p \in 1..N + 1 : /\ Cardinality(Scanning(p)) \in Nat
                          /\ Cardinality(FreeFrom(p)) \in Nat
  BY Finite, FS_CardinalityType, Zenon
<1>5. Matched'
  <2> SUFFICES ASSUME NEW p \in 1..N + 1
               PROVE  Cardinality(Scanning(p)') <= Cardinality(FreeFrom(p)')
      BY Zenon DEF Matched
  <2>1. CASE p <= k
    BY <2>1, <1>2, <1>4 DEF Matched
  <2>2. CASE p > k
    BY <2>2, <1>3, Zenon DEF Matched
  <2> QED BY <2>1, <2>2
<1>6. TokensExact'
  <2>1. 1 \in 1..N + 1 /\ 1 <= k
    BY PoolAssumption
  <2> HIDE DEF k
  <2> QED BY <2>1, <1>2, <1>4 DEF TokensExact, BatchTypes
<1> QED BY <1>1, <1>5, <1>6, Zenon

(* A scan passes a batch that is taken.                                      *)
LEMMA PassStep == ASSUME BatchInv, NEW t \in DiskThreads, scan_pos[t] \in 1..N,
                         scan_pos[t] \in taken,
                         scan_pos' = [scan_pos EXCEPT ![t] = @ + 1],
                         UNCHANGED <<taken, tokens, owed>>
                  PROVE  BatchInv'
<1> USE DEF BatchInv
<1>k. PICK k \in 1..N : k = scan_pos[t]
  BY Zenon
<1>1. BatchTypes'
  BY PoolAssumption DEF BatchTypes
<1>2. \A p \in 1..N + 1 : FreeFrom(p)' = FreeFrom(p)
  BY Zenon DEF FreeFrom
<1>3. ASSUME NEW p \in 1..N + 1, p # k + 1
      PROVE  Scanning(p)' = Scanning(p)
  BY <1>3, <1>k DEF Scanning, BatchTypes
<1>4. Cardinality(Scanning(k + 1)') <= Cardinality(FreeFrom(k + 1))
  <2>1. k \in 1..N + 1 /\ k + 1 \in 1..N + 1
    BY PoolAssumption
  <2>2. Scanning(k + 1)' \subseteq Scanning(k)
    BY <1>k DEF Scanning, BatchTypes
  <2>3. FreeFrom(k) = FreeFrom(k + 1)
    BY <1>k DEF FreeFrom
  <2>4. /\ IsFiniteSet(Scanning(k))
        /\ Cardinality(Scanning(k)) <= Cardinality(FreeFrom(k))
    BY <2>1, Finite, Zenon DEF Matched
  <2>5. /\ Cardinality(Scanning(k + 1)') <= Cardinality(Scanning(k))
        /\ IsFiniteSet(Scanning(k + 1)')
    BY <2>2, <2>4, FS_Subset, Zenon
  <2>6. /\ Cardinality(Scanning(k + 1)') \in Nat
        /\ Cardinality(Scanning(k)) \in Nat
        /\ Cardinality(FreeFrom(k + 1)) \in Nat
    BY <2>1, <2>4, <2>5, Finite, FS_CardinalityType, Zenon
  <2> QED BY <2>3, <2>4, <2>5, <2>6
<1>5. Matched'
  <2> SUFFICES ASSUME NEW p \in 1..N + 1
               PROVE  Cardinality(Scanning(p)') <= Cardinality(FreeFrom(p)')
      BY Zenon DEF Matched
  <2>1. CASE p = k + 1
    <3>1. FreeFrom(p)' = FreeFrom(p)
      BY <1>2, Zenon
    <3>2. Cardinality(Scanning(p)') <= Cardinality(FreeFrom(p))
      BY <2>1, <1>4, Zenon
    <3> QED BY <3>1, <3>2, Zenon
  <2>2. CASE p # k + 1
    BY <2>2, <1>2, <1>3, ZenonT(30) DEF Matched
  <2> QED BY <2>1, <2>2, Zenon
<1>6. TokensExact'
  <2>1. 1 \in 1..N + 1 /\ 1 # k + 1
    BY PoolAssumption
  <2>2. Scanning(1)' = Scanning(1) /\ FreeFrom(1)' = FreeFrom(1)
    BY <2>1, <1>2, <1>3, Zenon
  <2> QED BY <2>2, Zenon DEF TokensExact
<1> QED BY <1>1, <1>5, <1>6, Zenon

(* A batch is freed.                                                         *)
LEMMA FreeStep == ASSUME BatchInv, NEW b \in 1..N, FreeBatch(b)
                  PROVE  BatchInv'
<1> USE DEF BatchInv
<1>1. BatchTypes'
  BY DEF BatchTypes, FreeBatch
<1>2. \A p \in 1..N + 1 : Scanning(p)' = Scanning(p)
  BY Zenon DEF Scanning, FreeBatch
<1>3. \A p \in 1..N + 1 : FreeFrom(p) \subseteq FreeFrom(p)'
  BY Zenon DEF FreeFrom, FreeBatch
<1>4. \A p \in 1..N + 1 : IsFiniteSet(FreeFrom(p)')
  <2> TAKE p \in 1..N + 1
  <2>1. IsFiniteSet(p..N)
    BY FS_Interval, PoolAssumption
  <2>2. FreeFrom(p)' \subseteq p..N
    BY Zenon DEF FreeFrom
  <2> QED BY <2>1, <2>2, FS_Subset, Zenon
<1>5. Matched'
  <2> SUFFICES ASSUME NEW p \in 1..N + 1
               PROVE  Cardinality(Scanning(p)') <= Cardinality(FreeFrom(p)')
      BY Zenon DEF Matched
  <2>1. Cardinality(FreeFrom(p)) <= Cardinality(FreeFrom(p)')
    BY <1>3, <1>4, FS_Subset, Zenon
  <2>2. /\ Cardinality(FreeFrom(p)) \in Nat
        /\ Cardinality(FreeFrom(p)') \in Nat
        /\ Cardinality(Scanning(p)) \in Nat
    BY <1>4, Finite, FS_CardinalityType, Zenon
  <2>3. Cardinality(Scanning(p)') = Cardinality(Scanning(p))
    BY <1>2, Zenon
  <2>4. Cardinality(Scanning(p)) <= Cardinality(FreeFrom(p))
    BY Zenon DEF Matched
  <2> QED BY <2>1, <2>2, <2>3, <2>4
<1>6. TokensExact'
  <2>1. 1 \in 1..N + 1
    BY PoolAssumption
  <2>2. FreeFrom(1)' = FreeFrom(1) \cup {b} /\ b \notin FreeFrom(1)
    BY Zenon DEF FreeFrom, FreeBatch
  <2>3. Cardinality(FreeFrom(1)') = Cardinality(FreeFrom(1)) + 1
    BY <2>1, <2>2, Finite, FS_AddElement, ZenonT(30)
  <2>4. Cardinality(Scanning(1)) \in Nat /\ Cardinality(FreeFrom(1)) \in Nat
    BY <2>1, Finite, FS_CardinalityType, ZenonT(30)
  <2>5. Scanning(1)' = Scanning(1)
    BY <2>1, <1>2, Zenon
  <2> QED BY <2>3, <2>4, <2>5 DEF TokensExact, FreeBatch, BatchTypes
<1> QED BY <1>1, <1>5, <1>6, ZenonT(30)

(* No scan has run past the last batch: nothing is free from there on.       *)
LEMMA NoneExhausted == BatchInv => ClaimSucceeds
<1> SUFFICES ASSUME BatchInv, NEW t \in DiskThreads, scan_pos[t] > N
             PROVE  FALSE
  BY PoolAssumption DEF BatchInv, BatchTypes, ClaimSucceeds
<1>1. N + 1 \in 1..N + 1
  BY PoolAssumption
<1>2. t \in Scanning(N + 1)
  BY PoolAssumption DEF Scanning, BatchInv, BatchTypes
<1>3. FreeFrom(N + 1) = {}
  BY PoolAssumption DEF FreeFrom
<1>4. Cardinality(FreeFrom(N + 1)) = 0
  BY <1>3, FS_EmptySet, Zenon
<1>5. IsFiniteSet(Scanning(N + 1))
  BY <1>1, Finite, Zenon DEF BatchInv
<1>6. Cardinality(Scanning(N + 1)) # 0
  BY <1>2, <1>5, FS_EmptySet, Zenon
<1>7. Cardinality(Scanning(N + 1)) \in Nat
  BY <1>5, FS_CardinalityType, Zenon
<1> QED BY <1>1, <1>4, <1>6, <1>7 DEF BatchInv, Matched

\* Every step of the pool keeps the invariant: one case per action.
LEMMA PoolStep == BatchInv /\ [BatchNext]_batch_vars => BatchInv'
<1> SUFFICES ASSUME BatchInv, [BatchNext]_batch_vars
             PROVE  BatchInv'
    BY Zenon
<1>1. ASSUME NEW t \in DiskThreads, Down(t) PROVE BatchInv'
  BY <1>1, DownStep, Zenon
<1>2. ASSUME NEW t \in DiskThreads, Scan(t) PROVE BatchInv'
  <2>1. scan_pos[t] \in 1..N
    BY <1>2, NoneExhausted, PoolAssumption
       DEF ClaimSucceeds, BatchInv, BatchTypes, Scan
  <2>2. CASE scan_pos[t] \in taken
    BY <1>2, <2>1, <2>2, PassStep, PoolAssumption, SMTT(30) DEF Scan
  <2>3. CASE scan_pos[t] \notin taken
    BY <1>2, <2>1, <2>3, ClaimStep, PoolAssumption DEF Scan
  <2> QED BY <2>2, <2>3, Zenon
<1>3. ASSUME NEW b \in 1..N, FreeBatch(b) PROVE BatchInv'
  BY <1>3, FreeStep, Zenon
<1>4. CASE Up
  <2>1. BatchTypes'
    BY <1>4 DEF Up, BatchInv, BatchTypes
  <2>2. Matched'
    BY <1>4, Zenon DEF Up, BatchInv, Matched, Scanning, FreeFrom
  <2>3. Scanning(1)' = Scanning(1) /\ FreeFrom(1)' = FreeFrom(1)
    BY <1>4, Zenon DEF Up, Scanning, FreeFrom
  <2>4. Cardinality(Scanning(1)) \in Nat
    BY Finite, FS_CardinalityType, PoolAssumption DEF BatchInv
  <2>5. TokensExact'
    BY <1>4, <2>3, <2>4 DEF Up, BatchInv, BatchTypes, TokensExact
  <2> QED BY <2>1, <2>2, <2>5, Zenon DEF BatchInv
<1>6. CASE Restart
  <2>1. BatchTypes'
    BY <1>6, PoolAssumption DEF Restart, BatchTypes
  <2>2. ASSUME NEW p \in 1..N + 1
        PROVE  /\ Cardinality(Scanning(p)') = 0
               /\ Cardinality(FreeFrom(p)') \in Nat
    <3>1. Scanning(p)' = {}
      BY <1>6, PoolAssumption DEF Restart, Scanning
    <3>2. FreeFrom(p)' = p..N
      BY <1>6, Zenon DEF Restart, FreeFrom
    <3> QED BY <3>1, <3>2, FS_EmptySet, FS_Interval, FS_CardinalityType,
               PoolAssumption
  <2>3. Matched'
    BY <2>2 DEF Matched
  <2>4. FreeFrom(1)' = 1..N
    BY <1>6, Zenon DEF Restart, FreeFrom
  <2>5. Cardinality(1..N) = N
    BY FS_Interval, PoolAssumption
  <2>6. 1 \in 1..N + 1
    BY PoolAssumption
  <2>7. TokensExact'
    BY <1>6, <2>2, <2>4, <2>5, <2>6, PoolAssumption, SMTT(30)
       DEF TokensExact, Restart
  <2> QED BY <2>1, <2>3, <2>7, Zenon DEF BatchInv
<1>5. CASE UNCHANGED batch_vars
  BY <1>5, Zenon
     DEF batch_vars, BatchInv, BatchTypes, Matched, TokensExact, Scanning,
         FreeFrom
<1> QED BY <1>1, <1>2, <1>3, <1>4, <1>5, <1>6, ZenonT(30) DEF BatchNext

(* task_disk_claim_batch always returns a batch: the NULL its callers turn   *)
(* into an I/O error does not occur, whatever the number of batches and      *)
(* threads.                                                                  *)
THEOREM ClaimAlwaysSucceeds == BatchSafety => []ClaimSucceeds
  BY PoolInit, PoolStep, NoneExhausted, PTL DEF BatchSafety
============================================================================
