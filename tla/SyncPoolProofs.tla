--------------------------- MODULE SyncPoolProofs ---------------------------
(***************************************************************************)
(* A mutex of the pool has one token, and a post of a semaphore reaches    *)
(* the thread that waits for it, for any number of slots and threads.      *)
(***************************************************************************)
EXTENDS SyncPool, TLAPS

InDown == {"down", "register", "retry", "wait", "deregister", "free"}
InUp == {"posted", "signal"}
InMutex == {"lock", "own", "unlock"}
Labels == {"idle"} \cup InDown \cup InUp \cup InMutex

SemType == [PoolSlots -> [count : Int, waiters : Int, by : Callers \cup {NoOne},
                          due : BOOLEAN]]
MutexType == [PoolSlots -> [owner : Callers \cup {NoOne}, count : Int,
                            recursive : BOOLEAN]]
CallType == [Callers -> [pc : Labels, slot : PoolSlots \cup {0}]]

PoolType ==
    /\ kind \in [PoolSlots -> {"free", "sem", "mutex"}]
    /\ token \in [PoolSlots -> BOOLEAN]
    /\ sem \in SemType /\ mutex \in MutexType /\ calls \in CallType

(* Who may touch a slot: the thread that allocated its semaphore is the    *)
(* only one in task_sem_down, threads in a mutex operation see a mutex,    *)
(* and a thread in task_sem_up sees the semaphore it posted or is known to *)
(* be late.                                                                *)
SlotUse ==
    \A t \in Callers :
        /\ calls[t].pc # "idle" => calls[t].slot \in PoolSlots
        /\ calls[t].pc \in InDown =>
              kind[calls[t].slot] = "sem" /\ sem[calls[t].slot].by = t
        /\ calls[t].pc \in InMutex => kind[calls[t].slot] = "mutex"
        /\ calls[t].pc \in InUp => kind[calls[t].slot] = "sem" \/ t \in stale

\* A thread about to give the token back is no longer the owner.
Yielded == \A t \in Callers : calls[t].pc = "unlock" => mutex[calls[t].slot].owner # t

PInv == PoolType /\ SlotUse /\ Yielded /\ MutexHasOneToken

----------------------------------------------------------------------------
(* What the pieces of an action do to the state                            *)

\* Only thread t moves: to label l, in slot s.
Moves(t, l, s) ==
    /\ calls' \in CallType
    /\ calls'[t].pc = l /\ calls'[t].slot = s
    /\ \A u \in Callers : u # t => calls'[u] = calls[u]

\* The three ways an operation goes on move the calling thread only.
LEMMA CallMoves ==
    ASSUME calls \in CallType, NEW t \in Callers, NEW l \in Labels, NEW s \in PoolSlots
    PROVE  /\ StepTo(t, l) => Moves(t, l, calls[t].slot)
           /\ Enter(t, l, s) => Moves(t, l, s)
           /\ Leave(t) => Moves(t, "idle", 0)
<1> USE DEF Moves, CallType
<1>1. ASSUME StepTo(t, l) PROVE Moves(t, l, calls[t].slot)
  <2>1. calls[t] \in [pc : Labels, slot : PoolSlots \cup {0}]
    BY Zenon
  <2>2. [calls[t] EXCEPT !.pc = l] \in [pc : Labels, slot : PoolSlots \cup {0}]
    BY <2>1, Zenon
  <2>3. calls' = [calls EXCEPT ![t] = [calls[t] EXCEPT !.pc = l]]
    BY <1>1, Zenon DEF StepTo
  <2> QED
    BY <2>1, <2>2, <2>3, Zenon
<1>2. ASSUME Enter(t, l, s) PROVE Moves(t, l, s)
  BY <1>2, Zenon DEF Enter
<1>3. ASSUME Leave(t) PROVE Moves(t, "idle", 0)
  BY <1>3, Zenon DEF Leave, NoCall, Labels
<1> QED
  BY <1>1, <1>2, <1>3, Zenon

\* Counting does not change whose the semaphore is.
SemOwnersKept == sem' \in SemType /\ \A x \in PoolSlots : sem'[x].by = sem[x].by

\* task_sem_up and task_sem_down change counts, never the owner.
LEMMA SemCounts ==
    ASSUME sem \in SemType, NEW s \in PoolSlots, NEW d \in Int
    PROVE  /\ sem' = [sem EXCEPT ![s].count = @ + d] => SemOwnersKept
           /\ sem' = [sem EXCEPT ![s].waiters = @ + d] => SemOwnersKept
           /\ sem' = [sem EXCEPT ![s].count = @ + d, ![s].due = FALSE] => SemOwnersKept
<1> DEFINE R == [count : Int, waiters : Int, by : Callers \cup {NoOne}, due : BOOLEAN]
<1>0. sem \in [PoolSlots -> R] /\ sem[s] \in R
  BY Zenon DEF SemType
<1>1. ASSUME NEW r \in R, r.by = sem[s].by, sem' = [sem EXCEPT ![s] = r]
      PROVE  SemOwnersKept
  BY <1>0, <1>1, Zenon DEF SemOwnersKept, SemType
<1> DEFINE a == [sem[s] EXCEPT !.count = sem[s].count + d]
           b == [sem[s] EXCEPT !.waiters = sem[s].waiters + d]
           c == [a EXCEPT !.due = FALSE]
<1>2. a \in R /\ a.by = sem[s].by
  BY <1>0
<1>3. b \in R /\ b.by = sem[s].by
  BY <1>0
<1>4. c \in R /\ c.by = sem[s].by
  BY <1>2, Zenon
<1>5. sem' = [sem EXCEPT ![s].count = @ + d] => sem' = [sem EXCEPT ![s] = a]
  BY <1>0, Zenon
<1>6. sem' = [sem EXCEPT ![s].waiters = @ + d] => sem' = [sem EXCEPT ![s] = b]
  BY <1>0, Zenon
<1>7. sem' = [sem EXCEPT ![s].count = @ + d, ![s].due = FALSE]
        => sem' = [sem EXCEPT ![s] = c]
  BY <1>0, Zenon
<1> HIDE DEF a, b, c, R
<1> QED
  BY <1>1, <1>2, <1>3, <1>4, <1>5, <1>6, <1>7, Zenon

\* The use thread t makes of slot s at label l is a right one.
UsesWell(t, l, s) ==
    /\ l # "idle" => s \in PoolSlots
    /\ l \in InDown => kind[s] = "sem" /\ sem[s].by = t
    /\ l \in InMutex => kind[s] = "mutex"
    /\ l \in InUp => kind[s] = "sem" \/ t \in stale'

\* A thread that moves on keeps the slots' use, if its own use is right.
LEMMA UseKept ==
    ASSUME PoolType, SlotUse, NEW t \in Callers, NEW l \in Labels, NEW s,
           Moves(t, l, s), SemOwnersKept, kind' = kind,
           \A u \in stale : u # t => u \in stale', UsesWell(t, l, s)
    PROVE  SlotUse'
<1> SUFFICES ASSUME NEW u \in Callers
             PROVE  /\ calls'[u].pc # "idle" => calls'[u].slot \in PoolSlots
                    /\ calls'[u].pc \in InDown =>
                         kind'[calls'[u].slot] = "sem" /\ sem'[calls'[u].slot].by = u
                    /\ calls'[u].pc \in InMutex => kind'[calls'[u].slot] = "mutex"
                    /\ calls'[u].pc \in InUp => kind'[calls'[u].slot] = "sem" \/ u \in stale'
  BY Zenon DEF SlotUse
<1>1. CASE u = t
  BY <1>1, Zenon DEF Moves, UsesWell, SemOwnersKept, InDown, InUp, InMutex
<1>2. CASE u # t
  <2>1. calls'[u] = calls[u]
    BY <1>2, Zenon DEF Moves
  <2> QED
    BY <1>2, <2>1 DEF SlotUse, SemOwnersKept, InDown, InUp, InMutex
<1> QED
  BY <1>1, <1>2, Zenon

Taken == {"own", "unlock"}

\* A thread outside the token's steps leaves the holders of each mutex alone.
LEMMA HoldersKept ==
    ASSUME NEW t \in Callers, NEW l, NEW s, Moves(t, l, s), mutex' = mutex,
           calls[t].pc \notin Taken, l \notin Taken, NEW x \in PoolSlots
    PROVE  Holders(x)' = Holders(x)
<1>1. ASSUME NEW u \in Callers PROVE u \in Holders(x)' <=> u \in Holders(x)
  <2>1. CASE u = t
    BY <2>1, Zenon DEF Moves, Holders, Taken
  <2>2. CASE u # t
    BY <2>2, Zenon DEF Moves, Holders
  <2> QED
    BY <2>1, <2>2, Zenon
<1> QED
  BY <1>1, Zenon DEF Holders

\* A mutex whose Notification and holders are as before has its one token.
LEMMA TokenKept ==
    ASSUME MutexHasOneToken,
           \A x \in PoolSlots : kind'[x] = "mutex" /\ x \notin late' =>
              /\ kind[x] = "mutex" /\ x \notin late
              /\ token'[x] = token[x] /\ Holders(x)' = Holders(x)
    PROVE  MutexHasOneToken'
  BY Zenon DEF MutexHasOneToken

\* Nobody becomes the owner while giving the token back.
LEMMA YieldKept ==
    ASSUME PInv,
           \A u \in Callers : calls'[u] = calls[u] \/ calls'[u].pc # "unlock",
           \A u \in Callers, x \in PoolSlots :
              calls[u].pc = "unlock" /\ calls[u].slot = x /\ mutex'[x].owner = u
                 => mutex[x].owner = u
    PROVE  Yielded'
<1> SUFFICES ASSUME NEW u \in Callers, calls'[u].pc = "unlock"
             PROVE  mutex'[calls'[u].slot].owner # u
  BY Zenon DEF Yielded
<1>1. calls'[u] = calls[u]
  BY Zenon
<1>2. calls[u].slot \in PoolSlots
  BY <1>1, Zenon DEF PInv, SlotUse
<1>3. mutex[calls[u].slot].owner # u
  BY <1>1, Zenon DEF PInv, Yielded
<1> QED
  BY <1>1, <1>2, <1>3, Zenon

\* task_sem_up and task_sem_down, up to the wait: no Notification changes.
LEMMA QuietStep ==
    ASSUME PInv, NEW t \in Callers, NEW l \in Labels, NEW s,
           Moves(t, l, s), SemOwnersKept, UNCHANGED <<kind, token, mutex, late>>,
           \A u \in stale : u # t => u \in stale', UsesWell(t, l, s),
           calls[t].pc \notin Taken, l \notin Taken
    PROVE  PInv'
<1>1. PoolType'
  BY Zenon DEF PInv, PoolType, Moves, SemOwnersKept
<1>2. SlotUse'
  BY UseKept, Zenon DEF PInv
<1>3. MutexHasOneToken'
  BY HoldersKept, TokenKept, Zenon DEF PInv
<1>4. Yielded'
  BY YieldKept, Zenon DEF Moves, Taken
<1> QED
  BY <1>1, <1>2, <1>3, <1>4, Zenon DEF PInv

----------------------------------------------------------------------------
(* Semaphore operations                                                    *)

\* Leaving the semaphores alone leaves their owners.
LEMMA SemSame == ASSUME PInv, sem' = sem PROVE SemOwnersKept
  BY Zenon DEF PInv, PoolType, SemOwnersKept

\* task_sem_up up to its signal.
LEMMA UpKeeps ==
    ASSUME PInv, NEW t \in Callers
    PROVE  /\ \A s \in PoolSlots : SemUp(t, s) => PInv'
           /\ SemUpTest(t) => PInv'
           /\ SemUpSignal(t) => PInv'
<1> USE DEF Labels, InDown, InUp, InMutex, Taken
<1>0. calls \in CallType /\ sem \in SemType /\ t \in Callers
  BY Zenon DEF PInv, PoolType
<1>1. ASSUME NEW s \in PoolSlots, SemUp(t, s) PROVE PInv'
  <2>1. Moves(t, "posted", s)
    BY <1>0, <1>1, CallMoves, Zenon DEF SemUp
  <2>2. SemOwnersKept
    <3>1. 1 \in Int /\ sem' = [sem EXCEPT ![s].count = @ + 1, ![s].due = FALSE]
      BY <1>1 DEF SemUp
    <3> QED
      BY <1>0, <3>1, SemCounts, Zenon
  <2>3. UsesWell(t, "posted", s) /\ calls[t].pc \notin Taken
    BY <1>1, Zenon DEF UsesWell, SemUp, InStep
  <2>4. UNCHANGED <<kind, token, mutex, late, stale>>
    BY <1>1, Zenon DEF SemUp
  <2> QED
    BY <2>1, <2>2, <2>3, <2>4, QuietStep, Zenon
<1>2. ASSUME SemUpTest(t) PROVE PInv'
  <2>1. calls[t].pc = "posted" /\ UNCHANGED <<kind, token, sem, mutex, late>>
    BY <1>2, Zenon DEF SemUpTest, InStep
  <2>2. calls[t].slot \in PoolSlots /\ (kind[calls[t].slot] = "sem" \/ t \in stale)
    BY <2>1, Zenon DEF PInv, SlotUse
  <2>3. SemOwnersKept
    BY <2>1, SemSame, Zenon
  <2>4. CASE StepTo(t, "signal") /\ UNCHANGED stale
    <3>1. Moves(t, "signal", calls[t].slot)
      BY <1>0, <2>2, <2>4, CallMoves, Zenon
    <3>2. UsesWell(t, "signal", calls[t].slot)
      BY <2>2, <2>4, Zenon DEF UsesWell
    <3> QED
      BY <2>1, <2>3, <2>4, <3>1, <3>2, QuietStep
  <2>5. CASE Leave(t) /\ stale' = stale \ {t}
    <3>1. Moves(t, "idle", 0)
      BY <1>0, <2>2, <2>5, CallMoves, Zenon
    <3>2. UsesWell(t, "idle", 0)
      BY Zenon DEF UsesWell
    <3> QED
      BY <2>1, <2>3, <2>5, <3>1, <3>2, QuietStep, Zenon
  <2> QED
    BY <1>2, <2>4, <2>5, Zenon DEF SemUpTest
<1>3. ASSUME SemUpSignal(t) PROVE PInv'
  <2> DEFINE s == calls[t].slot
  <2>1. calls[t].pc = "signal" /\ UNCHANGED <<kind, sem, mutex>> /\ stale' = stale \ {t}
    BY <1>3, Zenon DEF SemUpSignal, InStep
  <2>2. s \in PoolSlots /\ (kind[s] = "sem" \/ t \in stale)
    BY <2>1, Zenon DEF PInv, SlotUse
  <2>3. Moves(t, "idle", 0)
    BY <1>0, <1>3, <2>2, CallMoves, Zenon DEF SemUpSignal
  <2>4. SemOwnersKept
    BY <2>1, SemSame, Zenon
  <2>5. PoolType'
    BY <1>3, <2>1, <2>2, <2>3, Zenon DEF SemUpSignal, PInv, PoolType, Moves
  <2>6. SlotUse'
    BY <2>1, <2>3, <2>4, UseKept, Zenon DEF PInv, UsesWell
  <2>7. \A x \in PoolSlots : Holders(x)' = Holders(x)
    BY <2>1, <2>3, HoldersKept, Zenon
  <2>8. ASSUME NEW x \in PoolSlots, kind'[x] = "mutex", x \notin late'
        PROVE  kind[x] = "mutex" /\ x \notin late /\ token'[x] = token[x]
    BY <1>3, <2>1, <2>2, <2>8, Zenon DEF SemUpSignal, PInv, PoolType
  <2>9. MutexHasOneToken'
    BY <2>7, <2>8, TokenKept, Zenon DEF PInv
  <2>10. Yielded'
    BY <2>1, <2>3, YieldKept, Zenon DEF Moves
  <2> QED
    BY <2>5, <2>6, <2>9, <2>10, Zenon DEF PInv
<1> QED
  BY <1>1, <1>2, <1>3, Zenon

\* task_sem_down up to its return.
LEMMA DownKeeps ==
    ASSUME PInv, NEW t \in Callers,
           \/ SemDown(t) \/ SemRegister(t) \/ SemRetry(t) \/ SemWait(t)
           \/ SemDeregister(t)
    PROVE  PInv'
<1> USE DEF Labels, InDown, InUp, InMutex, Taken
<1> DEFINE s == calls[t].slot
<1>0. calls \in CallType /\ sem \in SemType /\ t \in Callers
  BY Zenon DEF PInv, PoolType
<1>1. calls[t].pc \in InDown /\ UNCHANGED <<kind, mutex, stale, late>>
  BY Zenon
     DEF SemDown, SemRegister, SemRetry, SemWait, SemDeregister, TryDown,
         InStep
<1>2. s \in PoolSlots /\ kind[s] = "sem" /\ sem[s].by = t
  BY <1>1, Zenon DEF PInv, SlotUse
<1>3. \E l \in InDown : StepTo(t, l)
  BY Zenon DEF SemDown, SemRegister, SemRetry, SemWait, SemDeregister, TryDown
<1>4. PICK l \in InDown : Moves(t, l, s)
  BY <1>0, <1>2, <1>3, CallMoves, Zenon
<1>5. SemOwnersKept
  <2>1. 1 \in Int /\ -1 \in Int
    OBVIOUS
  <2>2. CASE sem' = sem
    BY <2>2, SemSame, Zenon
  <2>3. CASE sem' = [sem EXCEPT ![s].count = @ - 1]
    <3>1. sem' = [sem EXCEPT ![s].count = @ + (-1)]
      BY <1>0, <1>2, <2>3, Zenon DEF SemType
    <3> QED
      BY <1>0, <1>2, <2>1, <3>1, SemCounts, Zenon
  <2>4. CASE sem' = [sem EXCEPT ![s].waiters = @ + 1]
    BY <1>0, <1>2, <2>1, <2>4, SemCounts, Zenon
  <2>5. CASE sem' = [sem EXCEPT ![s].waiters = @ - 1]
    <3>1. sem' = [sem EXCEPT ![s].waiters = @ + (-1)]
      BY <1>0, <1>2, <2>5, Zenon DEF SemType
    <3> QED
      BY <1>0, <1>2, <2>1, <3>1, SemCounts, Zenon
  <2> QED
    BY <2>2, <2>3, <2>4, <2>5, Zenon DEF SemDown, SemRegister, SemRetry, SemWait,
       SemDeregister, TryDown
<1>6. UsesWell(t, l, s)
  BY <1>2, <1>4, Zenon DEF UsesWell
<1>7. CASE token' = token
  BY <1>1, <1>4, <1>5, <1>6, <1>7, QuietStep, ZenonT(30)
<1>8. CASE token' = [token EXCEPT ![s] = FALSE]
  <2>1. PoolType'
    BY <1>1, <1>4, <1>5, <1>8, Zenon DEF PInv, PoolType, Moves, SemOwnersKept
  <2>2. SlotUse'
    BY <1>1, <1>4, <1>5, <1>6, UseKept, Zenon DEF PInv
  <2>3. \A x \in PoolSlots : Holders(x)' = Holders(x)
    BY <1>1, <1>4, HoldersKept, Zenon
  <2>4. \A x \in PoolSlots : kind'[x] = "mutex" => token'[x] = token[x]
    BY <1>1, <1>2, <1>8, Zenon DEF PInv, PoolType
  <2>5. MutexHasOneToken'
    BY <1>1, <2>3, <2>4, TokenKept, Zenon DEF PInv
  <2>6. Yielded'
    BY <1>1, <1>4, YieldKept, Zenon DEF Moves
  <2> QED
    BY <2>1, <2>2, <2>5, <2>6, Zenon DEF PInv
<1> QED
  BY <1>7, <1>8, Zenon
     DEF SemDown, SemRegister, SemRetry, SemWait, SemDeregister, TryDown

----------------------------------------------------------------------------
(* Allocation and release                                                  *)

\* A slot that nobody uses but late posters can be given back.
LEMMA ReleaseKeeps ==
    ASSUME PInv, NEW s \in PoolSlots, Release(s), UNCHANGED <<sem, mutex>>,
           calls' \in CallType,
           \A u \in Callers : calls'[u] = calls[u]
                              \/ (calls'[u] = NoCall /\ calls[u].slot = s),
           \A u \in Callers : calls[u].slot = s /\ calls[u].pc # "idle"
                                => calls'[u] = NoCall \/ calls[u].pc \in InUp
    PROVE  PInv'
<1> USE DEF InDown, InUp, InMutex
<1>1. PoolType'
  BY Zenon DEF PInv, PoolType, Release
<1>2. SlotUse'
  <2> SUFFICES ASSUME NEW u \in Callers, calls'[u] = calls[u], calls[u].pc # "idle"
               PROVE  /\ calls[u].slot \in PoolSlots
                      /\ calls[u].pc \in InDown =>
                           kind'[calls[u].slot] = "sem" /\ sem'[calls[u].slot].by = u
                      /\ calls[u].pc \in InMutex => kind'[calls[u].slot] = "mutex"
                      /\ calls[u].pc \in InUp => kind'[calls[u].slot] = "sem" \/ u \in stale'
    BY DEF SlotUse, NoCall
  <2>1. CASE calls[u].slot = s
    <3>1. calls[u].pc \in InUp
      BY <2>1 DEF NoCall
    <3>2. u \in stale'
      BY <2>1, <3>1, Zenon DEF Release, Posters
    <3> QED
      BY <2>1, <3>1, <3>2, Zenon
  <2>2. CASE calls[u].slot # s
    <3>1. kind'[calls[u].slot] = kind[calls[u].slot]
      BY <2>2, Zenon DEF PInv, SlotUse, PoolType, Release
    <3> QED
      BY <3>1, Zenon DEF PInv, SlotUse, Release
  <2> QED
    BY <2>1, <2>2, Zenon
<1>3. ASSUME NEW x \in PoolSlots, kind'[x] = "mutex", x \notin late'
      PROVE  /\ kind[x] = "mutex" /\ x \notin late
             /\ token'[x] = token[x] /\ Holders(x)' = Holders(x)
  <2>1. x # s /\ kind[x] = "mutex" /\ x \notin late /\ token'[x] = token[x]
    BY <1>3, Zenon DEF Release, PInv, PoolType
  <2>2. ASSUME NEW u \in Callers, calls[u].slot = x, calls[u].pc \in Taken
        PROVE  calls'[u] = calls[u]
    BY <2>1, <2>2, Zenon
  <2> QED
    BY <2>1, <2>2 DEF Holders, Taken, NoCall
<1>4. MutexHasOneToken'
  BY <1>3, TokenKept, Zenon DEF PInv
<1>5. Yielded'
  BY YieldKept DEF NoCall
<1> QED
  BY <1>1, <1>2, <1>4, <1>5, Zenon DEF PInv

\* task_sem_free, after task_sem_down.
LEMMA SemFreeKeeps == ASSUME PInv, NEW t \in Callers, SemFree(t) PROVE PInv'
<1> USE DEF InDown, InUp, InMutex
<1> DEFINE s == calls[t].slot
<1>0. calls \in CallType /\ calls[t].pc = "free" /\ UNCHANGED <<sem, mutex>>
  BY Zenon DEF PInv, PoolType, SemFree, InStep
<1>1. s \in PoolSlots /\ kind[s] = "sem" /\ sem[s].by = t
  BY <1>0, Zenon DEF PInv, SlotUse
<1>2. Moves(t, "idle", 0)
  BY <1>0, <1>1, CallMoves, Zenon DEF SemFree, Labels
<1>3. CASE Release(s)
  <2>1. calls' = [calls EXCEPT ![t] = NoCall]
    BY Zenon DEF SemFree, Leave
  <2>2. ASSUME NEW u \in Callers
        PROVE  calls'[u] = calls[u] \/ (calls'[u] = NoCall /\ calls[u].slot = s)
    <3>1. CASE u = t
      BY <1>0, <2>1, <3>1, Zenon DEF CallType
    <3>2. CASE u # t
      BY <1>2, <3>2, Zenon DEF Moves
    <3> QED
      BY <3>1, <3>2, Zenon
  <2>3. ASSUME NEW u \in Callers, calls[u].slot = s, calls[u].pc # "idle"
        PROVE  calls'[u] = NoCall \/ calls[u].pc \in InUp
    <3>1. CASE u = t
      BY <1>0, <2>1, <3>1, Zenon DEF CallType
    <3>2. CASE u # t
      BY <1>1, <2>3, <3>2, ZenonT(30) DEF PInv, SlotUse, PoolType, CallType, Labels
    <3> QED
      BY <3>1, <3>2, Zenon
  <2>4. calls' \in CallType
    BY <1>2, Zenon DEF Moves
  <2> QED
    BY <1>0, <1>1, <1>3, <2>2, <2>3, <2>4, ReleaseKeeps, Zenon
<1>4. CASE UNCHANGED <<kind, token, stale, late>>
  BY <1>0, <1>2, <1>4, SemSame, QuietStep, Zenon DEF UsesWell, Taken, Labels
<1> QED
  BY <1>3, <1>4, Zenon DEF SemFree

\* task_mutex_free, when no other thread is in a call on the mutex.
LEMMA MutexFreeKeeps ==
    ASSUME PInv, NEW t \in Callers, NEW s \in PoolSlots, MutexFree(t, s) PROVE PInv'
<1> USE DEF InDown, InUp, InMutex
<1>0. calls \in CallType /\ UNCHANGED <<sem, mutex, calls>> /\ kind[s] = "mutex"
  BY Zenon DEF PInv, PoolType, MutexFree
<1>1. CASE Release(s)
  <2>1. ASSUME NEW u \in Callers, calls[u].slot = s, calls[u].pc # "idle"
        PROVE  calls[u].pc \in InUp
    <3>1. calls[u].pc \notin InMutex
      BY <2>1, Zenon DEF MutexFree, Users
    <3>2. calls[u].pc \notin InDown
      BY <1>0, <2>1, Zenon DEF PInv, SlotUse
    <3> QED
      BY <1>0, <2>1, <3>1, <3>2, Zenon DEF CallType, Labels
  <2>2. /\ calls' \in CallType /\ UNCHANGED <<sem, mutex>>
        /\ \A u \in Callers : calls'[u] = calls[u]
    BY <1>0, Zenon
  <2>3. \A u \in Callers : calls[u].slot = s /\ calls[u].pc # "idle"
                             => calls'[u] = NoCall \/ calls[u].pc \in InUp
    BY <2>1, Zenon
  <2> QED
    BY <1>1, <2>2, <2>3, ReleaseKeeps, Zenon
<1>2. CASE UNCHANGED <<kind, token, stale, late>>
  BY <1>0, <1>2
     DEF PInv, PoolType, SlotUse, Yielded, MutexHasOneToken, Holders
<1> QED
  BY <1>1, <1>2, Zenon DEF MutexFree

\* A free slot has no holder and nobody in a mutex operation.
LEMMA FreeUnused ==
    ASSUME PInv, NEW s \in PoolSlots, kind[s] = "free", NEW u \in Callers,
           calls[u].slot = s, calls[u].pc # "idle"
    PROVE  calls[u].pc \in InUp /\ u \in stale
  BY DEF PInv, SlotUse, PoolType, CallType, Labels, InDown, InUp, InMutex

\* task_sem_alloc.
LEMMA SemAllocKeeps ==
    ASSUME PInv, NEW t \in Callers, NEW s \in PoolSlots, SemAlloc(t, s) PROVE PInv'
<1> USE DEF InDown, InUp, InMutex
<1>0. /\ calls \in CallType /\ calls[t].pc = "idle" /\ kind[s] = "free"
      /\ UNCHANGED <<mutex, stale, late>>
      /\ kind' = [kind EXCEPT ![s] = "sem"] /\ token' = [token EXCEPT ![s] = FALSE]
  BY Zenon DEF PInv, PoolType, SemAlloc, InStep, Claim
<1>1. Moves(t, "down", s)
  BY <1>0, CallMoves, Zenon DEF SemAlloc, Labels
<1>2. sem' \in SemType /\ sem'[s].by = t /\ \A x \in PoolSlots : x # s => sem'[x] = sem[x]
  <2> DEFINE n == NewSem(t)
  <2>1. /\ n \in [count : Int, waiters : Int, by : Callers \cup {NoOne}, due : BOOLEAN]
        /\ n.by = t
    BY DEF NewSem
  <2>2. sem' = [sem EXCEPT ![s] = n] /\ sem \in SemType
    BY Zenon DEF SemAlloc, PInv, PoolType
  <2> HIDE DEF n
  <2> QED
    BY <2>1, <2>2, Zenon DEF SemType
<1>3. PoolType'
  BY <1>0, <1>1, <1>2, Zenon DEF PInv, PoolType, Moves
<1>4. SlotUse'
  <2> SUFFICES ASSUME NEW u \in Callers
               PROVE  /\ calls'[u].pc # "idle" => calls'[u].slot \in PoolSlots
                      /\ calls'[u].pc \in InDown =>
                           kind'[calls'[u].slot] = "sem" /\ sem'[calls'[u].slot].by = u
                      /\ calls'[u].pc \in InMutex => kind'[calls'[u].slot] = "mutex"
                      /\ calls'[u].pc \in InUp => kind'[calls'[u].slot] = "sem" \/ u \in stale'
    BY Zenon DEF SlotUse
  <2>1. CASE u = t
    BY <1>0, <1>1, <1>2, <2>1, Zenon DEF Moves, PInv, PoolType
  <2>2. CASE u # t /\ calls[u].slot = s /\ calls[u].pc # "idle"
    <3>1. calls[u].pc \in InUp /\ u \in stale
      BY <1>0, <2>2, FreeUnused, Zenon
    <3> QED
      BY <1>0, <1>1, <2>2, <3>1, Zenon DEF Moves
  <2>3. CASE u # t /\ calls[u].slot # s /\ calls[u].pc # "idle"
    <3>1. calls'[u] = calls[u] /\ calls[u].slot \in PoolSlots
      BY <1>1, <2>3, Zenon DEF Moves, PInv, SlotUse
    <3>2. kind'[calls[u].slot] = kind[calls[u].slot] /\ sem'[calls[u].slot] = sem[calls[u].slot]
      BY <1>0, <1>2, <2>3, <3>1, Zenon DEF PInv, PoolType
    <3> QED
      BY <1>0, <3>1, <3>2 DEF PInv, SlotUse
  <2>4. CASE u # t /\ calls[u].pc = "idle"
    BY <1>1, <2>4, Zenon DEF Moves
  <2> QED
    BY <2>1, <2>2, <2>3, <2>4, Zenon
<1>5. \A x \in PoolSlots : Holders(x)' = Holders(x)
  BY <1>0, <1>1, HoldersKept, Zenon DEF Taken
<1>6. \A x \in PoolSlots : kind'[x] = "mutex" => kind[x] = "mutex" /\ token'[x] = token[x]
  BY <1>0, Zenon DEF PInv, PoolType
<1>7. MutexHasOneToken'
  BY <1>0, <1>5, <1>6, TokenKept, Zenon DEF PInv
<1>8. Yielded'
  BY <1>0, <1>1, YieldKept, Zenon DEF Moves
<1> QED
  BY <1>3, <1>4, <1>7, <1>8, Zenon DEF PInv

\* task_mutex_alloc: the new mutex has its token in the Notification.
LEMMA MutexAllocKeeps ==
    ASSUME PInv, NEW t \in Callers, NEW s \in PoolSlots, NEW r \in BOOLEAN,
           MutexAlloc(t, s, r)
    PROVE  PInv'
<1> USE DEF InDown, InUp, InMutex
<1>0. /\ calls \in CallType /\ kind[s] = "free" /\ UNCHANGED <<sem, calls, stale, late>>
      /\ kind' = [kind EXCEPT ![s] = "mutex"] /\ token' = [token EXCEPT ![s] = TRUE]
  BY Zenon DEF PInv, PoolType, MutexAlloc, Claim
<1>1. /\ mutex' \in MutexType /\ mutex'[s].owner = NoOne
      /\ \A x \in PoolSlots : x # s => mutex'[x] = mutex[x]
  BY DEF MutexAlloc, PInv, PoolType, MutexType, NewMutex
<1>2. PoolType'
  BY <1>0, <1>1, Zenon DEF PInv, PoolType
<1>3. SlotUse'
  <2> SUFFICES ASSUME NEW u \in Callers, calls[u].pc # "idle"
               PROVE  /\ calls[u].slot \in PoolSlots
                      /\ calls[u].pc \in InDown =>
                           kind'[calls[u].slot] = "sem" /\ sem[calls[u].slot].by = u
                      /\ calls[u].pc \in InMutex => kind'[calls[u].slot] = "mutex"
                      /\ calls[u].pc \in InUp => kind'[calls[u].slot] = "sem" \/ u \in stale
    BY <1>0 DEF SlotUse
  <2>1. CASE calls[u].slot = s
    BY <1>0, <2>1, FreeUnused, Zenon
  <2>2. CASE calls[u].slot # s
    <3>1. kind'[calls[u].slot] = kind[calls[u].slot]
      BY <1>0, <2>2, Zenon DEF PInv, SlotUse, PoolType
    <3> QED
      BY <3>1, Zenon DEF PInv, SlotUse
  <2> QED
    BY <2>1, <2>2, Zenon
<1>4. ASSUME NEW x \in PoolSlots, kind'[x] = "mutex", x \notin late'
      PROVE  IF token'[x] THEN Holders(x)' = {} ELSE \E u \in Callers : Holders(x)' = {u}
  <2>1. CASE x = s
    <3>1. token'[x]
      BY <1>0, <2>1, Zenon DEF PInv, PoolType
    <3>2. ASSUME NEW u \in Callers PROVE u \notin Holders(x)'
      <4>1. mutex'[x].owner # u
        BY <1>1, <2>1 DEF NoOne, Callers
      <4>2. ~(calls'[u].slot = x /\ calls'[u].pc \in Taken)
        BY <1>0, <2>1, FreeUnused, Zenon DEF Taken
      <4> QED
        BY <4>1, <4>2, Zenon DEF Holders, Taken
    <3> QED
      BY <3>1, <3>2, Zenon DEF Holders
  <2>2. CASE x # s
    <3>1. kind[x] = "mutex" /\ x \notin late /\ token'[x] = token[x]
      BY <1>0, <1>4, <2>2, Zenon DEF PInv, PoolType
    <3>2. Holders(x)' = Holders(x)
      BY <1>0, <1>1, <2>2, Zenon DEF Holders
    <3> QED
      BY <3>1, <3>2, Zenon DEF PInv, MutexHasOneToken
  <2> QED
    BY <2>1, <2>2, Zenon
<1>5. Yielded'
  <2>1. \A u \in Callers : mutex'[s].owner # u
    BY <1>1 DEF NoOne, Callers
  <2> QED
    BY <1>0, <1>1, <2>1, YieldKept, Zenon
<1> QED
  BY <1>2, <1>3, <1>4, <1>5, Zenon DEF PInv, MutexHasOneToken

----------------------------------------------------------------------------
(* Mutex operations                                                        *)

\* The mutexes of other slots are as they were.
OtherMutexes(s) == mutex' \in MutexType /\ \A x \in PoolSlots : x # s => mutex'[x] = mutex[x]

\* A step on the mutex of s: its token is accounted for, the others' kept.
LEMMA MutexStep ==
    ASSUME PInv, NEW t \in Callers, NEW l \in Labels, NEW s \in PoolSlots, NEW z,
           Moves(t, l, z), UNCHANGED <<kind, sem, stale, late>>, UsesWell(t, l, z),
           calls[t].pc # "idle" => calls[t].slot = s, l # "idle" => z = s,
           OtherMutexes(s), token' \in [PoolSlots -> BOOLEAN],
           \A u \in Callers : mutex'[s].owner = u => mutex[s].owner = u \/ u = t,
           l = "unlock" => mutex'[s].owner # t,
           \A x \in PoolSlots : x # s => token'[x] = token[x],
           s \notin late => IF token'[s] THEN Holders(s)' = {}
                            ELSE \E u \in Callers : Holders(s)' = {u}
    PROVE  PInv'
<1>1. PoolType'
  BY Zenon DEF PInv, PoolType, Moves, OtherMutexes
<1>2. SlotUse'
  BY SemSame, UseKept, Zenon DEF PInv
<1>3. ASSUME NEW x \in PoolSlots, x # s PROVE Holders(x)' = Holders(x)
  <2>1. ASSUME NEW u \in Callers PROVE u \in Holders(x)' <=> u \in Holders(x)
    <3>1. CASE u = t
      BY <1>3, <3>1, Zenon DEF Moves, Holders, OtherMutexes
    <3>2. CASE u # t
      BY <1>3, <3>2, Zenon DEF Moves, Holders, OtherMutexes
    <3> QED
      BY <3>1, <3>2, Zenon
  <2> QED
    BY <2>1, Zenon DEF Holders
<1>4. MutexHasOneToken'
  <2> SUFFICES ASSUME NEW x \in PoolSlots, kind'[x] = "mutex", x \notin late'
               PROVE  IF token'[x] THEN Holders(x)' = {}
                      ELSE \E u \in Callers : Holders(x)' = {u}
    BY Zenon DEF MutexHasOneToken
  <2>1. CASE x = s
    BY <2>1, Zenon
  <2>2. CASE x # s
    BY <1>3, <2>2, ZenonT(30) DEF PInv, MutexHasOneToken
  <2> QED
    BY <2>1, <2>2, Zenon
<1>5. Yielded'
  <2> SUFFICES ASSUME NEW u \in Callers, calls'[u].pc = "unlock"
               PROVE  mutex'[calls'[u].slot].owner # u
    BY Zenon DEF Yielded
  <2>1. CASE u = t
    BY <2>1, Zenon DEF Moves, Labels
  <2>2. CASE u # t
    <3>1. calls'[u] = calls[u]
      BY <2>2, Zenon DEF Moves
    <3>2. calls[u].slot \in PoolSlots /\ mutex[calls[u].slot].owner # u
      BY <3>1, Zenon DEF PInv, SlotUse, Yielded
    <3> QED
      BY <2>2, <3>1, <3>2 DEF OtherMutexes
  <2> QED
    BY <2>1, <2>2, Zenon
<1> QED
  BY <1>1, <1>2, <1>4, <1>5, Zenon DEF PInv

\* What the record operations of lock and unlock leave of a mutex.
LEMMA MutexFields ==
    ASSUME mutex \in MutexType, NEW s \in PoolSlots, NEW o \in Callers \cup {NoOne},
           NEW c \in Int
    PROVE  /\ mutex' = [mutex EXCEPT ![s].count = c]
                => OtherMutexes(s) /\ mutex'[s].owner = mutex[s].owner
           /\ mutex' = [mutex EXCEPT ![s] = [mutex[s] EXCEPT !.owner = o, !.count = c]]
                => OtherMutexes(s) /\ mutex'[s].owner = o
<1> DEFINE R == [owner : Callers \cup {NoOne}, count : Int, recursive : BOOLEAN]
<1>0. mutex \in [PoolSlots -> R] /\ mutex[s] \in R
  BY Zenon DEF MutexType
<1>1. ASSUME NEW r \in R, mutex' = [mutex EXCEPT ![s] = r]
      PROVE  OtherMutexes(s) /\ mutex'[s].owner = r.owner
  BY <1>0, <1>1, Zenon DEF OtherMutexes, MutexType
<1> DEFINE a == [mutex[s] EXCEPT !.count = c]
           b == [mutex[s] EXCEPT !.owner = o, !.count = c]
<1>2. a \in R /\ a.owner = mutex[s].owner
  BY <1>0, Zenon
<1>3. b \in R /\ b.owner = o
  BY <1>0, Zenon
<1>4. mutex' = [mutex EXCEPT ![s].count = c] => mutex' = [mutex EXCEPT ![s] = a]
  BY <1>0, Zenon
<1> HIDE DEF a, R
<1> QED
  BY <1>1, <1>2, <1>3, <1>4, Zenon

\* The holders of s, when its owner is as before and t moves outside Taken.
LEMMA OwnerSame ==
    ASSUME NEW t \in Callers, NEW l, NEW z, NEW s \in PoolSlots, Moves(t, l, z),
           mutex'[s].owner = mutex[s].owner, calls[t].pc \notin Taken, l \notin Taken
    PROVE  Holders(s)' = Holders(s)
<1>1. ASSUME NEW u \in Callers PROVE u \in Holders(s)' <=> u \in Holders(s)
  <2>1. CASE u = t
    BY <2>1, Zenon DEF Moves, Holders, Taken
  <2>2. CASE u # t
    BY <2>2, Zenon DEF Moves, Holders
  <2> QED
    BY <2>1, <2>2, Zenon
<1> QED
  BY <1>1, Zenon DEF Holders

\* task_mutex_lock: relocking, or going to wait for the token.
LEMMA LockKeeps ==
    ASSUME PInv, NEW t \in Callers, NEW s \in PoolSlots, Lock(t, s) PROVE PInv'
<1> USE DEF Labels, InDown, InUp, InMutex
<1>0. /\ calls \in CallType /\ mutex \in MutexType /\ calls[t].pc = "idle"
      /\ kind[s] = "mutex" /\ UNCHANGED <<kind, token, sem, stale, late>>
  BY Zenon DEF PInv, PoolType, Lock, InStep
<1>1. CASE Enter(t, "lock", s) /\ UNCHANGED mutex
  <2>1. Moves(t, "lock", s)
    BY <1>0, <1>1, CallMoves, Zenon
  <2> QED
    BY <1>0, <1>1, <2>1, SemSame, QuietStep, Zenon DEF UsesWell, Taken
<1>2. CASE mutex' = [mutex EXCEPT ![s].count = @ + 1] /\ UNCHANGED calls
  <2>1. mutex[s].count + 1 \in Int
    BY <1>0, SMTT(30) DEF MutexType
  <2>2. OtherMutexes(s) /\ mutex'[s].owner = mutex[s].owner
    BY <1>0, <1>2, <2>1, MutexFields, ZenonT(30) DEF NoOne
  <2>3. Moves(t, "idle", calls[t].slot)
    BY <1>0, <1>2, Zenon DEF Moves
  <2>4. Holders(s)' = Holders(s)
    BY <1>0, <2>2, <2>3, OwnerSame DEF Taken
  <2>5. UsesWell(t, "idle", calls[t].slot)
    BY Zenon DEF UsesWell
  <2> QED
    BY <1>0, <2>2, <2>3, <2>4, <2>5, MutexStep, ZenonT(30)
       DEF PInv, PoolType, MutexHasOneToken
<1> QED
  BY <1>1, <1>2, Zenon DEF Lock

\* task_mutex_lock takes the token, and becomes the owner.
LEMMA LockTakes ==
    ASSUME PInv, NEW t \in Callers, LockWait(t) \/ LockOwn(t) PROVE PInv'
<1> USE DEF Labels, InDown, InUp, InMutex
<1>0. /\ calls \in CallType /\ mutex \in MutexType /\ calls[t].pc \in {"lock", "own"}
      /\ UNCHANGED <<kind, sem, stale, late>>
  BY Zenon DEF PInv, PoolType, LockWait, LockOwn, InStep
<1>1. PICK s \in PoolSlots : s = calls[t].slot /\ kind[s] = "mutex"
  BY <1>0, ZenonT(30) DEF PInv, SlotUse
<1>2. s \notin late => IF token[s] THEN Holders(s) = {}
                       ELSE \E u \in Callers : Holders(s) = {u}
  BY <1>1, Zenon DEF PInv, MutexHasOneToken
<1>3. CASE LockWait(t)
  <2>1. /\ calls[t].pc = "lock" /\ token[s] /\ token' = [token EXCEPT ![s] = FALSE]
        /\ mutex' = mutex
    BY <1>1, <1>3, Zenon DEF LockWait, InStep
  <2>2. Moves(t, "own", s)
    BY <1>0, <1>1, <1>3, CallMoves, Zenon DEF LockWait
  <2>3. ASSUME s \notin late PROVE Holders(s)' = {t}
    <3>1. Holders(s) = {}
      BY <1>2, <2>1, <2>3, Zenon
    <3> QED
      BY <1>1, <2>1, <2>2, <3>1 DEF Holders, Moves
  <2>4. token' \in [PoolSlots -> BOOLEAN] /\ ~token'[s] /\ \A x \in PoolSlots : x # s => token'[x] = token[x]
    BY <1>1, <2>1, Zenon DEF PInv, PoolType
  <2>5. UsesWell(t, "own", s) /\ OtherMutexes(s)
    BY <1>0, <1>1, <2>1, Zenon DEF UsesWell, OtherMutexes
  <2>6. mutex'[s].owner = mutex[s].owner
    BY <2>1, Zenon
  <2> QED
    BY <1>0, <1>1, <2>2, <2>3, <2>4, <2>5, <2>6, MutexStep
<1>4. CASE LockOwn(t)
  <2>1. /\ calls[t].pc = "own" /\ token' = token
        /\ mutex' = [mutex EXCEPT ![s] = [mutex[s] EXCEPT !.owner = t, !.count = 1]]
    BY <1>1, <1>4, Zenon DEF LockOwn, InStep
  <2>2. Moves(t, "idle", 0)
    BY <1>0, <1>1, <1>4, CallMoves, Zenon DEF LockOwn
  <2>3. OtherMutexes(s) /\ mutex'[s].owner = t
    <3>1. 1 \in Int /\ t \in Callers \cup {NoOne}
      OBVIOUS
    <3> QED
      BY <1>0, <2>1, <3>1, MutexFields, Zenon
  <2>4. t \in Holders(s)
    BY <1>1, <2>1, Zenon DEF Holders
  <2>5. ASSUME s \notin late PROVE ~token[s] /\ Holders(s)' = {t}
    <3>1. ~token[s] /\ Holders(s) = {t}
      BY <1>2, <2>4, <2>5, Zenon
    <3>2. t \in Holders(s)'
      BY <2>3, Zenon DEF Holders
    <3>3. ASSUME NEW u \in Callers, u # t PROVE u \notin Holders(s)'
      BY <2>2, <2>3, <3>1, <3>3 DEF Holders, Moves
    <3> QED
      BY <3>1, <3>2, <3>3, Zenon DEF Holders
  <2>6. UsesWell(t, "idle", 0) /\ token' \in [PoolSlots -> BOOLEAN]
    BY <2>1, Zenon DEF UsesWell, PInv, PoolType
  <2> QED
    BY <1>0, <1>1, <2>1, <2>2, <2>3, <2>5, <2>6, MutexStep
<1> QED
  BY <1>3, <1>4, Zenon

\* task_mutex_unlock_checked, up to its signal.
LEMMA UnlockKeeps ==
    ASSUME PInv, NEW t \in Callers, NEW s \in PoolSlots, Unlock(t, s) PROVE PInv'
<1> USE DEF Labels, InDown, InUp, InMutex
<1>0. /\ calls \in CallType /\ mutex \in MutexType /\ calls[t].pc = "idle"
      /\ kind[s] = "mutex" /\ UNCHANGED <<kind, token, sem, stale, late>>
      /\ token \in [PoolSlots -> BOOLEAN]
  BY Zenon DEF PInv, PoolType, Unlock, InStep
<1>1. s \notin late => IF token[s] THEN Holders(s) = {}
                       ELSE \E u \in Callers : Holders(s) = {u}
  BY <1>0, Zenon DEF PInv, MutexHasOneToken
<1>2. CASE UNCHANGED <<mutex, calls>>
  <2>1. PoolType' /\ Yielded'
    BY <1>0, <1>2, Zenon DEF PInv, PoolType, Yielded
  <2>2. SlotUse'
    BY <1>0, <1>2, Zenon DEF PInv, SlotUse
  <2>3. MutexHasOneToken'
    BY <1>0, <1>2 DEF PInv, MutexHasOneToken, Holders
  <2> QED
    BY <2>1, <2>2, <2>3, Zenon DEF PInv
<1>3. CASE mutex[s].owner = t /\ mutex' = [mutex EXCEPT ![s].count = @ - 1] /\ UNCHANGED calls
  <2>1. mutex[s].count - 1 \in Int
    BY <1>0, SMTT(30) DEF MutexType
  <2>2. OtherMutexes(s) /\ mutex'[s].owner = mutex[s].owner
    BY <1>0, <1>3, <2>1, MutexFields, Zenon DEF NoOne
  <2>3. Moves(t, "idle", calls[t].slot) /\ UsesWell(t, "idle", calls[t].slot)
    BY <1>0, <1>3, Zenon DEF Moves, UsesWell
  <2>4. Holders(s)' = Holders(s)
    BY <1>0, <2>2, <2>3, OwnerSame, SMTT(30) DEF Taken
  <2> QED
    BY <1>0, <1>1, <2>2, <2>3, <2>4, MutexStep, ZenonT(30)
<1>4. CASE /\ mutex[s].owner = t
           /\ mutex' = [mutex EXCEPT ![s] = [mutex[s] EXCEPT !.owner = NoOne, !.count = 0]]
           /\ Enter(t, "unlock", s)
  <2>1. OtherMutexes(s) /\ mutex'[s].owner = NoOne
    <3>1. 0 \in Int /\ NoOne \in Callers \cup {NoOne}
      OBVIOUS
    <3> QED
      BY <1>0, <1>4, <3>1, MutexFields, Zenon
  <2>2. Moves(t, "unlock", s)
    BY <1>0, <1>4, CallMoves, Zenon
  <2>3. UsesWell(t, "unlock", s)
    BY <1>0, Zenon DEF UsesWell
  <2>4. ASSUME s \notin late PROVE ~token[s] /\ Holders(s)' = {t}
    <3>1. t \in Holders(s)
      BY <1>4, Zenon DEF Holders
    <3>2. ~token[s] /\ Holders(s) = {t}
      BY <1>1, <2>4, <3>1, Zenon
    <3>3. t \in Holders(s)'
      BY <2>2, Zenon DEF Holders, Moves
    <3>4. ASSUME NEW u \in Callers, u # t PROVE u \notin Holders(s)'
      <4>1. mutex'[s].owner # u
        BY <2>1 DEF NoOne, Callers
      <4> QED
        BY <2>2, <3>2, <3>4, <4>1, Zenon DEF Holders, Moves
    <3> QED
      BY <3>2, <3>3, <3>4, ZenonT(30) DEF Holders
  <2>5. \A u \in Callers : mutex'[s].owner # u
    BY <2>1 DEF NoOne, Callers
  <2> QED
    BY <1>0, <2>1, <2>2, <2>3, <2>4, <2>5, MutexStep, Zenon
<1> QED
  BY <1>2, <1>3, <1>4, Zenon DEF Unlock, Unlocked

\* The signal of task_mutex_unlock gives the token back.
LEMMA UnlockReturns ==
    ASSUME PInv, NEW t \in Callers, UnlockSignal(t) PROVE PInv'
<1> USE DEF Labels, InDown, InUp, InMutex
<1>0. /\ calls \in CallType /\ mutex \in MutexType /\ calls[t].pc = "unlock"
      /\ UNCHANGED <<kind, sem, mutex, stale, late>>
  BY Zenon DEF PInv, PoolType, UnlockSignal, InStep
<1>1. PICK s \in PoolSlots : s = calls[t].slot /\ kind[s] = "mutex"
  BY <1>0, ZenonT(30) DEF PInv, SlotUse
<1>2. s \notin late => IF token[s] THEN Holders(s) = {}
                       ELSE \E u \in Callers : Holders(s) = {u}
  BY <1>1, Zenon DEF PInv, MutexHasOneToken
<1>3. Moves(t, "idle", 0)
  BY <1>0, <1>1, CallMoves, Zenon DEF UnlockSignal
<1>4. t \in Holders(s)
  BY <1>0, <1>1, Zenon DEF Holders
<1>5. /\ token' \in [PoolSlots -> BOOLEAN] /\ token'[s]
      /\ \A x \in PoolSlots : x # s => token'[x] = token[x]
  BY <1>1, Zenon DEF UnlockSignal, PInv, PoolType
<1>6. ASSUME s \notin late, mutex[s].owner # t PROVE Holders(s)' = {}
  <2>1. Holders(s) = {t}
    BY <1>2, <1>4, <1>6, Zenon
  <2>2. ASSUME NEW u \in Callers PROVE u \notin Holders(s)'
    BY <1>0, <1>3, <1>6, <2>1 DEF Holders, Moves
  <2> QED
    BY <2>2, Zenon DEF Holders
<1>7. UsesWell(t, "idle", 0) /\ OtherMutexes(s)
  BY <1>0, Zenon DEF UsesWell, OtherMutexes
<1>8. mutex[s].owner # t
  BY <1>0, <1>1, Zenon DEF PInv, Yielded
<1> QED
  BY <1>0, <1>1, <1>3, <1>5, <1>6, <1>7, <1>8, MutexStep, ZenonT(30)

----------------------------------------------------------------------------
\* Every step keeps the invariant.
LEMMA PoolStep == PInv /\ [PoolNext]_pool_vars => PInv'
<1> SUFFICES ASSUME PInv, [PoolNext]_pool_vars PROVE PInv'
  BY Zenon
<1>1. ASSUME NEW t \in Callers, CallStep(t) PROVE PInv'
  BY <1>1, UpKeeps, DownKeeps, SemFreeKeeps, LockTakes, UnlockReturns, Zenon
     DEF CallStep
<1>2. ASSUME NEW t \in Callers, NEW s \in PoolSlots, Call(t, s) PROVE PInv'
  BY <1>2, UpKeeps, SemAllocKeeps, MutexAllocKeeps, MutexFreeKeeps, LockKeeps,
     UnlockKeeps, Zenon DEF Call
<1>3. CASE UNCHANGED pool_vars
  BY <1>3
     DEF pool_vars, PInv, PoolType, SlotUse, Yielded, MutexHasOneToken,
         Holders
<1> QED
  BY <1>1, <1>2, <1>3, Zenon DEF PoolNext

\* The pool starts empty.
LEMMA PoolStart == PoolInit => PInv
<1> SUFFICES ASSUME PoolInit PROVE PInv
  BY Zenon
<1>1. PoolType
  BY
     DEF PoolInit, PoolType, SemType, MutexType, CallType, NewSem, NewMutex,
         NoCall, Labels
<1>2. \A t \in Callers : calls[t] = NoCall
  BY Zenon DEF PoolInit
<1>3. SlotUse
  BY <1>2 DEF SlotUse, NoCall, InDown, InUp, InMutex
<1>4. MutexHasOneToken
  BY Zenon DEF PoolInit, MutexHasOneToken
<1>5. Yielded
  BY <1>2 DEF Yielded, NoCall
<1> QED
  BY <1>1, <1>3, <1>4, <1>5, Zenon DEF PInv

(* The invariant of the pool holds in every reachable state.               *)
THEOREM PoolInvariant == PoolSpec => []PInv
  BY PoolStart, PoolStep, PTL DEF PoolSpec

(* Every mutex has exactly one token, in the Notification or with one      *)
(* thread, unless a late task_sem_up signalled its slot: task_mutex_lock   *)
(* and task_mutex_unlock exclude, for any number of threads and slots.     *)
THEOREM MutexExcludes == PoolSpec => []MutexHasOneToken
  BY PoolInvariant, PTL DEF PInv

----------------------------------------------------------------------------
(* A post is not lost.                                                     *)

Counted == {"retry", "wait", "deregister"}

\* sem->waiters is 1 while the thread in task_sem_down is registered, else 0.
WaitCounts ==
    \A t \in Callers : calls[t].pc \in InDown =>
        sem[calls[t].slot].waiters = IF calls[t].pc \in Counted THEN 1 ELSE 0

WInv == PInv /\ WaitCounts /\ PostNotLost

WaitsAt(s) == \E t \in Callers : calls[t].pc = "wait" /\ calls[t].slot = s
NotLostAt(s) == sem[s].count > 0 /\ WaitsAt(s) => token[s] \/ Posters(s) # {}

\* The invariant is about each slot by itself.
LEMMA PerSlot == PostNotLost <=> \A s \in PoolSlots : NotLostAt(s)
  BY Zenon DEF PostNotLost, NotLostAt, WaitsAt, InStep

\* The threads in task_sem_down other than t find their waiters unchanged.
WaitersKept(t) ==
    \A u \in Callers : u # t /\ calls[u].pc \in InDown =>
        sem'[calls[u].slot].waiters = sem[calls[u].slot].waiters

\* What is known of the step by which thread t moves to l in slot z.
StepFacts(t, l, z) ==
    /\ Moves(t, l, z) /\ WaitersKept(t)
    /\ l \in InDown => sem'[z].waiters = IF l \in Counted THEN 1 ELSE 0

\* A step of t that leaves what the wait at slot x depends on.
SlotKept(t, l, z, x) ==
    /\ sem'[x].count > 0 => sem[x].count > 0
    /\ token[x] => token'[x]
    /\ calls[t].pc \in InUp => calls[t].slot # x
    /\ l # "wait" \/ z # x

\* Or one that answers for slot x itself.
SlotAnswered(t, l, z, x) ==
    \/ ~(sem'[x].count > 0)
    \/ ~WaitsAt(x)'
    \/ token'[x]
    \/ l \in InUp /\ z = x

\* A step with these facts keeps the invariant.
LEMMA WaitStep ==
    ASSUME WInv, PInv', NEW t \in Callers, NEW l, NEW z, StepFacts(t, l, z),
           \A x \in PoolSlots : SlotKept(t, l, z, x) \/ SlotAnswered(t, l, z, x)
    PROVE  WInv'
<1>1. WaitCounts'
  <2> SUFFICES ASSUME NEW u \in Callers, calls'[u].pc \in InDown
               PROVE  sem'[calls'[u].slot].waiters = IF calls'[u].pc \in Counted THEN 1 ELSE 0
    BY Zenon DEF WaitCounts
  <2>1. CASE u = t
    BY <2>1, Zenon DEF StepFacts, Moves
  <2>2. CASE u # t
    BY <2>2, Zenon DEF StepFacts, Moves, WaitersKept, WInv, WaitCounts
  <2> QED
    BY <2>1, <2>2, Zenon
<1>2. ASSUME NEW x \in PoolSlots PROVE NotLostAt(x)'
  <2>1. CASE SlotAnswered(t, l, z, x)
    <3>1. CASE l \in InUp /\ z = x
      <4>1. t \in Posters(x)'
        BY <3>1, Zenon DEF Posters, StepFacts, Moves, InUp
      <4> QED
        BY <4>1, Zenon DEF NotLostAt
    <3> QED
      BY <2>1, <3>1, Zenon DEF SlotAnswered, NotLostAt
  <2>2. CASE SlotKept(t, l, z, x)
    <3>1. WaitsAt(x)' => WaitsAt(x)
      BY <2>2, Zenon DEF SlotKept, WaitsAt, StepFacts, Moves
    <3>2. ASSUME NEW u \in Posters(x) PROVE u \in Posters(x)'
      BY <2>2, <3>2, Zenon DEF SlotKept, Posters, StepFacts, Moves, InUp
    <3>3. NotLostAt(x)
      BY PerSlot, Zenon DEF WInv
    <3> QED
      BY <2>2, <3>1, <3>2, <3>3, Zenon DEF SlotKept, NotLostAt
  <2> QED
    BY <2>1, <2>2, Zenon
<1>3. PostNotLost'
  BY <1>2, Zenon DEF PostNotLost, NotLostAt, WaitsAt, InStep
<1> QED
  BY <1>1, <1>3, Zenon DEF WInv

\* Only the thread that allocated a semaphore is in task_sem_down on it.
LEMMA OnlyOwner ==
    ASSUME PInv, NEW t \in Callers, NEW u \in Callers, calls[t].pc \in InDown,
           calls[u].pc \in InDown, calls[u].slot = calls[t].slot
    PROVE  u = t
  BY Zenon DEF PInv, SlotUse

\* A thread waits only at the slot of a semaphore.
LEMMA WaitsOnSem == ASSUME PInv, NEW s \in PoolSlots, WaitsAt(s) PROVE kind[s] = "sem"
  BY DEF PInv, SlotUse, WaitsAt, InDown

\* The counts of sem after one field of slot s has changed.
LEMMA SemChanges ==
    ASSUME sem \in SemType, NEW s \in PoolSlots, NEW d \in Int
    PROVE  /\ sem' = [sem EXCEPT ![s].count = @ + d]
                 => /\ \A x \in PoolSlots : sem'[x].waiters = sem[x].waiters
                    /\ \A x \in PoolSlots : x # s => sem'[x].count = sem[x].count
                    /\ sem'[s].count = sem[s].count + d
           /\ sem' = [sem EXCEPT ![s].waiters = @ + d]
                 => /\ \A x \in PoolSlots : sem'[x].count = sem[x].count
                    /\ \A x \in PoolSlots : x # s => sem'[x].waiters = sem[x].waiters
                    /\ sem'[s].waiters = sem[s].waiters + d
           /\ sem' = [sem EXCEPT ![s].count = @ + d, ![s].due = FALSE]
                 => /\ \A x \in PoolSlots : sem'[x].waiters = sem[x].waiters
                    /\ \A x \in PoolSlots : x # s => sem'[x].count = sem[x].count
<1> DEFINE R == [count : Int, waiters : Int, by : Callers \cup {NoOne}, due : BOOLEAN]
<1>0. sem \in [PoolSlots -> R] /\ sem[s] \in R
  BY Zenon DEF SemType
<1> DEFINE a == [sem[s] EXCEPT !.count = sem[s].count + d]
           b == [sem[s] EXCEPT !.waiters = sem[s].waiters + d]
           c == [a EXCEPT !.due = FALSE]
<1>2. a.waiters = sem[s].waiters /\ a.count = sem[s].count + d
  BY <1>0, Zenon
<1>3. b.count = sem[s].count /\ b.waiters = sem[s].waiters + d
  BY <1>0, Zenon
<1>4. c.waiters = sem[s].waiters
  BY <1>0, Zenon
<1>5. sem' = [sem EXCEPT ![s].count = @ + d] => sem' = [sem EXCEPT ![s] = a]
  BY <1>0, Zenon
<1>6. sem' = [sem EXCEPT ![s].waiters = @ + d] => sem' = [sem EXCEPT ![s] = b]
  BY <1>0, Zenon
<1>7. sem' = [sem EXCEPT ![s].count = @ + d, ![s].due = FALSE]
        => sem' = [sem EXCEPT ![s] = c]
  BY <1>0, Zenon
<1> HIDE DEF a, b, c, R
<1> QED
  BY <1>0, <1>2, <1>3, <1>4, <1>5, <1>6, <1>7, ZenonT(30)

\* task_sem_up keeps the invariant.
LEMMA UpWaits ==
    ASSUME WInv, PInv', NEW t \in Callers
    PROVE  /\ \A s \in PoolSlots : SemUp(t, s) => WInv'
           /\ SemUpTest(t) => WInv'
           /\ SemUpSignal(t) => WInv'
<1> USE DEF Labels, InDown, InUp, InMutex
<1>0. PInv /\ calls \in CallType /\ sem \in SemType
  BY Zenon DEF WInv, PInv, PoolType
<1>1. ASSUME NEW s \in PoolSlots, SemUp(t, s) PROVE WInv'
  <2>1. Moves(t, "posted", s)
    BY <1>0, <1>1, CallMoves, Zenon DEF SemUp
  <2>2. /\ \A x \in PoolSlots : sem'[x].waiters = sem[x].waiters
        /\ \A x \in PoolSlots : x # s => sem'[x].count = sem[x].count
    <3>1. 1 \in Int /\ sem' = [sem EXCEPT ![s].count = @ + 1, ![s].due = FALSE]
      BY <1>1 DEF SemUp
    <3> QED
      BY <1>0, <3>1, SemChanges, Zenon
  <2>3. WaitersKept(t)
    BY <1>0, <2>2, Zenon DEF WaitersKept, PInv, SlotUse
  <2>4. calls[t].pc = "idle" /\ token' = token
    BY <1>1, Zenon DEF SemUp, InStep
  <2>5. \A x \in PoolSlots : SlotKept(t, "posted", s, x) \/ SlotAnswered(t, "posted", s, x)
    BY <2>2, <2>4, Zenon DEF SlotKept, SlotAnswered
  <2> QED
    BY <2>1, <2>3, <2>5, WaitStep, Zenon DEF StepFacts
<1>2. ASSUME SemUpTest(t) PROVE WInv'
  <2>0. calls[t].pc = "posted" /\ sem' = sem /\ token' = token
    BY <1>2, Zenon DEF SemUpTest, InStep
  <2>1. PICK s \in PoolSlots : s = calls[t].slot
    BY <1>0, <2>0, Zenon DEF PInv, SlotUse
  <2>2. WaitersKept(t)
    BY <2>0, Zenon DEF WaitersKept
  <2>3. CASE sem[s].waiters > 0 /\ StepTo(t, "signal")
    <3>1. Moves(t, "signal", s)
      BY <1>0, <2>1, <2>3, CallMoves, Zenon
    <3>2. \A x \in PoolSlots : SlotKept(t, "signal", s, x) \/ SlotAnswered(t, "signal", s, x)
      BY <2>0, <2>1, Zenon DEF SlotKept, SlotAnswered
    <3> QED
      BY <2>2, <3>1, <3>2, WaitStep, Zenon DEF StepFacts
  <2>4. CASE ~(sem[s].waiters > 0) /\ Leave(t)
    <3>1. Moves(t, "idle", 0)
      BY <1>0, <2>1, <2>4, CallMoves, Zenon
    <3>2. ~WaitsAt(s)'
      <4>1. ASSUME NEW u \in Callers, calls'[u].pc = "wait", calls'[u].slot = s PROVE FALSE
        <5>1. calls[u].pc = "wait" /\ calls[u].slot = s
          BY <3>1, <4>1, Zenon DEF Moves
        <5>2. sem[s].waiters = 1
          BY <5>1, Zenon DEF WInv, WaitCounts, Counted
        <5> QED
          BY <2>4, <5>2
      <4> QED
        BY <4>1, Zenon DEF WaitsAt
    <3>3. \A x \in PoolSlots : SlotKept(t, "idle", 0, x) \/ SlotAnswered(t, "idle", 0, x)
      BY <2>0, <2>1, <3>2, Zenon DEF SlotKept, SlotAnswered
    <3> QED
      BY <2>2, <3>1, <3>3, WaitStep, Zenon DEF StepFacts
  <2> QED
    BY <1>2, <2>1, <2>3, <2>4, Zenon DEF SemUpTest
<1>3. ASSUME SemUpSignal(t) PROVE WInv'
  <2>0. calls[t].pc = "signal" /\ sem' = sem
    BY <1>3, Zenon DEF SemUpSignal, InStep
  <2>1. PICK s \in PoolSlots : s = calls[t].slot
    BY <1>0, <2>0, Zenon DEF PInv, SlotUse
  <2>2. token'[s] /\ \A x \in PoolSlots : x # s => token'[x] = token[x]
    BY <1>0, <1>3, <2>1, Zenon DEF SemUpSignal, PInv, PoolType
  <2>3. Moves(t, "idle", 0)
    BY <1>0, <1>3, <2>1, CallMoves, Zenon DEF SemUpSignal
  <2>4. \A x \in PoolSlots : SlotKept(t, "idle", 0, x) \/ SlotAnswered(t, "idle", 0, x)
    BY <2>0, <2>1, <2>2, Zenon DEF SlotKept, SlotAnswered
  <2>5. WaitersKept(t)
    BY <2>0, Zenon DEF WaitersKept
  <2> QED
    BY <2>3, <2>4, <2>5, WaitStep, Zenon DEF StepFacts
<1> QED
  BY <1>1, <1>2, <1>3, Zenon

\* task_sem_down keeps the invariant: the token is looked for once more
\* after the thread has registered, and a signal taken is followed by a look.
LEMMA DownWaits ==
    ASSUME WInv, PInv', NEW t \in Callers,
           \/ SemDown(t) \/ SemRegister(t) \/ SemRetry(t) \/ SemWait(t)
           \/ SemDeregister(t)
    PROVE  WInv'
<1> USE DEF Labels, InDown, InUp, InMutex
<1>0. /\ PInv /\ calls \in CallType /\ sem \in SemType
      /\ calls[t].pc \in {"down", "register", "retry", "wait", "deregister"}
  BY Zenon
     DEF WInv, PInv, PoolType, SemDown, SemRegister, SemRetry, SemWait,
         SemDeregister, InStep
<1>1. PICK s \in PoolSlots : s = calls[t].slot
  BY <1>0, Zenon DEF PInv, SlotUse
<1>2. sem[s].waiters = IF calls[t].pc \in Counted THEN 1 ELSE 0
  BY <1>0, <1>1, Zenon DEF WInv, WaitCounts
<1>3. \A u \in Callers : u # t /\ calls[u].pc \in InDown =>
         calls[u].slot \in PoolSlots /\ calls[u].slot # s
  <2> SUFFICES ASSUME NEW u \in Callers, u # t, calls[u].pc \in InDown
               PROVE  calls[u].slot \in PoolSlots /\ calls[u].slot # s
    BY Zenon
  <2>1. calls[u].slot \in PoolSlots
    BY <1>0, Zenon DEF PInv, SlotUse
  <2>2. calls[t].pc \in InDown
    BY <1>0, Zenon
  <2> QED
    BY <1>0, <1>1, <2>1, <2>2, OnlyOwner, Zenon
\* Every other slot is as before.
<1>4. ASSUME NEW l \in InDown, StepTo(t, l), sem' \in SemType,
             \A x \in PoolSlots : x # s => sem'[x] = sem[x] /\ (token[x] => token'[x]),
             sem'[s].waiters = IF l \in Counted THEN 1 ELSE 0,
             SlotKept(t, l, s, s) \/ SlotAnswered(t, l, s, s)
      PROVE  WInv'
  <2>1. Moves(t, l, s)
    BY <1>0, <1>1, <1>4, CallMoves, Zenon
  <2>2. WaitersKept(t)
    BY <1>3, <1>4, Zenon DEF WaitersKept
  <2>3. \A x \in PoolSlots : SlotKept(t, l, s, x) \/ SlotAnswered(t, l, s, x)
    BY <1>0, <1>4, Zenon DEF SlotKept
  <2> QED
    BY <1>4, <2>1, <2>2, <2>3, WaitStep, Zenon DEF StepFacts
<1>5. sem' \in SemType
  BY Zenon DEF PInv, PoolType
<1>6. ASSUME NEW taken \in InDown, NEW empty \in InDown, TryDown(t, taken, empty),
             taken # "wait", taken \in Counted <=> calls[t].pc \in Counted,
             empty \in Counted <=> calls[t].pc \in Counted
      PROVE  WInv'
  <2>0. token' = token
    BY <1>6, Zenon DEF TryDown
  <2>1. CASE sem[s].count > 0
    <3>1. StepTo(t, taken) /\ sem' = [sem EXCEPT ![s].count = @ - 1]
      BY <1>1, <1>6, <2>1, Zenon DEF TryDown
    <3>2. sem'[s].waiters = sem[s].waiters /\ \A x \in PoolSlots : x # s => sem'[x] = sem[x]
      BY <1>0, <3>1, Zenon DEF SemType
    <3>3. SlotKept(t, taken, s, s)
      BY <1>0, <1>6, <2>0, <2>1, Zenon DEF SlotKept
    <3> QED
      BY <1>2, <1>4, <1>5, <1>6, <2>0, <3>1, <3>2, <3>3, Zenon
  <2>2. CASE ~(sem[s].count > 0)
    <3>1. StepTo(t, empty) /\ sem' = sem
      BY <1>1, <1>6, <2>2, Zenon DEF TryDown
    <3>2. SlotAnswered(t, empty, s, s)
      BY <2>2, <3>1, Zenon DEF SlotAnswered
    <3> QED
      BY <1>2, <1>4, <1>5, <1>6, <2>0, <3>1, <3>2, Zenon
  <2> QED
    BY <2>1, <2>2, Zenon
<1>7. CASE SemDown(t)
  BY <1>6, <1>7, Zenon DEF SemDown, InStep, Counted
<1>8. CASE SemRetry(t)
  BY <1>6, <1>8, Zenon DEF SemRetry, InStep, Counted
<1>9. CASE SemRegister(t) \/ SemDeregister(t)
  <2>1. PICK l \in {"retry", "free"} :
          /\ StepTo(t, l) /\ token' = token
          /\ sem'[s].count = sem[s].count
          /\ \A x \in PoolSlots : x # s => sem'[x] = sem[x]
          /\ IF l = "retry"
             THEN calls[t].pc = "register" /\ sem'[s].waiters = sem[s].waiters + 1
             ELSE calls[t].pc = "deregister" /\ sem'[s].waiters = sem[s].waiters - 1
    <3>1. CASE SemRegister(t)
      BY <1>0, <1>1, <3>1, ZenonT(30) DEF SemRegister, InStep, SemType
    <3>2. CASE SemDeregister(t)
      BY <1>0, <1>1, <3>2, SMTT(30) DEF SemDeregister, InStep, SemType
    <3> QED
      BY <1>9, <3>1, <3>2, Zenon
  <2>3. SlotKept(t, l, s, s)
    BY <1>0, <2>1, Zenon DEF SlotKept
  <2>4. sem'[s].waiters = IF l \in Counted THEN 1 ELSE 0
    BY <1>2, <2>1 DEF Counted
  <2> QED
    BY <1>4, <1>5, <2>1, <2>3, <2>4, Zenon
<1>10. CASE SemWait(t)
  <2>1. calls[t].pc = "wait" /\ StepTo(t, "retry") /\ sem' = sem
    BY <1>10, Zenon DEF SemWait, InStep
  <2>2. \A x \in PoolSlots : x # s => token'[x] = token[x]
    BY <1>0, <1>1, <1>10, Zenon DEF SemWait, PInv, PoolType
  <2>3. ~WaitsAt(s)'
    <3>1. Moves(t, "retry", s)
      BY <1>0, <1>1, <2>1, CallMoves, Zenon
    <3> QED
      BY <1>3, <3>1, Zenon DEF WaitsAt, Moves
  <2> QED
    BY <1>2, <1>4, <1>5, <2>1, <2>2, <2>3, Zenon DEF SlotAnswered, Counted
<1> QED
  BY <1>7, <1>8, <1>9, <1>10, Zenon

\* The other operations: where one takes the signal of a slot or drains it,
\* nobody waits there.
LEMMA OthersWait ==
    ASSUME WInv, PInv', NEW t \in Callers, NEW l \in {"idle", "lock", "own", "unlock"},
           NEW z, Moves(t, l, z), sem' = sem, calls[t].pc \notin InUp,
           \A x \in PoolSlots : (token[x] => token'[x]) \/ kind[x] # "sem" \/ ~WaitsAt(x)'
    PROVE  WInv'
<1> USE DEF InDown, InUp
<1>1. ASSUME NEW x \in PoolSlots, kind[x] # "sem" PROVE ~WaitsAt(x)'
  <2>1. WaitsAt(x)' => WaitsAt(x)
    BY Zenon DEF WaitsAt, Moves
  <2> QED
    BY <1>1, <2>1, WaitsOnSem, Zenon DEF WInv
<1>2. \A x \in PoolSlots : SlotKept(t, l, z, x) \/ SlotAnswered(t, l, z, x)
  BY <1>1, Zenon DEF SlotKept, SlotAnswered
<1> QED
  BY <1>2, WaitStep, Zenon DEF StepFacts, WaitersKept

\* Allocating a semaphore starts without a token.
LEMMA AllocWaits ==
    ASSUME WInv, PInv', NEW t \in Callers, NEW s \in PoolSlots, SemAlloc(t, s)
    PROVE  WInv'
<1> USE DEF Labels, InDown, InUp
<1>0. /\ PInv /\ calls \in CallType /\ sem \in SemType /\ calls[t].pc = "idle"
      /\ kind[s] = "free" /\ sem' = [sem EXCEPT ![s] = NewSem(t)]
      /\ token' = [token EXCEPT ![s] = FALSE] /\ token \in [PoolSlots -> BOOLEAN]
  BY Zenon DEF WInv, PInv, PoolType, SemAlloc, InStep, Claim
<1>1. Moves(t, "down", s)
  BY <1>0, CallMoves, Zenon DEF SemAlloc
<1>a. sem'[s].count = 0 /\ sem'[s].waiters = 0
  BY <1>0, Zenon DEF SemType, NewSem
<1>2. /\ sem'[s].count = 0 /\ sem'[s].waiters = 0
      /\ \A x \in PoolSlots : x # s => sem'[x] = sem[x] /\ token'[x] = token[x]
  BY <1>0, <1>a, Zenon DEF SemType
<1>3. WaitersKept(t)
  BY <1>0, <1>2 DEF WaitersKept, PInv, SlotUse
<1>4. \A x \in PoolSlots : SlotKept(t, "down", s, x) \/ SlotAnswered(t, "down", s, x)
  <2> SUFFICES ASSUME NEW x \in PoolSlots
               PROVE  SlotKept(t, "down", s, x) \/ SlotAnswered(t, "down", s, x)
    BY Zenon
  <2>1. CASE x = s
    BY <1>a, <2>1 DEF SlotAnswered
  <2>2. CASE x # s
    BY <1>0, <1>2, <2>2, Zenon DEF SlotKept
  <2> QED
    BY <2>1, <2>2, Zenon
<1> QED
  BY <1>1, <1>2, <1>3, <1>4, WaitStep, Zenon DEF StepFacts, Counted

\* Freeing a slot drains it: a semaphore has no other thread in task_sem_down.
LEMMA FreeWaits ==
    ASSUME WInv, PInv', NEW t \in Callers
    PROVE  /\ SemFree(t) => WInv'
           /\ \A s \in PoolSlots : MutexFree(t, s) => WInv'
<1> USE DEF Labels, InDown, InUp
<1>0. PInv /\ calls \in CallType /\ token \in [PoolSlots -> BOOLEAN]
  BY Zenon DEF WInv, PInv, PoolType
<1>1. ASSUME SemFree(t) PROVE WInv'
  <2>1. calls[t].pc = "free" /\ sem' = sem /\ Leave(t)
    BY <1>1, Zenon DEF SemFree, InStep
  <2>2. PICK s \in PoolSlots : s = calls[t].slot
    BY <1>0, <2>1, Zenon DEF PInv, SlotUse
  <2>3. Moves(t, "idle", 0)
    BY <1>0, <2>1, <2>2, CallMoves, Zenon
  <2>4. ~WaitsAt(s)'
    <3>1. ASSUME NEW u \in Callers, calls'[u].pc = "wait", calls'[u].slot = s PROVE FALSE
      BY <1>0, <2>1, <2>2, <2>3, <3>1, OnlyOwner, ZenonT(30) DEF Moves
    <3> QED
      BY <3>1, Zenon DEF WaitsAt
  <2>5. \A x \in PoolSlots : x # s => token'[x] = token[x]
    BY <1>0, <1>1, <2>2, Zenon DEF SemFree, Release
  <2> QED
    BY <2>1, <2>3, <2>4, <2>5, OthersWait, Zenon
<1>2. ASSUME NEW s \in PoolSlots, MutexFree(t, s) PROVE WInv'
  <2>1. /\ calls[t].pc = "idle" /\ sem' = sem /\ calls' = calls /\ kind[s] = "mutex"
    BY <1>2, Zenon DEF MutexFree, InStep
  <2>2. Moves(t, "idle", calls[t].slot)
    BY <1>0, <2>1, Zenon DEF Moves
  <2>3. \A x \in PoolSlots : x # s => token'[x] = token[x]
    BY <1>0, <1>2, Zenon DEF MutexFree, Release
  <2> QED
    BY <2>1, <2>2, <2>3, OthersWait, Zenon
<1> QED
  BY <1>1, <1>2, Zenon

\* The mutex operations keep the invariant.
LEMMA MutexWaits ==
    ASSUME WInv, PInv', NEW t \in Callers
    PROVE  /\ \A s \in PoolSlots : Lock(t, s) \/ Unlock(t, s) => WInv'
           /\ \A s \in PoolSlots, r \in BOOLEAN : MutexAlloc(t, s, r) => WInv'
           /\ LockWait(t) \/ LockOwn(t) \/ UnlockSignal(t) => WInv'
<1> USE DEF Labels, InDown, InUp, InMutex
<1>0. PInv /\ calls \in CallType /\ token \in [PoolSlots -> BOOLEAN]
  BY Zenon DEF WInv, PInv, PoolType
<1>1. ASSUME NEW s \in PoolSlots, Lock(t, s) \/ Unlock(t, s) PROVE WInv'
  <2>1. calls[t].pc = "idle" /\ UNCHANGED <<sem, token>>
    BY <1>1, Zenon DEF Lock, Unlock, InStep
  <2>2. CASE calls' = calls
    <3>1. Moves(t, "idle", calls[t].slot)
      BY <1>0, <2>1, <2>2, Zenon DEF Moves
    <3> QED
      BY <2>1, <3>1, OthersWait, Zenon
  <2>3. ASSUME NEW l \in {"lock", "unlock"}, Enter(t, l, s) PROVE WInv'
    <3>1. Moves(t, l, s)
      BY <1>0, <2>3, CallMoves, Zenon
    <3> QED
      BY <2>1, <3>1, OthersWait, Zenon
  <2> QED
    BY <1>1, <2>2, <2>3, Zenon DEF Lock, Unlock, Unlocked
<1>2. ASSUME NEW s \in PoolSlots, NEW r \in BOOLEAN, MutexAlloc(t, s, r) PROVE WInv'
  <2>1. /\ calls[t].pc = "idle" /\ UNCHANGED <<sem, calls>>
        /\ token' = [token EXCEPT ![s] = TRUE]
    BY <1>2, Zenon DEF MutexAlloc, Claim, InStep
  <2>2. Moves(t, "idle", calls[t].slot)
    BY <1>0, <2>1, Zenon DEF Moves
  <2> QED
    BY <1>0, <2>1, <2>2, OthersWait, Zenon
<1>3. ASSUME LockWait(t) \/ LockOwn(t) \/ UnlockSignal(t) PROVE WInv'
  <2>1. calls[t].pc \in InMutex /\ sem' = sem
    BY <1>3, Zenon DEF LockWait, LockOwn, UnlockSignal, InStep
  <2>a. calls[t].slot \in PoolSlots /\ kind[calls[t].slot] = "mutex"
    BY <1>0, <2>1, Zenon DEF PInv, SlotUse
  <2>2. PICK s \in PoolSlots : s = calls[t].slot /\ kind[s] = "mutex"
    BY <2>a, Zenon
  <2>3. \A x \in PoolSlots : x # s => token'[x] = token[x]
    BY <1>0, <1>3, <2>2, Zenon DEF LockWait, LockOwn, UnlockSignal
  <2>4. CASE StepTo(t, "own")
    <3>1. Moves(t, "own", s)
      BY <1>0, <2>2, <2>4, CallMoves, Zenon
    <3> QED
      BY <2>1, <2>2, <2>3, <3>1, OthersWait, Zenon
  <2>5. CASE Leave(t)
    <3>1. Moves(t, "idle", 0)
      BY <1>0, <2>2, <2>5, CallMoves, Zenon
    <3> QED
      BY <2>1, <2>2, <2>3, <3>1, OthersWait, Zenon
  <2> QED
    BY <1>3, <2>4, <2>5, Zenon DEF LockWait, LockOwn, UnlockSignal
<1> QED
  BY <1>1, <1>2, <1>3, Zenon

\* Every step keeps it.
LEMMA WaitsStep == WInv /\ PInv' /\ [PoolNext]_pool_vars => WInv'
<1> SUFFICES ASSUME WInv, PInv', [PoolNext]_pool_vars PROVE WInv'
  BY Zenon
<1>1. ASSUME NEW t \in Callers, CallStep(t) PROVE WInv'
  BY <1>1, UpWaits, DownWaits, FreeWaits, MutexWaits, Zenon DEF CallStep
<1>2. ASSUME NEW t \in Callers, NEW s \in PoolSlots, Call(t, s) PROVE WInv'
  BY <1>2, UpWaits, AllocWaits, FreeWaits, MutexWaits, Zenon DEF Call
<1>3. CASE UNCHANGED pool_vars
  BY <1>3, Zenon DEF pool_vars, WInv, WaitCounts, PostNotLost, Posters, InStep
<1> QED
  BY <1>1, <1>2, <1>3, Zenon DEF PoolNext

(* A posted token is not left behind: while the thread that allocated the  *)
(* semaphore waits, a signal is in the Notification or a task_sem_up is    *)
(* about to give it, for any number of threads and slots.                  *)
THEOREM PostReaches == PoolSpec => []PostNotLost
<1>1. PoolInit => WaitCounts /\ PostNotLost
  BY DEF PoolInit, WaitCounts, PostNotLost, NoCall, InDown, InStep
<1>2. WInv => PostNotLost
  BY Zenon DEF WInv
<1> QED
  BY <1>1, <1>2, PoolStart, PoolStep, WaitsStep, PTL DEF PoolSpec, WInv
=============================================================================
