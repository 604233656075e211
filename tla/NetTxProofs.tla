---------------------------- MODULE NetTxProofs ----------------------------
(***************************************************************************)
(* The transmit side of the manager's network service, for every size of   *)
(* its queues, batches, budget and sequence words and for any list of      *)
(* children: each packet the child's worker is told was accepted is queued *)
(* once, and a child that has been taken down leaves nothing behind.       *)
(***************************************************************************)
EXTENDS NetTx, FiniteSetTheorems, SequenceTheorems, WellFoundedInduction,
        TLAPS

(* The entries of the queue, the places of the threads, and the types of    *)
(* what they share.                                                         *)
Entries == {"queued", "flight", "used", "done"}
PollPlaces == {"top", "wait", "sleep", "enter", "ack", "budget", "service",
               "accept", "pending", "load", "raw", "leave", "idle"}
StressPlaces == {"stress", "stress_driver", "stress_kick", "stress_wait"}
MainPlaces == {"map", "serve", "drain", "drain_wait", "drain_queue", "cancel"}
                \cup StressPlaces
ChildPlaces == {"batch", "send", "signal", "await", "block", "error"}
Headers == [request : Nat, response : Nat, accepted : 0..Error,
            count : 0..Slots]
Polls == [pc : PollPlaces, badge : SUBSET {"irq", "timer"}, more : BOOLEAN,
          again : BOOLEAN, then : {"top", "idle"}]

TxType == /\ child_active \in BOOLEAN /\ poll_in_driver \in BOOLEAN
          /\ tx_stress_gate \in BOOLEAN
          /\ tx_queue \in Seq(Entries)
          /\ header \in Headers
          /\ poll \in Polls
          /\ main \in [pc : MainPlaces, life : Nat \ {0}]
          /\ child \in [pc : ChildPlaces, seq : Nat]
          /\ handed \in Int

(* The sequence words: a request is answered before the worker makes the    *)
(* next one, and the one service_tx_batch is about to answer still waits.   *)
Handing ==
    /\ header.request = child.seq
    /\ child.pc \in {"batch", "send", "error"} => header.response = child.seq
    /\ poll.pc = "accept" => header.request # header.response
    /\ HandedOverOnce

(* The teardown: poll_in_driver covers every pass of the poll thread, and   *)
(* once the main thread has found it clear, no request is taken that the    *)
(* next child could be answered for.                                        *)
Clearing ==
    /\ poll.pc \in {"budget", "service", "accept", "pending", "load", "raw",
                    "leave"} => poll_in_driver
    /\ main.pc \in {"drain_queue", "cancel", "map"} => poll.pc # "accept"
    /\ child_active => main.pc \in {"serve"} \cup StressPlaces
    /\ main.pc \in StressPlaces => child_active
    /\ tx_stress_gate => child_active
    /\ main.pc \in {"cancel", "map"} => tx_queue = <<>>

(* The inductive invariant.                                                 *)
TxInv == TxType /\ Handing /\ Clearing

(* A sequence written as a function on 1..n is one.                         *)
LEMMA EntryFunction ==
    ASSUME NEW n \in Nat, NEW f \in [1..n -> Entries]
    PROVE  f \in Seq(Entries) /\ Len(f) = n
  BY SeqDef, LenProperties

(* A set of natural numbers has a least one.                                *)
LEMMA LeastOf ==
    ASSUME NEW S, S \subseteq Nat, S # {}
    PROVE  \E i \in S : \A j \in S : i <= j
<1> DEFINE less == OpToRel(<, Nat)
<1>1. IsWellFoundedOn(less, Nat)
  BY NatLessThanWellFounded, Zenon
<1>2. \A i, j \in Nat : <<j, i>> \in less <=> j < i
  BY Zenon DEF OpToRel
<1> HIDE DEF less
<1>3. PICK i \in S : \A j \in S : ~(<<j, i>> \in less)
  BY <1>1, WFMin, Zenon
<1>4. \A j \in S : ~(j < i)
  BY <1>2, <1>3, Zenon
<1> QED BY <1>4

(* What transmit_complete leaves of the queue is a queue, and nothing of an *)
(* empty one.                                                               *)
LEMMA CompletedQueue ==
    ASSUME NEW q \in Seq(Entries), NEW S
    PROVE  /\ Completed(q, S) \in Seq(Entries)
           /\ q = <<>> => Completed(q, S) = <<>>
<1> DEFINE d == [i \in 1..Len(q) |-> IF i \in S THEN "done" ELSE q[i]]
           live == {i \in 1..Len(q) : d[i] # "done"}
           first == CHOOSE i \in live : \A j \in live : i <= j
<1>1. Len(q) \in Nat /\ \A i \in 1..Len(q) : q[i] \in Entries
  BY ElementOfSeq, LenProperties, ZenonT(30)
<1>2. d \in [1..Len(q) -> Entries]
  BY <1>1, Zenon DEF Entries
<1>3. d \in Seq(Entries) /\ Len(d) = Len(q)
  <2> HIDE DEF d
  <2> QED BY <1>1, <1>2, EntryFunction, ZenonT(30)
<1>4. Completed(q, S) = IF live = {} THEN <<>> ELSE SubSeq(d, first, Len(d))
  BY Zenon DEF Completed
<1>5. CASE live = {}
  BY <1>4, <1>5
<1>6. CASE live # {}
  <2>1. live \subseteq Nat
    BY <1>1
  <2>2. \E i \in live : \A j \in live : i <= j
    <3> HIDE DEF live
    <3> QED BY <1>6, <2>1, LeastOf, Zenon
  <2>3. first \in live
    <3> HIDE DEF live
    <3> QED BY <2>2, Zenon
  <2>4. first \in 1..Len(d)
    BY <1>3, <2>3, ZenonT(30)
  <2>5. SubSeq(d, first, Len(d)) \in Seq(Entries)
    <3> HIDE DEF d, first
    <3> QED BY <1>1, <1>3, <2>4, SubSeqProperties
  <2>6. q # <<>>
    BY <1>6
  <2> QED BY <1>4, <1>6, <2>5, <2>6, Zenon
<1> QED BY <1>5, <1>6, ZenonT(30)

(* What process_tx_queue leaves of a queue has its length.                  *)
LEMMA SubmittedQueue ==
    ASSUME NEW q \in Seq(Entries), NEW gate, NEW r \in Submitted(q, gate)
    PROVE  r \in Seq(Entries) /\ (q = <<>> => r = <<>>)
<1>1. Len(q) \in Nat /\ \A i \in 1..Len(q) : q[i] \in Entries
  BY ElementOfSeq, LenProperties, Zenon
<1> DEFINE waiting == {i \in 1..Len(q) : q[i] = "queued"}
           first == 1 + Len(q) - Cardinality(waiting)
           held == tx_pending(q)
           n == IF gate THEN 0 ELSE Least(Cardinality(waiting), DmaCount - held)
<1>2. PICK k \in {k \in 0..n : k < n => held + k > 0} :
        r = [i \in 1..Len(q) |-> IF i \in first..first + k - 1 THEN "flight"
                                ELSE q[i]]
  BY Zenon DEF Submitted
<1>3. r \in [1..Len(q) -> Entries]
  BY <1>1, <1>2, ZenonT(30) DEF Entries
<1>4. r \in Seq(Entries) /\ Len(r) = Len(q)
  BY <1>1, <1>3, EntryFunction, Zenon
<1>5. q = <<>> => r = <<>>
  BY <1>4, EmptySeq, Zenon
<1> QED BY <1>4, <1>5, ZenonT(30)

(* raw_poll leaves a queue too.                                             *)
LEMMA PolledQueue ==
    ASSUME NEW n, NEW q, tx_queue \in Seq(Entries), PollDriver(n, q)
    PROVE  q \in Seq(Entries) /\ (tx_queue = <<>> => q = <<>>)
  BY CompletedQueue, Zenon DEF PollDriver

(* An empty queue has nothing in flight.                                    *)
LEMMA NothingPending == tx_pending(<<>>) = 0
<1>1. {i \in 1..Len(<<>>) : <<>>[i] \in {"flight", "used"}} = {}
  OBVIOUS
<1> QED BY <1>1, FS_EmptySet, ZenonT(30) DEF tx_pending

(* The poll thread moves to another place with its locals.                  *)
LEMMA PollGoes ==
    ASSUME TxType, NEW there \in PollPlaces, PollGo(there)
    PROVE  poll' \in Polls /\ poll'.pc = there
  BY Zenon DEF TxType, PollGo, Polls

(* So does the main thread.                                                 *)
LEMMA MainGoes ==
    ASSUME TxType, NEW there \in MainPlaces, MainGo(there)
    PROVE  main' \in [pc : MainPlaces, life : Nat \ {0}] /\ main'.pc = there
  BY Zenon DEF TxType, MainGo

(* And the child's worker.                                                  *)
LEMMA ChildGoes ==
    ASSUME TxType, NEW there \in ChildPlaces,
           child' = [child EXCEPT !.pc = there]
    PROVE  /\ child' \in [pc : ChildPlaces, seq : Nat]
           /\ child'.pc = there /\ child'.seq = child.seq
  BY Zenon DEF TxType

(* The end of service_tx_notification and the process_tx_queue after it.    *)
LEMMA ServicedGoes ==
    ASSUME TxType, NEW q \in Seq(Entries), NEW gate, PollServiced(q, gate)
    PROVE  /\ tx_queue' \in Seq(Entries) /\ (q = <<>> => tx_queue' = <<>>)
           /\ poll' \in Polls /\ poll'.pc \in {"pending", "load"}
<1>1. tx_queue' \in Seq(Entries) /\ (q = <<>> => tx_queue' = <<>>)
  BY SubmittedQueue DEF PollServiced
<1>2. poll' \in Polls /\ poll'.pc \in {"pending", "load"}
  BY PollGoes, Zenon DEF PollServiced, PollPlaces
<1> QED BY <1>1, <1>2, Zenon

(* The end of a pass.                                                       *)
LEMMA EndPassGoes ==
    ASSUME TxType, NEW badge \in SUBSET {"irq", "timer"}, PollEndPass(badge)
    PROVE  poll' \in Polls /\ poll'.pc \in {"budget", "leave"}
  BY Zenon DEF TxType, PollEndPass, Polls, PollPlaces

(* A response.                                                              *)
LEMMA Responds ==
    ASSUME TxType, NEW n \in 0..Error, Respond(n)
    PROVE  /\ header' \in Headers
           /\ header'.request = header.request
           /\ header'.response = header.request
           /\ header'.accepted = n /\ header'.count = header.count
  BY Zenon DEF TxType, Respond, Headers

(* The constants, and the answer of a refused request.                      *)
LEMMA TxConstants ==
    /\ Slots \in Nat /\ Slots > 0 /\ Error \in Nat /\ Error > Slots
    /\ SeqMod \in Nat /\ SeqMod > 2 /\ QueueCount \in Nat
  BY NetAssumption DEF Error

(* A step that changes none of the words of the handing over, and does not  *)
(* take up a request, keeps it.                                             *)
LEMMA HandingFrame ==
    ASSUME Handing, UNCHANGED <<header, child, handed>>,
           poll'.pc = "accept" => poll.pc = "accept"
    PROVE  Handing'
  BY Zenon DEF Handing, HandedOverOnce, Unread

(* A step of the poll thread keeps the teardown in order.                   *)
LEMMA ClearingPoll ==
    ASSUME Clearing, UNCHANGED <<child_active, main>>,
           poll'.pc \in {"budget", "service", "accept", "pending", "load",
                         "raw", "leave"} => poll_in_driver',
           poll'.pc = "accept" => child_active,
           tx_stress_gate' => tx_stress_gate,
           tx_queue = <<>> => tx_queue' = <<>> \/ child_active
    PROVE  Clearing'
  BY Zenon DEF Clearing, StressPlaces

(* Initially no child is active and the queue is empty.                     *)
LEMMA TxInits == Init => TxInv
<1> SUFFICES ASSUME Init PROVE TxInv
    BY Zenon
<1>1. header \in Headers
  BY TxConstants DEF Init, NoHeader, Headers
<1>2. poll \in Polls /\ poll.pc = "top"
  BY Zenon DEF Init, AtTop, Polls, PollPlaces
<1>3. /\ main \in [pc : MainPlaces, life : Nat \ {0}] /\ main.pc = "map"
      /\ child \in [pc : ChildPlaces, seq : Nat]
  BY DEF Init, NoChild, MainPlaces, ChildPlaces
<1>4. TxType
  <2>1. tx_queue \in Seq(Entries) /\ handed \in Int
    BY EmptySeq DEF Init
  <2> QED BY <1>1, <1>2, <1>3, <2>1, ZenonT(30) DEF Init, TxType
<1>5. Handing
  BY <1>2, ZenonT(30) DEF Init, NoHeader, NoChild, Handing, HandedOverOnce, Unread
<1>6. Clearing
  BY <1>2, <1>3, ZenonT(30) DEF Init, Clearing, StressPlaces
<1> QED BY <1>4, <1>5, <1>6, Zenon DEF TxInv

(* A step of the poll thread.                                               *)
LEMMA PollKeeps == ASSUME TxInv, Poll PROVE TxInv'
<1>0. TxType /\ Handing /\ Clearing
  BY Zenon DEF TxInv
<1> USE DEF TxInv
<1>1. CASE PollTop
  <2>1. /\ poll' \in Polls /\ poll'.pc \in {"wait", "sleep", "enter"}
    BY <1>0, <1>1, PollGoes, ZenonT(30)
       DEF PollTop, PollPlaces
  <2>2. TxType'
    BY <1>0, <1>1, <2>1, ZenonT(30) DEF PollTop, TxType, flags, actors
  <2>3. Handing'
    BY <1>0, <1>1, <2>1, HandingFrame, ZenonT(30) DEF PollTop, actors
  <2>4. Clearing'
    BY <1>0, <1>1, <2>1, ClearingPoll
       DEF PollTop, flags, actors
  <2> QED BY <2>2, <2>3, <2>4, ZenonT(30)
<1>2. CASE PollWait
  <2>1. /\ poll' \in Polls /\ poll'.pc = "ack"
    BY <1>0, <1>2, Zenon
       DEF PollWait, AtTop, Polls, PollPlaces
  <2>2. TxType'
    BY <1>0, <1>2, <2>1, ZenonT(30) DEF PollWait, TxType, flags, actors
  <2>3. Handing'
    BY <1>0, <1>2, <2>1, HandingFrame, ZenonT(30) DEF PollWait, actors
  <2>4. Clearing'
    BY <1>0, <1>2, <2>1, ClearingPoll
       DEF PollWait, flags, actors
  <2> QED BY <2>2, <2>3, <2>4, Zenon
<1>3. CASE PollSleep
  <2>1. /\ poll' \in Polls /\ poll'.pc = "top"
    BY <1>0, <1>3, PollGoes, ZenonT(30)
       DEF PollSleep, PollPlaces
  <2>2. TxType'
    BY <1>0, <1>3, <2>1, ZenonT(30) DEF PollSleep, TxType, flags, actors
  <2>3. Handing'
    BY <1>0, <1>3, <2>1, HandingFrame, ZenonT(30) DEF PollSleep, actors
  <2>4. Clearing'
    BY <1>0, <1>3, <2>1, ClearingPoll
       DEF PollSleep, flags, actors
  <2> QED BY <2>2, <2>3, <2>4, Zenon
<1>4. CASE PollEnter
  <2>1. /\ poll' \in Polls /\ poll'.pc = "service"
    BY <1>0, <1>4, Zenon
       DEF PollEnter, AtTop, Polls, PollPlaces
  <2>2. tx_queue' \in Seq(Entries) /\ (tx_queue = <<>> => tx_queue' = <<>>)
    BY <1>0, <1>4, SubmittedQueue DEF PollEnter, TxType
  <2>3. TxType'
    BY <1>0, <1>4, <2>1, <2>2, Zenon DEF PollEnter, TxType, flags, actors
  <2>4. Handing'
    BY <1>0, <1>4, <2>1, HandingFrame, Zenon DEF PollEnter, actors
  <2>5. Clearing'
    BY <1>0, <1>4, <2>1, <2>2, ClearingPoll, Zenon
       DEF PollEnter, flags, actors
  <2> QED BY <2>3, <2>4, <2>5, Zenon
<1>5. CASE PollAck
  <2>1. /\ poll' \in Polls /\ poll'.pc = "budget"
    BY <1>0, <1>5, ZenonT(30)
       DEF PollAck, TxType, Polls, PollPlaces
  <2>2. TxType'
    BY <1>0, <1>5, <2>1, ZenonT(30) DEF PollAck, TxType, flags, actors
  <2>3. Handing'
    BY <1>0, <1>5, <2>1, HandingFrame, ZenonT(30) DEF PollAck, actors
  <2>4. Clearing'
    BY <1>0, <1>5, <2>1, ClearingPoll
       DEF PollAck, flags, actors
  <2> QED BY <2>2, <2>3, <2>4, Zenon
<1>6. CASE PollBudget
  <2>1. PICK q : /\ PollDriver(Budget, q)
                 /\ tx_queue' \in Submitted(q, tx_stress_gate)
                 /\ poll' = [poll EXCEPT !.pc = "service",
                               !.more = (@ /\ poll.again) \/ Used(q) # {}]
    BY <1>6, Zenon DEF PollBudget
  <2>2. tx_queue' \in Seq(Entries) /\ (tx_queue = <<>> => tx_queue' = <<>>)
    BY <1>0, <2>1, PolledQueue, SubmittedQueue, SMTT(30) DEF TxType
  <2>3. poll' \in Polls /\ poll'.pc = "service"
    BY <1>0, <2>1, ZenonT(30) DEF TxType, Polls, PollPlaces
  <2>4. TxType'
    BY <1>0, <1>6, <2>2, <2>3, Zenon DEF PollBudget, TxType, flags, actors
  <2>5. Handing'
    BY <1>0, <1>6, <2>3, HandingFrame DEF PollBudget, actors
  <2>6. Clearing'
    BY <1>0, <1>6, <2>2, <2>3, ClearingPoll
       DEF PollBudget, flags, actors, PollAt, Clearing
  <2> QED BY <2>4, <2>5, <2>6, Zenon
<1>7. CASE PollService
  <2>1. /\ poll' \in Polls /\ poll'.pc = "accept"
    BY <1>0, <1>7, PollGoes, ZenonT(30)
       DEF PollService, PollPlaces
  <2>2. TxType'
    BY <1>0, <1>7, <2>1, ZenonT(30) DEF PollService, TxType, flags, actors
  <2>3. Handing'
    BY <1>0, <1>7, <2>1, ZenonT(30)
       DEF PollService, actors, tx_response_pending, Handing, HandedOverOnce,
           Unread
  <2>4. Clearing'
    BY <1>0, <1>7, <2>1, ClearingPoll
       DEF PollService, flags, actors, PollAt, Clearing
  <2> QED BY <2>2, <2>3, <2>4, Zenon
<1>8. CASE PollNoService
  <2>1. /\ tx_queue' \in Seq(Entries) /\ (tx_queue = <<>> => tx_queue' = <<>>)
        /\ poll' \in Polls /\ poll'.pc \in {"pending", "load"}
    BY <1>0, <1>8, ServicedGoes, ZenonT(30) DEF PollNoService, TxType
  <2>2. TxType'
    BY <1>0, <1>8, <2>1, ZenonT(30) DEF PollNoService, TxType, flags, actors
  <2>3. Handing'
    BY <1>0, <1>8, <2>1, HandingFrame, ZenonT(30) DEF PollNoService, actors
  <2>4. Clearing'
    BY <1>0, <1>8, <2>1, ClearingPoll
       DEF PollNoService, flags, actors, PollAt, Clearing
  <2> QED BY <2>2, <2>3, <2>4, Zenon
<1>9. CASE PollAccept
  <2> DEFINE more == [i \in 1..Room |-> "queued"]
  <2>1. /\ Len(tx_queue) \in Nat /\ header.count \in 0..Slots
        /\ tx_queue \in Seq(Entries)
    BY <1>0, LenProperties, ZenonT(30) DEF TxType, Headers
  <2>2. Room \in Nat /\ Room > 0 /\ Room <= Slots /\ Room < Error
    BY <1>9, <2>1, TxConstants DEF PollAccept, Room, Least
  <2>3. tx_queue \o more \in Seq(Entries)
    <3>1. more \in [1..Room -> Entries]
      BY Zenon DEF Entries
    <3> HIDE DEF more
    <3>2. more \in Seq(Entries)
      BY <2>2, <3>1, EntryFunction, ZenonT(30)
    <3> QED BY <2>1, <3>2, ConcatProperties, ZenonT(30)
  <2>4. /\ tx_queue' \in Seq(Entries)
        /\ poll' \in Polls /\ poll'.pc \in {"pending", "load"}
    <3>1. PollServiced(tx_queue \o more, tx_stress_gate)
      BY <1>9, Zenon DEF PollAccept
    <3> HIDE DEF more
    <3> QED BY <1>0, <2>3, <3>1, ServicedGoes, ZenonT(30)
  <2>5. /\ header' \in Headers
        /\ header'.request = header.request
        /\ header'.response = header.request /\ header'.accepted = Room
    <3>1. Room \in 0..Error
      BY <2>2, TxConstants
    <3> QED BY <1>0, <1>9, <3>1, Responds, ZenonT(30) DEF PollAccept
  <2>6. header.request # header.response
    BY <1>0, <1>9, Zenon DEF PollAccept, PollAt, Handing
  <2>7. handed = 0 /\ handed' = Room
    BY <1>0, <1>9, <2>2, <2>6 DEF PollAccept, Handing, HandedOverOnce, Unread
  <2>8. TxType'
    BY <1>0, <1>9, <2>2, <2>4, <2>5, <2>7, SMTT(30)
       DEF PollAccept, TxType, flags
  <2>9. Handing'
    <3>1. child.pc \notin {"batch", "send", "error"}
      BY <1>0, <2>6, Zenon DEF Handing
    <3>2. child.pc \in {"signal", "await", "block"}
      BY <1>0, <3>1, Zenon DEF TxType, ChildPlaces
    <3> HIDE DEF TxInv
    <3>3. Unread' = Room
      BY <1>0, <1>9, <2>2, <2>5, <3>2, SMTT(30)
         DEF PollAccept, Handing, Unread
    <3> QED BY <1>0, <1>9, <2>4, <2>5, <2>7, <3>1, <3>3, Zenon
            DEF PollAccept, Handing, HandedOverOnce
  <2>10. Clearing'
    BY <1>0, <1>9, <2>4, ClearingPoll, SMTT(30)
       DEF PollAccept, flags, PollAt, Clearing
  <2> QED BY <2>8, <2>9, <2>10, Zenon
<1>10. CASE PollFull
  <2>1. /\ tx_queue' \in Seq(Entries) /\ (tx_queue = <<>> => tx_queue' = <<>>)
        /\ poll' \in Polls /\ poll'.pc \in {"pending", "load"}
    BY <1>0, <1>10, ServicedGoes, Zenon DEF PollFull, TxType
  <2>2. TxType'
    BY <1>0, <1>10, <2>1, ZenonT(30) DEF PollFull, TxType, flags, actors
  <2>3. Handing'
    BY <1>0, <1>10, <2>1, HandingFrame, ZenonT(30) DEF PollFull, actors
  <2>4. Clearing'
    BY <1>0, <1>10, <2>1, ClearingPoll, SMTT(30)
       DEF PollFull, flags, actors, PollAt, Clearing
  <2> QED BY <2>2, <2>3, <2>4, Zenon
<1>11. CASE PollRefuse
  <2>1. /\ tx_queue' \in Seq(Entries) /\ (tx_queue = <<>> => tx_queue' = <<>>)
        /\ poll' \in Polls /\ poll'.pc \in {"pending", "load"}
    BY <1>0, <1>11, ServicedGoes, ZenonT(30) DEF PollRefuse, TxType
  <2>2. /\ header' \in Headers
        /\ header'.request = header.request
        /\ header'.response = header.request /\ header'.accepted = Error
    BY <1>0, <1>11, Responds, TxConstants DEF PollRefuse
  <2>3. header.request # header.response
    BY <1>0, <1>11, ZenonT(30) DEF PollRefuse, PollAt, Handing
  <2>4. TxType'
    BY <1>0, <1>11, <2>1, <2>2, ZenonT(30) DEF PollRefuse, TxType, flags, actors
  <2>5. Handing'
    BY <1>0, <1>11, <2>1, <2>2, <2>3, SMTT(30)
       DEF PollRefuse, actors, Handing, HandedOverOnce, Unread
  <2>6. Clearing'
    BY <1>0, <1>11, <2>1, ClearingPoll, SMTT(30)
       DEF PollRefuse, flags, actors, PollAt, Clearing
  <2> QED BY <2>4, <2>5, <2>6, Zenon
<1>12. CASE PollAnswered
  <2>1. /\ poll' \in Polls /\ poll'.pc \in {"budget", "leave"}
    BY <1>0, <1>12, EndPassGoes, Zenon
       DEF PollAnswered, TxType, Polls
  <2>2. TxType'
    BY <1>0, <1>12, <2>1, Zenon DEF PollAnswered, TxType, flags, actors
  <2>3. Handing'
    BY <1>0, <1>12, <2>1, HandingFrame, ZenonT(30) DEF PollAnswered, actors
  <2>4. Clearing'
    BY <1>0, <1>12, <2>1, ClearingPoll
       DEF PollAnswered, flags, actors, PollAt, Clearing
  <2> QED BY <2>2, <2>3, <2>4, Zenon
<1>13. CASE PollAgain
  <2>1. /\ poll' \in Polls /\ poll'.pc = "budget"
    BY <1>0, <1>13, ZenonT(30)
       DEF PollAgain, TxType, Polls, PollPlaces
  <2>2. TxType'
    BY <1>0, <1>13, <2>1, ZenonT(30) DEF PollAgain, TxType, flags, actors
  <2>3. Handing'
    BY <1>0, <1>13, <2>1, HandingFrame, ZenonT(30) DEF PollAgain, actors
  <2>4. Clearing'
    BY <1>0, <1>13, <2>1, ClearingPoll
       DEF PollAgain, flags, actors, PollAt, Clearing
  <2> QED BY <2>2, <2>3, <2>4, Zenon
<1>14. CASE PollSchedule
  <2>1. /\ poll' \in Polls /\ poll'.pc \in {"budget", "leave"}
    BY <1>0, <1>14, EndPassGoes, ZenonT(30)
       DEF PollSchedule, TxType, Polls
  <2>2. TxType'
    BY <1>0, <1>14, <2>1, ZenonT(30) DEF PollSchedule, TxType, flags, actors
  <2>3. Handing'
    BY <1>0, <1>14, <2>1, HandingFrame, ZenonT(30) DEF PollSchedule, actors
  <2>4. Clearing'
    BY <1>0, <1>14, <2>1, ClearingPoll
       DEF PollSchedule, flags, actors, PollAt, Clearing
  <2> QED BY <2>2, <2>3, <2>4, Zenon
<1>15. CASE PollRetry
  <2>1. /\ poll' \in Polls /\ poll'.pc \in {"budget", "leave"}
    BY <1>0, <1>15, EndPassGoes, ZenonT(30)
       DEF PollRetry
  <2>2. /\ header' \in Headers
        /\ header'.request = header.request
        /\ header'.response = header.request /\ header'.accepted = 0
    BY <1>0, <1>15, Responds, TxConstants DEF PollRetry
  <2>3. header.request # header.response
    BY <1>15, Zenon DEF PollRetry, tx_response_pending
  <2>4. TxType'
    BY <1>0, <1>15, <2>1, <2>2, ZenonT(30) DEF PollRetry, TxType, flags, actors
  <2>5. Handing'
    BY <1>0, <1>15, <2>1, <2>2, <2>3, SMTT(30)
       DEF PollRetry, actors, Handing, HandedOverOnce, Unread
  <2>6. Clearing'
    BY <1>0, <1>15, <2>1, <2>2, ClearingPoll
       DEF PollRetry, flags, actors, PollAt, Clearing
  <2> QED BY <2>4, <2>5, <2>6, Zenon
<1>16. CASE PollLoad
  <2>1. /\ poll' \in Polls /\ poll'.pc \in {"leave", "raw"}
    BY <1>0, <1>16, ZenonT(30)
       DEF PollLoad, TxType, Polls, PollPlaces
  <2>2. TxType'
    BY <1>0, <1>16, <2>1, Zenon DEF PollLoad, TxType, flags, actors
  <2>3. Handing'
    BY <1>0, <1>16, <2>1, HandingFrame, Zenon DEF PollLoad, actors
  <2>4. Clearing'
    BY <1>0, <1>16, <2>1, ClearingPoll, Zenon
       DEF PollLoad, flags, actors, PollAt, Clearing
  <2> QED BY <2>2, <2>3, <2>4, Zenon
<1>17. CASE PollSkip
  <2>1. /\ poll' \in Polls /\ poll'.pc = "leave"
    BY <1>0, <1>17, PollGoes, Zenon
       DEF PollSkip, PollPlaces
  <2>2. TxType'
    BY <1>0, <1>17, <2>1, Zenon DEF PollSkip, TxType, flags, actors
  <2>3. Handing'
    BY <1>0, <1>17, <2>1, HandingFrame, Zenon DEF PollSkip, actors
  <2>4. Clearing'
    BY <1>0, <1>17, <2>1, ClearingPoll, Zenon
       DEF PollSkip, flags, actors, PollAt, Clearing
  <2> QED BY <2>2, <2>3, <2>4, Zenon
<1>18. CASE PollRaw
  <2>1. /\ poll' \in Polls /\ poll'.pc = "leave"
    BY <1>0, <1>18, PollGoes, ZenonT(30)
       DEF PollRaw, PollPlaces
  <2>2. tx_queue' \in Seq(Entries) /\ (tx_queue = <<>> => tx_queue' = <<>>)
    BY <1>0, <1>18, PolledQueue DEF PollRaw, TxType
  <2>3. TxType'
    BY <1>0, <1>18, <2>1, <2>2, Zenon DEF PollRaw, TxType, flags, actors
  <2>4. Handing'
    BY <1>0, <1>18, <2>1, HandingFrame, Zenon DEF PollRaw, actors
  <2>5. Clearing'
    BY <1>0, <1>18, <2>1, <2>2, ClearingPoll, Zenon
       DEF PollRaw, flags, actors, PollAt, Clearing
  <2> QED BY <2>3, <2>4, <2>5, Zenon
<1>19. CASE PollLeave
  <2>1. /\ poll' \in Polls /\ poll'.pc \in {"top", "idle"}
    BY <1>0, <1>19, PollGoes
       DEF PollLeave, TxType, Polls, PollPlaces
  <2>2. TxType'
    BY <1>0, <1>19, <2>1, Zenon DEF PollLeave, TxType, flags, actors
  <2>3. Handing'
    BY <1>0, <1>19, <2>1, HandingFrame, ZenonT(30) DEF PollLeave, actors
  <2>4. Clearing'
    BY <1>0, <1>19, <2>1, ClearingPoll, ZenonT(30)
       DEF PollLeave, flags, actors
  <2> QED BY <2>2, <2>3, <2>4, Zenon
<1>20. CASE PollIdle
  <2>1. /\ poll' \in Polls /\ poll'.pc = "top"
    BY <1>0, <1>20, ZenonT(30)
       DEF PollIdle, AtTop, Polls, PollPlaces
  <2>2. TxType'
    BY <1>0, <1>20, <2>1, ZenonT(30) DEF PollIdle, TxType, flags, actors
  <2>3. Handing'
    BY <1>0, <1>20, <2>1, HandingFrame, ZenonT(30) DEF PollIdle, actors
  <2>4. Clearing'
    BY <1>0, <1>20, <2>1, ClearingPoll, ZenonT(30)
       DEF PollIdle, flags, actors
  <2> QED BY <2>2, <2>3, <2>4, Zenon
<1> QED
  BY <1>1, <1>2, <1>3, <1>4, <1>5, <1>6, <1>7, <1>8, <1>9, <1>10, <1>11,
      <1>12, <1>13, <1>14, <1>15, <1>16, <1>17, <1>18, <1>19, <1>20 DEF Poll

(* A step of the device, the relay thread or the timer.                     *)
LEMMA DeviceKeeps ==
    ASSUME TxInv, Device \/ Relay \/ TimerFires \/ UNCHANGED vars
    PROVE  TxInv'
<1>0. TxType /\ Handing /\ Clearing
  BY Zenon DEF TxInv
<1>1. ASSUME NEW i \in 1..QueueCount, DeviceSends(i)
      PROVE  TxInv'
  <2>1. tx_queue' \in Seq(Entries) /\ tx_queue # <<>>
    <3>1. /\ tx_queue \in Seq(Entries) /\ i \in 1..Len(tx_queue)
          /\ tx_queue' = [tx_queue EXCEPT ![i] = "used"]
      BY <1>0, <1>1, ZenonT(30) DEF TxType, DeviceSends
    <3>2. "used" \in Entries
      BY Zenon DEF Entries
    <3>3. tx_queue' \in Seq(Entries)
      BY <3>1, <3>2, ExceptSeq, ZenonT(30)
    <3> QED BY <3>1, <3>3
  <2>2. UNCHANGED <<child_active, poll_in_driver, tx_stress_gate, header, poll,
                    main, child, handed>>
    BY <1>1, Zenon DEF DeviceSends, flags, actors
  <2>3. TxType'
    BY <1>0, <2>1, <2>2, ZenonT(30) DEF TxType
  <2>4. Handing'
    BY <1>0, <2>2, HandingFrame, Zenon
  <2>5. Clearing'
    BY <1>0, <2>1, <2>2, Zenon DEF Clearing
  <2> QED BY <2>3, <2>4, <2>5, ZenonT(30) DEF TxInv
<1>2. ASSUME UNCHANGED <<child_active, poll_in_driver, tx_stress_gate,
                         tx_queue, header, poll, main, child, handed>>
      PROVE  TxInv'
  BY <1>2 DEF TxInv, TxType, Handing, HandedOverOnce, Unread, Clearing
<1>3. CASE DeviceReceives
  BY <1>2, <1>3, Zenon DEF DeviceReceives, flags, actors
<1>4. CASE Relay
  BY <1>2, <1>4, ZenonT(30) DEF Relay, RelayWake, RelayAck, flags, actors
<1>5. CASE TimerFires
  BY <1>2, <1>5, ZenonT(30) DEF TimerFires, flags, actors
<1>6. CASE UNCHANGED vars
  BY <1>2, <1>6, ZenonT(30) DEF vars
<1> QED BY <1>1, <1>3, <1>4, <1>5, <1>6 DEF Device

(* A step of the manager's main thread.                                     *)
LEMMA MainKeeps == ASSUME TxInv, Main PROVE TxInv'
<1>0. TxType /\ Handing /\ Clearing
  BY Zenon DEF TxInv
<1>1. CASE StressBegin
  <2>1. /\ main' \in [pc : MainPlaces, life : Nat \ {0}]
        /\ main'.pc = "stress"
    BY <1>0, <1>1, MainGoes, ZenonT(30) DEF StressBegin, MainPlaces, StressPlaces
  <2>2. TxType'
    BY <1>0, <1>1, <2>1, ZenonT(30) DEF StressBegin, TxType, flags, servers, actors
  <2>3. Handing'
    BY <1>0, <1>1, HandingFrame, ZenonT(30) DEF StressBegin, servers, actors
  <2>4. Clearing'
    BY <1>0, <1>1, <2>1
       DEF StressBegin, MainAt, flags, servers, actors, Clearing, StressPlaces
  <2> QED BY <2>2, <2>3, <2>4, Zenon DEF TxInv
<1>2. CASE StressQueue
  <2>1. /\ main' \in [pc : MainPlaces, life : Nat \ {0}]
        /\ main'.pc \in {"stress_driver", "stress_kick"}
    BY <1>0, <1>2, MainGoes, ZenonT(30) DEF StressQueue, MainPlaces, StressPlaces
  <2>2. TxType'
    BY <1>0, <1>2, <2>1, ZenonT(30) DEF StressQueue, TxType, flags, servers, actors
  <2>3. Handing'
    BY <1>0, <1>2, HandingFrame, ZenonT(30) DEF StressQueue, servers, actors
  <2>4. Clearing'
    BY <1>0, <1>2, <2>1, SMTT(30)
       DEF StressQueue, MainAt, flags, servers, actors, Clearing, StressPlaces
  <2> QED BY <2>2, <2>3, <2>4, Zenon DEF TxInv
<1>3. CASE StressDriver
  <2>1. /\ main' \in [pc : MainPlaces, life : Nat \ {0}]
        /\ main'.pc \in {"stress_kick", "serve"}
    BY <1>0, <1>3, MainGoes, Zenon DEF StressDriver, MainPlaces, StressPlaces
  <2>2. TxType'
    BY <1>0, <1>3, <2>1, ZenonT(30) DEF StressDriver, TxType, flags, servers, actors
  <2>3. Handing'
    BY <1>0, <1>3, HandingFrame, ZenonT(30) DEF StressDriver, servers, actors
  <2>4. Clearing'
    BY <1>0, <1>3, <2>1
       DEF StressDriver, MainAt, flags, servers, actors, Clearing,
           StressPlaces, TxType
  <2> QED BY <2>2, <2>3, <2>4, Zenon DEF TxInv
<1>4. CASE StressKick
  <2>1. /\ main' \in [pc : MainPlaces, life : Nat \ {0}]
        /\ main'.pc = "stress_wait"
    BY <1>0, <1>4, MainGoes, ZenonT(30) DEF StressKick, MainPlaces, StressPlaces
  <2>2. TxType'
    BY <1>0, <1>4, <2>1, ZenonT(30) DEF StressKick, TxType, flags, servers, actors
  <2>3. Handing'
    BY <1>0, <1>4, HandingFrame, Zenon DEF StressKick, servers, actors
  <2>4. Clearing'
    BY <1>0, <1>4, <2>1
       DEF StressKick, MainAt, flags, servers, actors, Clearing, StressPlaces
  <2> QED BY <2>2, <2>3, <2>4, Zenon DEF TxInv
<1>5. CASE StressWait
  <2>1. /\ main' \in [pc : MainPlaces, life : Nat \ {0}]
        /\ main'.pc = "stress"
    BY <1>0, <1>5, MainGoes, ZenonT(30) DEF StressWait, MainPlaces, StressPlaces
  <2>2. TxType'
    BY <1>0, <1>5, <2>1, ZenonT(30) DEF StressWait, TxType, flags, servers, actors
  <2>3. Handing'
    BY <1>0, <1>5, HandingFrame, ZenonT(30) DEF StressWait, servers, actors
  <2>4. Clearing'
    BY <1>0, <1>5, <2>1
       DEF StressWait, MainAt, flags, servers, actors, Clearing, StressPlaces
  <2> QED BY <2>2, <2>3, <2>4, Zenon DEF TxInv
<1>6. CASE StressOpen
  <2>1. main' = main
    BY <1>6, Zenon DEF StressOpen, actors
  <2>2. TxType'
    BY <1>0, <1>6, <2>1, Zenon DEF StressOpen, TxType, flags, servers, actors
  <2>3. Handing'
    BY <1>0, <1>6, HandingFrame, ZenonT(30) DEF StressOpen, servers, actors
  <2>4. Clearing'
    BY <1>0, <1>6, <2>1
       DEF StressOpen, MainAt, flags, servers, actors, Clearing, StressPlaces
  <2> QED BY <2>2, <2>3, <2>4, Zenon DEF TxInv
<1>7. CASE Deactivate
  <2>1. /\ main' \in [pc : MainPlaces, life : Nat \ {0}]
        /\ main'.pc = "drain"
    BY <1>0, <1>7, MainGoes, ZenonT(30) DEF Deactivate, MainPlaces, StressPlaces
  <2>2. TxType'
    BY <1>0, <1>7, <2>1, Zenon DEF Deactivate, TxType, flags, servers, actors
  <2>3. Handing'
    BY <1>0, <1>7, HandingFrame, ZenonT(30) DEF Deactivate, servers, actors
  <2>4. Clearing'
    BY <1>0, <1>7, <2>1, ZenonT(30)
       DEF Deactivate, MainAt, flags, servers, actors, Clearing, StressPlaces,
           TxType
  <2> QED BY <2>2, <2>3, <2>4, Zenon DEF TxInv
<1>8. CASE DrainDriver
  <2>1. /\ main' \in [pc : MainPlaces, life : Nat \ {0}]
        /\ main'.pc \in {"drain_wait", "drain_queue"}
        /\ main'.pc = "drain_queue" => ~poll_in_driver
    BY <1>0, <1>8, MainGoes DEF DrainDriver, MainPlaces, StressPlaces
  <2>2. TxType'
    BY <1>0, <1>8, <2>1, Zenon DEF DrainDriver, TxType, flags, servers, actors
  <2>3. Handing'
    BY <1>0, <1>8, HandingFrame, Zenon DEF DrainDriver, servers, actors
  <2>4. Clearing'
    BY <1>0, <1>8, <2>1, Zenon
       DEF DrainDriver, MainAt, flags, servers, actors, Clearing, StressPlaces
  <2> QED BY <2>2, <2>3, <2>4, Zenon DEF TxInv
<1>9. CASE DrainQueue
  <2>1. /\ main' \in [pc : MainPlaces, life : Nat \ {0}]
        /\ main'.pc \in {"cancel", "drain_wait"}
        /\ main'.pc = "cancel" => tx_queue = <<>>
    BY <1>0, <1>9, MainGoes, SMTT(30)
       DEF DrainQueue, MainPlaces, StressPlaces, Quiet
  <2>2. TxType'
    BY <1>0, <1>9, <2>1, Zenon DEF DrainQueue, TxType, flags, servers, actors
  <2>3. Handing'
    BY <1>0, <1>9, HandingFrame, Zenon DEF DrainQueue, servers, actors
  <2>4. Clearing'
    BY <1>0, <1>9, <2>1, Zenon
       DEF DrainQueue, MainAt, flags, servers, actors, Clearing, StressPlaces
  <2> QED BY <2>2, <2>3, <2>4, Zenon DEF TxInv
<1>10. CASE DrainWait
  <2>1. /\ main' \in [pc : MainPlaces, life : Nat \ {0}]
        /\ main'.pc = "drain"
    BY <1>0, <1>10, MainGoes, ZenonT(30) DEF DrainWait, MainPlaces, StressPlaces
  <2>2. TxType'
    BY <1>0, <1>10, <2>1, ZenonT(30) DEF DrainWait, TxType, flags, servers, actors
  <2>3. Handing'
    BY <1>0, <1>10, HandingFrame, ZenonT(30) DEF DrainWait, servers, actors
  <2>4. Clearing'
    BY <1>0, <1>10, <2>1, ZenonT(30)
       DEF DrainWait, MainAt, flags, servers, actors, Clearing, StressPlaces
  <2> QED BY <2>2, <2>3, <2>4, Zenon DEF TxInv
<1>11. CASE DrainCancel
  <2>1. main' \in [pc : MainPlaces, life : Nat \ {0}] /\ main'.pc = "map"
    BY <1>0, <1>11, SMTT(30) DEF DrainCancel, TxType, MainPlaces
  <2>2. TxType'
    BY <1>0, <1>11, <2>1, Zenon
       DEF DrainCancel, TxType, flags, servers, actors
  <2>3. Handing'
    BY <1>0, <1>11, HandingFrame, Zenon DEF DrainCancel, servers, actors
  <2>4. Clearing'
    BY <1>0, <1>11, <2>1, Zenon
       DEF DrainCancel, MainAt, flags, servers, actors, Clearing, StressPlaces
  <2> QED BY <2>2, <2>3, <2>4, Zenon DEF TxInv
<1>12. CASE MapChild
  <2>1. main' \in [pc : MainPlaces, life : Nat \ {0}] /\ main'.pc = "serve"
    BY <1>0, <1>12, MainGoes, Zenon DEF MapChild, MainPlaces
  <2>2. /\ header' \in Headers /\ header'.request = 0 /\ header'.response = 0
        /\ child' \in [pc : ChildPlaces, seq : Nat]
        /\ child'.pc = "batch" /\ child'.seq = 0
    BY <1>12, TxConstants, SMTT(30)
       DEF MapChild, NoHeader, NoChild, Headers, ChildPlaces
  <2>3. child_active' \in BOOLEAN
    <3>1. main.life \in 1..Len(Activations)
      <4>1. main.life \in Nat /\ main.life <= Len(Activations)
        BY <1>0, <1>12, Zenon DEF MapChild, TxType
      <4>2. main.life # 0
        BY <1>0, Zenon DEF TxType
      <4>3. Len(Activations) \in Nat
        BY NetAssumption, LenProperties, Zenon
      <4> QED BY <4>1, <4>2, <4>3
    <3> QED BY <1>12, <3>1, NetAssumption, ElementOfSeq, Zenon DEF MapChild
  <2>4. tx_queue' = <<>> /\ tx_queue' \in Seq(Entries) /\ handed' = 0
    BY <1>12, EmptySeq, Zenon DEF MapChild
  <2>5. tx_stress_gate' = FALSE /\ UNCHANGED <<poll_in_driver, poll>>
    BY <1>12, Zenon DEF MapChild
  <2>6. poll.pc # "accept"
    BY <1>0, <1>12, Zenon DEF MapChild, MainAt, Clearing
  <2>7. TxType'
    <3>1. handed' \in Int
      BY <2>4
    <3>3. tx_stress_gate' \in BOOLEAN
      BY <2>5, Zenon
    <3>2. poll_in_driver' \in BOOLEAN /\ poll' \in Polls
      BY <1>0, <2>5, ZenonT(30) DEF TxType
    <3> QED BY <2>1, <2>2, <2>3, <2>4, <3>1, <3>2, <3>3, Zenon DEF TxType
  <2>8. Handing'
    BY <2>2, <2>4, <2>5, <2>6, ZenonT(30) DEF Handing, HandedOverOnce, Unread
  <2>9. Clearing'
    BY <1>0, <2>1, <2>4, <2>5, <2>6, ZenonT(30) DEF Clearing, StressPlaces
  <2> QED BY <2>7, <2>8, <2>9, Zenon DEF TxInv
<1> QED
  BY <1>1, <1>2, <1>3, <1>4, <1>5, <1>6, <1>7, <1>8, <1>9, <1>10, <1>11, <1>12, SMTT(30)
      DEF Main, Stressing, Draining

(* A step of the child's worker.                                            *)
LEMMA ChildKeeps == ASSUME TxInv, Child PROVE TxInv'
<1>0. TxType /\ Handing /\ Clearing
  BY Zenon DEF TxInv
<1>a. header \in Headers /\ child.seq \in Nat
  BY <1>0, Zenon DEF TxType
<1>b. ASSUME UNCHANGED <<child_active, poll_in_driver, tx_stress_gate,
                         tx_queue, poll, main>>
      PROVE  Clearing'
  BY <1>0, <1>b, Zenon DEF Clearing
<1>1. ASSUME NEW c \in 1..Slots, ChildBatch(c)
      PROVE  TxInv'
  <2>1. /\ child' \in [pc : ChildPlaces, seq : Nat]
        /\ child'.pc = "send" /\ child'.seq = child.seq
    BY <1>0, <1>1, ChildGoes, ZenonT(30) DEF ChildBatch, ChildPlaces
  <2>2. /\ header' \in Headers /\ header'.request = header.request
        /\ header'.response = header.response
    BY <1>a, <1>1, TxConstants DEF ChildBatch, Headers
  <2>3. TxType'
    BY <1>0, <1>1, <2>1, <2>2, Zenon DEF ChildBatch, TxType, flags
  <2>4. Handing'
    BY <1>0, <1>1, <2>1, <2>2, Zenon
       DEF ChildBatch, ChildAt, Handing, HandedOverOnce, Unread
  <2>5. Clearing'
    BY <1>b, <1>1 DEF ChildBatch, flags
  <2> QED BY <2>3, <2>4, <2>5, Zenon DEF TxInv
<1>2. CASE ChildSend
  <2> DEFINE seq == IF child.seq + 1 = SeqMod THEN 1 ELSE child.seq + 1
  <2>1. seq \in Nat /\ seq # child.seq
    BY <1>a, TxConstants
  <2>2. /\ child' \in [pc : ChildPlaces, seq : Nat]
        /\ child'.pc = "signal" /\ child'.seq = seq
    BY <1>0, <1>2, <2>1, Zenon DEF ChildSend, TxType, ChildPlaces
  <2>3. /\ header' \in Headers /\ header'.request = seq
        /\ header'.response = header.response
        /\ header'.accepted = header.accepted
    BY <1>a, <1>2, <2>1, ZenonT(30) DEF ChildSend, Headers
  <2>4. /\ child.pc = "send" /\ header.response = child.seq
        /\ header.request = child.seq /\ poll.pc # "accept" /\ handed = 0
    BY <1>0, <1>2, ZenonT(30)
       DEF ChildSend, ChildAt, Handing, HandedOverOnce, Unread
  <2>5. TxType'
    BY <1>0, <1>2, <2>2, <2>3, ZenonT(30) DEF ChildSend, TxType, flags
  <2>6. Handing'
    <3> HIDE DEF seq
    <3> QED BY <1>2, <2>1, <2>2, <2>3, <2>4, ZenonT(30)
            DEF ChildSend, Handing, HandedOverOnce, Unread
  <2>7. Clearing'
    BY <1>b, <1>2, ZenonT(30) DEF ChildSend, flags
  <2> QED BY <2>5, <2>6, <2>7, Zenon DEF TxInv
<1>3. CASE ChildSignal
  <2>1. /\ child' \in [pc : ChildPlaces, seq : Nat]
        /\ child'.pc = "await" /\ child'.seq = child.seq
    BY <1>0, <1>3, ChildGoes, Zenon DEF ChildSignal, ChildPlaces
  <2>2. TxType'
    BY <1>0, <1>3, <2>1, Zenon DEF ChildSignal, TxType, flags
  <2>3. Handing'
    BY <1>0, <1>3, <2>1, ZenonT(30)
       DEF ChildSignal, ChildAt, Handing, HandedOverOnce, Unread
  <2>4. Clearing'
    BY <1>b, <1>3, ZenonT(30) DEF ChildSignal, flags
  <2> QED BY <2>2, <2>3, <2>4, Zenon DEF TxInv
<1>4. CASE ChildAwait
  <2>1. /\ child' \in [pc : ChildPlaces, seq : Nat]
        /\ child'.pc = "block" /\ child'.seq = child.seq
    BY <1>0, <1>4, ChildGoes, ZenonT(30) DEF ChildAwait, ChildPlaces
  <2>2. TxType'
    BY <1>0, <1>4, <2>1, ZenonT(30) DEF ChildAwait, TxType, flags
  <2>3. Handing'
    BY <1>0, <1>4, <2>1, Zenon
       DEF ChildAwait, ChildAt, Handing, HandedOverOnce, Unread
  <2>4. Clearing'
    BY <1>b, <1>4, ZenonT(30) DEF ChildAwait, flags
  <2> QED BY <2>2, <2>3, <2>4, Zenon DEF TxInv
<1>5. CASE ChildBlock
  <2>1. /\ child' \in [pc : ChildPlaces, seq : Nat]
        /\ child'.pc = "await" /\ child'.seq = child.seq
    BY <1>0, <1>5, ChildGoes, ZenonT(30) DEF ChildBlock, ChildPlaces
  <2>2. TxType'
    BY <1>0, <1>5, <2>1, ZenonT(30) DEF ChildBlock, TxType, flags
  <2>3. Handing'
    BY <1>0, <1>5, <2>1, ZenonT(30)
       DEF ChildBlock, ChildAt, Handing, HandedOverOnce, Unread
  <2>4. Clearing'
    BY <1>b, <1>5, ZenonT(30) DEF ChildBlock, flags
  <2> QED BY <2>2, <2>3, <2>4, Zenon DEF TxInv
<1>6. CASE ChildAnswered
  <2>1. /\ child' \in [pc : ChildPlaces, seq : Nat]
        /\ child'.pc \in {"error", "send", "batch"}
        /\ child'.seq = child.seq
    BY <1>0, <1>6, ChildGoes DEF ChildAnswered, ChildPlaces
  <2>2. /\ child.pc = "await" /\ header.response = child.seq
        /\ UNCHANGED <<header, poll>> /\ header.accepted \in Int
        /\ handed' = handed - IF header.accepted = Error THEN 0
                              ELSE header.accepted
    BY <1>a, <1>6 DEF ChildAnswered, ChildAt, Headers
  <2>3. handed' = 0
    BY <1>0, <2>2 DEF Handing, HandedOverOnce, Unread
  <2>4. TxType'
    BY <1>0, <1>6, <2>1, <2>3, SMTT(30) DEF ChildAnswered, TxType, flags
  <2>5. Handing'
    BY <1>0, <2>1, <2>2, <2>3, Zenon DEF Handing, HandedOverOnce, Unread
  <2>6. Clearing'
    BY <1>b, <1>6, ZenonT(30) DEF ChildAnswered, flags
  <2> QED BY <2>4, <2>5, <2>6, Zenon DEF TxInv
<1> QED BY <1>1, <1>2, <1>3, <1>4, <1>5, <1>6 DEF Child, Worker

(* The invariant is inductive.                                              *)
LEMMA TxStep == TxInv /\ [Next]_vars => TxInv'
  BY DeviceKeeps, PollKeeps, MainKeeps, ChildKeeps, ZenonT(30) DEF Next

(* The manager has queued exactly the packets that the child's worker took  *)
(* off its own queue or is about to learn were accepted: whatever the sizes *)
(* of queues, batches and sequence words, and however many children come.   *)
THEOREM PacketsHandedOnce == Safety => []HandedOverOnce
<1>1. TxInv => HandedOverOnce
  BY ZenonT(30) DEF TxInv, Handing
<1> QED BY <1>1, TxInits, TxStep, PTL DEF Safety

(* When luna_network_deactivate_child returns nothing of the child is       *)
(* queued or in flight, in every such state.                                *)
THEOREM TeardownDrains == Safety => []DrainedAtReturn
<1>1. TxInv => DrainedAtReturn
  BY NothingPending, Zenon
     DEF TxInv, Clearing, DrainedAtReturn, MainAt, Quiet, StressPlaces
<1> QED BY <1>1, TxInits, TxStep, PTL DEF Safety
=============================================================================
