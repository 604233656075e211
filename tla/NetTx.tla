------------------------------- MODULE NetTx -------------------------------
(***************************************************************************)
(* The transmit side of the manager's network service (isolation_net.c):   *)
(* the poll thread, the only one that calls the driver; the INTx relay     *)
(* thread; the manager's main thread, which attaches and tears down        *)
(* children; and the loop of the child's TX worker (lkl_task_net.c) that   *)
(* hands a batch over through the shared header.                           *)
(*                                                                         *)
(* tx_queue is the sequence of entries from tx_tail to tx_head; an entry   *)
(* is "queued" (not before tx_submit), in "flight", "used" (the device has *)
(* returned its descriptor) or "done" (length 0).  tx_pending counts the   *)
(* entries in flight or used; each of those holds a DMA buffer.            *)
(***************************************************************************)
EXTENDS Integers, Sequences, FiniteSets

CONSTANTS QueueCount,     \* LUNA_NET_TX_QUEUE_COUNT
          DmaCount,       \* LUNA_NET_TX_DMA_COUNT
          Slots,          \* LUNA_NET_BATCH_SLOTS
          Budget,         \* LUNA_NET_INTX_BUDGET
          SeqMod,         \* 2^w for the w-bit sequence words
          Activations,    \* for each child in turn: does it use the network
          IrqMode,        \* whether init_network_irq succeeded
          AckMayFail,     \* whether seL4_IRQHandler_Ack may fail
          ScheduleMayFail,\* whether the network deadline may fail to be set
          Stress          \* whether the child uses the stress gate

ASSUME NetAssumption == /\ QueueCount \in Nat /\ QueueCount > 1
                        /\ {DmaCount, Slots, Budget} \subseteq Nat \ {0}
                        /\ SeqMod \in Nat /\ SeqMod > 2
                        /\ Activations \in Seq(BOOLEAN)

VARIABLES irq_mode, child_active, poll_in_driver, tx_stress_gate,
          tx_queue,
          header,         \* the TX words of struct luna_net_batch_header
          kick,           \* badges pending in poll_kick_ntfn; "kick" is one
                          \* the poll thread does not look at
          tx_idle, tx_ntfn, irq_done,   \* notifications: signalled or not
          network_armed,  \* the 5 ms deadline of isolation_timer.c
          line,           \* the device asserts INTx
          poll,           \* the poll thread
          relay,          \* the IRQ relay thread
          main,           \* the manager's main thread
          child,          \* the child's TX worker
          handed          \* history: the packets queued, less the packets the
                          \* child has taken off its own queue

device == <<line, relay>>
flags == <<irq_mode, child_active, poll_in_driver, tx_stress_gate>>
actors == <<main, child, handed>>
servers == <<poll, child, handed>>
ntfns == <<kick, tx_idle, tx_ntfn, irq_done>>
vars == <<irq_mode, child_active, poll_in_driver, tx_stress_gate, tx_queue,
          header, ntfns, network_armed, device, poll, main, child, handed>>

Error == Slots + 1      \* ~(seL4_Word)0, more than any count
NoHeader == [request |-> 0, response |-> 0, accepted |-> 0, count |-> 0]
NoChild == [pc |-> "batch", seq |-> 0]
AtTop == [pc |-> "top", badge |-> {}, more |-> FALSE, again |-> FALSE,
          then |-> "top"]

\* luna_network_manager_init
Init == /\ irq_mode = IrqMode /\ child_active = FALSE
        /\ poll_in_driver = FALSE /\ tx_stress_gate = FALSE
        /\ tx_queue = <<>> /\ header = NoHeader
        /\ kick = {} /\ tx_idle = FALSE /\ tx_ntfn = FALSE /\ irq_done = FALSE
        /\ network_armed = FALSE
        /\ line = FALSE /\ relay = "wait"
        /\ poll = AtTop
        /\ main = [pc |-> "map", life |-> 1]
        /\ child = NoChild /\ handed = 0

tx_pending(q) == Cardinality({i \in 1..Len(q) :
                                q[i] \in {"flight", "used"}})
tx_response_pending == /\ header.request # 0
                       /\ header.request # header.response
Least(m, n) == IF m < n THEN m ELSE n
Quiet(q) == q = <<>> /\ tx_pending(q) = 0

----------------------------------------------------------------------------
\* The device returns a descriptor, or receives a packet, and raises INTx.
\* allocate_rx_buffer gives it receive buffers only while a child is active.
DeviceSends(i) ==
    /\ i \in 1..Len(tx_queue) /\ tx_queue[i] = "flight"
    /\ tx_queue' = [tx_queue EXCEPT ![i] = "used"]
    /\ line' = TRUE
    /\ UNCHANGED <<flags, ntfns, actors, header, network_armed, relay, poll>>

DeviceReceives ==
    /\ child_active /\ ~line /\ line' = TRUE
    /\ UNCHANGED <<flags, ntfns, actors, tx_queue, header, network_armed,
                   relay, poll>>

\* network_irq_thread.  The kernel masks the line when it delivers the
\* interrupt, and IRQHandler_Ack unmasks it.
RelayWake ==
    /\ relay = "wait" /\ line
    /\ relay' = IF irq_mode THEN "done" ELSE "masked"
    /\ kick' = kick \cup (IF irq_mode THEN {"irq"} ELSE {})
    /\ UNCHANGED <<flags, actors, tx_queue, header, tx_idle, tx_ntfn, irq_done,
                   network_armed, line, poll>>

RelayAck ==
    /\ relay = "done" /\ irq_done /\ irq_done' = FALSE
    /\ \/ relay' = "wait" /\ UNCHANGED <<irq_mode, kick>>
       \/ /\ AckMayFail
          /\ relay' = "masked" /\ irq_mode' = FALSE
          /\ kick' = kick \cup {"kick"}
    /\ UNCHANGED <<actors, child_active, poll_in_driver, tx_stress_gate,
                   tx_queue, header, tx_idle, tx_ntfn, network_armed, line,
                   poll>>

\* handle_timer_irq for the network deadline (TimerManager).
TimerFires ==
    /\ network_armed /\ network_armed' = FALSE
    /\ kick' = kick \cup {"timer"}
    /\ UNCHANGED <<flags, device, actors, tx_queue, header, tx_idle, tx_ntfn,
                   irq_done, poll>>

----------------------------------------------------------------------------
\* transmit_complete for the used entries S: tx_tail moves over those done.
Completed(q, S) ==
    LET d == [i \in 1..Len(q) |-> IF i \in S THEN "done" ELSE q[i]]
        live == {i \in 1..Len(q) : d[i] # "done"}
    IN IF live = {} THEN <<>>
       ELSE SubSeq(d, CHOOSE i \in live : \A j \in live : i <= j, Len(d))

Used(q) == {i \in 1..Len(q) : q[i] = "used"}

\* What process_tx_queue may leave of q: queued entries go to the device while
\* there are DMA buffers.  raw_tx fails when the descriptor ring is full.
Submitted(q, gate) ==
    LET waiting == {i \in 1..Len(q) : q[i] = "queued"}
        first == 1 + Len(q) - Cardinality(waiting)
        held == tx_pending(q)
        n == IF gate THEN 0 ELSE Least(Cardinality(waiting), DmaCount - held)
    IN {[i \in 1..Len(q) |-> IF i \in first..first + k - 1 THEN "flight"
                             ELSE q[i]] :
          k \in {k \in 0..n : k < n => held + k > 0}}

\* raw_poll_budget and raw_poll return up to n used entries to
\* transmit_complete; q is what is left.
PollDriver(n, q) ==
    /\ \E S \in SUBSET Used(tx_queue) :
          /\ Cardinality(S) = Least(n, Cardinality(Used(tx_queue)))
          /\ q = Completed(tx_queue, S)
    /\ tx_ntfn' = (tx_ntfn \/ q # tx_queue)
    /\ tx_idle' = (tx_idle \/ (q # tx_queue /\ Quiet(q)))

PollAt(pc) == poll.pc = pc
PollGo(pc) == poll' = [poll EXCEPT !.pc = pc]

\* network_poll_thread, the head of its loop.
PollTop ==
    /\ PollAt("top")
    /\ PollGo(CASE irq_mode -> "wait"
                [] ~irq_mode /\ ~child_active /\ Quiet(tx_queue) -> "sleep"
                [] OTHER -> "enter")
    /\ UNCHANGED <<flags, ntfns, device, actors, tx_queue, header,
                   network_armed>>

\* With interrupts it waits for a badge before every pass ...
PollWait ==
    /\ PollAt("wait") /\ kick # {} /\ kick' = {}
    /\ poll' = [AtTop EXCEPT !.pc = "ack", !.then = "idle",
                            !.badge = kick \cap {"irq", "timer"}]
    /\ UNCHANGED <<flags, device, actors, tx_queue, header, tx_idle, tx_ntfn,
                   irq_done, network_armed>>

\* ... without, only when there is nothing to do.
PollSleep ==
    /\ PollAt("sleep") /\ kick # {} /\ kick' = {}
    /\ PollGo("top")
    /\ UNCHANGED <<flags, device, actors, tx_queue, header, tx_idle, tx_ntfn,
                   irq_done, network_armed>>

PollEnter ==
    /\ PollAt("enter") /\ poll_in_driver' = TRUE
    /\ tx_queue' \in Submitted(tx_queue, tx_stress_gate)
    /\ poll' = [AtTop EXCEPT !.pc = "service"]
    /\ UNCHANGED <<ntfns, device, actors, irq_mode, child_active,
                   tx_stress_gate, header, network_armed>>

\* Mutant: the relay thread is not told that the interrupt was handled.
PollAckSilently ==
    /\ PollAt("ack") /\ poll_in_driver' = TRUE
    /\ line' = (line /\ "irq" \notin poll.badge)
    /\ poll' = [poll EXCEPT !.pc = "budget", !.badge = @ \ {"irq"}]
    /\ UNCHANGED <<actors, irq_mode, child_active, tx_stress_gate, tx_queue,
                   header, ntfns, network_armed, relay>>

\* raw_ack_irq withdraws INTx.
PollAck ==
    /\ PollAt("ack") /\ poll_in_driver' = TRUE
    /\ line' = (line /\ "irq" \notin poll.badge)
    /\ irq_done' = (irq_done \/ "irq" \in poll.badge)
    /\ poll' = [poll EXCEPT !.pc = "budget", !.badge = @ \ {"irq"}]
    /\ UNCHANGED <<actors, irq_mode, child_active, tx_stress_gate, tx_queue,
                   header, kick, tx_idle, tx_ntfn, network_armed, relay>>

PollBudget ==
    /\ PollAt("budget")
    /\ \E q \in {Completed(tx_queue, S) : S \in SUBSET Used(tx_queue)} :
         /\ PollDriver(Budget, q)
         /\ tx_queue' \in Submitted(q, tx_stress_gate)
         /\ poll' = [poll EXCEPT !.pc = "service",
                                 !.more = (@ /\ poll.again) \/ Used(q) # {}]
    /\ UNCHANGED <<flags, device, actors, header, kick, irq_done,
                   network_armed>>

----------------------------------------------------------------------------
\* The second process_tx_queue, after service_tx_notification.
PollServiced(q, gate) ==
    /\ tx_queue' \in Submitted(q, gate)
    /\ PollGo(IF poll.then = "idle" THEN "pending" ELSE "load")

\* service_tx_notification: is there an unanswered request of a live child?
PollService ==
    /\ PollAt("service") /\ child_active /\ tx_response_pending
    /\ PollGo("accept")
    /\ UNCHANGED <<flags, ntfns, device, actors, tx_queue, header,
                   network_armed>>

PollNoService ==
    /\ PollAt("service") /\ ~(child_active /\ tx_response_pending)
    /\ PollServiced(tx_queue, tx_stress_gate)
    /\ UNCHANGED <<flags, ntfns, device, actors, header, network_armed>>

Respond(accepted) ==
    /\ header' = [header EXCEPT !.accepted = accepted,
                                !.response = header.request]
    /\ tx_ntfn' = TRUE
    /\ network_armed' = FALSE

\* service_tx_batch takes what fits; the queue keeps one entry free.
Room == Least(header.count, QueueCount - 1 - Len(tx_queue))

PollAccept ==
    /\ PollAt("accept") /\ child_active /\ Room > 0
    /\ PollServiced(tx_queue \o [i \in 1..Room |-> "queued"],
                    tx_stress_gate)
    /\ handed' = handed + Room
    /\ kick' = kick \cup (IF tx_queue = <<>> THEN {"kick"} ELSE {})
    /\ Respond(Room)
    /\ UNCHANGED <<flags, device, tx_idle, irq_done, main, child>>

\* The queue is full: no answer yet, and the stress gate opens.
PollFull ==
    /\ PollAt("accept") /\ child_active /\ Room = 0
    /\ tx_stress_gate' = FALSE
    /\ kick' = kick \cup (IF tx_stress_gate THEN {"kick"} ELSE {})
    /\ PollServiced(tx_queue, FALSE)
    /\ UNCHANGED <<device, actors, irq_mode, child_active, poll_in_driver,
                   header, tx_idle, tx_ntfn, irq_done, network_armed>>

\* The child was deactivated after service_tx_notification's own test.
PollRefuse ==
    /\ PollAt("accept") /\ ~child_active
    /\ Respond(Error)
    /\ PollServiced(tx_queue, tx_stress_gate)
    /\ UNCHANGED <<flags, device, actors, kick, tx_idle, irq_done>>

\* The end of the do-while loop.
PollEndPass(badge) ==
    poll' = [poll EXCEPT !.again = FALSE, !.badge = badge,
                         !.pc = IF poll.more THEN "budget" ELSE "leave"]

\* A request still unanswered is tried once more, then left to the timer.
PollAnswered ==
    /\ PollAt("pending") /\ ~tx_response_pending
    /\ PollEndPass(poll.badge)
    /\ UNCHANGED <<flags, ntfns, device, actors, tx_queue, header,
                   network_armed>>

PollAgain ==
    /\ PollAt("pending") /\ tx_response_pending /\ ~poll.again
    /\ poll' = [poll EXCEPT !.again = TRUE, !.pc = "budget"]
    /\ UNCHANGED <<flags, ntfns, device, actors, tx_queue, header,
                   network_armed>>

PollSchedule ==
    /\ PollAt("pending") /\ tx_response_pending /\ poll.again
    /\ "timer" \notin poll.badge
    /\ network_armed' \in {TRUE} \cup (IF ScheduleMayFail THEN {network_armed}
                                      ELSE {})
    /\ PollEndPass(poll.badge)
    /\ UNCHANGED <<flags, ntfns, device, actors, tx_queue, header>>

\* service_tx_timeout_retry
PollRetry ==
    /\ PollAt("pending") /\ tx_response_pending /\ poll.again
    /\ "timer" \in poll.badge
    /\ Respond(0)
    /\ PollEndPass({})
    /\ UNCHANGED <<flags, device, actors, tx_queue, kick, tx_idle, irq_done>>

\* Without interrupts: the tests between the second process_tx_queue and
\* raw_poll.  rx_queue_full may hold or not while a child is active.
PollLoad ==
    /\ PollAt("load")
    /\ \E queue_full \in {FALSE, child_active} :
         LET idle == ~child_active /\ Quiet(tx_queue)
             full == queue_full /\ tx_pending(tx_queue) = 0
         IN poll' = [poll EXCEPT !.pc = IF idle \/ full THEN "leave" ELSE "raw",
                                 !.then = IF idle THEN "idle" ELSE "top"]
    /\ UNCHANGED <<flags, ntfns, device, actors, tx_queue, header,
                   network_armed>>

PollSkip ==
    /\ PollAt("raw") /\ ~child_active /\ tx_pending(tx_queue) = 0
    /\ PollGo("leave")
    /\ UNCHANGED <<flags, ntfns, device, actors, tx_queue, header,
                   network_armed>>

PollRaw ==
    /\ PollAt("raw") /\ (child_active \/ tx_pending(tx_queue) > 0)
    /\ PollDriver(QueueCount, tx_queue')
    /\ PollGo("leave")
    /\ UNCHANGED <<flags, device, actors, header, kick, irq_done,
                   network_armed>>

PollLeave ==
    /\ PollAt("leave") /\ poll_in_driver' = FALSE
    /\ PollGo(poll.then)
    /\ UNCHANGED <<ntfns, device, actors, irq_mode, child_active,
                   tx_stress_gate, tx_queue, header, network_armed>>

PollIdleSilently ==
    /\ PollAt("idle")
    /\ poll' = AtTop
    /\ UNCHANGED <<flags, ntfns, device, actors, tx_queue, header,
                   network_armed>>

PollIdle ==
    /\ PollAt("idle")
    /\ tx_idle' = (tx_idle \/ Quiet(tx_queue))
    /\ poll' = AtTop
    /\ UNCHANGED <<flags, device, actors, tx_queue, header, kick, tx_ntfn,
                   irq_done, network_armed>>

----------------------------------------------------------------------------
MainAt(pc) == main.pc = pc
MainGo(pc) == main' = [main EXCEPT !.pc = pc]

\* luna_network_map_child
MapChild ==
    /\ MainAt("map") /\ main.life <= Len(Activations)
    /\ tx_queue' = <<>> /\ header' = NoHeader /\ tx_stress_gate' = FALSE
    /\ tx_ntfn' = FALSE /\ tx_idle' = FALSE
    /\ child_active' = Activations[main.life]
    /\ kick' = kick \cup (IF child_active' THEN {"kick"} ELSE {})
    /\ child' = NoChild /\ handed' = 0
    /\ MainGo("serve")
    /\ UNCHANGED <<device, irq_mode, poll_in_driver, irq_done, network_armed,
                   poll>>

\* service_tx_stress(1) waits for quiet before it closes the gate.
StressBegin ==
    /\ Stress /\ child_active /\ MainAt("serve") /\ MainGo("stress")
    /\ UNCHANGED <<flags, ntfns, device, servers, tx_queue, header,
                   network_armed>>

StressQueue ==
    /\ MainAt("stress")
    /\ MainGo(IF Quiet(tx_queue) THEN "stress_driver" ELSE "stress_kick")
    /\ UNCHANGED <<flags, ntfns, device, servers, tx_queue, header,
                   network_armed>>

StressDriver ==
    /\ MainAt("stress_driver")
    /\ tx_stress_gate' = (tx_stress_gate \/ ~poll_in_driver)
    /\ MainGo(IF poll_in_driver THEN "stress_kick" ELSE "serve")
    /\ UNCHANGED <<ntfns, device, servers, irq_mode, child_active,
                   poll_in_driver, tx_queue, header, network_armed>>

StressKick ==
    /\ MainAt("stress_kick")
    /\ kick' = kick \cup {"kick"} /\ MainGo("stress_wait")
    /\ UNCHANGED <<flags, device, servers, tx_queue, header, tx_idle, tx_ntfn,
                   irq_done, network_armed>>

StressWait ==
    /\ MainAt("stress_wait") /\ tx_idle /\ tx_idle' = FALSE
    /\ MainGo("stress")
    /\ UNCHANGED <<flags, device, servers, tx_queue, header, kick, tx_ntfn,
                   irq_done, network_armed>>

\* service_tx_stress(0)
StressOpen ==
    /\ Stress /\ child_active /\ MainAt("serve") /\ tx_stress_gate
    /\ tx_stress_gate' = FALSE
    /\ kick' = kick \cup {"kick"} /\ tx_ntfn' = TRUE
    /\ UNCHANGED <<device, actors, irq_mode, child_active, poll_in_driver,
                   tx_queue, header, tx_idle, irq_done, network_armed, poll>>

\* luna_network_deactivate_child
Deactivate ==
    /\ MainAt("serve") /\ MainGo("drain")
    /\ child_active' = FALSE /\ tx_stress_gate' = FALSE
    /\ kick' = kick \cup {"kick"}
    /\ UNCHANGED <<device, servers, irq_mode, poll_in_driver, tx_queue, header,
                   tx_idle, tx_ntfn, irq_done, network_armed>>

DrainDriver ==
    /\ MainAt("drain")
    /\ MainGo(IF poll_in_driver THEN "drain_wait" ELSE "drain_queue")
    /\ UNCHANGED <<flags, ntfns, device, servers, tx_queue, header,
                   network_armed>>

DrainQueueInFlight ==
    /\ MainAt("drain_queue")
    /\ MainGo(IF tx_pending(tx_queue) = 0 THEN "cancel" ELSE "drain_wait")
    /\ UNCHANGED <<flags, ntfns, device, servers, tx_queue, header,
                   network_armed>>

DrainQueue ==
    /\ MainAt("drain_queue")
    /\ MainGo(IF Quiet(tx_queue) THEN "cancel" ELSE "drain_wait")
    /\ UNCHANGED <<flags, ntfns, device, servers, tx_queue, header,
                   network_armed>>

DrainWait ==
    /\ MainAt("drain_wait") /\ tx_idle /\ tx_idle' = FALSE
    /\ MainGo("drain")
    /\ UNCHANGED <<flags, device, servers, tx_queue, header, kick, tx_ntfn,
                   irq_done, network_armed>>

\* ... and the child is destroyed.
DrainCancel ==
    /\ MainAt("cancel")
    /\ network_armed' = FALSE /\ tx_ntfn' = TRUE
    /\ main' = [pc |-> "map", life |-> main.life + 1]
    /\ UNCHANGED <<flags, device, servers, tx_queue, header, kick, tx_idle,
                   irq_done>>

----------------------------------------------------------------------------
\* task_net_tx_worker, from the batch it copied into the TX slots.
ChildAt(pc) == ~MainAt("map") /\ Activations[main.life] /\ child.pc = pc

ChildBatch(c) ==
    /\ ChildAt("batch")
    /\ header' = [header EXCEPT !.count = c]
    /\ child' = [child EXCEPT !.pc = "send"]
    /\ UNCHANGED <<flags, ntfns, device, tx_queue, network_armed, poll, main,
                   handed>>

ChildSend ==
    LET seq == IF child.seq + 1 = SeqMod THEN 1 ELSE child.seq + 1
    IN /\ ChildAt("send")
       /\ header' = [header EXCEPT !.request = seq]
       /\ child' = [child EXCEPT !.pc = "signal", !.seq = seq]
       /\ UNCHANGED <<flags, ntfns, device, tx_queue, network_armed, poll,
                      main, handed>>

ChildSignal ==
    /\ ChildAt("signal")
    /\ kick' = kick \cup {"kick"}
    /\ child' = [child EXCEPT !.pc = "await"]
    /\ UNCHANGED <<flags, device, tx_queue, header, tx_idle, tx_ntfn, irq_done,
                   network_armed, poll, main, handed>>

ChildAwait ==
    /\ ChildAt("await") /\ header.response # child.seq
    /\ child' = [child EXCEPT !.pc = "block"]
    /\ UNCHANGED <<flags, ntfns, device, tx_queue, header, network_armed, poll,
                   main, handed>>

ChildBlock ==
    /\ ChildAt("block") /\ tx_ntfn /\ tx_ntfn' = FALSE
    /\ child' = [child EXCEPT !.pc = "await"]
    /\ UNCHANGED <<flags, device, tx_queue, header, kick, tx_idle, irq_done,
                   network_armed, poll, main, handed>>

ChildAnsweredWhole ==
    LET accepted == header.accepted
    IN /\ ChildAt("await") /\ header.response = child.seq
       /\ child' = [child EXCEPT !.pc = CASE accepted > header.count -> "error"
                                          [] accepted = 0 -> "send"
                                          [] OTHER -> "batch"]
       /\ handed' = handed - IF accepted \in {0, Error} THEN 0
                             ELSE header.count
       /\ UNCHANGED <<flags, ntfns, device, tx_queue, header, network_armed,
                      poll, main>>

\* Nothing accepted: the same packets again.  Otherwise tx_tail moves over
\* the packets accepted and the next batch starts there.
ChildAnswered ==
    LET accepted == header.accepted
    IN /\ ChildAt("await") /\ header.response = child.seq
       /\ child' = [child EXCEPT !.pc = CASE accepted > header.count -> "error"
                                          [] accepted = 0 -> "send"
                                          [] OTHER -> "batch"]
       /\ handed' = handed - IF accepted = Error THEN 0 ELSE accepted
       /\ UNCHANGED <<flags, ntfns, device, tx_queue, header, network_armed,
                      poll, main>>

----------------------------------------------------------------------------
Device == DeviceReceives \/ \E i \in 1..QueueCount : DeviceSends(i)
Relay == RelayWake \/ RelayAck
Poll == \/ PollTop \/ PollWait \/ PollSleep \/ PollEnter \/ PollAck
        \/ PollBudget \/ PollService \/ PollNoService
        \/ PollAccept \/ PollFull \/ PollRefuse \/ PollAnswered \/ PollAgain
        \/ PollSchedule \/ PollRetry \/ PollLoad \/ PollSkip \/ PollRaw
        \/ PollLeave \/ PollIdle
Draining == DrainDriver \/ DrainQueue \/ DrainWait \/ DrainCancel
Stressing == StressQueue \/ StressDriver \/ StressKick \/ StressWait
Main == \/ MapChild \/ StressBegin \/ StressOpen \/ Deactivate
        \/ Stressing \/ Draining
Worker == ChildSend \/ ChildSignal \/ ChildAwait \/ ChildBlock \/ ChildAnswered
Child == Worker \/ \E c \in 1..Slots : ChildBatch(c)

Next == Device \/ Relay \/ TimerFires \/ Poll \/ Main \/ Child

Safety == Init /\ [][Next]_vars

\* The manager's main thread runs at the root task's priority, above the poll
\* thread's and the child's: once it can run, they do not.
MainRuns == \/ main.pc \in {"drain", "drain_queue", "cancel", "stress",
                            "stress_driver", "stress_kick"}
            \/ main.pc \in {"drain_wait", "stress_wait"} /\ tx_idle
Yields == ~MainRuns /\ (Poll \/ Child)
Scheduled == Device \/ Relay \/ TimerFires \/ Main \/ Yields

\* The device completes what it was given, the kernel delivers interrupts and
\* deadlines, and threads of one priority take turns.
Fairness == /\ \A i \in 1..QueueCount : WF_vars(DeviceSends(i))
            /\ WF_vars(Relay) /\ WF_vars(TimerFires)
            /\ WF_vars(Draining) /\ WF_vars(Stressing)
            /\ WF_vars(~MainRuns /\ Poll) /\ WF_vars(~MainRuns /\ Worker)
Spec == Init /\ [][Scheduled]_vars /\ Fairness

----------------------------------------------------------------------------
\* What the response of service_tx_notification or service_tx_timeout_retry
\* tells the worker and the worker has not taken note of yet.
Unread == IF /\ child.pc \in {"signal", "await", "block"}
             /\ header.response = child.seq /\ header.accepted # Error
          THEN header.accepted ELSE 0

\* No packet is lost or sent twice between the child's queue and the
\* manager's, whatever is accepted in part, refused, or timed out and sent
\* again: the manager has queued exactly the packets that the worker took off
\* its own queue or is about to learn were accepted.
HandedOverOnce == handed = Unread

\* Once luna_network_deactivate_child has returned, no packet of the child is
\* queued or with the device: its frames can be unmapped and the queue reset.
DrainedAtReturn ==
    MainAt("map") => ~child_active /\ Quiet(tx_queue) /\ ~tx_stress_gate

\* Every batch is eventually taken at least in part, even if the queue was
\* full, unless the child ends first.
BatchHandedOver ==
    ChildAt("send") ~> (child.pc \in {"batch", "error"} \/ MainAt("map"))

\* luna_network_deactivate_child returns: the poll thread wakes it once it
\* has left the driver and the queue has drained.
TeardownEnds == MainAt("drain") ~> MainAt("map")
=============================================================================
