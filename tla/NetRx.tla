------------------------------- MODULE NetRx -------------------------------
(***************************************************************************)
(* The receive path: the manager's poll thread puts packets of the device  *)
(* in a ring (receive_complete), the manager's main thread copies them to  *)
(* the shared window when the child asks (service_rx_batch), and LKL's     *)
(* poll thread in the child takes them from there or sleeps until a signal *)
(* (task_net_poll, task_net_rx).  rx_produced, rx_consumed and rx_waiting  *)
(* are words of the shared window that decide when to sleep and to signal; *)
(* a third thread of the child may mask the signal and finally hangs up.   *)
(*                                                                         *)
(* The k-th packet the ring accepts has content k.                         *)
(***************************************************************************)
EXTENDS Integers

CONSTANTS Ring,         \* LUNA_NET_RX_QUEUE_COUNT
          WindowSlots,  \* LUNA_NET_BATCH_SLOTS
          MaxReceived   \* bound on the packets accepted

ASSUME RxAssumption == /\ Ring \in Nat \ {0, 1}
                       /\ WindowSlots \in Nat \ {0} /\ MaxReceived \in Nat

VARIABLES rx_head, rx_tail, rx_queue,             \* the manager's ring
          rx_produced, rx_consumed, rx_waiting,   \* words of the window
          rx_slots,                               \* packets in the window
          notification_masked,
          rx_active,    \* child_active
          rx_ntfn,      \* a signal not consumed yet
          receiver,     \* where the manager's poll thread is
          rx_main,      \* the manager's main thread and its locals
          poller,       \* LKL's poll thread and its locals
          hup, caller,  \* the flag, and the thread that sets it
          accepted, delivered,  \* history: packets in, packets to LKL
          held          \* history: signal_rx was masked after rx_waiting had
                        \* been taken, and nothing was signalled since

ring == <<rx_head, rx_tail, rx_queue>>
words == <<rx_produced, rx_consumed, rx_waiting, rx_slots>>
rx_flags == <<notification_masked, rx_active, hup, caller>>
history == <<accepted, delivered, held>>
rx_vars == <<ring, words, rx_flags, rx_ntfn, receiver, rx_main, poller,
             history>>

Next1(i) == (i + 1) % Ring
NoRequest == [pc |-> "idle", head |-> 0, count |-> 0]
PollStart == [pc |-> "top", count |-> 0, index |-> 0, produced |-> 0]

\* luna_network_map_child and luna_lkl_task_configure_net
RxInit == /\ rx_head = 0 /\ rx_tail = 0
          /\ rx_queue = [i \in 0..Ring - 1 |-> 0]
          /\ rx_produced = 0 /\ rx_consumed = 0 /\ rx_waiting = FALSE
          /\ rx_slots = [i \in 1..WindowSlots |-> 0]
          /\ notification_masked = FALSE /\ rx_active = TRUE
          /\ rx_ntfn = FALSE /\ hup = FALSE /\ caller = "idle"
          /\ receiver = "idle" /\ rx_main = NoRequest /\ poller = PollStart
          /\ accepted = 0 /\ delivered = 0 /\ held = FALSE

----------------------------------------------------------------------------
RingRoom == Next1(rx_head) # rx_tail

(* receive_complete: a packet is accepted if there is room, dropped else.  *)
(* In polling mode the poll thread leaves it with the device instead.      *)
ReceiveCheck ==
    /\ receiver = "idle" /\ rx_active /\ RingRoom
    /\ accepted < MaxReceived
    /\ receiver' = "publish"
    /\ UNCHANGED <<ring, words, rx_flags, rx_ntfn, rx_main, poller, history>>

ReceivePublish ==
    /\ receiver = "publish" /\ receiver' = "produced"
    /\ rx_queue' = [rx_queue EXCEPT ![rx_head] = accepted + 1]
    /\ rx_head' = Next1(rx_head)
    /\ accepted' = accepted + 1
    /\ UNCHANGED <<rx_tail, words, rx_flags, rx_ntfn, rx_main, poller,
                   delivered, held>>

ReceiveProduced ==
    /\ receiver = "produced" /\ receiver' = "exchange"
    /\ rx_produced' = rx_produced + 1
    /\ UNCHANGED <<ring, rx_consumed, rx_waiting, rx_slots, rx_flags, rx_ntfn,
                   rx_main, poller, history>>

\* The child is signalled if it said that it waits ...
ReceiveExchange ==
    /\ receiver = "exchange"
    /\ receiver' = IF rx_waiting THEN "masked" ELSE "idle"
    /\ rx_waiting' = FALSE
    /\ UNCHANGED <<ring, rx_produced, rx_consumed, rx_slots, rx_flags, rx_ntfn,
                   rx_main, poller, history>>

\* ... and signal_rx finds it neither masked nor ended.
ReceiveMasked ==
    /\ receiver = "masked"
    /\ receiver' = IF notification_masked THEN "idle" ELSE "signal"
    /\ held' = (held \/ notification_masked)
    /\ UNCHANGED <<ring, words, rx_flags, rx_ntfn, rx_main, poller, accepted,
                   delivered>>

ReceiveSignal ==
    /\ receiver = "signal" /\ receiver' = "idle"
    /\ rx_ntfn' = (rx_ntfn \/ rx_active)
    /\ UNCHANGED <<ring, words, rx_flags, rx_main, poller, history>>

----------------------------------------------------------------------------
\* service_rx_batch, while LKL's poll thread waits for the reply.
FetchLoad ==
    /\ rx_main.pc = "fetch"
    /\ rx_main' = [rx_main EXCEPT !.pc = IF rx_tail = rx_head THEN "reply"
                                         ELSE "copy",
                               !.head = rx_head]
    /\ UNCHANGED <<ring, words, rx_flags, rx_ntfn, receiver, poller, history>>

\* Mutant: tail moves up to the head loaded, whatever was copied.
FetchCopyAll ==
    LET used == (rx_main.head - rx_tail) % Ring
        count == IF used < WindowSlots THEN used ELSE WindowSlots
    IN /\ rx_main.pc = "copy"
       /\ rx_slots' = [i \in 1..WindowSlots |->
                         IF i <= count THEN rx_queue[(rx_tail + i - 1) % Ring]
                         ELSE rx_slots[i]]
       /\ rx_tail' = rx_main.head
       /\ rx_main' = [rx_main EXCEPT !.pc = "consumed", !.count = count]
       /\ UNCHANGED <<rx_head, rx_queue, rx_produced, rx_consumed, rx_waiting,
                      rx_flags, rx_ntfn, receiver, poller, history>>

FetchCopy ==
    LET used == (rx_main.head - rx_tail) % Ring
        count == IF used < WindowSlots THEN used ELSE WindowSlots
    IN /\ rx_main.pc = "copy"
       /\ rx_slots' = [i \in 1..WindowSlots |->
                         IF i <= count THEN rx_queue[(rx_tail + i - 1) % Ring]
                         ELSE rx_slots[i]]
       /\ rx_tail' = (rx_tail + count) % Ring
       /\ rx_main' = [rx_main EXCEPT !.pc = "consumed", !.count = count]
       /\ UNCHANGED <<rx_head, rx_queue, rx_produced, rx_consumed, rx_waiting,
                      rx_flags, rx_ntfn, receiver, poller, history>>

FetchConsumed ==
    /\ rx_main.pc = "consumed"
    /\ rx_consumed' = rx_consumed + rx_main.count
    /\ rx_main' = [rx_main EXCEPT !.pc = "reply"]
    /\ UNCHANGED <<ring, rx_produced, rx_waiting, rx_slots, rx_flags, rx_ntfn,
                   receiver, poller, history>>

FetchReply ==
    /\ rx_main.pc = "reply" /\ rx_main' = NoRequest
    /\ poller' = IF rx_main.count = 0 THEN [poller EXCEPT !.pc = "top"]
                 ELSE [poller EXCEPT !.pc = "top", !.count = rx_main.count,
                                     !.index = 0]
    /\ UNCHANGED <<ring, words, rx_flags, rx_ntfn, receiver, history>>

\* service_control(1), for another thread of the child; the requests of the
\* child's threads are served one at a time.
Mask ==
    /\ caller = "idle" /\ rx_main.pc = "idle" /\ rx_active
    /\ ~notification_masked
    /\ notification_masked' = TRUE
    /\ UNCHANGED <<ring, words, rx_active, hup, caller, rx_ntfn, receiver,
                   rx_main, poller, history>>

\* service_control(0)
Unmask ==
    /\ caller = "idle" /\ rx_main.pc = "idle" /\ rx_active
    /\ notification_masked
    /\ notification_masked' = FALSE
    /\ rx_main' = [rx_main EXCEPT !.pc = "unmasked"]
    /\ UNCHANGED <<ring, words, rx_active, hup, caller, rx_ntfn, receiver,
                   poller, history>>

UnmaskSignal ==
    /\ rx_main.pc = "unmasked" /\ rx_main' = NoRequest
    /\ rx_ntfn' = (rx_ntfn \/ rx_head # rx_tail)
    /\ held' = (held /\ rx_head = rx_tail)
    /\ UNCHANGED <<ring, words, rx_flags, receiver, poller, accepted,
                   delivered>>

\* Mutant: the flag alone, without NET_WAKE.
PollHupSilently ==
    /\ caller = "idle" /\ rx_active
    /\ hup' = TRUE /\ caller' = "done"
    /\ UNCHANGED <<ring, words, notification_masked, rx_active, rx_ntfn,
                   receiver, rx_main, poller, history>>

\* task_net_poll_hup sets hup ...
PollHup ==
    /\ caller = "idle" /\ rx_active
    /\ hup' = TRUE /\ caller' = "wake"
    /\ UNCHANGED <<ring, words, notification_masked, rx_active, rx_ntfn,
                   receiver, rx_main, poller, history>>

\* ... and asks the manager for a signal, which no mask holds back.
Wake ==
    /\ caller = "wake" /\ caller' = "done"
    /\ rx_main.pc = "idle" /\ rx_ntfn' = TRUE
    /\ UNCHANGED <<ring, words, notification_masked, rx_active, hup,
                   receiver, rx_main, poller, history>>

\* luna_network_deactivate_child, when the child is destroyed: new packets
\* are refused ...
RxDeactivate ==
    /\ rx_main.pc = "idle" /\ rx_active /\ rx_active' = FALSE
    /\ rx_main' = [rx_main EXCEPT !.pc = "drain"]
    /\ UNCHANGED <<ring, words, notification_masked, hup, caller, rx_ntfn,
                   receiver, poller, history>>

\* ... and once the poll thread has left the driver the ring is reset.
Drained ==
    /\ rx_main.pc = "drain" /\ receiver = "idle"
    /\ rx_main' = [rx_main EXCEPT !.pc = "down"]
    /\ rx_head' = 0 /\ rx_tail' = 0 /\ rx_ntfn' = FALSE
    /\ notification_masked' = FALSE
    /\ UNCHANGED <<rx_queue, words, rx_active, hup, caller, receiver,
                   poller, history>>

----------------------------------------------------------------------------
(* task_net_poll, in the thread LKL polls the device with.  A packet in    *)
(* the window is handed to LKL, which calls task_net_rx for it.            *)
PollerAt(pc) == rx_active /\ poller.pc = pc
PollerGo(pc) == poller' = [poller EXCEPT !.pc = pc]

PollerTop ==
    /\ PollerAt("top")
    /\ PollerGo(CASE hup -> "hup"
                  [] ~hup /\ poller.index < poller.count -> "rx"
                  [] OTHER -> "waiting")
    /\ UNCHANGED <<ring, words, rx_flags, rx_ntfn, receiver, rx_main, history>>

PollRx ==
    /\ PollerAt("rx")
    /\ delivered' = delivered + 1
    /\ poller' = [poller EXCEPT !.pc = "top", !.index = @ + 1]
    /\ UNCHANGED <<ring, words, rx_flags, rx_ntfn, receiver, rx_main,
                   accepted, held>>

\* Mutant: the poll thread does not say that it waits.
PollWaitingUnsaid ==
    /\ PollerAt("waiting") /\ UNCHANGED rx_waiting
    /\ poller' = [PollStart EXCEPT !.pc = "produced"]
    /\ UNCHANGED <<ring, rx_produced, rx_consumed, rx_slots, rx_flags, rx_ntfn,
                   receiver, rx_main, history>>

PollWaiting ==
    /\ PollerAt("waiting") /\ rx_waiting' = TRUE
    /\ poller' = [PollStart EXCEPT !.pc = "produced"]
    /\ UNCHANGED <<ring, rx_produced, rx_consumed, rx_slots, rx_flags, rx_ntfn,
                   receiver, rx_main, history>>

\* Load rx_produced, before sleeping and again after it.
PollProduced ==
    /\ rx_active /\ poller.pc \in {"produced", "woken"}
    /\ poller' = [poller EXCEPT !.produced = rx_produced,
                               !.pc = IF @ = "woken" THEN "compare"
                                      ELSE "consumed"]
    /\ UNCHANGED <<ring, words, rx_flags, rx_ntfn, receiver, rx_main, history>>

PollConsumed ==
    /\ PollerAt("consumed")
    /\ PollerGo(IF poller.produced = rx_consumed THEN "wait" ELSE "clear")
    /\ UNCHANGED <<ring, words, rx_flags, rx_ntfn, receiver, rx_main, history>>

PollerWait ==
    /\ PollerAt("wait") /\ rx_ntfn /\ rx_ntfn' = FALSE
    /\ PollerGo("woken")
    /\ UNCHANGED <<ring, words, rx_flags, receiver, rx_main, history>>

PollClear ==
    /\ PollerAt("clear") /\ rx_waiting' = FALSE
    /\ PollerGo("compare")
    /\ UNCHANGED <<ring, rx_produced, rx_consumed, rx_slots, rx_flags, rx_ntfn,
                   receiver, rx_main, history>>

PollCompare ==
    /\ PollerAt("compare")
    /\ PollerGo(CASE hup -> "hup"
                  [] ~hup /\ poller.produced = rx_consumed -> "top"
                  [] OTHER -> "request")
    /\ UNCHANGED <<ring, words, rx_flags, rx_ntfn, receiver, rx_main, history>>

PollRequest ==
    /\ PollerAt("request") /\ rx_main.pc = "idle"
    /\ rx_main' = [rx_main EXCEPT !.pc = "fetch"]
    /\ PollerGo("fetch")
    /\ UNCHANGED <<ring, words, rx_flags, rx_ntfn, receiver, history>>

----------------------------------------------------------------------------
Receive == \/ ReceivePublish \/ ReceiveProduced \/ ReceiveExchange
           \/ ReceiveMasked \/ ReceiveSignal
Serve == \/ FetchLoad \/ FetchCopy \/ FetchConsumed \/ FetchReply
         \/ UnmaskSignal \/ Drained
RxPoll == \/ PollerTop \/ PollRx \/ PollWaiting \/ PollProduced \/ PollConsumed
          \/ PollerWait \/ PollClear \/ PollCompare \/ PollRequest
RxNext == \/ ReceiveCheck \/ Receive \/ Serve \/ RxPoll
          \/ Mask \/ Unmask \/ PollHup \/ Wake \/ RxDeactivate

RxSafety == RxInit /\ [][RxNext]_rx_vars

(* The manager's threads and the child's all run; a thread that masks the  *)
(* signal unmasks it (the network smoke tests do) and one that sets hup    *)
(* goes on to wake the poll thread.  Its request can be overtaken by those *)
(* of other threads, but manager_lock lets it through at last.             *)
RxSpec == /\ RxSafety
          /\ WF_rx_vars(Receive) /\ WF_rx_vars(Serve) /\ SF_rx_vars(RxPoll)
          /\ SF_rx_vars(Unmask) /\ SF_rx_vars(Wake)

----------------------------------------------------------------------------

(* LKL gets the packets the ring accepted in order, none twice and none    *)
(* left out: the packet task_net_rx is about to copy is the one after the  *)
(* last it copied.  The ring wraps, is filled during the copy and is one   *)
(* entry short of full at most.                                            *)
DeliveredInOrder ==
    PollerAt("rx") => rx_slots[poller.index + 1] = delivered + 1

(* After luna_network_deactivate_child the ring is empty and no signal is  *)
(* left for the next child.                                                *)
EmptyAfterTeardown ==
    rx_main.pc = "down" => rx_head = rx_tail /\ ~rx_ntfn /\ receiver = "idle"

(* Packets are intact: in order while the child runs, and none left for    *)
(* the next child.                                                         *)
PacketsIntact == DeliveredInOrder /\ EmptyAfterTeardown

(* Every accepted packet gets to LKL, unless the device is hung up, the    *)
(* child ends or a wakeup is lost around the mask: rx_waiting was taken    *)
(* while masked, and unmasked when the ring was empty.                     *)
(* (MaxReceived ends the stream, so that catching up with it is delivering *)
(* every packet.)                                                          *)
PacketsDelivered ==
    delivered < accepted
      ~> (delivered = accepted \/ hup \/ held \/ ~rx_active)

(* task_net_poll_hup makes task_net_poll return, asleep or not, masked or  *)
(* not; LKL's netdev removal waits for that.                               *)
HupEndsPoll == hup ~> (poller.pc = "hup" \/ ~rx_active)
=============================================================================
