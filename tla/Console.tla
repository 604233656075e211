------------------------------ MODULE Console ------------------------------
(***************************************************************************)
(* The console input of the child (lkl_task_host.c): a thread polls the    *)
(* serial port and fills a ring, LKL's tty driver empties it from its      *)
(* interrupt handler, and the thread raises the interrupt only when it     *)
(* found the ring empty.  The ring is shared without a lock: every access  *)
(* of head or tail that another thread could come between is a step.       *)
(*                                                                         *)
(* External: lkl_trigger_irq marks the interrupt pending, and the handler  *)
(* runs in the console thread or in whichever thread holds LKL's CPU; it   *)
(* takes characters until the ring is empty.                               *)
(***************************************************************************)
EXTENDS Integers, Sequences

CONSTANTS RingSize,     \* TASK_CONSOLE_RING
          MaxTyped      \* bound: characters that arrive at the port

ASSUME ConsoleAssumption == RingSize \in Nat \ {0} /\ MaxTyped \in Nat

VARIABLES ring,         \* task_console_ring
          head, tail,   \* task_console_head, task_console_tail
          service,      \* the console thread: its step and its locals
          irq,          \* the interrupt is pending in LKL
          handler,      \* the interrupt handler: off, or at its next step
          stop,         \* the life of the console, from start to stop
          typed,        \* characters that have arrived, numbered from 1
          accepted,     \* history: characters that found room in the ring
          taken,        \* history: characters the driver got
          raced         \* history: the ring was emptied between the test for
                        \* empty and the new head

tty_vars == <<ring, head, tail, service, irq, handler, stop, typed, accepted,
              taken, raced>>

Empty == head = tail
NoService == [pc |-> "off", next |-> 0, was_empty |-> FALSE, char |-> 0]

TtyInit == /\ ring = [i \in 0..RingSize - 1 |-> 0]
           /\ head = 0 /\ tail = 0
           /\ service = NoService /\ stop = "never" /\ irq = FALSE /\ handler = "off"
           /\ typed = 0 /\ accepted = <<>> /\ taken = <<>> /\ raced = FALSE

\* task_console_start, called by the tty driver: refused without a port or an
\* interrupt, or while the console or its slot is in use; and the thread may
\* fail to start, which leaves the console as it was, its ring emptied.
Start ==
    /\ stop = "never"
    /\ \/ /\ head' = 0 /\ tail' = 0
          /\ \/ service' = [NoService EXCEPT !.pc = "poll"] /\ stop' = "started"
             \/ UNCHANGED <<service, stop>>
       \/ UNCHANGED <<head, tail, service, stop>>
    /\ UNCHANGED <<ring, irq, handler, typed, accepted, taken, raced>>

----------------------------------------------------------------------------
(* task_console_service                                                    *)

\* Mutant: a full ring is not noticed.
PollOverwrites ==
    LET next == (head + 1) % RingSize IN
    /\ service.pc = "poll" /\ stop = "started" /\ typed < MaxTyped
    /\ typed' = typed + 1
    /\ service' = [pc |-> "test", next |-> next, was_empty |-> FALSE, char |-> typed + 1]
    /\ UNCHANGED <<ring, head, tail, irq, handler, stop, accepted, taken, raced>>

\* A character is read from the port; it is dropped when the ring is full.
Poll ==
    LET next == (head + 1) % RingSize IN
    /\ service.pc = "poll" /\ stop = "started" /\ typed < MaxTyped
    /\ typed' = typed + 1
    /\ service' = IF next = tail THEN service
                  ELSE [pc |-> "test", next |-> next, was_empty |-> FALSE,
                        char |-> typed + 1]
    /\ UNCHANGED <<ring, head, tail, irq, handler, stop, accepted, taken, raced>>

Test ==
    /\ service.pc = "test"
    /\ service' = [service EXCEPT !.pc = "store", !.was_empty = Empty]
    /\ UNCHANGED <<ring, head, tail, irq, handler, stop, typed, accepted, taken, raced>>

Store ==
    /\ service.pc = "store"
    /\ ring' = [ring EXCEPT ![head] = service.char]
    /\ head' = service.next
    /\ accepted' = Append(accepted, service.char)
    /\ raced' = (raced \/ (Empty /\ ~service.was_empty))
    /\ service' = [service EXCEPT !.pc = "trigger"]
    /\ UNCHANGED <<tail, irq, handler, stop, typed, taken>>

\* Mutant: the interrupt is raised when the ring was not empty.
TriggerWhenFilled ==
    /\ service.pc = "trigger"
    /\ irq' = (irq \/ ~service.was_empty)
    /\ service' = [NoService EXCEPT !.pc = "poll"]
    /\ UNCHANGED <<ring, head, tail, handler, stop, typed, accepted, taken, raced>>

Trigger ==
    /\ service.pc = "trigger"
    /\ irq' = (irq \/ service.was_empty)
    /\ service' = [NoService EXCEPT !.pc = "poll"]
    /\ UNCHANGED <<ring, head, tail, handler, stop, typed, accepted, taken, raced>>

\* The loop finds stop_requested; the thread ends.
ServiceEnds ==
    /\ service.pc = "poll" /\ stop = "requested"
    /\ service' = NoService
    /\ UNCHANGED <<ring, head, tail, irq, handler, stop, typed, accepted, taken, raced>>

----------------------------------------------------------------------------
(* The driver's interrupt handler and task_console_take                     *)

Interrupt ==
    /\ irq /\ handler = "off"
    /\ irq' = FALSE /\ handler' = "take"
    /\ UNCHANGED <<ring, head, tail, service, stop, typed, accepted, taken, raced>>

\* The test for empty and the character; the handler leaves on -1.
Take ==
    /\ handler = "take"
    /\ IF Empty THEN handler' = "off" /\ UNCHANGED taken
                ELSE taken' = Append(taken, ring[tail]) /\ handler' = "advance"
    /\ UNCHANGED <<ring, head, tail, service, irq, stop, typed, accepted, raced>>

Advance ==
    /\ handler = "advance"
    /\ tail' = (tail + 1) % RingSize /\ handler' = "take"
    /\ UNCHANGED <<ring, head, service, irq, stop, typed, accepted, taken, raced>>

----------------------------------------------------------------------------
(* luna_lkl_task_console_stop: ask, wait for the thread, take its slot back *)

Stop ==
    /\ stop = "started" /\ stop' = "requested"
    /\ UNCHANGED <<ring, head, tail, service, irq, handler, typed, accepted, taken, raced>>

StopReturns ==
    /\ stop = "requested" /\ service.pc = "off" /\ stop' = "stopped"
    /\ UNCHANGED <<ring, head, tail, service, irq, handler, typed, accepted, taken, raced>>

TtyNext == \/ Start \/ Poll \/ Test \/ Store \/ Trigger \/ ServiceEnds
           \/ Interrupt \/ Take \/ Advance \/ Stop \/ StopReturns

TtySpec == TtyInit /\ [][TtyNext]_tty_vars

----------------------------------------------------------------------------
(* Properties                                                              *)

\* The characters in the ring, from tail to head.
Held == [k \in 1..(head - tail) % RingSize |-> ring[(tail + k - 1) % RingSize]]

\* The driver gets the characters that found room, each once and in order,
\* with the ring wrapping, full and written while it is read
\* (task_console_service, task_console_take).
ConsoleInOrder ==
    accepted = taken \o IF handler = "advance" THEN Tail(Held) ELSE Held

\* No character waits in the ring without an interrupt to come, unless the
\* handler emptied the ring just before the thread stored a character for
\* which it had found the ring not empty: that character raises none.
RingServed ==
    ~Empty => \/ irq \/ handler # "off" \/ raced
              \/ service.pc = "trigger" /\ service.was_empty
=============================================================================
