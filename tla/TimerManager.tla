---------------------------- MODULE TimerManager ----------------------------
(***************************************************************************)
(* The root manager's one-shot timer (isolation_timer.c): one PIT shared   *)
(* by the child's timer deadline and the network worker's backpressure     *)
(* deadline, and the IRQ thread that turns PIT interrupts into             *)
(* Notification signals.  Every handler runs under timer_state.lock and is *)
(* one action; the signals the IRQ thread sends after unlocking are        *)
(* another.                                                                *)
(*                                                                         *)
(* Times are countdowns: a deadline is the number of ticks left to it and  *)
(* Elapse lets one tick pass, so no clock has to be bounded.               *)
(***************************************************************************)
EXTENDS Integers

CONSTANTS Children,      \* wake Notifications of the children
          None,          \* seL4_CapNull
          PitMin,        \* PIT_MIN_NS, the shortest programmable timeout
          PitMax,        \* PIT_MAX_NS, the longest one
          PitMayFail     \* whether pit_set_timeout may report an error

ASSUME TimerAssumption == /\ None \notin Children
                          /\ PitMin \in Nat \ {0}
                          /\ PitMax \in Nat /\ PitMin <= PitMax
                          /\ PitMayFail \in BOOLEAN

VARIABLES armed, child_ntfn, generation, deadline,   \* the child's deadline
          network_armed, network_deadline,           \* the network worker's
          pit,        \* ticks to the PIT's interrupt, or Off
          irq,        \* a PIT interrupt the IRQ thread has not taken yet
          capture     \* what the IRQ thread has yet to signal

armvars == <<armed, child_ntfn, generation, deadline>>
netvars == <<network_armed, network_deadline>>
mvars == <<armvars, netvars, pit, irq, capture>>

Off == -1
Nothing == [child |-> None, network |-> FALSE]

MInit == /\ armed = FALSE /\ child_ntfn = None
         /\ generation = 0 /\ deadline = 0
         /\ network_armed = FALSE /\ network_deadline = 0
         /\ pit = Off /\ irq = FALSE /\ capture = Nothing

----------------------------------------------------------------------------
Clamp(d) == IF d < PitMin THEN PitMin ELSE IF d > PitMax THEN PitMax ELSE d

\* Mutant: the child's deadline wins over an earlier network deadline.
ChildFirst(a, d, n, e) == IF a THEN d ELSE e

\* The earlier of the child's deadline d and the network's e, if both are
\* armed.
Earliest(a, d, n, e) == IF a /\ (~n \/ d <= e) THEN d ELSE e

\* program_next on the given deadlines: the PIT is set to the earlier of the
\* armed ones, within its range, or cancelled.  On error it is left alone.
ProgramNext(a, d, n, e, error) ==
    IF error
    THEN PitMayFail /\ UNCHANGED pit
    ELSE pit' = IF a \/ n THEN Clamp(Earliest(a, d, n, e)) ELSE Off

(* luna_timer_manager_service, TIMER_ARM: refuse another child's request,  *)
(* ignore a generation that has been overtaken, else take over the         *)
(* hardware.                                                               *)
Arm(c, g, ns, error) ==
    /\ \/ /\ child_ntfn \notin {None, c}
          /\ error
          /\ UNCHANGED <<armvars, pit>>
       \/ /\ child_ntfn \in {None, c}
          /\ g < generation
          /\ ~error
          /\ UNCHANGED <<armvars, pit>>
       \/ /\ child_ntfn \in {None, c}
          /\ g >= generation
          /\ child_ntfn' = c
          /\ generation' = g
          /\ deadline' = ns
          /\ armed' = ~error
          /\ ProgramNext(TRUE, ns, network_armed, network_deadline, error)
    /\ UNCHANGED <<netvars, irq, capture>>

\* TIMER_CANCEL: the generation advances before the deadline is dropped.
Cancel(c, g, error) ==
    /\ \/ /\ child_ntfn \notin {None, c}
          /\ error
          /\ UNCHANGED <<armvars, pit>>
       \/ /\ child_ntfn \in {None, c}
          /\ g < generation
          /\ ~error
          /\ UNCHANGED <<armvars, pit>>
       \/ /\ child_ntfn \in {None, c}
          /\ g >= generation
          /\ generation' = g
          /\ armed' = FALSE
          /\ UNCHANGED <<child_ntfn, deadline>>
          /\ ProgramNext(FALSE, deadline, network_armed, network_deadline,
                         error)
    /\ UNCHANGED <<netvars, irq, capture>>

\* luna_timer_manager_schedule_network: a running deadline is kept.
ScheduleNetwork(ns) ==
    /\ ~network_armed
    /\ network_deadline' = ns
    /\ \E error \in BOOLEAN :
          /\ network_armed' = ~error
          /\ ProgramNext(armed, deadline, TRUE, ns, error)
    /\ UNCHANGED <<armvars, irq, capture>>

\* luna_timer_manager_cancel_network
CancelNetwork ==
    /\ network_armed
    /\ network_armed' = FALSE
    /\ UNCHANGED network_deadline
    /\ \E error \in BOOLEAN :
          ProgramNext(armed, deadline, FALSE, network_deadline, error)
    /\ UNCHANGED <<armvars, irq, capture>>

\* luna_timer_manager_deactivate, when a child is destroyed.
Deactivate ==
    /\ armed' = FALSE /\ child_ntfn' = None
    /\ generation' = 0 /\ deadline' = 0
    /\ network_armed' = FALSE /\ network_deadline' = 0
    /\ pit' = Off
    /\ UNCHANGED <<irq, capture>>

----------------------------------------------------------------------------
(* handle_timer_irq, the part under the lock: the deadlines that are due   *)
(* are disarmed and captured, the others programmed again.  If that fails  *)
(* both are dropped.                                                       *)
HandleIrq ==
    /\ irq /\ capture = Nothing
    /\ irq' = FALSE
    /\ LET childDue == armed /\ deadline = 0
           netDue == network_armed /\ network_deadline = 0
           a == armed /\ ~childDue
           n == network_armed /\ ~netDue
       IN /\ capture' = [child |-> IF childDue THEN child_ntfn ELSE None,
                         network |-> netDue]
          /\ IF a \/ n
             THEN \E error \in BOOLEAN :
                     /\ ProgramNext(a, deadline, n, network_deadline, error)
                     /\ armed' = (a /\ ~error)
                     /\ network_armed' = (n /\ ~error)
             ELSE /\ armed' = a /\ network_armed' = n
                  /\ UNCHANGED pit
    /\ UNCHANGED <<child_ntfn, generation, deadline, network_deadline>>

\* The signals after the unlock, and the acknowledgement of the IRQ thread.
DeliverIrq == /\ capture # Nothing
              /\ capture' = Nothing
              /\ UNCHANGED <<armvars, netvars, pit, irq>>

\* The PIT raises its interrupt, up to a tick early (its ticks and the
\* cycles_to_ns conversion both round down); a second interrupt before the
\* first is handled is merged with it.
PitExpire == /\ pit \in 0..1
             /\ pit' = Off
             /\ irq' = TRUE
             /\ UNCHANGED <<armvars, netvars, capture>>

\* Time left after a tick; a deadline in the past has none left.
Less(d) == IF d > 0 THEN d - 1 ELSE d

\* One tick of time.
Elapse == /\ deadline' = Less(deadline)
          /\ network_deadline' = Less(network_deadline)
          /\ pit' = Less(pit)
          /\ UNCHANGED <<armed, child_ntfn, generation, network_armed, irq,
                         capture>>

----------------------------------------------------------------------------
(* The manager on its own, driven by any requests a child and the network  *)
(* worker can make.                                                        *)
CONSTANTS Generations,   \* generations a child may name
          Timeouts,      \* timeouts asked for, in ticks
          NetTimeouts    \* timeouts the network worker asks for

ASSUME RequestAssumption == /\ Generations \subseteq Nat \ {0}
                            /\ Timeouts \subseteq Nat \ {0}
                            /\ NetTimeouts \subseteq Nat \ {0}

NetworkStep == (\E ns \in NetTimeouts : ScheduleNetwork(ns)) \/ CancelNetwork

IrqStep == HandleIrq \/ DeliverIrq

MNext == \/ \E c \in Children, g \in Generations, error \in BOOLEAN :
               \/ \E ns \in Timeouts : Arm(c, g, ns, error)
               \/ Cancel(c, g, error)
         \/ NetworkStep
         \/ Deactivate
         \/ IrqStep
         \/ PitExpire
         \/ Elapse

MSafety == MInit /\ [][MNext]_mvars

----------------------------------------------------------------------------
\* Types; in particular a deadline that has passed stays at zero.
MTypeOK == /\ armed \in BOOLEAN /\ network_armed \in BOOLEAN
           /\ child_ntfn \in Children \cup {None}
           /\ generation \in Nat
           /\ deadline \in Nat /\ network_deadline \in Nat
           /\ pit \in Nat \cup {Off}
           /\ irq \in BOOLEAN
           /\ capture \in [child : Children \cup {None}, network : BOOLEAN]

Latest(a, b) == IF a > b THEN a ELSE b

Covers(d) == irq \/ (pit # Off /\ pit <= Latest(d, PitMin))

(* Every armed deadline is covered by the hardware (program_next,          *)
(* handle_timer_irq): an interrupt is already raised, or the PIT will      *)
(* raise one no later than the deadline or its shortest timeout.  Two      *)
(* clients share the PIT, arm and cancel at any time, interrupts come      *)
(* early and are merged; none of it leaves a deadline to no interrupt.     *)
HardwareCovers == /\ armed => Covers(deadline)
                  /\ network_armed => Covers(network_deadline)
=============================================================================
