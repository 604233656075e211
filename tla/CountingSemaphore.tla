------------------------- MODULE CountingSemaphore -------------------------
(***************************************************************************)
(* What a counting semaphore promises its clients: a number of tokens and  *)
(* the set of threads that have asked for one.  A thread asks, is granted  *)
(* a token when there is one, and anyone may post a token below IntMax.    *)
(* Nothing is said of Notifications, waiter counts or retries: those are   *)
(* the business of HostSem, which implements this specification.           *)
(***************************************************************************)
EXTENDS Naturals

CONSTANTS Threads, IntMax, InitCount

VARIABLES value,    \* tokens available
          asking    \* threads whose down has not been granted yet

avars == <<value, asking>>

AInit == /\ value = InitCount
         /\ asking = {}

Ask(t) == /\ t \notin asking
          /\ asking' = asking \cup {t}
          /\ UNCHANGED value

Grant(t) == /\ t \in asking
            /\ value > 0
            /\ value' = value - 1
            /\ asking' = asking \ {t}

Post == /\ value < IntMax
        /\ value' = value + 1
        /\ UNCHANGED asking

ANext == \/ \E t \in Threads : Ask(t) \/ Grant(t)
         \/ Post

(***************************************************************************)
(* A token is not left lying while threads ask: if a grant stays possible, *)
(* one happens.  Which thread is served is not promised.                   *)
(***************************************************************************)
Served == WF_avars(\E t \in Threads : Grant(t))

ASpec == AInit /\ [][ANext]_avars /\ Served

ASafety == AInit /\ [][ANext]_avars
=============================================================================
