----------------------------- MODULE ChildTable -----------------------------
(***************************************************************************)
(* What the static BusyBox runtime promises the shell about the children   *)
(* it starts, as POSIX has it: a child gets a pid nobody had before, runs, *)
(* ends, and is collected exactly once, by a wait that comes after its     *)
(* end.  No child disappears while it runs and none is collected twice.    *)
(***************************************************************************)
EXTENDS Naturals

CONSTANT MaxPid       \* bound: the last pid handed out

VARIABLE child        \* per pid: "unborn", "running", "ended" or "collected"

Pids == 1..MaxPid

TableInit == child = [p \in Pids |-> "unborn"]

\* Pids are handed out in order.
Fork(p) == /\ child[p] = "unborn"
           /\ \A q \in Pids : q < p => child[q] # "unborn"
           /\ child' = [child EXCEPT ![p] = "running"]

End(p) == /\ child[p] = "running"
          /\ child' = [child EXCEPT ![p] = "ended"]

Collect(p) == /\ child[p] = "ended"
              /\ child' = [child EXCEPT ![p] = "collected"]

TableNext == \E p \in Pids : Fork(p) \/ End(p) \/ Collect(p)

TableSpec == TableInit /\ [][TableNext]_child
=============================================================================
