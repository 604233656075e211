---------------------------- MODULE ThreadParams ----------------------------
(* The parameters of the child's thread table, HostThreads.                *)
EXTENDS Integers, FiniteSets

CONSTANTS Slots,      \* the table, 1..LUNA_LKL_THREAD_SLOTS
          Clients,    \* threads outside the table that create and join
          Passes,     \* TASK_TLS_DESTRUCTOR_ITERATIONS
          MaxTid      \* bound: the last tid handed out

ASSUME ThreadsAssumption == /\ Slots \in SUBSET Nat /\ IsFiniteSet(Slots)
                            /\ Passes \in Nat \ {0}
                            /\ MaxTid \in Nat \ {0}
=============================================================================
