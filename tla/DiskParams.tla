---------------------------- MODULE DiskParams -----------------------------
(* The size of the child's block device, shared by the modules about it.    *)
EXTENDS Integers, FiniteSets

CONSTANTS DiskThreads, \* threads that call the device
          N            \* LUNA_DISK_LOCAL_QUEUE_COUNT

ASSUME PoolAssumption == IsFiniteSet(DiskThreads) /\ N \in Nat \ {0}
=============================================================================
