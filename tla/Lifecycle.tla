----------------------------- MODULE Lifecycle -----------------------------
(***************************************************************************)
(* The manager's life (luna_isolation_smoke) and the child's main: the     *)
(* rollback audit, then a FAULT child, the STRESS children and a CLEAN     *)
(* one.  Each child is built by start_child, one acquisition at a time,    *)
(* any of which may fail; taken through the boot protocol on the control   *)
(* and command endpoints while the manager serves the memory requests of   *)
(* its threads; and taken apart by destroy_child.                          *)
(*                                                                         *)
(* held is what the allocators and the kernel have given out, recorded     *)
(* what struct luna_child_resources and the process say, which is all that *)
(* destroy_child goes by.  Disk, network and timer requests are modelled   *)
(* in modules of their own.                                                *)
(***************************************************************************)
EXTENDS ChildHeap, Sequences, SequencesExt

CONSTANTS Slots, Syncs,            \* LUNA_RESOURCE_SLOTS, LUNA_SYNC_SLOTS
          DiskPages, NetPages,     \* LUNA_DISK_IO_PAGES, LUNA_NET_IO_PAGES
          SpanPages,               \* pages under one large-page entry
          LightMax,                \* LUNA_ALLOCATOR_LIGHT_MAX_PAGES
          Rounds                   \* LUNA_RESTART_STRESS_ROUNDS

ASSUME LifecycleAssumption ==
    /\ Slots \in Nat /\ Syncs \in Nat /\ DiskPages \in Nat /\ NetPages \in Nat
    /\ SpanPages \in Nat \ {0} /\ Rounds \in Nat
    /\ Callers = 0..Slots                \* thread 0 is main
    /\ LightMax \in 2..HeapPages         \* the light test needs two pages

VARIABLES job,          \* the manager's place in Jobs
          mpc, k,       \* what it does, and the step of it
          after,        \* where it goes when the child is destroyed
          result,       \* destroy_child's result, then the whole program's
          held, recorded,
          leaf,         \* spans of the heap with a leaf page table
          cstate, cpc,  \* the child's main thread and the item it is at
          lkl,          \* LKL's threads are running
          stopped,      \* suspended threads of the child
          failed,       \* history: some operation failed
          undeleted     \* history: a cap could not be deleted

mvars == <<job, mpc, k, after, result, held, recorded, leaf>>
cvars == <<cstate, cpc, lkl, stopped>>
vars == <<hvars, mvars, cvars, failed, undeleted>>

----------------------------------------------------------------------------
(* The children, in order.  Every failpoint of the audit is a child that   *)
(* is rolled back at this stage of start_child.                            *)
Failpoints == 7
Jobs == [f \in 1..Failpoints |-> [mode |-> "STRESS", failpoint |-> f]]
        \o <<[mode |-> "FAULT", failpoint |-> 0]>>
        \o [r \in 1..Rounds |-> [mode |-> "STRESS", failpoint |-> 0]]
        \o <<[mode |-> "CLEAN", failpoint |-> 0]>>
Mode == Jobs[job].mode

For(n, Items(_)) == FlattenSeq([i \in 1..n |-> Items(i)])

\* map_persistent_disk and luna_network_map_child: a slot, a copied frame cap
\* and a mapping for every page of the window.
Window(slot, cap, map, n) ==
    For(n, LAMBDA i : <<<<slot, i>>, <<cap, i>>, <<map, i>>>>)

\* configure_resource_pool
PoolProgram ==
    For(Slots, LAMBDA i : <<<<"thread", i>>, <<"tcb_cap", i>>,
                            <<"join", i>>, <<"join_cap", i>>>>)
    \o For(Syncs, LAMBDA i : <<<<"sync", i>>, <<"sync_cap", i>>>>)
    \o <<<<"io_slot", 0>>, <<"io_cap", 0>>, <<"io_child", 0>>>>

\* start_child: what it takes, in order, and its failpoints.
StartProgram ==
    <<<<"process", 0>>, <<"failpoint", 1>>, <<"heap", 0>>, <<"failpoint", 2>>,
      <<"disk_window", 0>>>>
    \o Window("disk_slot", "disk_cap", "disk_map", DiskPages)
    \o <<<<"failpoint", 3>>, <<"net_window", 0>>>>
    \o Window("net_slot", "net_cap", "net_map", NetPages)
    \o <<<<"rx_ntfn", 0>>, <<"tx_ntfn", 0>>, <<"tx_submit_ntfn", 0>>,
         <<"failpoint", 4>>>>
    \o PoolProgram
    \o <<<<"failpoint", 5>>, <<"control", 0>>, <<"failpoint", 6>>,
         <<"command", 0>>, <<"failpoint", 7>>, <<"spawn", 0>>>>

\* Caps in the child's CSpace.
ChildCaps == {"tcb_cap", "join_cap", "sync_cap", "io_child", "rx_ntfn",
              "tx_ntfn", "tx_submit_ntfn", "control", "command"}

\* What may exist only as long as another thing does.
Backing(r) ==
    CASE r[1] = "tcb_cap" -> {<<"thread", r[2]>>, <<"process", 0>>}
      [] r[1] = "join_cap" -> {<<"join", r[2]>>, <<"process", 0>>}
      [] r[1] = "sync_cap" -> {<<"sync", r[2]>>, <<"process", 0>>}
      [] r[1] = "io_child" -> {<<"io_cap", 0>>, <<"process", 0>>}
      [] r[1] = "io_cap" -> {<<"io_slot", 0>>}
      [] r[1] = "disk_cap" -> {<<"disk_slot", r[2]>>}
      [] r[1] = "net_cap" -> {<<"net_slot", r[2]>>}
      [] r[1] = "disk_map" -> {<<"disk_cap", r[2]>>, <<"process", 0>>}
      [] r[1] = "net_map" -> {<<"net_cap", r[2]>>, <<"process", 0>>}
      [] r[1] \in {"process", "thread", "join", "sync", "io_slot",
                   "disk_slot", "net_slot"} -> {}
      [] OTHER -> {<<"process", 0>>}

\* Mutant: objects are freed before the child's caps to them are deleted.
DestroyProgramObjectsFirst ==
    <<<<"deactivate", 0>>, <<"suspend", 0>>>>
    \o For(Slots, LAMBDA i : <<<<"suspend", i>>, <<"thread", i>>, <<"join", i>>,
                     <<"tcb_cap", i>>, <<"join_cap", i>>>>)
    \o <<<<"heap", 0>>, <<"process", 0>>, <<"zero", 0>>>>

\* destroy_child, in order.
DestroyProgram ==
    <<<<"deactivate", 0>>, <<"suspend", 0>>>>
    \o For(Slots, LAMBDA i : <<<<"suspend", i>>, <<"tcb_cap", i>>,
                     <<"join_cap", i>>, <<"thread", i>>, <<"join", i>>>>)
    \o For(Syncs, LAMBDA i : <<<<"sync_cap", i>>, <<"sync", i>>>>)
    \o <<<<"io_child", 0>>, <<"rx_ntfn", 0>>, <<"tx_ntfn", 0>>,
         <<"tx_submit_ntfn", 0>>, <<"io_cap", 0>>, <<"io_slot", 0>>,
         <<"heap", 0>>, <<"process", 0>>>>
    \o [i \in 1..DiskPages |-> <<"disk_cap", i>>]
    \o [i \in 1..NetPages |-> <<"net_cap", i>>]
    \o <<<<"zero", 0>>>>

----------------------------------------------------------------------------
(* The boot protocol.  Child: send an event, receive a command, pass a     *)
(* test or spin for ever, allocate, free everything, start and halt LKL,   *)
(* touch the manager's private page.  Manager: expect one of some events,  *)
(* send a command, verify the IRQ, receive the fault.                      *)
Item(op, arg) == <<op, arg>>
Sends(events) == [i \in DOMAIN events |-> Item("send", {events[i]})]
Tested(events) == For(Len(events), LAMBDA i :
                        <<Item("test", 0), Item("send", {events[i]})>>)
Expects(events) == [i \in DOMAIN events |-> Item("expect", {events[i]})]
When(condition, items) == IF condition THEN items ELSE <<>>

Commands == For(Slots, LAMBDA i : <<<<"CONFIGURE_SLOT", i>>>>)
            \o For(Syncs, LAMBDA i : <<<<"CONFIGURE_SYNC", i>>>>)
            \o <<<<"CONFIGURE_CONSOLE", 0>>, <<"CONFIGURE_DISK", 0>>,
                 <<"CONFIGURE_NET", 0>>>>
IcmpEvents == {"NETWORK_ICMP_OK", "NETWORK_ICMP_UNAVAILABLE"}

\* luna_lkl_task_allocator_test, with sizes that fit a small heap: several
\* allocations, then the whole heap, or for the light profile no more.
AllocatorTest(mode) ==
    <<Item("alloc", 1), Item("alloc", 1), Item("free", 0)>>
    \o When(mode # "STRESS", <<Item("alloc", HeapPages), Item("free", 0)>>)

\* isolation_child.c, main and finish_child
ChildProgram(mode) ==
    Sends(<<"READY", "LKL_LINKED">>)
    \o [i \in DOMAIN Commands |-> Item("recv", Commands[i])]
    \o Tested(<<"RESOURCE_CONFIGURED">>)
    \o <<Item("recv", <<"START", 0>>)>>
    \o Tested(<<"RESOURCE_OK">>)
    \o AllocatorTest(mode)
    \o Tested(<<"ALLOCATOR_OK", "SYNC_TLS_OK", "THREAD_TIMER_OK">>)
    \o <<Item("lkl", 0)>>
    \o Tested(<<"LKL_INIT_OK", "LKL_BOOT_OK">>)
    \o When(mode = "CLEAN", Tested(<<"VIRTIO_NET_OK">>)
                            \o Sends(<<"NETWORK_IPV4_OK">>))
    \o Tested(<<"VIRTIO_BLOCK_OK">>)
    \o When(mode = "CLEAN",
            <<Item("test", 0), Item("send", IcmpEvents)>>
            \o Sends(<<"NETWORK_TCP_OK">>)
            \o Tested(<<"NETWORK_PRESSURE_OK", "NETWORK_TX_PRESSURE_OK",
                        "USER_PROGRAM_OK">>)
            \o Sends(<<"LKL_SHELL_READY">>))
    \o <<Item("halt", 0)>>
    \o Tested(<<"LKL_HALT_OK">>)
    \o Sends(<<"ALLOCATOR_RELEASED">>)
    \o IF mode = "FAULT" THEN <<Item("fault", 0)>> ELSE Sends(<<"DONE">>)

\* boot_child, wait_child_halt and what luna_isolation_smoke does with them
BootProgram(mode) ==
    Expects(<<"READY", "LKL_LINKED">>)
    \o [i \in DOMAIN Commands |-> Item("command", Commands[i])]
    \o Expects(<<"RESOURCE_CONFIGURED">>)
    \o <<Item("command", <<"START", 0>>)>>
    \o Expects(<<"RESOURCE_OK", "ALLOCATOR_OK", "SYNC_TLS_OK",
                 "THREAD_TIMER_OK", "LKL_INIT_OK", "LKL_BOOT_OK">>)
    \o When(mode = "CLEAN", Expects(<<"VIRTIO_NET_OK", "NETWORK_IPV4_OK">>))
    \o Expects(<<"VIRTIO_BLOCK_OK">>)
    \o When(mode = "CLEAN",
            <<Item("expect", IcmpEvents)>>
            \o Expects(<<"NETWORK_TCP_OK", "NETWORK_PRESSURE_OK",
                         "NETWORK_TX_PRESSURE_OK">>)
            \o <<Item("verify_irq", 0)>>
            \o Expects(<<"USER_PROGRAM_OK", "LKL_SHELL_READY">>))
    \o Expects(<<"LKL_HALT_OK", "ALLOCATOR_RELEASED">>)
    \o IF mode = "FAULT" THEN <<Item("fault", 0)>> ELSE Expects(<<"DONE">>)

Modes == {"FAULT", "STRESS", "CLEAN"}
ChildPrograms == [m \in Modes |-> ChildProgram(m)]
BootPrograms == [m \in Modes |-> BootProgram(m)]

----------------------------------------------------------------------------
Init ==
    /\ HInit
    /\ job = 1 /\ mpc = "start" /\ k = 1 /\ after = "next" /\ result = 0
    /\ held = {} /\ recorded = {} /\ leaf = {}
    /\ cstate = "none" /\ cpc = 1 /\ lkl = FALSE /\ stopped = {}
    /\ failed = FALSE /\ undeleted = FALSE

\* destroy_child is called; the manager goes on at next or out.
Destroy(where) == /\ mpc' = "destroy" /\ k' = 1 /\ result' = 0
                  /\ after' = where

Starting == StartProgram[k]
StartAt(kinds) == mpc = "start" /\ Starting[1] \in kinds

\* Kinds that no field of the resources records by themselves: a slot is
\* known only with the cap in it.
Unrecorded == {"disk_slot", "net_slot"}

\* One acquisition of start_child succeeds; the last one runs the child.
StartTake ==
    /\ mpc = "start" /\ ~StartAt({"failpoint"})
    /\ IF StartAt({"spawn"})
       THEN /\ mpc' = "boot" /\ k' = 1
            /\ cstate' = "run" /\ cpc' = 1
            /\ UNCHANGED <<held, recorded>>
       ELSE /\ k' = k + 1
            /\ held' = held \cup {Starting}
            /\ recorded' = IF StartAt(Unrecorded) THEN recorded
                           ELSE recorded \cup {Starting}
            /\ UNCHANGED <<mpc, cstate, cpc>>
    /\ UNCHANGED <<hvars, job, after, result, leaf, lkl, stopped, failed,
                   undeleted>>

SlotOf(r) == IF r[1] = "disk_cap" THEN <<"disk_slot", r[2]>>
             ELSE <<"net_slot", r[2]>>
MapOf(r) == IF r[1] = "disk_cap" THEN <<"disk_map", r[2]>>
            ELSE <<"net_map", r[2]>>

\* Mutant: the slot of a frame cap that cannot be copied is not given back.
StartFailKeepsSlot ==
    /\ mpc = "start" /\ ~StartAt({"failpoint"})
    /\ IF StartAt({"process"})
       THEN mpc' = "end" /\ result' = -1 /\ UNCHANGED <<k, after>>
       ELSE Destroy("out")
    /\ failed' = TRUE
    /\ UNCHANGED <<hvars, job, held, recorded, leaf, cvars, undeleted>>

(* One acquisition fails.  A frame cap that cannot be copied gives its     *)
(* slot back at once; everything else is left to destroy_child.            *)
StartFail ==
    /\ mpc = "start" /\ ~StartAt({"failpoint"})
    /\ IF StartAt({"process"})
       THEN mpc' = "end" /\ result' = -1 /\ UNCHANGED <<k, after>>
       ELSE Destroy("out")
    /\ held' = IF StartAt({"disk_cap", "net_cap"})
               THEN held \ {SlotOf(Starting)} ELSE held
    /\ failed' = TRUE
    /\ UNCHANGED <<hvars, job, recorded, leaf, cvars, undeleted>>

\* inject_start_rollback
Failpoint ==
    /\ StartAt({"failpoint"})
    /\ IF Jobs[job].failpoint = Starting[2] THEN Destroy("next")
       ELSE k' = k + 1 /\ UNCHANGED <<mpc, after, result>>
    /\ UNCHANGED <<hvars, job, held, recorded, leaf, cvars, failed,
                   undeleted>>

----------------------------------------------------------------------------
BootItem == BootPrograms[Mode][k]
BootAt(op) == mpc = "boot" /\ BootItem[1] = op
BootGoesOn == IF k = Len(BootPrograms[Mode]) THEN Destroy("next")
              ELSE k' = k + 1 /\ UNCHANGED <<mpc, after, result>>

ChildItem == ChildPrograms[Mode][cpc]
ChildAt(op) == /\ cstate = "run" /\ 0 \notin stopped
               /\ cpc <= Len(ChildPrograms[Mode])
               /\ ChildItem[1] = op

\* Mutant: the light profile may not use all the pages it is allowed.
EventFitsStrict(e) ==
    /\ e \in BootItem[2]
    /\ e = "ALLOCATOR_OK" =>
         IF Mode = "STRESS" THEN peak \in 1..LightMax - 1 ELSE peak = HeapPages

\* What receive_event_variant checks of an event beside its number.
EventFits(e) ==
    /\ e \in BootItem[2]
    /\ e \in {"ALLOCATOR_OK", "ALLOCATOR_RELEASED"} => mapped = {}
    /\ e = "ALLOCATOR_OK" =>
         IF Mode = "STRESS" THEN peak \in 1..LightMax ELSE peak = HeapPages

\* The child's main thread sends an event and the manager receives it.
Event ==
    /\ BootAt("expect") /\ ChildAt("send")
    /\ \E e \in ChildItem[2] : IF EventFits(e) THEN BootGoesOn
                               ELSE Destroy("out")
    /\ cpc' = cpc + 1
    /\ UNCHANGED <<hvars, job, held, recorded, leaf, cstate, lkl, stopped,
                   failed, undeleted>>

\* The manager sends a command; a child that expects another one spins.
Command ==
    /\ BootAt("command") /\ ChildAt("recv")
    /\ IF BootItem[2] = ChildItem[2]
       THEN cpc' = cpc + 1 /\ UNCHANGED cstate
       ELSE cstate' = "stuck" /\ UNCHANGED cpc
    /\ BootGoesOn
    /\ UNCHANGED <<hvars, job, held, recorded, leaf, lkl, stopped, failed,
                   undeleted>>

VerifyIrq(ok) ==
    /\ BootAt("verify_irq")
    /\ IF ok THEN BootGoesOn ELSE Destroy("out")
    /\ failed' = (failed \/ ~ok)
    /\ UNCHANGED <<hvars, job, held, recorded, leaf, cvars, undeleted>>

\* The manager receives the fault of the child's read of its private page.
Fault ==
    /\ BootAt("fault") /\ cstate = "faulted"
    /\ BootGoesOn
    /\ UNCHANGED <<hvars, job, held, recorded, leaf, cvars, failed,
                   undeleted>>

SpanOf(p) == p \div SpanPages
Spans == {SpanOf(p) : p \in Pages}

\* Mutant: no request is served while the manager waits for LKL to halt.
ServeUntilHalt(t, fails) ==
    /\ BootAt("expect") /\ t \notin stopped
    /\ "LKL_HALT_OK" \notin BootItem[2]
    /\ ServiceMemory(t, fails)
    /\ IF hcall'[t].error THEN Destroy("out") /\ failed' = TRUE
       ELSE UNCHANGED <<mpc, k, after, result, failed>>
    /\ leaf' = leaf \cup {SpanOf(p) : p \in mapped'}
    /\ UNCHANGED <<job, held, recorded, cvars, undeleted>>

(* A memory request is served while the manager waits for an event.  An    *)
(* error is answered, and then ends the child.                             *)
Serve(t, fails) ==
    /\ BootAt("expect") /\ t \notin stopped
    /\ ServiceMemory(t, fails)
    /\ IF hcall'[t].error THEN Destroy("out") /\ failed' = TRUE
       ELSE UNCHANGED <<mpc, k, after, result, failed>>
    /\ leaf' = leaf \cup {SpanOf(p) : p \in mapped'}
    /\ UNCHANGED <<job, held, recorded, cvars, undeleted>>

----------------------------------------------------------------------------
\* The child's main thread, between its messages.
ChildTest(ok) ==
    /\ ChildAt("test")
    /\ IF ok THEN cpc' = cpc + 1 /\ UNCHANGED <<cstate, failed>>
       ELSE cstate' = "stuck" /\ failed' = TRUE /\ UNCHANGED cpc
    /\ UNCHANGED <<hvars, mvars, lkl, stopped, undeleted>>

\* An allocation that fails fails the allocator test.
ChildAlloc ==
    /\ ChildAt("alloc")
    /\ HeapAlloc(0, ChildItem[2]) \/ HeapCall(0)
    /\ CASE CallAt(0, "reply") /\ ~hcall[0].error ->
              cpc' = cpc + 1 /\ UNCHANGED cstate
         [] ~(CallAt(0, "reply") /\ ~hcall[0].error)
            /\ ~CallAt(0, "idle") /\ hcall'[0].pc = "idle" ->
              cstate' = "stuck" /\ UNCHANGED cpc
         [] OTHER -> UNCHANGED <<cpc, cstate>>
    /\ UNCHANGED <<mvars, lkl, stopped, failed, undeleted>>

ChildFree ==
    /\ ChildAt("free")
    /\ IF allocations = {} THEN cpc' = cpc + 1 /\ UNCHANGED hvars
       ELSE /\ UNCHANGED cpc
            /\ \/ \E a \in allocations : HeapFree(0, a)
               \/ HeapReply(0)
    /\ UNCHANGED <<mvars, cstate, lkl, stopped, failed, undeleted>>

\* luna_lkl_task_init clears the heap's tables; LKL's threads start.
ChildStartsLkl ==
    /\ ChildAt("lkl")
    /\ lkl' = TRUE /\ cpc' = cpc + 1
    /\ heap_pages' = {} /\ allocations' = {} /\ manager_lock' = Nobody
    /\ UNCHANGED <<hcall, mheap, mvars, cstate, stopped, failed, undeleted>>

\* luna_lkl_task_halt returns when LKL's threads have ended and freed their
\* memory.
ChildHaltsLkl ==
    /\ ChildAt("halt")
    /\ allocations = {} /\ \A t \in Callers : CallAt(t, "idle")
    /\ lkl' = FALSE /\ cpc' = cpc + 1
    /\ UNCHANGED <<hvars, mvars, cstate, stopped, failed, undeleted>>

ChildFaults ==
    /\ ChildAt("fault")
    /\ cstate' = "faulted"
    /\ UNCHANGED <<hvars, mvars, cpc, lkl, stopped, failed, undeleted>>

\* LKL's threads allocate and free; while LKL halts they only free.
Worker(t) ==
    /\ lkl /\ t \in Callers \ (stopped \cup {0})
    /\ \/ HeapCall(t)
       \/ \E n \in Sizes : HeapAlloc(t, n) /\ ~ChildAt("halt")
       \/ \E a \in allocations : HeapFree(t, a)
    /\ UNCHANGED <<mvars, cvars, failed, undeleted>>

----------------------------------------------------------------------------
Destroying == DestroyProgram[k]
Deletable == ChildCaps \cup {"io_cap"}
Freeable == {"thread", "join", "sync", "io_slot", "heap"}

\* A frame cap that was copied but not mapped.
LeftOver(r) == /\ r[1] \in {"disk_cap", "net_cap"}
               /\ r \in recorded /\ MapOf(r) \notin recorded

\* What sel4utils_destroy_process gives back: the child's CSpace and VSpace
\* with the caps and mappings in them.
ProcessOwns ==
    {r \in held : r[1] \in ChildCaps \cup {"process", "disk_window",
                                           "net_window"}}
    \cup {r \in held : r[1] \in {"disk_map", "net_map"}}
    \cup UNION {{r, SlotOf(r)} : r \in {c \in held :
                    c[1] \in {"disk_cap", "net_cap"} /\ MapOf(c) \in held}}

\* What is left of held when destroy_child has dealt with r.
Released(r, fails) ==
    IF r \notin recorded THEN held
    ELSE CASE r[1] \in Deletable -> IF fails THEN held ELSE held \ {r}
           [] r[1] \in Freeable -> held \ {r}
           [] r[1] = "process" -> held \ ProcessOwns
           [] LeftOver(r) -> held \ ({SlotOf(r)} \cup IF fails THEN {}
                                                      ELSE {r})
           [] OTHER -> held

\* materialize_heap_reservation_metadata: the spans it maps a page in.
Unmaterialized == IF peak = HeapPages THEN {}
                  ELSE Spans \ {SpanOf(p) : p \in mapped}

\* Steps that can fail.  The bound is one cap that cannot be deleted.
CanFail(r) == \/ r \in recorded /\ r[1] \in Deletable /\ ~undeleted
              \/ LeftOver(r) /\ ~undeleted
              \/ r[1] = "heap" /\ r \in recorded /\ Unmaterialized # {}

\* The thread that a step of destroy_child suspends.
Stopped(r) ==
    IF r[1] = "suspend" /\ (IF r[2] = 0 THEN <<"process", 0>>
                            ELSE <<"thread", r[2]>>) \in recorded
    THEN {r[2]} ELSE {}

\* One step of destroy_child before its last.
DestroyStep(fails) ==
    /\ mpc = "destroy" /\ Destroying[1] # "zero"
    /\ fails => CanFail(Destroying)
    /\ held' = Released(Destroying, fails)
    /\ stopped' = stopped \cup Stopped(Destroying)
    /\ leaf' = IF Destroying[1] = "heap" /\ ~fails THEN leaf \cup Unmaterialized
               ELSE leaf
    /\ result' = IF fails THEN -1 ELSE result
    /\ failed' = (failed \/ fails)
    /\ undeleted' = (undeleted \/ (fails /\ Destroying[1] # "heap"))
    /\ k' = k + 1
    /\ UNCHANGED <<hvars, job, mpc, after, recorded, cstate, cpc, lkl>>

\* The resources are zeroed; on to the next child, or to the end.
Destroyed ==
    /\ mpc = "destroy" /\ Destroying[1] = "zero"
    /\ heap_pages' = {} /\ allocations' = {} /\ manager_lock' = Nobody
    /\ hcall' = [t \in Callers |-> NoCall]
    /\ mapped' = {} /\ peak' = 0 /\ leaf' = {} /\ recorded' = {}
    /\ cstate' = "none" /\ cpc' = 1 /\ lkl' = FALSE /\ stopped' = {}
    /\ IF after = "next" /\ result = 0 /\ job < Len(Jobs)
       THEN /\ job' = job + 1 /\ mpc' = "start" /\ k' = 1
            /\ UNCHANGED result
       ELSE /\ mpc' = "end"
            /\ result' = IF after = "next" THEN result ELSE -1
            /\ UNCHANGED <<job, k>>
    /\ UNCHANGED <<after, held, failed, undeleted>>

----------------------------------------------------------------------------
\* The root task is suspended at the end; a child that spins is waited for.
Over == mpc = "end" \/ (mpc = "boot" /\ cstate = "stuck")
Quiescent == Over /\ UNCHANGED vars

Manager == \/ StartTake \/ StartFail \/ Failpoint
           \/ \E ok \in BOOLEAN : VerifyIrq(ok)
           \/ Fault
           \/ \E fails \in BOOLEAN : DestroyStep(fails)
           \/ Destroyed
Rendezvous == \/ Event \/ Command
              \/ \E t \in Callers, fails \in BOOLEAN : Serve(t, fails)
ChildMain == \/ \E ok \in BOOLEAN : ChildTest(ok)
             \/ ChildAlloc \/ ChildFree \/ ChildStartsLkl \/ ChildHaltsLkl
             \/ ChildFaults
Next == \/ Manager \/ Rendezvous \/ ChildMain
        \/ \E t \in Callers : Worker(t)
        \/ Quiescent

(* The manager runs when it can, and the threads that wait to send to it   *)
(* are queued in order.  Threads of the child have one priority and take   *)
(* turns, so each that can run does.                                       *)
Spec == /\ Init /\ [][Next]_vars
        /\ WF_vars(Manager) /\ WF_vars(ChildMain)
        /\ WF_vars(Event) /\ WF_vars(Command)
        /\ \A t \in Callers :
             /\ WF_vars(Worker(t))
             /\ WF_vars(\E fails \in BOOLEAN : Serve(t, fails))

----------------------------------------------------------------------------

(* Whatever acquisition of start_child fails, at whatever failpoint it is  *)
(* rolled back and however far the child has come, destroy_child gives     *)
(* back everything the child had, so that the next child and the end of    *)
(* the program find nothing taken.  Only a cap that cannot be deleted is   *)
(* left behind.                                                            *)
NoLeak == (mpc = "end" \/ (mpc = "start" /\ k = 1)) /\ ~undeleted => held = {}

(* isolation_manager.c:357: copies of a cap in the child's CSpace are      *)
(* deleted before the object goes back to the allocator, frame caps before *)
(* their slots, and everything in the child before the process itself.     *)
CapsBeforeObjects == ~undeleted => \A r \in held : Backing(r) \subseteq held

(* A thread of the child that has not been suspended still has its stack,  *)
(* its address space and its heap: destroy_child takes nothing away under  *)
(* a thread that may be running.                                           *)
RunningThreadsIntact ==
    \A t \in Callers \ stopped :
        /\ t = 0 /\ cstate # "none" => {<<"process", 0>>, <<"heap", 0>>} \subseteq held
        /\ t > 0 /\ lkl => {<<"process", 0>>, <<"heap", 0>>, <<"thread", t>>}
                             \subseteq held

(* isolation_manager.c:310: the heap's reservation is freed only when every*)
(* span of it has a leaf table, or destroy_child reports the failure.      *)
ReservationClearable ==
    [][(<<"heap", 0>> \in held \ held' => leaf' = Spans \/ result' = -1)]_vars

(* destroy_child and the roll-back of start_child release in a safe order: *)
(* capabilities before objects, nothing under a running thread, and the    *)
(* heap's reservation with its leaf tables made.                           *)
ReleasedSafely ==
    [](CapsBeforeObjects /\ RunningThreadsIntact) /\ ReservationClearable

(* Manager and child never disagree by themselves: the program fails and a *)
(* child spins only if some acquisition, test, mapping or deletion failed. *)
(* In particular no event of one mode is taken for another's, and the      *)
(* heap is empty, with the profile's peak, when the child says so.         *)
NoFailureWithoutCause ==
    (mpc = "end" /\ result = -1) \/ cstate = "stuck" => failed

(* The program ends, or a child spins and is waited for: no order of       *)
(* events, commands and memory requests leaves manager and child waiting   *)
(* for each other.                                                         *)
Ends == <>Over
=============================================================================
