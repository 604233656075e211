# Luna: specifications and proofs

Luna runs LKL, the Linux kernel as a library, as an isolated seL4 task. This
directory holds TLA+ specifications of the parts of it that have state, TLC
configurations that check them on small instances, and TLAPS proofs of the
properties that do not depend on the size of the instance. All source paths
below are relative to `src/apps/lkl-root-task/src`.

## The system

Two protection domains share a machine.

* The **manager** (`main.c`, `isolation_manager.c`, `isolation_timer.c`,
  `isolation_net.c`) owns memory, devices and interrupts. It builds a child,
  serves its requests, and takes it apart. Its threads are the main thread, a
  timer interrupt thread, a network interrupt relay and a network poll thread.
* The **child** (`isolation_child.c`, `lkl_task_host.c`, `lkl_task_disk.c`,
  `lkl_task_net.c`, `lkl_task_user.c`, `shell.c`) runs LKL on host operations
  made from seL4 objects the manager has prepared: a fixed table of threads and
  a fixed pool of Notifications.

They interact in three ways:

1. **Requests.** A thread of the child takes the spin lock `manager_lock`,
   sends on `control_ep` and receives the answer on `command_ep`. The manager
   answers each request before it takes the next. If the manager's service of
   a request fails it stops receiving and destroys the child.
2. **Shared pages.** Windows for the disk and for network packets, with header
   words both sides access atomically.
3. **Notifications.** A signal wakes one waiter, or is remembered as one bit.

The manager runs children one after the other: seven that are rolled back on
purpose at failpoints of `start_child`, one that faults on purpose, a series of
stress restarts, and the interactive child, the only one that uses the network.

### Survey

| Part | State | Operations | What is hard about it |
|---|---|---|---|
| semaphores | count, waiters, a Notification | up, down, try_down, signal_once | waiting and posting without a lock; signals that collapse |
| mutexes, slot pool | slot use, owner, depth | claim, release, lock, unlock | a slot freed while a poster still holds it |
| threads, TLS | table of slots, join Notifications, values per key | create, detach, exit, join, cleanup | slot reuse, late signals, reads without the lock |
| child timer | generation, armed generation, epoch, deadline | alloc, set_oneshot, free, service thread | setter, service thread and free race on four words |
| timer manager | two deadlines, one PIT | arm, cancel, IRQ, deactivate | two users of one device; signals after unlock |
| page heap | bitmap and records in the child, mappings in the manager | alloc, free, map, unmap | two copies of one truth; partial failure |
| block device | batches, pending write, counters, window | read, write, flush, worker, finish | asynchronous writes, counted flushes, a shared window |
| transmit | child queue, header words, manager queue, DMA buffers | tx, worker, coalescing, poll thread, deadline, finish | partial acceptance, retries, sleep and wake, tear-down |
| receive | ring, window, three words, mask | receive_complete, batch fetch, poll, hup | a sleep/wake handshake that also has a mask |
| life cycle | resources held and recorded, boot protocol | start_child, boot, destroy_child | failure anywhere, order of release |
| console | ring, service thread | poll, take, stop | when to raise the interrupt |
| static runtime | worker slots, pipes, getopt lock | spawn, pipeline, waitpid, join | rollback, sharing one libc state |
| user heap | blocks of a static arena | malloc, free, realloc | splitting and joining blocks; realloc without the lock |
| descriptors, streams | map of virtual descriptors, read-ahead, FILE | open, close, dup2, lseek, read, getc, fopen, fread, ... | two readers of one offset; numbers used again |

`PROJECT.json` lists each with what is modelled, and the hazards with their
source lines and the properties that answer them.

## Modules

| Module | Models | Extends / instantiates |
|---|---|---|
| `CountingSemaphore` | abstract: a counting semaphore with fair waiters | |
| `HostSem` | `task_sem_*`, `luna_lkl_task_sem_signal_once` | implements `CountingSemaphore` |
| `SyncPool` | `task_sync_*`, `task_mutex_*`, and the semaphores that share their slots | |
| `ThreadParams`, `HostThreads` | `task_thread_*`, `task_tls_cleanup` | |
| `Console` | `task_console_*`: the polling thread, the ring, start and stop | |
| `TimerManager` | `isolation_timer.c` | |
| `ChildTimer` | `task_timer_*` composed with the manager | extends `TimerManager` |
| `DiskParams`, `BatchPool` | the claim and release of batches | |
| `WriteBackDisk` | abstract: a disk with ordered writes and honest flushes | |
| `DiskQueue` | `lkl_task_disk.c` and the manager's disk service | implements `BatchPool` and `WriteBackDisk` |
| `TxCoalesce` | the child's transmit queue, its worker and coalescing thread | |
| `NetTx` | hand-over of a batch and the manager's transmit path | |
| `NetRx` | the receive path of both sides | |
| `ChildHeap` | `task_heap_alloc`, `task_heap_free`, `service_memory_request` | |
| `Lifecycle` | `luna_isolation_smoke`, `start_child`, `destroy_child`, the child's `main` | extends `ChildHeap` |
| `ChildTable` | abstract: children that are started, end and are collected once | |
| `StaticRuntime` | the static BusyBox runtime: worker slots, pipelines, `waitpid`, `getopt` | implements `ChildTable` |
| `UserHeap` | `luna_bb_malloc`, `_free`, `_realloc` | |
| `Stdio` | the descriptors, `stdin` and `FILE`s of one applet | |
| `*Proofs` | theorems about the components (see Proofs) | |
| `MC*` | the instances TLC checks | |

`MCHostOps` and `MCUserRuntime` hold several components that share no state:
the first extends `HostSem`, `SyncPool`, `HostThreads` and `Console`, the
second `UserHeap`, `StaticRuntime` and `Stdio`. A variable `part` fixes which component a behaviour is about, so the
states are those of the components added up, not multiplied.

A definition has the name of the function it models where there is one, and
variables have the names of the C variables. `PROJECT.json` maps every
definition to its lines. Operators introduced by a comment `Mutant:` are
plausible mistakes in the definition that follows; no specification uses them.
They serve to confirm that a property fails when the code is wrong.

**Granularity.** Where threads share words without a lock, a step is one atomic
access (`HostSem`, `ChildTimer`, `Console`, the words of `NetRx` and `NetTx`).
Where a lock is held, the critical section is one step, or the holder is a
variable and the lock a guard if other things happen under it. A request to the manager is
one step unless something can happen between its parts that matters
(`ChildHeap` splits it). Accesses are sequentially consistent: the code uses
acquire and release or stronger, on one core.

**Layers.** `HostSem` shows that a host semaphore is a counting semaphore, and
`DiskQueue` and `TxCoalesce` use counters. `SyncPool` has what `HostSem` leaves
out, the slot below a semaphore being freed and used again. `TxCoalesce` takes
the hand-over of a batch as one step, in which the manager accepts at least one
packet or, for a child it has deactivated, refuses the batch; `NetTx` shows
that it does one or the other. `BatchPool` is the part of `DiskQueue` that is proved for
every size; the disk run checks that `DiskQueue` implements it.

**Time** is counted in ticks left to a deadline. Reading the clock is reading
the ticks left.

### What each module abstracts

* `HostSem`: one semaphore that is never freed (`SyncPool` has the freeing).
  `INT_MAX` is `IntMax`.
* `SyncPool`: claiming a slot is one step, and so is releasing one. Only the
  caller has the slot meanwhile, but for a late poster, and both drain the
  Notification: a signal before the drain of the claim is gone, one after it is
  the late signal of a later step. LKL, external, uses a semaphore as it
  does at start-up: for one event, and the waiter frees it at once. A poster
  that is still inside `task_sem_up` then is in `stale`; a slot in use that it
  signals is in `late`.
* `Console`: a start may be refused, or fail at the thread and leave the ring
  empty. LKL's interrupt handler is external and takes characters until it
  finds the ring empty. `raced` marks the ring emptied between the test for
  empty and the new head.
* `HostThreads`: what the code does under the table lock is one step. A slot's
  thread-local values are one bit: some key holds a value. LKL, which is
  external, joins only threads that do not detach themselves, perhaps twice and
  perhaps too late. Joins that fail at once, and `tid == 1`, change nothing and
  are no steps. Tids are bounded by `MaxTid`.
* `ChildTimer`: one client thread besides the callback, which may set the timer
  again. The service thread is started. `MaxGen` bounds the generations and
  `MaxLives` the children.
* `TimerManager`: `seL4_IRQHandler_Ack` succeeds. `pit_set_timeout` may fail.
* `DiskQueue`: LKL's virtio device issues one request at a time (as LKL does),
  and the thread that ends the device flushes beside it. A chunk's content is
  its number in the order of writing. `MaxLog` bounds the writes. A child may
  be destroyed at any step, and a new one finds the disk as it is.
* `TxCoalesce`: packets are counted. `nanosleep` takes any time. It may fail,
  which ends the coalescing thread; a worker that goes on waiting then waits
  for ever, so `PacketsLeave` and `MainReturns` except it. The manager may
  answer with more than the batch, which is its error for a child that is being
  torn down: the worker ends, senders are refused and `net_finish` returns -1.
  LKL's host threads
  get no signals, the only reason for which `nanosleep` fails. LKL transmits
  nothing after `net_finish` has freed the queue.
* `NetTx`: one or two packets a batch, one DMA buffer. `raw_tx` fails when
  there is no DMA buffer; that the driver also fails on a full ring is allowed
  and treated alike. Receiving shows only as interrupts. The relay's wait and
  its signal are one step; the badge of a submission is not told apart from a
  kick, as the poll thread does not look at either.
* `NetRx`: the first loads of `receive_complete` are one step, since only that
  thread moves `rx_head` and `rx_tail` only moves away from it. Mask and unmask
  come from the network self tests.
* `Lifecycle`: every acquisition of `start_child`, in its order, may fail, and
  so may every test, mapping and deletion, the latter once in a run. Sizes of
  heap, pools and windows are small. Disk, network and timer requests are in
  modules of their own. LKL frees its memory when it halts (external).
* `StaticRuntime`: applets are reduced to the calls they make (options parsed,
  reads, writes, status). Pipes are LKL's, external: a bounded count of units,
  end of file when no writing end is open, an error when no reading end is.
  Allocating and starting a slot is one step, since only the shell's thread
  allocates or releases. The reset of `optind` is BusyBox's.
* `UserHeap`: addresses and sizes in units of the alignment. A walk along the
  list takes one step a block, with the lock held. An applet may end without
  freeing, and what it held stays allocated.
* `Stdio`: a byte is its position in its file. One applet, one `FILE`, on a
  descriptor table that other applets share. Reads may fail and seeks be
  refused; `Seeks` are the pairs of whence and distance that are tried, and no
  seek goes past the end of a file. `dup2` is onto a virtual descriptor. `lost`
  marks read-ahead of `stdin` that was dropped, `skipped` a byte that a relative
  `fseek` passed over, `aliased` a `FILE` over a virtual descriptor that was
  closed.

## Runs

States are distinct states; all runs end within five minutes on two cores.

| Run | Instance | States | Shows |
|---|---|---|---|
| `host_operations` | semaphore: 3 threads, `IntMax` 2; pool: 1 slot, 3 threads; threads: 2 slots, 2 clients, 3 tids, 2 passes; console: a ring for 2 characters, 5 typed | 213,818 | no lost wakeup, refinement of the counting semaphore with its liveness; one token a mutex, posts that reach their waiter across reuse of a slot; join, reaper and slot reuse, every join returns; characters in order, none stranded |
| `child_timer` | 1 client and the callback, 2 children, 3 generations, failing PIT | 192,276 | no callback after free, none early, both deadlines covered, every timer ends |
| `child_timer_deferral` | the same, 1 child | | **violation**: a set timer can be lost |
| `disk` | 2 batches of 2 chunks, 2 blocks, 4 writes, failures, destroyed children | 159,334 | contents, order, honest flushes, balanced tokens, every request ends |
| `net_tx_safety` | queue 2, 1 DMA buffer, words mod 3, ack failure, stress gate, threads by priority | 1,907,917 | packets handed over exactly once, drained at tear-down |
| `net_tx_liveness` | interrupts, deadline may fail to be set | 226,718 | every batch is taken, the tear-down ends |
| `net_tx_polling_teardown` | no interrupts | | **violation**: the tear-down may hang |
| `net_rx` | ring 4, 2 slots, 5 packets | 272,017 | order, no loss, every wakeup but one, hup ends the poll |
| `lifecycle` | 3 heap pages, 2 slots, 1 sync, windows of 2 and 1 pages, 10 children | 912,952 | nothing leaks, order of release, heap agreement, no disagreement on the protocol, the program ends |
| `tx_coalesce` | 2 senders, 3 places, batches of 2, 3 packets | 753,726 | places balance, nothing stranded, finish returns, also when a batch is refused |
| `user_runtime` | heap: 12 units, 2 threads; applets: 3 slots, pipes of 1 unit, 2 commands, any start may fail; streams: 2 virtual descriptors, files of 3 bytes, buffer of 2, seeks from the start, the end and both ways from where it is | 376,094 | pieces disjoint and inside the heap, nothing lost, the copy of realloc in bounds; descriptors and slots accounted for, `getopt` serialized, children collected once, commands return unless a pipeline is rolled back; bytes in order, the map names open descriptors |
| `pipeline_rollback` | 3 slots, a background job, a pipeline of 3 | | **violation**: a command may never return |

**Why these bounds.** Each limit the code tests is reached: `INT_MAX`, a full
queue, ring and pool, an exhausted heap, sequence words that wrap, a batch that
fills and one that does not. Each instance has the actors its races need: the
passing-on of a wakeup needs two waiters and a poster, the semaphore has three
threads (and its proofs have no bound); a writer waits for a batch when both
hold a write, so four writes are enough to run out of them; a stale join signal
needs a slot used twice, the thread table hands out three tids on two slots; a
late signal needs a poster, an owner and a waiter, the pool has three threads
on one slot, so that every allocation is a reuse. The user heap holds three
small pieces, the least for a merge with both neighbours, or one large one. A
pipeline of three takes all worker slots, and a writer has one unit more to
write than a pipe holds. `DeferMin` is between the two timeouts of the timer
run, so that both branches of the deferral occur. `MaxReceived` exceeds the ring
of `net_rx`, so that it wraps.

The runs list no type invariants: the types of every component but `DiskQueue`
and `Lifecycle` are proved, as parts of the inductive invariants and as far as
these depend on them.

Deadlock is checked in `lifecycle`. The other specifications stop when their
bounded input is used up or when no thread has anything to ask for.

### Fairness

* Threads of the child have one priority and the kernel serves them round
  robin: weak fairness for each thread inside an operation. None has to begin
  an operation.
* The manager's threads have a higher priority than the child's: weak fairness.
  In `NetTx` the main thread, when it can run, runs before the poll thread and
  the child (`MainRuns`), as its priority is higher. Both passing runs
  of the module follow it: with every interleaving of the three threads the
  safety run has twice the states and does not end in five minutes on a slow
  machine. That its two invariants hold in every interleaving is proved
  (`PacketsHandedOnce` and `TeardownDrains` are about `Next`).
* The device sends what it was given, the line it raises is served, and time
  passes (`Tick`, `TimerFires`).
* `NetRx` assumes strong fairness of the poll thread, of unmasking and of the
  wake after hup: each takes `manager_lock`, a spin lock that other threads can
  take in between but that no thread keeps, and a thread that spins on it with
  `seL4_Yield` gets it in the end.
* A sleep ends; a callback returns.
* In `StaticRuntime` the shell's thread and each worker go on when they can; a
  user has to type nothing. `SyncPool`, `Console`, `UserHeap` and `Stdio` are
  checked for safety only: whether their callers come back for more is LKL's
  and the applets' affair. Of what could be stranded in them, a waiter or a
  character, `PostNotLost` and `RingServed` say who is on the way to it.

### Disagreements found

The three violation runs state what the repository's documents say and show an
execution of the code that does otherwise.

* `child_timer_deferral`: PHASE2.9-RESULTS.md:66 says the epoch closes the race
  between setter and service thread. `task_timer_service` clears the generation
  (`lkl_task_host.c:854`) before it advances the epoch (857); a setter between
  the two defers to a service thread that no longer looks. The passing run
  marks that step and a PIT that fails in the interrupt handler (`given_up`);
  `EveryTimerEnds` shows that nothing else loses a timer.
* `net_tx_polling_teardown`: in polling mode the poll thread can leave the
  driver without signalling `tx_idle_ntfn` and go to sleep
  (`isolation_net.c:509`), while `luna_network_deactivate_child` waits for it.
* `pipeline_rollback`: README.md:300-301 says that running out of worker slots
  returns a definite status. `luna_bb_run_pipeline` joins the stages it has
  started (`lkl_task_user.c:1838`) before it closes its own ends of their pipes
  (1842-1845), so a stage that reads to the end of its pipe never ends, and the
  shell with it. `ReturnsUnlessRolledBack` shows in the passing run that every
  other command returns.

Met while modelling and not made into runs. Each is named by a history variable
or a condition that a property excepts, so the property shows that nothing else
goes wrong:

* A receive wakeup can be lost when `rx_waiting` is taken while the
  Notification is masked and the ring is empty when it is unmasked
  (`isolation_net.c:1194`; only the network self tests mask). `held` marks it,
  `PacketsDelivered` excepts it.
* The signal of a `task_sem_up` whose semaphore has been freed reaches whatever
  uses the slot next. A semaphore's waiter looks at its count again and is not
  deceived; a mutex gets a second token. `late` marks it, `MutexHasOneToken`
  excepts it.
* The console thread compares the ring with empty before it stores the new
  head; a handler that empties the ring in between leaves a character without
  an interrupt until the next one. `raced` marks it, `RingServed` excepts it.
* When a stage of a pipeline cannot be started its slot is released by
  `task_static_start` and once more by the rollback, which takes the counter
  `task_static_current` below the number of slots in use. `doubled` counts
  these, `SlotsAccounted` takes them off.
* `fclose` of a `FILE` over a virtual descriptor closes the kernel descriptor
  below and leaves it in the map. `aliased` marks it, `MapNamesOpen` excepts
  it.
* An `lseek` on `stdin` that the kernel refuses has dropped the read-ahead by
  then, and so does a `dup2` onto `stdin` of the file it reads already
  (`lkl_task_user.c:885`, 907). `lost` marks it, `StdinExact` excepts it.
* A relative `fseek` with a character put back goes from the kernel's offset,
  which is one byte further than the applet is (`lkl_task_user.c:707`), and
  passes over that byte; `ftell` reports the same offset. `skipped` marks it,
  `StreamExact` excepts it.
* `task_thread_create` returns `selected->tid` without the lock
  (`lkl_task_host.c:179`), so for a thread that detaches itself it may return
  another tid; `CreateReturnsOwn` proves that threads to be joined are not
  affected.

## Proofs

TLAPS checks these for every value of the constants, from the assumptions named
in the modules. All of them are temporal theorems, `Spec => []Inv` or
`Spec => [][A]_vars`, that follow from an inductive invariant by `Init => Inv`
and `Inv /\ [Next]_vars => Inv'`. The two facts are lemmas; the second has one
lemma, or one step, for each action. Where a component's `Spec` has fairness
the theorem is about its safety part (`Safety`, `ThreadSafety`, `RxSafety`, ...).

| Component | Proof module | Theorems | For | Assumes |
|---|---|---|---|---|
| `HostSem` | `RuntimeProofs` | `WakeupNeverLost`, `WaitersExact`, `RefinesSemaphore`, `Invariance` | any finite set of threads, any `INT_MAX` | `SemAssumption` |
| `UserHeap` | `RuntimeProofs` | `PiecesDisjoint`, `NothingLost`, `ReallocCopies`, `FullWhenMallocFails`, `MallocInvariant` | any heap, header, threshold, threads, sizes | `MallocAssumption` |
| `SyncPool` | `SyncPoolProofs` | `MutexExcludes`, `PostReaches`, `PoolInvariant` | any slots, threads, depth | none |
| `HostThreads` | `TaskProofs` | `JoinOwnsSlot`, `SlotsExclusive`, `CreateReturnsOwn`, `WorkCompleted`, `ThreadsInvariant` | any slots, clients, tids, passes | `ThreadsAssumption` |
| `ChildHeap` | `TaskProofs` | `HeapAgreement`, `ScanCorrect`, `HeapInvariant` | any heap size, any number of callers | `HeapAssumption` |
| `BatchPool` | `TaskProofs` | `ClaimAlwaysSucceeds` | any number of batches and threads | `PoolAssumption` |
| `TimerManager` | `ChildTimerProofs` | `HardwareAlwaysCovers` | any children, PIT range, timeouts | `TimerAssumption`, `RequestAssumption` |
| `ChildTimer` | `ChildTimerProofs` | `FreeIsABarrier`, `FiresInTime`, `ChildAlwaysCovered` | any clients, generations, lives, timeouts | the same and `ChildAssumption` |
| `Console` | `InputProofs` | `CharactersInOrder`, `CharactersServed` | any ring | `ConsoleAssumption` |
| `Stdio` | `InputProofs` | `InputAlwaysExact`, `MapAlwaysOpen` | any descriptors, file length, buffer, read sizes | `StdioAssumption` |
| `TxCoalesce` | `TaskNetProofs` | `QueueAccountedFor`, `QueueInvariant` | any senders, queue, batch | `CoalesceAssumption` |
| `NetRx` | `TaskNetProofs` | `ReceivedIntact` | any ring, window, number of packets | `RxAssumption` |
| `NetTx` | `NetTxProofs` | `PacketsHandedOnce`, `TeardownDrains` | any queue, window, buffers, packets, both modes | `NetAssumption` |
| `StaticRuntime` | `StaticRuntimeProofs` | `ResourcesAccounted`, `OptionsSerialized`, `ChildTableImplemented` | any worker slots, commands, pipelines, pipes | `AppletAssumption` |

A proof module holds components that have nothing to do with each other when
they need the same library of theorems (`RuntimeProofs` and `TaskProofs`
cardinalities, `InputProofs` sequences).

The arguments:

* **Semaphore.** `NoLostWakeup` says that with a token available and a thread
  parked, a signal is pending or somebody will still look or signal. It is not
  inductive: a poster that reads `waiters = 0` goes away. `WaitersCounted`
  tells that then nobody is parked; `SignalDelivered` (no signal is pending
  while a thread is blocked) that a signal reaches a blocked thread; and
  `CasGuarded` that a compare-and-swap never takes the count below zero.
* **User heap.** `HeapOK`: the headers tile the array and no two free blocks
  are neighbours. `HeldOK`: blocks in use are the pieces handed out. `ClientOK`
  says what the walker of each loop knows: its position is a header of the
  current list, and what lies behind it was too small. `realloc` gives up the
  lock between its steps; its old block stays in `held`, so it exists with the
  noted size when the copy is made.
* **Slot pool.** `MutexHasOneToken` needs `SlotUse` (what each call in progress
  knows of the kind of its slot: a call on a freed slot is a late poster and
  nothing else) and `Yielded` (an owner that is about to signal has already
  given up the mutex). `PostNotLost` needs `WaitCounts` on top: a thread before
  or in its wait is counted in `waiters`, so a poster signals.
* **Threads.** A slot is taken back only from a finished thread because the
  join Notification is silent while the thread works (`SlotOK`), because a
  claimed slot is not given to anybody else (`JoinOK`), because at most one
  join holds the claim, and because a tid LKL may join is not detached. The
  invariant `TInv` relates slots, the threads on them, the tids LKL knows and
  the calls in progress. `WorkCompleted` is an action property: no step stops
  a thread that has not set `exited` and dropped its thread-local values.
* **Page heap.** `CallOK` records what the thread in the lock has found: the
  pages of its search are free and every earlier position has been ruled out.
  `ScanCorrect` is the reason for skipping to the page after a used one.
* **Batch pool.** A scan for a free batch that holds a token finds one although
  batches are claimed and freed ahead of it and behind it. `Matched`: for every
  position, the scans at or beyond it are at most the free batches from it on;
  `TokensExact` relates tokens and free batches. Both need cardinalities.
* **Timer manager.** `HardwareCovers` is inductive with the types: every
  handler that arms, cancels or drops a deadline reprograms the PIT for the
  earliest of both, clamped to its range, or drops the deadline it could not
  program. `ChildAlwaysCovered` carries it over to the composition: each step
  of the child is a step of the manager or leaves its state alone.
* **Child timer.** `Barrier`: the service thread sets `callback_running` before
  it reads `fn`, and `fn` is never an allocation whose free has come as far as
  clearing it; so a free that then sees `callback_running` clear has nothing
  to wait for, and one that waits, waits long enough. `FiresInTime` is an action property: when
  the service thread accepts generation g, g's deadline has passed. It needs
  `Ordered` (before a setter arms a generation nobody else knows it, and the
  lock covers the steps in between) and `Compared` (the deadline the service
  thread compared is that of the generation it loaded, unless another has
  replaced it, and then the generation check refuses it).
* **Console.** Modular indices make `ConsoleInOrder` unfit for induction.
  `RingHolds` says the same cell by cell, the wrap spelled out by cases: the
  ring, from the tail on, is the part of `accepted` that `taken` does not have.
  `RoomLeft` says that the free cell the thread found before it tested stays
  free, since only the handler moves the tail. A lemma leads back to the
  concatenation.
* **Descriptors and streams.** `InputExact` is relative to what the shared
  offset is: `stdin`'s position is what was returned plus what is buffered, a
  `FILE`'s what was returned plus the character put back. It is inductive with
  `MapNamesOpen`, `FileOpen` (a `FILE` has an open descriptor, and shares
  `stdin`'s open file only as its descriptor) and `StdinOff` (a closed `stdin`
  has no read-ahead, so `open` need not empty the buffer).
* **Transmit queue.** `QueueAccounted` says that free places, packets in the
  queue and senders with a place in hand add up, and that the queue stops only
  when what was promised has been sent. It needs `Counted`: packets sent and
  queued are those enqueued, up to the batch the worker has handed over and not
  yet taken off, and that batch is not larger than the queue. `Refused` is for
  a batch that the manager refuses: the places that are then given out to wake
  the senders lead nobody to the queue, since `tx_error` is set first. Each
  action that
  moves a place from one holder to another has a lemma about cardinalities.
* **Receive path.** `Contents` numbers the packets: the ring holds those after
  the window's, the window those after the last one LKL got, whichever of the
  three threads holds how much of it. `Places` is the hand-over that makes the
  window safe without a lock: the manager fills it only while LKL's poll
  thread, which has emptied it, waits for the answer.
* **Transmit hand-over.** `Handing`: a request is answered before the worker
  makes the next, and an answer the poll thread is about to give is still
  asked for, so a retry after a timeout repeats no packet. `Clearing`:
  `poll_in_driver` covers every pass of the poll thread, so when the tear-down
  has seen it clear, no packet enters the queue any more and an empty queue
  stays empty.
* **Static runtime.** `SlotsRight` (what a slot's flags say of its thread, and
  that a thread holds the `getopt` lock only inside its options), `PidsDiffer`
  (no pid is in two slots) and `ShellRight` (how far the launcher is in the
  list of slots it started) make `SlotsAccounted` and `GetoptSerialized`
  inductive. All steps of a worker are first shown to be a `ThreadMove`: they
  change its own slot and nothing of another's. The refinement maps a pid to
  what its slot says, or to "collected" when no slot has it any more;
  `PidsDiffer` makes that a function of the pid.

### Only model-checked

* All **liveness** properties: they need fairness and `ENABLED`, which these
  provers do not handle. With them the liveness part of `ImplementsSemaphore`;
  `RefinesSemaphore` proves its safety part.
* `ContentsRight`, `ImplementsWriteBack` and `ImplementsPool` of **`DiskQueue`**.
  An invariant that relates requests, batches, windows and the history of
  writes would be needed; its proof is not part of the project. The claim of
  batches is proved in `BatchPool`.
* `NoLeak`, `NoFailureWithoutCause` and `ReleasedSafely` of **`Lifecycle`**.
  Construction and destruction are sequences of steps that the model
  interprets; no proof follows them. Its page heap is proved in `ChildHeap`.

No theorem rests on induction over data or on a recursive operator.

## Not modelled

* **Thread-local keys**: `task_tls_alloc` and `task_tls_free`. LKL allocates
  its key at start-up and frees it at the end, when one thread is left.
* **Output streams, formatting, directories** of the BusyBox runtime, and its
  calls that only forward to LKL: they keep no state of their own.
* **Network set-up**: the interface configuration and probing of the card, one
  sequence of calls into external code.
* **Some error paths**, named in the components of `PROJECT.json`: the start of
  the timer's service thread, a failing interrupt acknowledgement of the timer,
  allocation failures when the network device is added.
* **Weak memory**: with acquire and release accesses on one core the
  interleavings are those modelled.
* **Capabilities as numbers**: a signal sent through a capability whose slot
  has been reused is taken to reach nobody.
* **LKL, seL4, virtio and Ethernet drivers, BusyBox**: external. Their
  behaviour is what the code uses of it.
* **Benchmarks, self tests, statistics, console messages**, the packing and
  build tools, and the Python and shell drivers under `tools/`: they either
  call the modelled operations or are not part of the running system.
