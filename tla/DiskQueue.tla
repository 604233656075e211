----------------------------- MODULE DiskQueue -----------------------------
(***************************************************************************)
(* The child's asynchronous block device (lkl_task_disk.c) and the         *)
(* manager's side of it (isolation_manager.c).  LKL's virtio-blk device    *)
(* issues one request at a time; the thread that shuts the device down     *)
(* (luna_lkl_task_disk_finish) flushes beside it.  Writes are gathered in  *)
(* batches that a worker thread copies to the shared window and submits;   *)
(* reads use the window directly.                                          *)
(*                                                                         *)
(* Semaphores are counters that sem_down waits on (CountingSemaphore, which*)
(* HostSem implements).  A spin lock's holder and the words only its       *)
(* holder touches change together.  The i-th chunk written has content i.  *)
(***************************************************************************)
EXTENDS DiskParams, Sequences

CONSTANTS Lkl, Finisher,   \* the two threads that call the device
          None,
          Slots,           \* LUNA_DISK_BATCH_SLOTS
          Blocks,          \* chunks of the disk
          Requests,        \* write requests: the chunks each one covers
          MaxLog,          \* bound on the chunks written
          MayCrash,        \* whether children are destroyed
          MayFail          \* whether a request to the manager may fail

ASSUME DiskAssumption == /\ Lkl # Finisher /\ DiskThreads = {Lkl, Finisher}
                         /\ None \notin DiskThreads
                         /\ Slots \in Nat \ {0}
                         /\ Requests \subseteq Seq(Blocks)

VARIABLES batch,           \* task_disk_batches
          pending_write,   \* task_disk_pending_write
          write_lock,      \* holder of task_disk_write_lock_word, or None
          async_pending, async_error, stop,
          halted,          \* LKL issues no more requests
          free_sem, worker_sem, async_sem, gate_sem, done_sem,
          manager_lock,    \* holder of manager_lock, or None
          window,          \* the data slots of the shared window
          req,             \* the request of each thread, and its locals
          worker,          \* the worker thread and the batch it holds
          disk,            \* the manager's backing store
          serving,         \* no request of this child has failed
          log, stored      \* history: see WriteBackDisk

sems == <<free_sem, worker_sem, async_sem, gate_sem, done_sem>>
queue == <<batch, pending_write, write_lock, async_pending>>
shared == <<manager_lock, window, disk, serving>>
history == <<log, stored>>
vars == <<queue, async_error, stop, halted, sems, shared, req, worker,
          history>>

Batches == 1..N

Failed == -1
NoBatch == [state |-> "FREE", seq |-> 0, auto |-> FALSE, error |-> FALSE,
            chunks |-> <<>>]
NoReq == [pc |-> "idle", op |-> None, todo |-> <<>>, batch |-> None,
          pos |-> 0, wait |-> 0, barrier |-> 0]
NoWork == [pc |-> "down", batch |-> None, error |-> FALSE]

\* luna_lkl_task_configure_disk and luna_lkl_task_disk_add
Init == /\ batch = [b \in Batches |-> NoBatch]
        /\ pending_write = None /\ write_lock = None
        /\ async_pending = 0 /\ async_error = FALSE
        /\ stop = FALSE /\ halted = FALSE
        /\ free_sem = N /\ worker_sem = 0 /\ async_sem = 0
        /\ gate_sem = 1 /\ done_sem = [b \in Batches |-> 0]
        /\ manager_lock = None
        /\ window = [i \in 1..Slots |-> 0]
        /\ req = [t \in DiskThreads |-> NoReq]
        /\ worker = NoWork
        /\ disk = [b \in Blocks |-> 0] /\ serving = TRUE
        /\ log = <<>> /\ stored = 0

At(t, pc) == req[t].pc = pc
Go(t, pc) == req' = [req EXCEPT ![t].pc = pc]
Finish(t) == req' = [req EXCEPT ![t] = NoReq]

----------------------------------------------------------------------------
\* Mutant: the batch is looked for without waiting for a token.
ClaimDownUnguarded(t) ==
    /\ \/ /\ At(t, "chunk") /\ req[t].todo # <<>> /\ pending_write = None
       \/ At(t, "claim")
    /\ free_sem' = IF free_sem > 0 THEN free_sem - 1 ELSE 0
    /\ req' = [req EXCEPT ![t].pc = "scan", ![t].pos = 1]
    /\ UNCHANGED <<queue, async_error, stop, halted, worker_sem, async_sem,
                   gate_sem, done_sem, shared, worker, history>>

(* task_disk_claim_batch, for a chunk with no batch to go to and for a     *)
(* flush: a token of the free semaphore ...                                *)
ClaimDown(t) ==
    /\ \/ /\ At(t, "chunk") /\ req[t].todo # <<>> /\ pending_write = None
       \/ At(t, "claim")
    /\ free_sem > 0 /\ free_sem' = free_sem - 1
    /\ req' = [req EXCEPT ![t].pc = "scan", ![t].pos = 1]
    /\ UNCHANGED <<queue, async_error, stop, halted, worker_sem, async_sem,
                   gate_sem, done_sem, shared, worker, history>>

\* ... and a pass over the batches.
ClaimScan(t) ==
    LET p == req[t].pos
        write == req[t].op = "write"
    IN /\ At(t, "scan")
       /\ IF p > N
          THEN /\ free_sem' = free_sem + 1
               /\ req' = [req EXCEPT ![t] = [NoReq EXCEPT !.barrier =
                                      IF write THEN @ ELSE Failed]]
               /\ write_lock' = IF write THEN None ELSE write_lock
               /\ UNCHANGED <<batch, pending_write>>
          ELSE /\ IF batch[p].state # "FREE"
                  THEN /\ req' = [req EXCEPT ![t].pos = @ + 1]
                       /\ UNCHANGED <<batch, pending_write>>
                  ELSE /\ batch' = [batch EXCEPT ![p].state = "BUILDING"]
                       /\ pending_write' = IF write THEN p ELSE pending_write
                       /\ req' = [req EXCEPT ![t].pos = 0,
                                    ![t].pc = IF write THEN "chunk"
                                              ELSE "submit",
                                    ![t].batch = IF write THEN None ELSE p]
               /\ UNCHANGED <<free_sem, write_lock>>
       /\ UNCHANGED <<async_pending, async_error, stop, halted, worker_sem,
                      async_sem, gate_sem, done_sem, shared, worker, history>>

(* task_disk_sequence.  Numbers are compared only between batches that are *)
(* ready, so they are counted from the newest of those.                    *)
NextSeq == LET S == {batch[b].seq : b \in Batches}
           IN 1 + CHOOSE i \in S : \A j \in S : i >= j

\* task_disk_publish_batch up to the store of READY, on the given contents.
Ready(b, chunks, auto) ==
    [batch EXCEPT ![b] = [state |-> "READY", seq |-> NextSeq, auto |-> auto,
                          error |-> TRUE, chunks |-> chunks]]

----------------------------------------------------------------------------
\* task_disk_request: a write is queued; a read and a flush first wait for
\* the writes queued before.
Write(t, blocks) ==
    /\ t = Lkl /\ At(t, "idle") /\ ~halted
    /\ write_lock = None
    /\ Len(log) + Len(blocks) <= MaxLog
    /\ write_lock' = t
    /\ req' = [req EXCEPT ![t].pc = "chunk", ![t].op = "write",
                          ![t].todo = blocks]
    /\ UNCHANGED <<batch, pending_write, async_pending, async_error, stop,
                   halted, sems, shared, worker, history>>

Begin(t, op, todo) ==
    /\ At(t, "idle")
    /\ gate_sem > 0 /\ gate_sem' = gate_sem - 1
    /\ req' = [req EXCEPT ![t] = [NoReq EXCEPT !.pc = "take", !.op = op,
                                               !.todo = todo,
                                  !.barrier = IF op = "read" THEN 0
                                              ELSE Len(log)]]
    /\ UNCHANGED <<queue, async_error, stop, free_sem, worker_sem, async_sem,
                   done_sem, shared, worker, history>>

Read(t, b) == t = Lkl /\ ~halted /\ Begin(t, "read", <<b>>) /\ UNCHANGED halted
Flush(t) == t = Lkl /\ ~halted /\ Begin(t, "flush", <<>>) /\ UNCHANGED halted

\* luna_lkl_task_disk_finish calls task_disk_flush_writes itself.
Sync(t) == /\ t = Finisher /\ ~halted
           /\ Begin(t, "sync", <<>>)
           /\ UNCHANGED halted

----------------------------------------------------------------------------

Full(chunks) == Len(chunks) = Slots

\* task_disk_queue_write: a chunk is copied into the batch, and when it is
\* full it is published.
AddChunk(t) ==
    /\ At(t, "chunk") /\ req[t].todo # <<>> /\ pending_write # None
    /\ LET b == pending_write
           chunk == [block |-> Head(req[t].todo), value |-> Len(log) + 1]
           chunks == Append(batch[b].chunks, chunk)
       IN /\ log' = Append(log, chunk.block)
          /\ IF Full(chunks)
             THEN /\ batch' = Ready(b, chunks, TRUE)
                  /\ async_pending' = async_pending + 1
                  /\ pending_write' = None
                  /\ req' = [req EXCEPT ![t].pc = "post",
                                        ![t].todo = Tail(@)]
             ELSE /\ batch' = [batch EXCEPT ![b].chunks = chunks]
                  /\ req' = [req EXCEPT ![t].todo = Tail(@)]
                  /\ UNCHANGED <<async_pending, pending_write>>
    /\ UNCHANGED <<write_lock, async_error, stop, halted, sems, shared, worker,
                   stored>>

\* The sem_up of task_disk_publish_batch, inside task_disk_queue_write.
PostWrite(t) ==
    /\ At(t, "post")
    /\ worker_sem' = worker_sem + 1
    /\ Go(t, "chunk")
    /\ UNCHANGED <<queue, async_error, stop, halted, free_sem, async_sem,
                   gate_sem, done_sem, shared, worker, history>>

EndWrite(t) ==
    /\ At(t, "chunk") /\ req[t].todo = <<>>
    /\ write_lock' = None
    /\ Finish(t)
    /\ UNCHANGED <<batch, pending_write, async_pending, async_error, stop,
                   halted, sems, shared, worker, history>>

----------------------------------------------------------------------------
\* task_disk_flush_writes, once it holds the gate: publish the batch being
\* built ...
TakePending(t) ==
    /\ At(t, "take") /\ write_lock = None
    /\ IF pending_write # None
       THEN /\ write_lock' = t
            /\ batch' = Ready(pending_write, batch[pending_write].chunks,
                              TRUE)
            /\ async_pending' = async_pending + 1
            /\ pending_write' = None
            /\ Go(t, "kick")
       ELSE /\ req' = [req EXCEPT ![t].pc = "drain", ![t].wait = async_pending]
            /\ async_pending' = 0
            /\ UNCHANGED <<batch, write_lock, pending_write>>
    /\ UNCHANGED <<async_error, stop, halted, sems, shared, worker, history>>

\* Mutant: the count is taken before the last batch is added to it.
KickTooFew(t) ==
    /\ At(t, "kick")
    /\ worker_sem' = worker_sem + 1
    /\ req' = [req EXCEPT ![t].pc = "drain", ![t].wait = async_pending - 1]
    /\ async_pending' = 1
    /\ write_lock' = None
    /\ UNCHANGED <<batch, pending_write, async_error, stop, halted, free_sem,
                   async_sem, gate_sem, done_sem, shared, worker, history>>

\* ... take over the count of unfinished batches ...
Kick(t) ==
    /\ At(t, "kick")
    /\ worker_sem' = worker_sem + 1
    /\ req' = [req EXCEPT ![t].pc = "drain", ![t].wait = async_pending]
    /\ async_pending' = 0
    /\ write_lock' = None
    /\ UNCHANGED <<batch, pending_write, async_error, stop, halted, free_sem,
                   async_sem, gate_sem, done_sem, shared, worker, history>>

\* ... and wait for as many completions.
Drain(t) ==
    /\ At(t, "drain") /\ req[t].wait > 0
    /\ async_sem > 0 /\ async_sem' = async_sem - 1
    /\ req' = [req EXCEPT ![t].wait = @ - 1]
    /\ UNCHANGED <<queue, async_error, stop, halted, free_sem, worker_sem,
                   gate_sem, done_sem, shared, worker, history>>

\* The call returns an error.
Fail(t) == req' = [req EXCEPT ![t] = [NoReq EXCEPT !.barrier = Failed]]

Drained(t) ==
    /\ At(t, "drain") /\ req[t].wait = 0
    /\ gate_sem' = gate_sem + 1
    /\ IF async_error
       THEN Fail(t)
       ELSE req' = [req EXCEPT ![t] =
                      CASE req[t].op = "sync" -> NoReq
                        [] req[t].op = "stop" ->
                              [@ EXCEPT !.pc = "stop", !.barrier = 0]
                        [] req[t].op = "read" -> [@ EXCEPT !.pc = "read"]
                        [] req[t].op = "flush" -> [@ EXCEPT !.pc = "claim"]]
    /\ UNCHANGED <<queue, async_error, stop, halted, free_sem, worker_sem,
                   async_sem, done_sem, shared, worker, history>>

----------------------------------------------------------------------------
\* task_disk_read_direct: the manager fills the window, the child empties it,
\* both under manager_lock.
ReadRequest(t) ==
    /\ At(t, "read") /\ serving /\ manager_lock = None
    /\ \/ /\ window' = [window EXCEPT ![1] = disk[Head(req[t].todo)]]
          /\ manager_lock' = t
          /\ Go(t, "copy")
          /\ UNCHANGED serving
       \/ /\ MayFail
          /\ serving' = FALSE
          /\ Fail(t)
          /\ UNCHANGED <<window, manager_lock>>
    /\ UNCHANGED <<queue, async_error, stop, halted, sems, disk, worker,
                   history>>

ReadCopy(t) ==
    /\ At(t, "copy")
    /\ manager_lock' = None
    /\ Finish(t)
    /\ UNCHANGED <<queue, async_error, stop, halted, sems, window, disk,
                   serving, worker, history>>

----------------------------------------------------------------------------
\* The flush descriptor: a batch of its own, task_disk_submit_batch.
Submit(t) ==
    /\ At(t, "submit")
    /\ batch' = Ready(req[t].batch, <<>>, FALSE)
    /\ Go(t, "submit_post")
    /\ UNCHANGED <<pending_write, write_lock, async_pending, async_error, stop,
                   halted, sems, shared, worker, history>>

SubmitPost(t) ==
    /\ At(t, "submit_post")
    /\ worker_sem' = worker_sem + 1
    /\ Go(t, "complete")
    /\ UNCHANGED <<queue, async_error, stop, halted, free_sem, async_sem,
                   gate_sem, done_sem, shared, worker, history>>

\* A completion for a batch that is not done would be an I/O error.
Complete(t) ==
    /\ At(t, "complete")
    /\ done_sem[req[t].batch] > 0
    /\ done_sem' = [done_sem EXCEPT ![req[t].batch] = @ - 1]
    /\ IF batch[req[t].batch].state # "DONE"
       THEN Fail(t) /\ UNCHANGED batch
       ELSE /\ batch' = [batch EXCEPT ![req[t].batch] = NoBatch]
            /\ req' = [req EXCEPT ![t].pc = "release",
                          ![t].barrier = IF batch[req[t].batch].error
                                         THEN Failed ELSE 0]
    /\ UNCHANGED <<pending_write, write_lock, async_pending, async_error, stop,
                   halted, free_sem, worker_sem, async_sem, gate_sem, shared,
                   worker, history>>

\* Mutant: the token of the flush batch is not given back.
ReleaseWithoutToken(t) ==
    /\ At(t, "release")
    /\ req' = [req EXCEPT ![t] = [NoReq EXCEPT !.barrier = req[t].barrier]]
    /\ UNCHANGED <<queue, async_error, stop, halted, sems, shared, worker,
                   history>>

Release(t) ==
    /\ At(t, "release")
    /\ free_sem' = free_sem + 1
    /\ req' = [req EXCEPT ![t] = [NoReq EXCEPT !.barrier = req[t].barrier]]
    /\ UNCHANGED <<queue, async_error, stop, halted, worker_sem, async_sem,
                   gate_sem, done_sem, shared, worker, history>>

----------------------------------------------------------------------------
\* luna_lkl_task_disk_cleanup_after_halt: LKL has halted; flush, stop the
\* worker, wait for it.
Cleanup(t) == /\ t = Finisher /\ ~halted /\ req[Lkl].pc = "idle"
              /\ Begin(t, "stop", <<>>)
              /\ halted' = TRUE

StopWorker(t) ==
    /\ At(t, "stop")
    /\ stop' = TRUE
    /\ worker_sem' = worker_sem + 1
    /\ Go(t, "join")
    /\ UNCHANGED <<queue, async_error, halted, free_sem, async_sem, gate_sem,
                   done_sem, shared, worker, history>>

Join(t) ==
    /\ At(t, "join") /\ worker.pc = "exit"
    /\ Finish(t)
    /\ UNCHANGED <<queue, async_error, stop, halted, sems, shared, worker,
                   history>>

----------------------------------------------------------------------------
ReadyBatches == {b \in Batches : batch[b].state = "READY"}

\* Mutant: the batch published last is taken first.
Newest(S) == CHOOSE b \in S : \A c \in S : batch[b].seq >= batch[c].seq

Oldest(S) == CHOOSE b \in S : \A c \in S : batch[b].seq <= batch[c].seq

\* task_disk_worker: wake up, take the oldest ready batch.
WorkerDown ==
    /\ worker.pc = "down"
    /\ worker_sem > 0 /\ worker_sem' = worker_sem - 1
    /\ IF ReadyBatches # {}
       THEN LET b == Oldest(ReadyBatches)
            IN /\ batch' = [batch EXCEPT ![b].state = "PROCESSING",
                                         ![b].seq = 0]
               /\ worker' = [worker EXCEPT !.pc = "fill", !.batch = b]
       ELSE /\ worker' = IF stop THEN [worker EXCEPT !.pc = "exit"] ELSE worker
            /\ UNCHANGED batch
    /\ UNCHANGED <<pending_write, write_lock, async_pending, async_error, stop,
                   halted, free_sem, async_sem, gate_sem, done_sem, shared,
                   req, history>>

\* task_disk_process_batch: the data goes to the window before manager_lock
\* is taken.
WorkerFill ==
    /\ worker.pc = "fill"
    /\ LET chunks == batch[worker.batch].chunks
       IN window' = [i \in 1..Slots |->
                       IF i <= Len(chunks) THEN chunks[i].value ELSE window[i]]
    /\ worker' = [worker EXCEPT !.pc = "request"]
    /\ UNCHANGED <<queue, async_error, stop, halted, sems, manager_lock, disk,
                   serving, req, history>>

\* service_disk_batch: the descriptors are carried out in order, so the last
\* one for a block counts.
Applied(chunks) ==
    [b \in Blocks |->
        LET S == {i \in 1..Len(chunks) : chunks[i].block = b}
        IN IF S = {} THEN disk[b]
           ELSE window[CHOOSE i \in S : \A j \in S : i >= j]]

WorkerRequest ==
    /\ worker.pc = "request" /\ serving /\ manager_lock = None
    /\ \/ /\ disk' = Applied(batch[worker.batch].chunks)
          /\ stored' = stored + Len(batch[worker.batch].chunks)
          /\ worker' = [worker EXCEPT !.pc = "finish", !.error = FALSE]
          /\ UNCHANGED serving
       \/ /\ MayFail
          /\ serving' = FALSE
          /\ worker' = [worker EXCEPT !.pc = "finish", !.error = TRUE]
          /\ UNCHANGED <<disk, stored>>
    /\ UNCHANGED <<queue, async_error, stop, halted, sems, manager_lock,
                   window, req, log>>

\* The end of task_disk_worker's loop: an asynchronous batch is freed ...
WorkerFinish ==
    /\ worker.pc = "finish"
    /\ IF batch[worker.batch].auto
       THEN /\ async_error' = (async_error \/ worker.error)
            /\ batch' = [batch EXCEPT ![worker.batch] = NoBatch]
            /\ worker' = [worker EXCEPT !.pc = "up_free"]
       ELSE /\ batch' = [batch EXCEPT ![worker.batch].state = "DONE",
                                      ![worker.batch].error = worker.error]
            /\ worker' = [worker EXCEPT !.pc = "up_done"]
            /\ UNCHANGED async_error
    /\ UNCHANGED <<pending_write, write_lock, async_pending, stop, halted,
                   sems, shared, req, history>>

WorkerUpFree ==
    /\ worker.pc = "up_free"
    /\ free_sem' = free_sem + 1
    /\ worker' = [worker EXCEPT !.pc = "up_async"]
    /\ UNCHANGED <<queue, async_error, stop, halted, worker_sem, async_sem,
                   gate_sem, done_sem, shared, req, history>>

WorkerUpAsync ==
    /\ worker.pc = "up_async"
    /\ async_sem' = async_sem + 1
    /\ worker' = NoWork
    /\ UNCHANGED <<queue, async_error, stop, halted, free_sem, worker_sem,
                   gate_sem, done_sem, shared, req, history>>

\* ... or its submitter is told.
WorkerUpDone ==
    /\ worker.pc = "up_done"
    /\ done_sem' = [done_sem EXCEPT ![worker.batch] = @ + 1]
    /\ worker' = NoWork
    /\ UNCHANGED <<queue, async_error, stop, halted, free_sem, worker_sem,
                   async_sem, gate_sem, shared, req, history>>

----------------------------------------------------------------------------
\* The child is destroyed at any point and another takes over the disk.
Crash ==
    /\ MayCrash
    /\ batch' = [b \in Batches |-> NoBatch]
    /\ pending_write' = None /\ write_lock' = None
    /\ async_pending' = 0 /\ async_error' = FALSE
    /\ stop' = FALSE /\ halted' = FALSE
    /\ free_sem' = N /\ worker_sem' = 0 /\ async_sem' = 0
    /\ gate_sem' = 1 /\ done_sem' = [b \in Batches |-> 0]
    /\ manager_lock' = None
    /\ req' = [t \in DiskThreads |-> NoReq]
    /\ worker' = NoWork /\ serving' = TRUE
    /\ log' = SubSeq(log, 1, stored)
    /\ UNCHANGED <<window, disk, stored>>

Call(t) == \/ \E blocks \in Requests : Write(t, blocks)
           \/ \E b \in Blocks : Read(t, b)
           \/ Flush(t) \/ Sync(t) \/ Cleanup(t)

Step(t) == \/ ClaimDown(t) \/ ClaimScan(t) \/ AddChunk(t) \/ PostWrite(t) \/ EndWrite(t)
           \/ TakePending(t) \/ Kick(t) \/ Drain(t) \/ Drained(t)
           \/ ReadRequest(t) \/ ReadCopy(t)
           \/ Submit(t) \/ SubmitPost(t) \/ Complete(t)
           \/ Release(t)
           \/ StopWorker(t) \/ Join(t)

Worker == \/ WorkerDown \/ WorkerFill \/ WorkerRequest \/ WorkerFinish
          \/ WorkerUpFree \/ WorkerUpAsync \/ WorkerUpDone

Next == (\E t \in DiskThreads : Call(t) \/ Step(t)) \/ Worker \/ Crash

Safety == Init /\ [][Next]_vars

\* The threads of the child run at one priority, round robin; no one has to
\* make a request, and no child has to be destroyed.
Spec == /\ Safety
        /\ \A t \in DiskThreads : WF_vars(Step(t))
        /\ WF_vars(Worker)

----------------------------------------------------------------------------

Contents == INSTANCE WriteBackDisk
                WITH Users <- DiskThreads,
                     barrier <- [t \in DiskThreads |-> req[t].barrier]

(* The backing store is at every moment the result of the first writes     *)
(* accepted, in order and with the right contents (task_disk_worker takes  *)
(* batches by sequence; the window is not disturbed between                *)
(* task_disk_process_batch and service_disk_batch).  A child destroyed at  *)
(* any point leaves a disk an in-order device could have left.             *)
StoredInOrder == \A b \in Blocks : disk[b] = Contents!Content(log, stored, b)

WrittenLast(b) == LET S == {i \in 1..Len(log) : log[i] = b}
                  IN IF S = {} THEN 0 ELSE CHOOSE i \in S : \A j \in S : i >= j

(* A read returns what was last written to the block, although the write   *)
(* may have been in a batch under construction, queued or in the worker's  *)
(* hands when the read came (task_disk_request flushes first).             *)
ReadSeesWrites ==
    \A t \in DiskThreads : At(t, "copy") =>
                     window[1] = WrittenLast(Head(req[t].todo))

(* The contents of the disk and of what is read from it are right, at      *)
(* every moment and with every order of batches, reads and the worker.     *)
ContentsRight == StoredInOrder /\ ReadSeesWrites

(* The device is a write-back disk with ordered writes and honest flushes. *)
ImplementsWriteBack == Contents!ASpec

One(p) == IF p THEN 1 ELSE 0

Pool == INSTANCE BatchPool
            WITH taken <- {b \in Batches : batch[b].state # "FREE"},
                 tokens <- free_sem,
                 owed <- One(worker.pc = "up_free") + One(At(Lkl, "release")),
                 scan_pos <- [t \in DiskThreads |-> req[t].pos]

(* The batches are handed out as BatchPool describes, for which            *)
(* TaskProofs shows that a scan always finds one: the NULL of              *)
(* task_disk_claim_batch, an I/O error to its callers, does not occur.     *)
ImplementsPool == Pool!BatchSafety

(* Every request ends, unless the child does: the writer that waits for a  *)
(* batch while it holds the write lock, the flush that waits for the       *)
(* worker, the cleanup that joins it.  So each thread is again and again   *)
(* outside the driver.                                                     *)
RequestsEnd ==
    \A t \in DiskThreads : []<>(req[t].pc = "idle" \/ ~serving)
=============================================================================
