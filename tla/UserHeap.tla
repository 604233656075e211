------------------------------ MODULE UserHeap ------------------------------
(***************************************************************************)
(* The heap of the static BusyBox runtime (lkl_task_user.c): a list of     *)
(* blocks threaded through one array, a spin lock, first fit with          *)
(* splitting, coalescing with both neighbours, and a realloc that gives up *)
(* the lock between its look at the old block, the allocation of the new   *)
(* one, the copy and the release of the old one.                           *)
(*                                                                         *)
(* Addresses and sizes are in units of LUNA_USER_ALIGNMENT: the code rounds *)
(* every request up and all block sizes are multiples, so "size fits"      *)
(* means the same in bytes and in units.  Every round of a loop over the   *)
(* list is a step of its own; the lock is held across the rounds.  A       *)
(* client is a thread of the runtime: it frees what it was given, once.    *)
(***************************************************************************)
EXTENDS Integers

CONSTANTS Total,      \* LUNA_USER_HEAP_SIZE
          Header,     \* sizeof(struct task_user_block)
          MinSplit,   \* LUNA_USER_MIN_SPLIT
          HeapThreads,\* threads that allocate
          MallocSizes \* sizes they ask for

ASSUME MallocAssumption == /\ Header \in Nat \ {0} /\ MinSplit \in Nat \ {0}
                           /\ Total \in Nat /\ Total >= Header + MinSplit
                           /\ MallocSizes \subseteq Nat

Null == -1
FirstBlock == 0
NoThread == "nobody"

VARIABLES block,     \* the headers of the list, by address
          lock,      \* task_user_heap_lock
          current,   \* task_user_heap_current
          held,      \* what malloc and realloc have returned and was not freed
          heap_pc,   \* per client, the loop or gap it is in
          op         \* per client, the locals of its call

heap_vars == <<block, lock, current, held, heap_pc, op>>

NoOp == [size |-> 0, ptr |-> Null, cur |-> Null, prev |-> Null, old |-> 0,
         then |-> "idle"]

\* task_user_heap_reset
MallocInit ==
    /\ block = [b \in {FirstBlock} |-> [size |-> Total - Header, next |-> Null,
                                        free |-> TRUE]]
    /\ lock = FALSE /\ current = 0 /\ held = {}
    /\ heap_pc = [c \in HeapThreads |-> "idle"]
    /\ op = [c \in HeapThreads |-> NoOp]

\* task_user_heap_acquire, then the loop named l from the head of the list.
Acquire(c, l, args) ==
    /\ ~lock /\ lock' = TRUE
    /\ heap_pc' = [heap_pc EXCEPT ![c] = l]
    /\ op' = [op EXCEPT ![c] = [args EXCEPT !.cur = FirstBlock, !.prev = Null]]
    /\ UNCHANGED <<block, current, held>>

\* task_user_heap_release, and on to l with the locals o.
ReleaseLock(c, l, o) == /\ lock' = FALSE /\ heap_pc' = [heap_pc EXCEPT ![c] = l]
                        /\ op' = [op EXCEPT ![c] = o]
HeapReturn(c) == ReleaseLock(c, "idle", NoOp)

\* The next round of a loop.
Advance(c) ==
    /\ op' = [op EXCEPT ![c].prev = op[c].cur, ![c].cur = block[op[c].cur].next]
    /\ UNCHANGED <<block, lock, current, held, heap_pc>>

----------------------------------------------------------------------------
(* luna_bb_malloc                                                          *)

\* A size of 0 (or one that cannot be rounded up) is refused at once.
Malloc(c, n) ==
    /\ heap_pc[c] = "idle" /\ n > 0
    /\ Acquire(c, "malloc", [NoOp EXCEPT !.size = n])

LargeEnough(c) == /\ block[op[c].cur].free
                  /\ block[op[c].cur].size >= op[c].size

MallocSkip(c) ==
    /\ heap_pc[c] = "malloc" /\ op[c].cur # Null /\ ~LargeEnough(c)
    /\ Advance(c)

\* Mutant: the rest is counted from the header of the block.
SplitInside(b, n) ==
    LET rest == b + n
        remaining == block[b].size - n
    IN IF remaining >= Header + MinSplit
       THEN [d \in DOMAIN block \cup {rest} |->
               IF d = b THEN [size |-> n, next |-> rest, free |-> FALSE]
               ELSE IF d = rest THEN [size |-> remaining - Header,
                                      next |-> block[b].next, free |-> TRUE]
               ELSE block[d]]
       ELSE [block EXCEPT ![b].free = FALSE]

\* The block is used whole, or its rest becomes a free block of its own.
Taken(b, n) ==
    LET rest == b + Header + n
        remaining == block[b].size - n
    IN IF remaining >= Header + MinSplit
       THEN [d \in DOMAIN block \cup {rest} |->
               IF d = b THEN [size |-> n, next |-> rest, free |-> FALSE]
               ELSE IF d = rest THEN [size |-> remaining - Header,
                                      next |-> block[b].next, free |-> TRUE]
               ELSE block[d]]
       ELSE [block EXCEPT ![b].free = FALSE]

\* Where realloc called, the new block is filled before the call returns.
MallocTake(c) ==
    LET b == op[c].cur IN
    /\ heap_pc[c] = "malloc" /\ b # Null /\ LargeEnough(c)
    /\ block' = Taken(b, op[c].size)
    /\ current' = current + block'[b].size
    /\ held' = held \cup {[by |-> c, ptr |-> b + Header, size |-> op[c].size]}
    /\ IF op[c].then = "idle" THEN HeapReturn(c) ELSE ReleaseLock(c, op[c].then, op[c])

MallocFails(c) ==
    /\ heap_pc[c] = "malloc" /\ op[c].cur = Null
    /\ HeapReturn(c)
    /\ UNCHANGED <<block, current, held>>

----------------------------------------------------------------------------
(* luna_bb_free                                                            *)

Owned(c, p) == \E h \in held : h.by = c /\ h.ptr = p

Free(c, p) ==
    /\ heap_pc[c] = "idle" /\ Owned(c, p)
    /\ Acquire(c, "free", [NoOp EXCEPT !.ptr = p])

Found(c) == op[c].cur # Null /\ op[c].cur + Header = op[c].ptr

\* The rounds of the searches in free and realloc.
Seek(c) ==
    /\ heap_pc[c] \in {"free", "realloc"} /\ op[c].cur # Null /\ ~Found(c)
    /\ Advance(c)

\* Mutant: the block before stays apart.
CoalescedForward(b, p) ==
    LET n == block[b].next IN
    IF n # Null /\ block[n].free
    THEN [d \in DOMAIN block \ {n} |->
            IF d = b THEN [size |-> block[b].size + Header + block[n].size,
                           next |-> block[n].next, free |-> TRUE]
            ELSE block[d]]
    ELSE [block EXCEPT ![b].free = TRUE]

\* The block is marked free and merged with a free block after it, then into
\* a free block before it.
Coalesced(b, p) ==
    LET n == block[b].next
        after == n # Null /\ block[n].free
        size == block[b].size + (IF after THEN Header + block[n].size ELSE 0)
        next == IF after THEN block[n].next ELSE n
        before == p # Null /\ block[p].free
        gone == (IF after THEN {n} ELSE {}) \cup (IF before THEN {b} ELSE {})
        into == IF before THEN p ELSE b
    IN [d \in DOMAIN block \ gone |->
          IF d # into THEN block[d]
          ELSE [size |-> size + (IF before THEN Header + block[p].size ELSE 0),
                next |-> next, free |-> TRUE]]

\* The search ended at the block of the pointer, or without finding one in
\* use: then free returns silently.
SearchEnded(c) == op[c].cur # Null => Found(c)
InUse(c) == op[c].cur # Null /\ ~block[op[c].cur].free

FreeEnds(c) ==
    LET b == op[c].cur IN
    /\ heap_pc[c] = "free" /\ SearchEnded(c)
    /\ IF InUse(c)
       THEN /\ block' = Coalesced(b, op[c].prev)
            /\ current' = current - block[b].size
       ELSE UNCHANGED <<block, current>>
    /\ held' = {h \in held : h.ptr # op[c].ptr}
    /\ HeapReturn(c)

----------------------------------------------------------------------------
(* luna_bb_realloc of a pointer to a size that is not 0                     *)

Realloc(c, p, n) ==
    /\ heap_pc[c] = "idle" /\ Owned(c, p) /\ n > 0
    /\ Acquire(c, "realloc", [NoOp EXCEPT !.ptr = p, !.size = n])

\* Mutant: realloc copies the new size.
CopySizeNew(c) == op[c].size

\* What realloc will copy: the size of the old block.
CopySize(c) == block[op[c].cur].size

\* A block that is large enough is kept, for the new size; the size of one
\* that is not is noted before the lock is given up; a pointer that is not in
\* use is refused (EINVAL).
ReallocDecides(c) ==
    /\ heap_pc[c] = "realloc" /\ SearchEnded(c)
    /\ IF InUse(c) /\ op[c].size > block[op[c].cur].size
       THEN /\ ReleaseLock(c, "grow", [op[c] EXCEPT !.old = CopySize(c)])
            /\ UNCHANGED held
       ELSE /\ held' = IF InUse(c)
                       THEN {h \in held : h.ptr # op[c].ptr}
                            \cup {[by |-> c, ptr |-> op[c].ptr, size |-> op[c].size]}
                       ELSE held
            /\ HeapReturn(c)
    /\ UNCHANGED <<block, current>>

\* luna_bb_malloc of the new block, which leaves the old one on failure.
ReallocAllocates(c) ==
    /\ heap_pc[c] = "grow"
    /\ Acquire(c, "malloc", [op[c] EXCEPT !.then = "copy"])

\* memcpy, and luna_bb_free of the old block.
ReallocFrees(c) ==
    /\ heap_pc[c] = "copy"
    /\ Acquire(c, "free", [NoOp EXCEPT !.ptr = op[c].ptr])

----------------------------------------------------------------------------
\* The applet leaves (luna_bb_exit, or its main function returns): nothing
\* frees what it still holds, the slot's next applet starts with nothing.
AppletEnds(c) ==
    /\ heap_pc[c] = "idle"
    /\ held' = {[h EXCEPT !.by = IF @ = c THEN NoThread ELSE @] : h \in held}
    /\ UNCHANGED <<block, lock, current, heap_pc, op>>

ClientStep(c) ==
    \/ \E n \in MallocSizes : Malloc(c, n)
    \/ \E h \in held : \/ Free(c, h.ptr)
                       \/ \E n \in MallocSizes : Realloc(c, h.ptr, n)
    \/ MallocSkip(c) \/ MallocTake(c) \/ MallocFails(c)
    \/ Seek(c) \/ FreeEnds(c) \/ ReallocDecides(c)
    \/ ReallocAllocates(c) \/ ReallocFrees(c)
    \/ AppletEnds(c)

MallocNext == \E c \in HeapThreads : ClientStep(c)

MallocSpec == MallocInit /\ [][MallocNext]_heap_vars

----------------------------------------------------------------------------
(* Properties                                                              *)

End(b) == b + Header + block[b].size

\* What malloc and realloc gave out is inside the heap, and no two of these
\* pieces overlap, nor a piece and a header of the list, whatever was split,
\* coalesced and reallocated before and whichever threads are in the middle
\* of a call (luna_bb_malloc, luna_bb_free, luna_bb_realloc).
AllocationsSound ==
    \A h \in held :
      /\ 0 <= h.ptr /\ h.ptr + h.size <= Total
      /\ \A g \in held : g # h => \/ g.ptr + g.size <= h.ptr
                                  \/ h.ptr + h.size <= g.ptr
      /\ \A b \in DOMAIN block : \/ b + Header <= h.ptr
                                 \/ h.ptr + h.size <= b

\* When everything has been freed the heap is one free block again: no unit
\* is lost to splitting, to a merge that was missed or to a free in the gaps
\* of a realloc (the end of task_user_heap_self_test).
EmptyHeapWhole ==
    held = {} => block = [b \in {FirstBlock} |-> [size |-> Total - Header, next |-> Null,
                                                  free |-> TRUE]]

\* malloc fails only when no free block is large enough: the walk has passed
\* none that fits, and nobody else changes the list behind it.
FailsOnlyWhenFull ==
    \A c \in HeapThreads : heap_pc[c] = "malloc" =>
      \A b \in DOMAIN block :
        (op[c].cur = Null \/ b < op[c].cur) =>
          ~(block[b].free /\ block[b].size >= op[c].size)

\* When realloc copies, without the lock, the old block is still there with
\* the size it had, and the new one is at least as large
\* (luna_bb_realloc between the two acquisitions).
CopyInBounds ==
    \A c \in HeapThreads : heap_pc[c] = "copy" =>
      /\ \E h \in held : h.ptr = op[c].ptr
      /\ op[c].ptr - Header \in DOMAIN block
      /\ block[op[c].ptr - Header].size = op[c].old
      /\ \E h \in held : /\ h.by = c /\ h.ptr # op[c].ptr
                         /\ h.ptr = op[c].cur + Header /\ op[c].old <= h.size
=============================================================================
