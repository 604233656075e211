----------------------------- MODULE ChildHeap -----------------------------
(***************************************************************************)
(* The child's heap (task_heap_alloc, task_heap_free) and the manager's    *)
(* service_memory_request: the child keeps a page map and a table of       *)
(* allocations, the manager a page map of its own, and every allocation    *)
(* and free is a request to map or unmap pages made under manager_lock.    *)
(*                                                                         *)
(* Sizes are in pages; alignment and bytes are left out.                   *)
(***************************************************************************)
EXTENDS Integers, FiniteSets

CONSTANTS HeapPages,        \* LUNA_CHILD_HEAP_PAGES
          MaxAllocations,   \* TASK_HEAP_MAX_ALLOCATIONS
          Callers,          \* threads of the child
          Sizes,            \* sizes asked for
          Nobody

ASSUME HeapAssumption == /\ HeapPages \in Nat \ {0}
                         /\ MaxAllocations \in Nat
                         /\ Sizes \subseteq Nat \ {0}
                         /\ Nobody \notin Callers

VARIABLES heap_pages,     \* pages in use, task_heap_pages
          allocations,    \* the used entries of task_heap_allocations
          manager_lock,   \* the thread that holds it
          hcall,          \* the call each thread is in
          mapped, peak    \* the manager's heap.mapped and peak_pages

cheap == <<heap_pages, allocations, manager_lock, hcall>>
mheap == <<mapped, peak>>
hvars == <<cheap, mheap>>

Pages == 0..HeapPages - 1
PagesOf(a) == a.first..a.first + a.pages - 1
Calling(pc, event, first, pages) ==
    [pc |-> pc, event |-> event, first |-> first, run |-> 0, pages |-> pages,
     error |-> FALSE]
NoCall == Calling("idle", "none", 0, 0)

\* task_heap_init and the manager's zeroed resources.
HInit == /\ heap_pages = {} /\ allocations = {} /\ manager_lock = Nobody
         /\ hcall = [t \in Callers |-> NoCall]
         /\ mapped = {} /\ peak = 0

----------------------------------------------------------------------------
CallAt(t, pc) == hcall[t].pc = pc
Unlock(t) == /\ manager_lock' = Nobody
             /\ hcall' = [hcall EXCEPT ![t] = NoCall]

\* n pages from i are in the heap and free.
Fits(i, n) == /\ i + n <= HeapPages
              /\ i..i + n - 1 \cap heap_pages = {}

\* task_heap_alloc takes the lock and an unused record, or fails.
HeapAlloc(t, n) ==
    /\ CallAt(t, "idle") /\ manager_lock = Nobody
    /\ n <= HeapPages /\ Cardinality(allocations) < MaxAllocations
    /\ manager_lock' = t
    /\ hcall' = [hcall EXCEPT ![t] = Calling("scan", "MAP", 0, n)]
    /\ UNCHANGED <<heap_pages, allocations, mheap>>

\* One iteration of the search for n free pages: one more page of the run is
\* free, or the search starts again after the page that ends the run.
HeapScan(t) ==
    LET i == hcall[t].first
        j == hcall[t].run
        n == hcall[t].pages
    IN /\ CallAt(t, "scan")
       /\ IF i + n > HeapPages THEN Unlock(t)
          ELSE /\ hcall' = CASE j = n -> [hcall EXCEPT ![t].pc = "map"]
                             [] j < n /\ i + j \notin heap_pages ->
                                  [hcall EXCEPT ![t].run = j + 1]
                             [] OTHER -> [hcall EXCEPT ![t].first = i + j + 1,
                                                       ![t].run = 0]
               /\ UNCHANGED manager_lock
       /\ UNCHANGED <<heap_pages, allocations, mheap>>

\* task_heap_free finds the record of the address.
HeapFree(t, a) ==
    /\ CallAt(t, "idle") /\ manager_lock = Nobody
    /\ a \in allocations
    /\ manager_lock' = t
    /\ hcall' = [hcall EXCEPT ![t] =
                    Calling("unmap", "UNMAP", a.first, a.pages)]
    /\ UNCHANGED <<heap_pages, allocations, mheap>>

(* service_memory_request: refuse to map what is mapped and to unmap what  *)
(* is not; mapping fails if the manager has no frames left.  The thread    *)
(* gets the answer with the manager's send.                                *)
ServiceMemory(t, fails) ==
    LET pages == PagesOf(hcall[t])
        map == CallAt(t, "map")
        error == \/ map /\ (fails \/ pages \cap mapped # {})
                 \/ ~map /\ ~(pages \subseteq mapped)
    IN /\ map \/ CallAt(t, "unmap")
       /\ hcall' = [hcall EXCEPT ![t].pc = "reply", ![t].error = error]
       /\ mapped' = CASE error -> mapped
                      [] ~error /\ map -> mapped \cup pages
                      [] OTHER -> mapped \ pages
       /\ peak' = IF Cardinality(mapped') > peak THEN Cardinality(mapped')
                  ELSE peak
       /\ UNCHANGED <<heap_pages, allocations, manager_lock>>

\* Mutant: the pages of a refused request are taken all the same.
HeapReplyUnchecked(t) ==
    LET a == [first |-> hcall[t].first, pages |-> hcall[t].pages]
    IN /\ CallAt(t, "reply")
       /\ IF hcall[t].event = "MAP"
          THEN /\ heap_pages' = heap_pages \cup PagesOf(a)
               /\ allocations' = allocations \cup {a}
          ELSE /\ heap_pages' = heap_pages \ PagesOf(a)
               /\ allocations' = allocations \ {a}
       /\ Unlock(t)
       /\ UNCHANGED mheap

\* The rest of task_heap_alloc and task_heap_free, with the manager's answer.
HeapReply(t) ==
    LET a == [first |-> hcall[t].first, pages |-> hcall[t].pages]
    IN /\ CallAt(t, "reply")
       /\ CASE hcall[t].error -> UNCHANGED <<heap_pages, allocations>>
            [] ~hcall[t].error /\ hcall[t].event = "MAP" ->
                 /\ heap_pages' = heap_pages \cup PagesOf(a)
                 /\ allocations' = allocations \cup {a}
            [] OTHER ->
                 /\ heap_pages' = heap_pages \ PagesOf(a)
                 /\ allocations' = allocations \ {a}
       /\ Unlock(t)
       /\ UNCHANGED mheap

HeapCall(t) == HeapScan(t) \/ HeapReply(t)
HeapStep(t) == \/ \E n \in Sizes : HeapAlloc(t, n)
               \/ \E a \in allocations : HeapFree(t, a)
               \/ HeapCall(t)

HNext == \E t \in Callers : \/ HeapStep(t)
                            \/ \E fails \in BOOLEAN : ServiceMemory(t, fails)
HSafety == HInit /\ [][HNext]_hvars

----------------------------------------------------------------------------
HTypeOK ==
    /\ heap_pages \subseteq Pages /\ mapped \subseteq Pages
    /\ allocations \subseteq [first : Pages, pages : 1..HeapPages]
    /\ manager_lock \in Callers \cup {Nobody}
    /\ hcall \in [Callers -> [pc : {"idle", "scan", "map", "unmap", "reply"},
                             event : {"none", "MAP", "UNMAP"},
                             first : 0..HeapPages, run : 0..HeapPages,
                             pages : 0..HeapPages,
                             error : BOOLEAN]]
    /\ peak \in 0..HeapPages

\* What the manager has done for a call c that the child has not noted yet.
Answered(c, event) ==
    UNION {PagesOf(c[t]) : t \in {u \in Callers : /\ c[u].pc = "reply"
                                                  /\ c[u].event = event
                                                  /\ ~c[u].error}}

(* The child and the manager agree on the pages in use: the allocations    *)
(* are disjoint and make up the child's page map, and the manager has      *)
(* mapped exactly these, apart from the one answer under way.  No page is  *)
(* handed out twice, lost or used unmapped, refused requests included.     *)
HeapAgrees ==
    /\ heap_pages = UNION {PagesOf(a) : a \in allocations}
    /\ \A a, b \in allocations : a # b => PagesOf(a) \cap PagesOf(b) = {}
    /\ mapped = (heap_pages \cup Answered(hcall, "MAP")) \ Answered(hcall, "UNMAP")

(* task_heap_alloc fails only if no run of free pages is long enough: its  *)
(* search skips no place where the pages would fit.                        *)
ScanMissesNothing ==
    \A t \in Callers : CallAt(t, "scan") =>
        \A k \in 0..hcall[t].first - 1 : ~Fits(k, hcall[t].pages)
=============================================================================
