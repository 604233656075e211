--------------------------- MODULE RuntimeProofs ---------------------------
(***************************************************************************)
(* Two services the threads of the child share.                            *)
(*                                                                         *)
(* The heap of the static runtime, for any size of the heap, of the        *)
(* headers and of the requests and any number of threads. What the threads *)
(* hold is disjoint because the blocks of the list tile the heap (HeapOK)  *)
(* and every piece is the whole of a block in use (HeldOK); that a free    *)
(* finds its block and its predecessor, and that the gaps of a realloc do  *)
(* no harm, rests on where each thread is in the list (ClientOK).          *)
(*                                                                         *)
(* The semaphore of the host operations and its refinement of a counter,   *)
(* for any set of threads.                                                 *)
(***************************************************************************)
EXTENDS UserHeap, HostSem, FiniteSetTheorems, TLAPS

Block == [size : Nat, next : Int, free : BOOLEAN]
Walking == {"malloc", "free", "realloc"}
HeapLabels == Walking \cup {"idle", "grow", "copy"}
Op == [size : Nat, ptr : Int, cur : Int, prev : Int, old : Int,
       then : {"idle", "copy"}]

HeapTypes ==
    /\ lock \in BOOLEAN
    /\ heap_pc \in [HeapThreads -> HeapLabels]
    /\ op \in [HeapThreads -> Op]
    /\ held \subseteq [by : HeapThreads \cup {NoThread}, ptr : Int, size : Nat]

\* The list: every block ends where the next one begins, the last one at the
\* end of the heap.
EndOf(f, b) == b + Header + f[b].size
Tiled(f) ==
    /\ DOMAIN f \subseteq Nat /\ FirstBlock \in DOMAIN f
    /\ f \in [DOMAIN f -> Block]
    /\ \A b \in DOMAIN f :
         \/ EndOf(f, b) = Total /\ f[b].next = Null
         \/ EndOf(f, b) < Total /\ f[b].next = EndOf(f, b) /\ EndOf(f, b) \in DOMAIN f
    /\ \A b, d \in DOMAIN f : b < d => EndOf(f, b) <= d
NoNeighbours(f) ==
    \A b \in DOMAIN f : f[b].free /\ f[b].next # Null => ~f[f[b].next].free
HeapOK(f) == Tiled(f) /\ NoNeighbours(f)

\* The blocks in use are the pieces that are held.
HeldOK(f, H) ==
    /\ \A h \in H : /\ h.ptr - Header \in DOMAIN f
                    /\ ~f[h.ptr - Header].free /\ f[h.ptr - Header].size >= h.size
    /\ \A h, g \in H : h.ptr = g.ptr => h = g
    /\ \A b \in DOMAIN f : ~f[b].free => \E h \in H : h.ptr = b + Header

\* p is the block before b in the list, as the search of free finds it.
Before(f, p, b) == IF p = Null THEN b = FirstBlock
                   ELSE p \in DOMAIN f /\ f[p].next = b

\* The client has a pointer it passed to free or realloc; realloc is on its
\* way from the old block to the new one.
Passed(c) == \/ heap_pc[c] \in {"free", "realloc", "grow", "copy"}
             \/ heap_pc[c] = "malloc" /\ op[c].then = "copy"
Growing(c) == \/ heap_pc[c] \in {"grow", "copy"}
              \/ heap_pc[c] = "malloc" /\ op[c].then = "copy"

\* Where a call is: a walk has the lock and is at a block whose predecessor
\* it knows; a search has not gone past its block; a malloc has passed no
\* block that fits; a realloc that grows finds its old block unchanged.
WalkOK(c) ==
    heap_pc[c] \in Walking => /\ lock
                         /\ op[c].cur \in DOMAIN block \cup {Null}
                         /\ Before(block, op[c].prev, op[c].cur)
SearchOK(c) ==
    heap_pc[c] \in {"free", "realloc"} => op[c].cur # Null /\ op[c].cur + Header <= op[c].ptr
FitOK(c) ==
    heap_pc[c] = "malloc" =>
      \A b \in DOMAIN block : op[c].cur = Null \/ b < op[c].cur =>
        ~(block[b].free /\ block[b].size >= op[c].size)
PassedOK(c) ==
    Passed(c) => \E h \in held : h.by = c /\ h.ptr = op[c].ptr
GrowOK(c) ==
    Growing(c) => block[op[c].ptr - Header].size = op[c].old /\ op[c].old < op[c].size
CopyOK(c) ==
    heap_pc[c] = "copy" => \E h \in held : /\ h.by = c /\ h.ptr # op[c].ptr
                                      /\ h.ptr = op[c].cur + Header
                                      /\ h.size = op[c].size
ClientOK(c) == /\ WalkOK(c) /\ SearchOK(c) /\ FitOK(c)
             /\ PassedOK(c) /\ GrowOK(c) /\ CopyOK(c)

\* One thread at a time walks the list.
OneWalks == \A c, d \in HeapThreads : heap_pc[c] \in Walking /\ heap_pc[d] \in Walking => c = d

MallocInv == /\ HeapTypes /\ HeapOK(block) /\ HeldOK(block, held)
        /\ OneWalks /\ \A c \in HeapThreads : ClientOK(c)

----------------------------------------------------------------------------
(* The list after an allocation and after a release                         *)

\* What luna_bb_malloc does to the list keeps it tiled, and leaves every
\* other block as it is; a block it adds is free.
LEMMA TakenShape ==
    ASSUME HeapOK(block), NEW b \in DOMAIN block, NEW n \in Nat,
           block[b].free, block[b].size >= n
    PROVE  /\ HeapOK(Taken(b, n))
           /\ b \in DOMAIN Taken(b, n) /\ ~Taken(b, n)[b].free
           /\ Taken(b, n)[b].size >= n /\ Taken(b, n)[b].size <= block[b].size
           /\ \A d \in DOMAIN block \ {b} :
                d \in DOMAIN Taken(b, n) /\ Taken(b, n)[d] = block[d]
           /\ \A d \in DOMAIN Taken(b, n) : d \in DOMAIN block \/ Taken(b, n)[d].free
<1> DEFINE g == Taken(b, n)
           rest == b + Header + n
           remaining == block[b].size - n
<1>0. b \in Nat /\ block[b] \in Block /\ rest \in Nat /\ remaining \in Nat
  BY MallocAssumption DEF HeapOK, Tiled, Block
<1>1. CASE remaining < Header + MinSplit
  <2>1. g = [block EXCEPT ![b].free = FALSE]
    BY <1>1, <1>0, MallocAssumption DEF Taken
  <2>2. /\ DOMAIN g = DOMAIN block
        /\ g[b] = [block[b] EXCEPT !.free = FALSE]
        /\ \A d \in DOMAIN block \ {b} : g[d] = block[d]
        /\ g = [d \in DOMAIN block |-> g[d]]
    BY <2>1, Zenon
  <2>2a. \A d \in DOMAIN block : g[d] \in Block
    BY <2>2, <1>0, ZenonT(30) DEF HeapOK, Tiled, Block
  <2>2b. g \in [DOMAIN g -> Block]
    BY <2>2, <2>2a, Zenon
  <2>3. \A d \in DOMAIN g : EndOf(g, d) = EndOf(block, d) /\ g[d].next = block[d].next
                            /\ (g[d].free => block[d].free)
    BY <2>2, <1>0 DEF EndOf, Block
  <2>4. Tiled(g)
    BY <2>2, <2>2b, <2>3, ZenonT(30) DEF HeapOK, Tiled
  <2>5. NoNeighbours(g)
    BY <2>2, <2>3, MallocAssumption
       DEF HeapOK, Tiled, NoNeighbours, Null, EndOf
  <2> QED BY <2>2, <2>4, <2>5, <1>0 DEF HeapOK, Block
<1>2. CASE remaining >= Header + MinSplit
  <2>0. g = [d \in DOMAIN block \cup {rest} |->
               IF d = b THEN [size |-> n, next |-> rest, free |-> FALSE]
               ELSE IF d = rest THEN [size |-> remaining - Header,
                                      next |-> block[b].next, free |-> TRUE]
               ELSE block[d]]
    BY <1>2, Zenon DEF Taken
  <2> HIDE DEF g, rest, remaining
  <2>1. /\ DOMAIN g = DOMAIN block \cup {rest}
        /\ g[b] = [size |-> n, next |-> rest, free |-> FALSE]
        /\ rest # b => g[rest] = [size |-> remaining - Header, next |-> block[b].next,
                                  free |-> TRUE]
        /\ \A d \in DOMAIN block \ {b, rest} : g[d] = block[d]
    BY <2>0, Zenon
  <2>1a. g = [d \in DOMAIN g |-> g[d]]
    BY <2>0, Zenon
  <2>2. rest \notin DOMAIN block /\ rest > b /\ rest = b + Header + n
        /\ remaining = block[b].size - n
    BY <1>0, <1>2, MallocAssumption, SMTT(30)
       DEF HeapOK, Tiled, EndOf, Block, rest, remaining
  <2>3a. \A d \in DOMAIN g : g[d] \in Block
    <3>1. remaining - Header \in Nat /\ rest \in Int
      BY <1>0, <1>2, MallocAssumption
    <3>2. g[b] \in Block
      BY <3>1, <2>1 DEF Block
    <3>2a. block[b].next \in Int /\ rest # b
      BY <2>2, <1>0, Zenon DEF Block
    <3>2c. [size |-> remaining - Header, next |-> block[b].next, free |-> TRUE] \in Block
      BY <3>1, <3>2a, Zenon DEF Block
    <3>2b. g[rest] \in Block
      BY <3>2c, <3>2a, <2>1, Zenon
    <3>3. \A d \in DOMAIN block : block[d] \in Block
      BY Zenon DEF HeapOK, Tiled
    <3> QED BY <3>2, <3>2b, <3>3, <2>1, Zenon
  <2>3. g \in [DOMAIN g -> Block]
    BY <2>1a, <2>3a, Zenon
  <2>4. /\ EndOf(g, b) = rest
        /\ EndOf(g, rest) = EndOf(block, b)
        /\ \A d \in DOMAIN block \ {b} : EndOf(g, d) = EndOf(block, d)
    BY <2>1, <2>2, <1>0, MallocAssumption DEF EndOf, Block
  <2>5. EndOf(block, b) <= Total /\ rest < EndOf(block, b) /\ EndOf(block, b) \in Int
    <3>1. block[b].size \in Nat
      BY <1>0, Zenon DEF Block
    <3>2. rest < EndOf(block, b) /\ EndOf(block, b) \in Int
      BY <3>1, <2>2, <1>0, <1>2, MallocAssumption DEF EndOf
    <3>3. EndOf(block, b) = Total \/ EndOf(block, b) < Total
      BY Zenon DEF HeapOK, Tiled
    <3> QED BY <3>2, <3>3, MallocAssumption
  <2>6. \A d \in DOMAIN g :
          \/ EndOf(g, d) = Total /\ g[d].next = Null
          \/ EndOf(g, d) < Total /\ g[d].next = EndOf(g, d) /\ EndOf(g, d) \in DOMAIN g
    BY <2>1, <2>2, <2>4, <2>5, <1>0, MallocAssumption DEF HeapOK, Tiled
  <2>7. ASSUME NEW d \in DOMAIN g, NEW e \in DOMAIN g, d < e
        PROVE  EndOf(g, d) <= e
    <3>1. CASE d \in DOMAIN block \ {b} /\ e \in DOMAIN block
      BY <3>1, <2>4, <2>7, Zenon DEF HeapOK, Tiled
    <3>2. CASE d = b /\ e \in DOMAIN block
      BY <3>2, <2>4, <2>5, <2>7, <1>0 DEF HeapOK, Tiled
    <3>3. CASE d = rest /\ e \in DOMAIN block
      BY <3>3, <2>2, <2>4, <2>7, <1>0 DEF HeapOK, Tiled
    <3>4. CASE d \in DOMAIN block \ {b} /\ e = rest
      <4>1. d < b
        BY <3>4, <2>5, <2>7, <1>0 DEF HeapOK, Tiled
      <4> QED BY <4>1, <3>4, <2>4, <2>2, <1>0, MallocAssumption
                 DEF HeapOK, Tiled, EndOf, Block
    <3>5. CASE d = b /\ e = rest
      BY <3>5, <2>4, <2>2, <1>0
    <3> QED BY <3>1, <3>2, <3>3, <3>4, <3>5, <2>1, <2>7, <1>0
  <2>8. Tiled(g)
    BY <2>1, <2>2, <2>3, <2>6, <2>7, <1>0, Zenon DEF HeapOK, Tiled
  <2>9. NoNeighbours(g)
    <3> SUFFICES ASSUME NEW d \in DOMAIN g, g[d].free, g[d].next # Null
                 PROVE  ~g[g[d].next].free
      BY Zenon DEF NoNeighbours
    <3>1. CASE d = rest
      <4>1. block[b].next # Null /\ block[b].next = EndOf(block, b)
             /\ block[b].next \in DOMAIN block /\ ~block[block[b].next].free
        BY <3>1, <2>1, <2>2 DEF HeapOK, Tiled, NoNeighbours
      <4>2. block[b].next # b
        BY <4>1, <2>5, <2>2, <1>0, Zenon
      <4> QED BY <4>1, <4>2, <3>1, <2>1, <2>2
    <3>2. CASE d # rest
      <4>1. d \in DOMAIN block \ {b} /\ g[d] = block[d]
        BY <3>2, <2>1
      <4>2. block[d].next \in DOMAIN block /\ ~block[block[d].next].free
        BY <4>1, Zenon DEF HeapOK, Tiled, NoNeighbours
      <4>3. block[d].next # b
        BY <4>2, Zenon
      <4> QED BY <4>1, <4>2, <4>3, <2>1, <2>2, ZenonT(30)
    <3> QED BY <3>1, <3>2, Zenon
  <2> QED BY <2>1, <2>2, <2>8, <2>9, <1>0, <1>2, MallocAssumption
             DEF HeapOK, Block, g
<1> QED BY <1>0, <1>1, <1>2, MallocAssumption

\* What luna_bb_free does to the list keeps it tiled with no two free blocks
\* in a row, and leaves the other blocks in use as they are.
LEMMA CoalescedShape ==
    ASSUME HeapOK(block), NEW b \in DOMAIN block, NEW p, Before(block, p, b),
           ~block[b].free
    PROVE  /\ HeapOK(Coalesced(b, p))
           /\ \A d \in DOMAIN block \ {b} : ~block[d].free =>
                d \in DOMAIN Coalesced(b, p) /\ Coalesced(b, p)[d] = block[d]
           /\ \A d \in DOMAIN Coalesced(b, p) : ~Coalesced(b, p)[d].free =>
                d \in DOMAIN block \ {b} /\ ~block[d].free
<1> DEFINE g == Coalesced(b, p)
           n == block[b].next
           after == n # Null /\ block[n].free
           before == p # Null /\ block[p].free
           gone == (IF after THEN {n} ELSE {}) \cup (IF before THEN {b} ELSE {})
           first == IF before THEN p ELSE b
           last == IF after THEN n ELSE b
<1>0. /\ b \in Nat /\ block[b] \in Block
      /\ \A d \in DOMAIN block : d \in Nat /\ block[d] \in Block /\ EndOf(block, d) \in Int
                                 /\ EndOf(block, d) > d
  BY MallocAssumption DEF HeapOK, Tiled, Block, EndOf
<1>1. n # Null => n \in DOMAIN block /\ n = EndOf(block, b) /\ n > b
  BY <1>0, MallocAssumption, ZenonT(30) DEF HeapOK, Tiled, EndOf, Block
<1>2. p # Null => p \in DOMAIN block /\ block[p].next = b /\ EndOf(block, p) = b /\ p < b
  BY <1>0, MallocAssumption DEF HeapOK, Tiled, EndOf, Block, Before, Null
<1>3. /\ first \in DOMAIN block /\ last \in DOMAIN block
      /\ first <= b /\ b <= last
      /\ after => last = n /\ block[last].free
      /\ ~after => last = b
      /\ before => first = p /\ block[first].free
      /\ ~before => first = b
  BY <1>0, <1>1, <1>2
<1>4. \A d \in DOMAIN block : d \in gone <=> first < d /\ d <= last
  <2> SUFFICES ASSUME NEW d \in DOMAIN block
               PROVE  d \in gone <=> first < d /\ d <= last
    BY Zenon
  <2>1. b < d /\ d <= n /\ n # Null => d = n
    BY <1>0, <1>1 DEF HeapOK, Tiled
  <2>2. p # Null /\ p < d /\ d <= b => d = b
    BY <1>0, <1>2 DEF HeapOK, Tiled
  <2> QED BY <2>1, <2>2, <1>0, <1>1, <1>2
<1>5. gone \subseteq DOMAIN block
  BY <1>1, Zenon
<1>6. /\ g = [d \in DOMAIN block \ gone |->
                IF d # first THEN block[d]
                ELSE [size |-> (block[b].size + (IF after THEN Header + block[n].size ELSE 0))
                               + (IF before THEN Header + block[p].size ELSE 0),
                      next |-> IF after THEN block[n].next ELSE n, free |-> TRUE]]
  BY Zenon DEF Coalesced
<1> DEFINE merged == g[first]
<1>7. /\ merged.free = TRUE
      /\ merged.next = block[last].next
      /\ merged \in Block
      /\ first + Header + merged.size = EndOf(block, last)
  <2>1. first \in DOMAIN block \ gone
    BY <1>0, <1>3, <1>4, SMTT(30)
  <2>2. merged = [size |-> (block[b].size + (IF after THEN Header + block[n].size ELSE 0))
                               + (IF before THEN Header + block[p].size ELSE 0),
                  next |-> IF after THEN block[n].next ELSE n, free |-> TRUE]
    BY <2>1, <1>6, Zenon
  <2>3. block[last] \in Block /\ block[last].next = IF after THEN block[n].next ELSE n
    BY <1>0, <1>3, Zenon
  <2>4. block[b].size \in Nat /\ (after => block[n].size \in Nat)
         /\ (before => block[p].size \in Nat)
    BY <1>0, <1>1, <1>2, Zenon DEF Block
  <2>5. /\ (block[b].size + (IF after THEN Header + block[n].size ELSE 0))
                               + (IF before THEN Header + block[p].size ELSE 0) \in Nat
        /\ first + Header + ((block[b].size + (IF after THEN Header + block[n].size ELSE 0))
                               + (IF before THEN Header + block[p].size ELSE 0))
           = EndOf(block, last)
    BY <2>4, <1>0, <1>1, <1>2, MallocAssumption DEF EndOf
  <2>6. (IF after THEN block[n].next ELSE n) \in Int
    BY <2>3, Zenon DEF Block
  <2> HIDE DEF g, after, before, n
  <2>7. merged \in Block
    BY <2>2, <2>5, <2>6 DEF Block
  <2> QED BY <2>2, <2>3, <2>5, <2>7
<1>8. /\ DOMAIN g = DOMAIN block \ gone
      /\ \A d \in DOMAIN g \ {first} : g[d] = block[d]
      /\ first \in DOMAIN g
      /\ g = [d \in DOMAIN g |-> g[d]]
  <2>1. first \in DOMAIN block \ gone
    BY <1>0, <1>3, <1>4
  <2> QED BY <2>1, <1>6
<1>8a. FirstBlock \notin gone
  BY <1>0, <1>3, <1>4, <1>5 DEF FirstBlock
<1>9. after => block[last].free
  BY <1>3, Zenon
<1>10. ~after => last = b /\ (n = Null \/ ~block[n].free)
  BY <1>3, Zenon
<1>11. block[b].free = FALSE
  BY <1>0, Zenon DEF Block
<1> HIDE DEF g, gone, first, last, merged, after, before
<1>12. \A d \in DOMAIN g : g[d] \in Block
  BY <1>0, <1>7, <1>8, Zenon DEF merged
<1>13. g \in [DOMAIN g -> Block]
  BY <1>8, <1>12, Zenon
<1>14. /\ EndOf(g, first) = EndOf(block, last)
       /\ \A d \in DOMAIN g \ {first} : EndOf(g, d) = EndOf(block, d)
  BY <1>7, <1>8, Zenon DEF merged, EndOf
<1>15. ASSUME NEW d \in DOMAIN g
       PROVE  \/ EndOf(g, d) = Total /\ g[d].next = Null
              \/ EndOf(g, d) < Total /\ g[d].next = EndOf(g, d) /\ EndOf(g, d) \in DOMAIN g
  <2>1. CASE d = first
    <3>1. EndOf(block, last) \in DOMAIN block => EndOf(block, last) \notin gone
      BY <1>0, <1>3, <1>4
    <3> QED BY <2>1, <3>1, <1>3, <1>7, <1>8, <1>14, ZenonT(30) DEF merged, HeapOK, Tiled
  <2>2. CASE d # first
    <3>1. d < first \/ d > last
      BY <2>2, <1>0, <1>3, <1>4, <1>8
    <3>2. d < first => EndOf(block, d) <= first
      BY <2>2, <1>3, <1>8, Zenon DEF HeapOK, Tiled
    <3>3. EndOf(block, d) \in DOMAIN block => EndOf(block, d) \notin gone
      BY <3>1, <3>2, <1>0, <1>3, <1>4, <1>8
    <3> QED BY <2>2, <3>3, <1>8, <1>14, Zenon DEF HeapOK, Tiled
  <2> QED BY <2>1, <2>2, Zenon
<1>16. ASSUME NEW d \in DOMAIN g, NEW e \in DOMAIN g, d < e
       PROVE  EndOf(g, d) <= e
  <2>1. CASE d = first
    <3>1. e > last
      BY <2>1, <1>0, <1>3, <1>4, <1>8, <1>16
    <3> QED BY <2>1, <3>1, <1>3, <1>8, <1>14, Zenon DEF HeapOK, Tiled
  <2>2. CASE d # first
    BY <2>2, <1>8, <1>14, <1>16, Zenon DEF HeapOK, Tiled
  <2> QED BY <2>1, <2>2, Zenon
<1>17. Tiled(g)
  <2>1. DOMAIN g \subseteq Nat
    BY <1>0, <1>8, Zenon
  <2>2. FirstBlock \in DOMAIN g
    BY <1>8, <1>8a, Zenon DEF HeapOK, Tiled
  <2> QED BY <2>1, <2>2, <1>13, <1>15, <1>16, Zenon DEF Tiled
<1>18. ASSUME NEW d \in DOMAIN g, g[d].free, g[d].next # Null
       PROVE  ~g[g[d].next].free
  <2> DEFINE x == g[d].next
  <2>0. x \in DOMAIN g /\ x = EndOf(g, d)
    BY <1>15, <1>18, Zenon
  <2>1. CASE d = first
    <3>1. x = block[last].next /\ x = EndOf(block, last) /\ x # first
      BY <2>0, <2>1, <1>0, <1>3, <1>7, <1>14 DEF merged
    <3>2. g[x] = block[x]
      BY <2>0, <3>1, <1>8, Zenon
    <3>3. CASE after
      BY <3>1, <3>2, <3>3, <1>9, <1>3, <1>18, Zenon DEF HeapOK, NoNeighbours
    <3>4. CASE ~after
      BY <3>1, <3>2, <3>4, <1>10, <1>18, Zenon
    <3> QED BY <3>3, <3>4, Zenon
  <2>2. CASE d # first
    <3>1. d \in DOMAIN block /\ g[d] = block[d] /\ block[d].free /\ x = block[d].next
          /\ x = EndOf(block, d) /\ x \in DOMAIN block /\ ~block[x].free
      BY <2>0, <2>2, <1>8, <1>14, <1>18, ZenonT(30) DEF HeapOK, NoNeighbours
    <3>2. CASE x = first
      <4>1. first = b
        BY <3>1, <3>2, <1>3, Zenon
      <4>1a. d \in DOMAIN block /\ EndOf(block, d) = b
        BY <3>1, <3>2, <4>1, Zenon
      <4>1b. b > 0 /\ d < b
        BY <4>1a, <1>0
      <4>2. p # Null
        BY <4>1b DEF Before, FirstBlock
      <4>3. d = p
        <5>1. d < p => EndOf(block, d) <= p
          BY <4>1a, <4>2, <1>2, Zenon DEF HeapOK, Tiled
        <5>2. p < d => EndOf(block, p) <= d
          BY <4>1a, <4>2, <1>2, Zenon DEF HeapOK, Tiled
        <5> QED BY <5>1, <5>2, <4>1a, <4>1b, <4>2, <1>0, <1>2
      <4> QED BY <4>1, <4>2, <4>3, <3>1, <2>2, ZenonT(30) DEF first, before
    <3>3. CASE x # first
      BY <3>1, <3>3, <2>0, <1>8, ZenonT(30)
    <3> QED BY <3>2, <3>3, ZenonT(30)
  <2> QED BY <2>1, <2>2, Zenon
<1>19. HeapOK(g)
  BY <1>17, <1>18, Zenon DEF HeapOK, NoNeighbours
<1>20. ASSUME NEW d \in DOMAIN block \ {b}, ~block[d].free
       PROVE  d \in DOMAIN g /\ g[d] = block[d]
  BY <1>20, <1>8, Zenon DEF gone, first, after, before
<1>21. ASSUME NEW d \in DOMAIN g, ~g[d].free
       PROVE  d \in DOMAIN block \ {b} /\ ~block[d].free
  <2>1. d # first
    BY <1>21, <1>7, Zenon DEF merged
  <2>2. d # b
    BY <2>1, <1>8, Zenon DEF first, gone
  <2> QED BY <2>1, <2>2, <1>21, <1>8, ZenonT(30)
<1> QED BY <1>19, <1>20, <1>21, Zenon DEF g

----------------------------------------------------------------------------
(* Every step keeps the invariant                                          *)

\* After task_user_heap_reset the list is one free block.
LEMMA HeapInit == MallocInit => MallocInv
<1> SUFFICES ASSUME MallocInit PROVE MallocInv
  BY Zenon
<1>1a. NoOp \in Op
  BY DEF NoOp, Op, Null
<1>1. HeapTypes
  BY <1>1a, Zenon DEF MallocInit, HeapTypes, HeapLabels
<1>2. /\ DOMAIN block = {FirstBlock} /\ block[FirstBlock].next = Null /\ block[FirstBlock].size = Total - Header
      /\ block[FirstBlock].free = TRUE /\ block \in [{FirstBlock} -> Block]
  BY MallocAssumption DEF MallocInit, Block, Null, FirstBlock
<1>3. HeapOK(block)
  BY <1>2, MallocAssumption DEF HeapOK, Tiled, NoNeighbours, EndOf, FirstBlock
<1>4. HeldOK(block, held)
  BY <1>2, Zenon DEF MallocInit, HeldOK, FirstBlock
<1>5. OneWalks /\ \A c \in HeapThreads : ClientOK(c)
  BY Zenon
     DEF MallocInit, OneWalks, ClientOK, WalkOK, SearchOK, FitOK, PassedOK,
         GrowOK, CopyOK,
         Passed, Growing, Walking
<1> QED BY <1>1, <1>3, <1>4, <1>5, Zenon DEF MallocInv

\* A thread that is not in the list is not disturbed by what another one does
\* under the lock, as long as its own pieces stay; nor is any thread by a
\* step that leaves the list alone.
LEMMA OthersKept ==
    ASSUME MallocInv, NEW d \in HeapThreads, heap_pc'[d] = heap_pc[d], op'[d] = op[d],
           \A h \in held : h.by = d => h \in held',
           \/ block' = block /\ lock' = lock
           \/ /\ heap_pc[d] \notin Walking
              /\ \A h \in held : h.by = d =>
                   block'[h.ptr - Header].size = block[h.ptr - Header].size
    PROVE  ClientOK(d)'
<1>1. ClientOK(d)
  BY Zenon DEF MallocInv
<1>2. PassedOK(d)' /\ CopyOK(d)'
  BY <1>1, Zenon DEF ClientOK, PassedOK, CopyOK, Passed
<1>3. GrowOK(d)'
  BY <1>1, Zenon DEF ClientOK, PassedOK, GrowOK, Passed, Growing
<1>4. WalkOK(d)' /\ SearchOK(d)' /\ FitOK(d)'
  BY <1>1, ZenonT(30) DEF ClientOK, WalkOK, SearchOK, FitOK, Walking
<1> QED BY <1>2, <1>3, <1>4, ZenonT(30) DEF ClientOK

\* The start of a walk: the caller's own facts about its pointer are all
\* that is left to show.
LEMMA AcquireKeeps ==
    ASSUME MallocInv, NEW c \in HeapThreads, NEW l \in Walking, NEW args \in Op,
           Acquire(c, l, args),
           l = "malloc" /\ args.then = "copy" =>
             /\ \E h \in held : h.by = c /\ h.ptr = args.ptr
             /\ block[args.ptr - Header].size = args.old /\ args.old < args.size,
           l # "malloc" => \E h \in held : h.by = c /\ h.ptr = args.ptr
    PROVE  MallocInv'
<1>1. /\ ~lock /\ lock' = TRUE /\ heap_pc' = [heap_pc EXCEPT ![c] = l]
      /\ op' = [op EXCEPT ![c] = [args EXCEPT !.cur = FirstBlock, !.prev = Null]]
      /\ block' = block /\ current' = current /\ held' = held
  BY Zenon DEF Acquire
<1>2. \A d \in HeapThreads : heap_pc[d] \notin Walking
  BY <1>1, Zenon DEF MallocInv, ClientOK, WalkOK
<1>3. HeapTypes'
  <2>0. FirstBlock \in Int /\ Null \in Int
    BY DEF Null, FirstBlock
  <2>1. [args EXCEPT !.cur = FirstBlock, !.prev = Null] \in Op
    BY <2>0, Zenon DEF Op
  <2> QED BY <1>1, <2>1, Zenon DEF MallocInv, HeapTypes, HeapLabels
<1>4. OneWalks'
  BY <1>1, <1>2, Zenon DEF OneWalks, MallocInv, HeapTypes
<1>5. ASSUME NEW d \in HeapThreads, d # c PROVE ClientOK(d)'
  BY <1>1, <1>2, <1>5, OthersKept, Zenon DEF MallocInv, HeapTypes
<1>6. ClientOK(c)'
  <2>1. /\ heap_pc'[c] = l /\ op'[c].cur = FirstBlock /\ op'[c].prev = Null
        /\ op'[c].ptr = args.ptr /\ op'[c].size = args.size /\ op'[c].old = args.old
        /\ op'[c].then = args.then
    BY <1>1, Zenon DEF MallocInv, HeapTypes, Op
  <2>2. FirstBlock \in DOMAIN block /\ DOMAIN block \subseteq Nat
    BY Zenon DEF MallocInv, HeapOK, Tiled
  <2>3. WalkOK(c)'
    BY <1>1, <2>1, <2>2, Zenon DEF WalkOK, Before
  <2>4. FitOK(c)'
    BY <1>1, <2>1, <2>2 DEF FitOK, FirstBlock, Null
  <2>5. PassedOK(c)' /\ GrowOK(c)' /\ CopyOK(c)'
    BY <1>1, <2>1, Zenon DEF PassedOK, GrowOK, CopyOK, Passed, Growing, Walking
  <2>6. SearchOK(c)'
    <3> SUFFICES ASSUME l # "malloc" PROVE FirstBlock # Null /\ FirstBlock + Header <= args.ptr
      BY <2>1, <1>1, Zenon DEF SearchOK
    <3>1. PICK h \in held : h.by = c /\ h.ptr = args.ptr
      BY Zenon
    <3>2. h.ptr - Header \in Nat /\ h.ptr \in Int
      BY <2>2, Zenon DEF MallocInv, HeapTypes, HeldOK
    <3> QED BY <3>1, <3>2, MallocAssumption DEF FirstBlock, Null
  <2> QED BY <2>3, <2>4, <2>5, <2>6, Zenon DEF ClientOK
<1> QED BY <1>1, <1>3, <1>4, <1>5, <1>6, Zenon DEF MallocInv

\* A round of a loop: what the thread knows of the blocks it has passed.
LEMMA AdvanceKeeps ==
    ASSUME MallocInv, NEW c \in HeapThreads, heap_pc[c] \in Walking, op[c].cur # Null, Advance(c),
           heap_pc[c] = "malloc" => ~LargeEnough(c),
           heap_pc[c] # "malloc" => ~Found(c)
    PROVE  MallocInv'
<1> DEFINE b == op[c].cur
<1>1. /\ op' = [op EXCEPT ![c].prev = b, ![c].cur = block[b].next]
      /\ block' = block /\ lock' = lock /\ current' = current /\ held' = held /\ heap_pc' = heap_pc
  BY Zenon DEF Advance
<1>2. b \in DOMAIN block /\ block[b] \in Block /\ b \in Nat /\ ClientOK(c) /\ b # Null
  BY Zenon DEF MallocInv, ClientOK, WalkOK, HeapOK, Tiled
<1>3. HeapTypes'
  <2>1. op[c] \in Op /\ block[b].next \in Int /\ b \in Int
    BY <1>2 DEF MallocInv, HeapTypes, Block
  <2>2. [op[c] EXCEPT !.prev = b, !.cur = block[b].next] \in Op
    BY <2>1, Zenon DEF Op
  <2>3. op' = [op EXCEPT ![c] = [op[c] EXCEPT !.prev = b, !.cur = block[b].next]]
    BY <1>1, Zenon
  <2> QED BY <1>1, <2>2, <2>3 DEF MallocInv, HeapTypes
<1>4. /\ op'[c].prev = b /\ op'[c].cur = block[b].next
      /\ op'[c].ptr = op[c].ptr /\ op'[c].size = op[c].size /\ op'[c].old = op[c].old
      /\ op'[c].then = op[c].then
  BY <1>1, ZenonT(30) DEF MallocInv, HeapTypes, Op
<1>5. ASSUME NEW d \in HeapThreads, d # c PROVE ClientOK(d)'
  BY <1>1, <1>5, OthersKept, Zenon DEF MallocInv, HeapTypes
<1>6. /\ block[b].next = Null => EndOf(block, b) = Total
      /\ block[b].next # Null => block[b].next \in DOMAIN block
                                 /\ block[b].next = EndOf(block, b)
      /\ EndOf(block, b) > b /\ EndOf(block, b) \in Int
  BY <1>2, MallocAssumption, SMTT(30)
     DEF MallocInv, HeapOK, Tiled, EndOf, Block, Null
<1>7. WalkOK(c)'
  BY <1>1, <1>2, <1>4, <1>6, Zenon DEF ClientOK, WalkOK, Before
<1>8. PassedOK(c)' /\ GrowOK(c)' /\ CopyOK(c)'
  BY <1>1, <1>2, <1>4, Zenon
     DEF ClientOK, PassedOK, GrowOK, CopyOK, Passed, Growing, Walking
<1>9. FitOK(c)'
  <2> SUFFICES ASSUME heap_pc[c] = "malloc", NEW d \in DOMAIN block,
                      block[b].next = Null \/ d < block[b].next
               PROVE  ~(block[d].free /\ block[d].size >= op[c].size)
    BY <1>1, <1>4, Zenon DEF FitOK
  <2>1. d < b \/ d = b
    <3>1. b < d => EndOf(block, b) <= d
      BY <1>2, Zenon DEF MallocInv, HeapOK, Tiled
    <3>2. d \in Nat /\ d < Total
      <4>1. d \in Nat /\ block[d].size \in Nat /\ EndOf(block, d) <= Total
        BY MallocAssumption DEF MallocInv, HeapOK, Tiled, Block
      <4> QED BY <4>1, MallocAssumption DEF EndOf
    <3> QED BY <3>1, <3>2, <1>2, <1>6, MallocAssumption
  <2> QED BY <2>1, <1>2, Zenon DEF ClientOK, FitOK, LargeEnough
<1>10. SearchOK(c)'
  <2> SUFFICES ASSUME heap_pc[c] \in {"free", "realloc"}
               PROVE  block[b].next # Null /\ block[b].next + Header <= op[c].ptr
    BY <1>1, <1>4, Zenon DEF SearchOK
  <2>1. PICK h \in held : h.by = c /\ h.ptr = op[c].ptr
    BY <1>2, Zenon DEF ClientOK, PassedOK, Passed
  <2>2. h.ptr - Header \in DOMAIN block /\ h.ptr - Header \in Nat /\ h.ptr \in Int
    BY Zenon DEF MallocInv, HeapTypes, HeldOK, HeapOK, Tiled
  <2>3. b < h.ptr - Header
    BY <2>1, <2>2, <1>2, MallocAssumption DEF ClientOK, SearchOK, Found
  <2>4. EndOf(block, b) <= h.ptr - Header
    BY <2>2, <2>3, <1>2, Zenon DEF MallocInv, HeapOK, Tiled
  <2>5. h.ptr - Header < Total
    BY <2>2, MallocAssumption DEF MallocInv, HeapOK, Tiled, EndOf, Block
  <2> QED BY <2>1, <2>2, <2>4, <2>5, <1>6, MallocAssumption
<1>11. ClientOK(c)'
  BY <1>7, <1>8, <1>9, <1>10, Zenon DEF ClientOK
<1> QED BY <1>1, <1>3, <1>5, <1>11, ZenonT(30) DEF MallocInv, OneWalks

\* A release of the lock that changes no block: the caller's facts about its
\* own call are left to show.
LEMMA ReleaseKeeps ==
    ASSUME MallocInv, NEW c \in HeapThreads, heap_pc[c] \in Walking, NEW l \in {"idle", "grow"},
           NEW o \in Op, ReleaseLock(c, l, o), block' = block,
           HeldOK(block, held'),
           held' \subseteq [by : HeapThreads \cup {NoThread}, ptr : Int, size : Nat],
           \A h \in held : h.by # c => h \in held',
           l = "grow" =>
             /\ \E h \in held' : h.by = c /\ h.ptr = o.ptr
             /\ block[o.ptr - Header].size = o.old /\ o.old < o.size
    PROVE  MallocInv'
<1>1. /\ lock' = FALSE /\ heap_pc' = [heap_pc EXCEPT ![c] = l] /\ op' = [op EXCEPT ![c] = o]
  BY Zenon DEF ReleaseLock
<1>2. \A d \in HeapThreads \ {c} : heap_pc[d] \notin Walking
  BY Zenon DEF MallocInv, OneWalks
<1>3. HeapTypes'
  BY <1>1, Zenon DEF MallocInv, HeapTypes, HeapLabels
<1>4. OneWalks'
  BY <1>1, <1>2 DEF OneWalks, MallocInv, HeapTypes, Walking
<1>5. ASSUME NEW d \in HeapThreads, d # c PROVE ClientOK(d)'
  <2>1. heap_pc'[d] = heap_pc[d] /\ op'[d] = op[d] /\ heap_pc[d] \notin Walking
    BY <1>1, <1>2, <1>5, Zenon DEF MallocInv, HeapTypes
  <2>2. \A h \in held : h.by = d => h \in held'
    BY <1>5, Zenon
  <2> QED BY <2>1, <2>2, OthersKept, Zenon
<1>6. ClientOK(c)'
  <2>1. heap_pc'[c] = l /\ op'[c] = o
    BY <1>1, Zenon DEF MallocInv, HeapTypes
  <2> QED BY <2>1, Zenon
             DEF ClientOK, WalkOK, SearchOK, FitOK, PassedOK, GrowOK, CopyOK,
                      Passed, Growing, Walking
<1> QED BY <1>3, <1>4, <1>5, <1>6, Zenon DEF MallocInv

\* The locals of a client outside a call (luna_bb_malloc returns) have their type.
LEMMA NoOpType == NoOp \in Op
BY DEF NoOp, Op, Null

\* malloc takes a block: the pieces of the others are where they were.
LEMMA TakeKeeps == ASSUME MallocInv, NEW c \in HeapThreads, MallocTake(c) PROVE MallocInv'
<1> DEFINE b == op[c].cur
           n == op[c].size
           new == [by |-> c, ptr |-> b + Header, size |-> n]
<1>1. /\ heap_pc[c] = "malloc" /\ b # Null /\ block[b].free /\ block[b].size >= n
      /\ block' = Taken(b, n) /\ held' = held \cup {new}
  BY Zenon DEF MallocTake, LargeEnough
<1>2. /\ b \in DOMAIN block /\ b \in Nat /\ n \in Nat /\ ClientOK(c) /\ op[c] \in Op
      /\ HeapOK(block) /\ HeldOK(block, held)
  BY <1>1, Zenon
     DEF MallocInv, ClientOK, WalkOK, Walking, HeapTypes, Op, HeapOK, Tiled
<1>3. /\ HeapOK(block')
      /\ b \in DOMAIN block' /\ ~block'[b].free /\ block'[b].size >= n
      /\ \A d \in DOMAIN block \ {b} : d \in DOMAIN block' /\ block'[d] = block[d]
      /\ \A d \in DOMAIN block' : d \in DOMAIN block \/ block'[d].free
  BY <1>1, <1>2, TakenShape, SMTT(30)
<1>4. \A h \in held : h.ptr - Header \in DOMAIN block \ {b} /\ h.ptr \in Int
  BY <1>1, <1>2, Zenon DEF HeldOK, MallocInv, HeapTypes
<1>4a. \A h \in held : h.ptr # new.ptr
  BY <1>4, <1>2, MallocAssumption
<1>4b. new.ptr = b + Header /\ new.ptr - Header = b /\ new.ptr \in Int /\ new.size = n /\ new.by = c
  BY <1>2, MallocAssumption
<1> HIDE DEF new
<1>5. HeldOK(block', held')
  <2>1. ASSUME NEW h \in held'
        PROVE  /\ h.ptr - Header \in DOMAIN block' /\ ~block'[h.ptr - Header].free
               /\ block'[h.ptr - Header].size >= h.size
    <3>1. CASE h = new
      BY <1>3, <1>4b, <3>1, Zenon
    <3>2. CASE h \in held
      <4>1. /\ h.ptr - Header \in DOMAIN block \ {b} /\ ~block[h.ptr - Header].free
            /\ block[h.ptr - Header].size >= h.size
        BY <1>2, <1>4, <3>2, Zenon DEF HeldOK
      <4> QED BY <1>3, <4>1, Zenon
    <3> QED BY <1>1, <3>1, <3>2, Zenon
  <2>2. ASSUME NEW h \in held', NEW k \in held', h.ptr = k.ptr PROVE h = k
    BY <2>2, <1>1, <1>2, <1>4a, Zenon DEF HeldOK
  <2>3. ASSUME NEW d \in DOMAIN block', ~block'[d].free
        PROVE  \E h \in held' : h.ptr = d + Header
    <3>1. CASE d = b
      BY <3>1, <1>1, <1>4b, Zenon
    <3>2. CASE d # b
      BY <3>2, <2>3, <1>1, <1>2, <1>3, ZenonT(30) DEF HeldOK
    <3> QED BY <3>1, <3>2, Zenon
  <2> QED BY <2>1, <2>2, <2>3, Zenon DEF HeldOK
<1>6. \E l \in {"idle", "copy"}, o \in Op :
        /\ ReleaseLock(c, l, o)
        /\ l = "copy" => o = op[c] /\ op[c].then = "copy"
  BY <1>2, NoOpType, Zenon DEF MallocTake, HeapReturn, Op
<1>7. PICK l \in {"idle", "copy"}, o \in Op :
        /\ lock' = FALSE /\ heap_pc' = [heap_pc EXCEPT ![c] = l] /\ op' = [op EXCEPT ![c] = o]
        /\ l = "copy" => o = op[c] /\ op[c].then = "copy"
  BY <1>6, Zenon DEF ReleaseLock
<1>8. \A d \in HeapThreads \ {c} : heap_pc[d] \notin Walking
  BY <1>1, Zenon DEF MallocInv, OneWalks, Walking
<1>9. HeapTypes'
  <2>1. new \in [by : HeapThreads \cup {NoThread}, ptr : Int, size : Nat]
    BY <1>2, MallocAssumption DEF new
  <2> QED BY <2>1, <1>1, <1>7, Zenon DEF MallocInv, HeapTypes, HeapLabels
<1>10. OneWalks'
  BY <1>7, <1>8 DEF OneWalks, MallocInv, HeapTypes, Walking
<1>11. ASSUME NEW d \in HeapThreads, d # c PROVE ClientOK(d)'
  <2>1. heap_pc'[d] = heap_pc[d] /\ op'[d] = op[d] /\ heap_pc[d] \notin Walking
    BY <1>7, <1>8, <1>11, Zenon DEF MallocInv, HeapTypes
  <2>2. \A h \in held : h \in held' /\ block'[h.ptr - Header] = block[h.ptr - Header]
    BY <1>1, <1>3, <1>4, ZenonT(30)
  <2> QED BY <2>1, <2>2, OthersKept, Zenon
<1>12. ClientOK(c)'
  <2>1. heap_pc'[c] = l /\ op'[c] = o
    BY <1>7, Zenon DEF MallocInv, HeapTypes
  <2>2. CASE l = "idle"
    BY <2>1, <2>2, Zenon
       DEF ClientOK, WalkOK, SearchOK, FitOK, PassedOK, GrowOK, CopyOK,
                      Passed, Growing, Walking
  <2>3. CASE l = "copy"
    <3>1. o = op[c] /\ op[c].then = "copy"
      BY <1>7, <2>3, Zenon
    <3>2. PICK h \in held : h.by = c /\ h.ptr = op[c].ptr
      BY <1>1, <1>2, <3>1, Zenon DEF ClientOK, PassedOK, Passed
    <3>3. block[op[c].ptr - Header].size = op[c].old /\ op[c].old < op[c].size
      BY <1>1, <1>2, <3>1, ZenonT(30) DEF ClientOK, GrowOK, Growing
    <3>4. PassedOK(c)'
      BY <2>1, <3>1, <3>2, <1>1, ZenonT(30) DEF PassedOK
    <3>5. GrowOK(c)'
      BY <2>1, <3>1, <3>2, <3>3, <1>3, <1>4 DEF GrowOK
    <3>6. CopyOK(c)'
      <4>1. new \in held' /\ new.ptr # op[c].ptr
        BY <3>2, <1>1, <1>4a, Zenon
      <4> QED BY <4>1, <2>1, <3>1, <1>4b, ZenonT(30) DEF CopyOK
    <3> QED BY <2>1, <2>3, <3>4, <3>5, <3>6, Zenon
               DEF ClientOK, WalkOK, SearchOK, FitOK, Walking
  <2> QED BY <2>2, <2>3, Zenon
<1> QED BY <1>3, <1>5, <1>9, <1>10, <1>11, <1>12, ZenonT(30) DEF MallocInv

\* free finds its block, and gives back what the caller held and nothing else.
LEMMA FreeKeeps == ASSUME MallocInv, NEW c \in HeapThreads, FreeEnds(c) PROVE MallocInv'
<1> DEFINE b == op[c].cur
<1>1. /\ heap_pc[c] = "free" /\ SearchEnded(c) /\ ClientOK(c) /\ HeapReturn(c)
      /\ HeapOK(block) /\ HeldOK(block, held)
      /\ held' = {h \in held : h.ptr # op[c].ptr}
  BY Zenon DEF FreeEnds, MallocInv
<1>2. b # Null /\ b + Header = op[c].ptr /\ b \in DOMAIN block /\ b \in Nat
      /\ Before(block, op[c].prev, b)
  BY <1>1, Zenon
     DEF ClientOK, SearchOK, WalkOK, Walking, SearchEnded, Found, HeapOK,
         Tiled
<1>3. PICK h \in held : h.by = c /\ h.ptr = op[c].ptr
  BY <1>1, Zenon DEF ClientOK, PassedOK, Passed
<1>3a. \A k \in held : k.ptr \in Int
  BY Zenon DEF MallocInv, HeapTypes
<1>4. h.ptr - Header = b
  BY <1>2, <1>3, MallocAssumption, SMTT(30)
<1>5. ~block[b].free
  BY <1>1, <1>4, Zenon DEF HeldOK
<1>6. block' = Coalesced(b, op[c].prev)
  BY <1>1, <1>2, <1>5, ZenonT(30) DEF FreeEnds, InUse
<1>7. /\ HeapOK(block')
      /\ \A d \in DOMAIN block \ {b} : ~block[d].free =>
           d \in DOMAIN block' /\ block'[d] = block[d]
      /\ \A d \in DOMAIN block' : ~block'[d].free =>
           d \in DOMAIN block \ {b} /\ ~block[d].free
  BY <1>1, <1>2, <1>5, <1>6, CoalescedShape, SMTT(30)
<1>8. \A k \in held' : /\ k \in held /\ k.ptr - Header \in DOMAIN block \ {b}
                       /\ ~block[k.ptr - Header].free
                       /\ k.ptr - Header \in DOMAIN block'
                       /\ block'[k.ptr - Header] = block[k.ptr - Header]
  BY <1>1, <1>2, <1>3a, <1>7, MallocAssumption, SMTT(30) DEF HeldOK
<1>9. HeldOK(block', held')
  <2>1. ASSUME NEW d \in DOMAIN block', ~block'[d].free
        PROVE  \E k \in held' : k.ptr = d + Header
    <3>1. d \in DOMAIN block /\ d # b /\ ~block[d].free /\ d \in Nat
      BY <2>1, <1>7, Zenon DEF HeapOK, Tiled
    <3>2. PICK k \in held : k.ptr = d + Header
      BY <3>1, <1>1, Zenon DEF HeldOK
    <3>3. k.ptr # op[c].ptr
      BY <3>1, <3>2, <1>2, MallocAssumption
    <3> QED BY <3>2, <3>3, <1>1, Zenon
  <2> QED BY <2>1, <1>1, <1>8, ZenonT(30) DEF HeldOK
<1>10. /\ lock' = FALSE /\ heap_pc' = [heap_pc EXCEPT ![c] = "idle"] /\ op' = [op EXCEPT ![c] = NoOp]
  BY <1>1, Zenon DEF HeapReturn, ReleaseLock
<1>11. \A d \in HeapThreads \ {c} : heap_pc[d] \notin Walking
  BY <1>1, Zenon DEF MallocInv, OneWalks, Walking
<1>12. HeapTypes'
  BY <1>1, <1>10, NoOpType, Zenon DEF MallocInv, HeapTypes, HeapLabels
<1>13. OneWalks'
  BY <1>10, <1>11, Zenon DEF OneWalks, MallocInv, HeapTypes, Walking
<1>14. ASSUME NEW d \in HeapThreads, d # c PROVE ClientOK(d)'
  <2>1. heap_pc'[d] = heap_pc[d] /\ op'[d] = op[d] /\ heap_pc[d] \notin Walking
    BY <1>10, <1>11, <1>14, ZenonT(30) DEF MallocInv, HeapTypes
  <2>2. \A k \in held : k.by = d => k.ptr # op[c].ptr
    BY <1>1, <1>3, <1>14, ZenonT(30) DEF HeldOK
  <2>3. \A k \in held : k.by = d => k \in held'
                          /\ block'[k.ptr - Header] = block[k.ptr - Header]
    BY <2>2, <1>1, <1>8, Zenon
  <2> QED BY <2>1, <2>3, OthersKept, Zenon
<1>15. ClientOK(c)'
  <2>1. heap_pc'[c] = "idle"
    BY <1>10, Zenon DEF MallocInv, HeapTypes
  <2> QED BY <2>1, Zenon
             DEF ClientOK, WalkOK, SearchOK, FitOK, PassedOK, GrowOK, CopyOK,
                      Passed, Growing, Walking
<1> QED BY <1>7, <1>9, <1>12, <1>13, <1>14, <1>15, ZenonT(30) DEF MallocInv

\* realloc keeps its block for another size, or notes it and gives up the lock.
LEMMA DecideKeeps == ASSUME MallocInv, NEW c \in HeapThreads, ReallocDecides(c) PROVE MallocInv'
<1> DEFINE b == op[c].cur
           same == [by |-> c, ptr |-> op[c].ptr, size |-> op[c].size]
<1>1. /\ heap_pc[c] = "realloc" /\ SearchEnded(c) /\ ClientOK(c) /\ block' = block
      /\ HeapOK(block) /\ HeldOK(block, held) /\ op[c] \in Op
  BY Zenon DEF ReallocDecides, CopySize, MallocInv, HeapTypes
<1>2. b # Null /\ b + Header = op[c].ptr /\ b \in DOMAIN block /\ b \in Nat
      /\ block[b] \in Block
  BY <1>1, Zenon
     DEF ClientOK, SearchOK, WalkOK, Walking, SearchEnded, Found, HeapOK,
         Tiled
<1>3. PICK h \in held : h.by = c /\ h.ptr = op[c].ptr
  BY <1>1, Zenon DEF ClientOK, PassedOK, Passed
<1>4. h.ptr - Header = b /\ op[c].ptr - Header = b
  BY <1>2, <1>3, MallocAssumption
<1>5. InUse(c)
  BY <1>1, <1>2, <1>4, ZenonT(30) DEF HeldOK, InUse
<1>6. CASE op[c].size > block[b].size
  <2> DEFINE o == [op[c] EXCEPT !.old = block[b].size]
  <2>1. ReleaseLock(c, "grow", o) /\ held' = held
    BY <1>5, <1>6, Zenon DEF ReallocDecides, CopySize
  <2>1a. block[b].size \in Int
    BY <1>2 DEF Block
  <2>2. o \in Op /\ o.ptr = op[c].ptr /\ o.old = block[b].size /\ o.size = op[c].size
    BY <1>1, <2>1a, Zenon DEF Op
  <2>3. o.old < o.size
    BY <2>2, <2>1a, <1>1, <1>6, Zenon DEF Op
  <2> HIDE DEF o
  <2> QED BY <2>1, <2>2, <2>3, <1>1, <1>3, <1>4, ReleaseKeeps, ZenonT(30)
             DEF MallocInv, HeapTypes, Walking
<1>7. CASE ~(op[c].size > block[b].size)
  <2>1. /\ HeapReturn(c)
        /\ held' = {k \in held : k.ptr # op[c].ptr} \cup {same}
    BY <1>5, <1>7, Zenon DEF ReallocDecides, CopySize
  <2>2. same \in [by : HeapThreads \cup {NoThread}, ptr : Int, size : Nat]
    BY <1>1, ZenonT(30) DEF Op
  <2>3. \A k \in held : k.by # c => k.ptr # op[c].ptr
    BY <1>1, <1>3, ZenonT(30) DEF HeldOK
  <2>4. HeldOK(block, held')
    <3>0. same.ptr = op[c].ptr /\ same.size = op[c].size /\ block[b].size >= op[c].size
          /\ ~block[b].free
      BY <1>1, <1>2, <1>5, <1>7, SMTT(30) DEF Op, Block, InUse
    <3> HIDE DEF same
    <3>1. ASSUME NEW k \in held'
          PROVE  /\ k.ptr - Header \in DOMAIN block /\ ~block[k.ptr - Header].free
                 /\ block[k.ptr - Header].size >= k.size
      BY <2>1, <3>0, <1>1, <1>2, <1>4, ZenonT(30) DEF HeldOK
    <3>2. ASSUME NEW k \in held', NEW g \in held', k.ptr = g.ptr PROVE k = g
      BY <2>1, <3>0, <3>2, <1>1, Zenon DEF HeldOK
    <3>3. ASSUME NEW d \in DOMAIN block, ~block[d].free
          PROVE  \E k \in held' : k.ptr = d + Header
      <4>1. PICK k \in held : k.ptr = d + Header
        BY <3>3, <1>1, Zenon DEF HeldOK
      <4> QED BY <4>1, <2>1, <3>0, Zenon
    <3> QED BY <3>1, <3>2, <3>3, ZenonT(30) DEF HeldOK
  <2>5. \A k \in held : k.by # c => k \in held'
    BY <2>1, <2>3, Zenon
  <2>6. held' \subseteq [by : HeapThreads \cup {NoThread}, ptr : Int, size : Nat]
    BY <2>1, <2>2, Zenon DEF MallocInv, HeapTypes
  <2> QED BY <2>1, <2>4, <2>5, <2>6, <1>1, NoOpType, ReleaseKeeps, Zenon
             DEF HeapReturn, Walking
<1> QED BY <1>6, <1>7, ZenonT(30)

\* What an applet leaves behind stays in use.
LEMMA EndsKeeps == ASSUME MallocInv, NEW c \in HeapThreads, AppletEnds(c) PROVE MallocInv'
<1> DEFINE F(h) == [h EXCEPT !.by = IF @ = c THEN NoThread ELSE @]
<1>1. /\ held' = {F(h) : h \in held} /\ heap_pc[c] = "idle"
      /\ block' = block /\ lock' = lock /\ heap_pc' = heap_pc /\ op' = op
  BY Zenon DEF AppletEnds
<1>2. \A h \in held : /\ F(h) \in [by : HeapThreads \cup {NoThread}, ptr : Int, size : Nat]
                      /\ F(h).ptr = h.ptr /\ F(h).size = h.size
                      /\ h.by # c => F(h) = h
  BY Zenon DEF MallocInv, HeapTypes
<1> HIDE DEF F
<1>3. HeldOK(block, held')
  BY <1>1, <1>2 DEF MallocInv, HeldOK
<1>4. HeapTypes'
  BY <1>1, <1>2 DEF MallocInv, HeapTypes
<1>5. ASSUME NEW d \in HeapThreads, d # c PROVE ClientOK(d)'
  <2>1. \A h \in held : h.by = d => h \in held'
    BY <1>1, <1>2, <1>5, ZenonT(30)
  <2> QED BY <2>1, <1>1, OthersKept, Zenon
<1>6. ClientOK(c)'
  BY <1>1, Zenon DEF ClientOK, WalkOK, SearchOK, FitOK, PassedOK, GrowOK, CopyOK,
              Passed, Growing, Walking
<1> QED BY <1>1, <1>3, <1>4, <1>5, <1>6, ZenonT(30) DEF MallocInv, OneWalks

\* Every step of malloc, free, realloc and of an applet's end.
LEMMA MallocStep == MallocInv /\ [MallocNext]_heap_vars => MallocInv'
<1> SUFFICES ASSUME MallocInv, [MallocNext]_heap_vars PROVE MallocInv'
  BY Zenon
<1>1. CASE UNCHANGED heap_vars
  <2>1. HeapTypes'
    BY <1>1, Zenon DEF heap_vars, MallocInv, HeapTypes
  <2>2. HeapOK(block') /\ HeldOK(block', held')
    BY <1>1, Zenon DEF heap_vars, MallocInv
  <2>3. OneWalks'
    BY <1>1, Zenon DEF heap_vars, MallocInv, OneWalks
  <2>4. ASSUME NEW c \in HeapThreads PROVE ClientOK(c)'
    <3>1. ClientOK(c)
      BY Zenon DEF MallocInv
    <3>2. WalkOK(c)' /\ SearchOK(c)' /\ FitOK(c)'
      BY <1>1, <3>1, ZenonT(30) DEF heap_vars, ClientOK, WalkOK, SearchOK, FitOK
    <3>3. PassedOK(c)' /\ GrowOK(c)' /\ CopyOK(c)'
      BY <1>1, <3>1, Zenon
         DEF heap_vars, ClientOK, PassedOK, GrowOK, CopyOK, Passed, Growing
    <3> QED BY <3>2, <3>3, Zenon DEF ClientOK
  <2> QED BY <2>1, <2>2, <2>3, <2>4, Zenon DEF MallocInv
<1>2. CASE MallocNext
  <2>0. PICK c \in HeapThreads : ClientStep(c)
    BY <1>2, Zenon DEF MallocNext
  <2>0a. op[c] \in Op
    BY Zenon DEF MallocInv, HeapTypes
  <2>1. ASSUME NEW n \in MallocSizes, Malloc(c, n) PROVE MallocInv'
    <3>1. n \in Nat
      BY MallocAssumption, Zenon
    <3>2. [NoOp EXCEPT !.size = n] \in Op /\ [NoOp EXCEPT !.size = n].then = "idle"
      BY <3>1 DEF NoOp, Op, Null
    <3> QED BY <2>1, <3>2, AcquireKeeps, Zenon DEF Malloc, Walking
  <2>2. ASSUME NEW h \in held, Free(c, h.ptr) PROVE MallocInv'
    <3>1. h.ptr \in Int
      BY Zenon DEF MallocInv, HeapTypes
    <3>2. [NoOp EXCEPT !.ptr = h.ptr] \in Op /\ [NoOp EXCEPT !.ptr = h.ptr].ptr = h.ptr
      BY <3>1 DEF NoOp, Op, Null
    <3> QED BY <2>2, <3>2, AcquireKeeps, Zenon DEF Free, Owned, Walking
  <2>3. ASSUME NEW h \in held, NEW n \in MallocSizes, Realloc(c, h.ptr, n) PROVE MallocInv'
    <3> DEFINE o == [NoOp EXCEPT !.ptr = h.ptr, !.size = n]
    <3>1. h.ptr \in Int /\ n \in Nat
      BY MallocAssumption, Zenon DEF MallocInv, HeapTypes
    <3>2. o \in Op /\ o.ptr = h.ptr
      BY <3>1, NoOpType, Zenon DEF Op
    <3>3. Acquire(c, "realloc", o) /\ Owned(c, h.ptr)
      BY <2>3, Zenon DEF Realloc
    <3> HIDE DEF o
    <3> QED BY <3>2, <3>3, AcquireKeeps, Zenon DEF Owned, Walking
  <2>4. CASE MallocSkip(c)
    BY <2>4, AdvanceKeeps, Zenon DEF MallocSkip, Walking
  <2>5. CASE MallocTake(c)
    BY <2>5, TakeKeeps, Zenon
  <2>6. CASE MallocFails(c)
    BY <2>6, NoOpType, ReleaseKeeps, Zenon
       DEF MallocFails, HeapReturn, Walking, MallocInv, HeapTypes
  <2>7. CASE Seek(c)
    BY <2>7, AdvanceKeeps, Zenon DEF Seek, Walking
  <2>8. CASE FreeEnds(c)
    BY <2>8, FreeKeeps, Zenon
  <2>9. CASE ReallocDecides(c)
    BY <2>9, DecideKeeps, Zenon
  <2>10. CASE ReallocAllocates(c)
    <3> DEFINE o == [op[c] EXCEPT !.then = "copy"]
    <3>1. /\ o \in Op /\ o.ptr = op[c].ptr /\ o.old = op[c].old /\ o.size = op[c].size
      BY <2>0a, Zenon DEF Op
    <3>2. heap_pc[c] = "grow" /\ Acquire(c, "malloc", o)
      BY <2>10, Zenon DEF ReallocAllocates
    <3>3. /\ \E h \in held : h.by = c /\ h.ptr = op[c].ptr
          /\ block[op[c].ptr - Header].size = op[c].old /\ op[c].old < op[c].size
      BY <3>2, Zenon DEF MallocInv, ClientOK, PassedOK, GrowOK, Passed, Growing
    <3> HIDE DEF o
    <3> QED BY <3>1, <3>2, <3>3, AcquireKeeps, Zenon DEF Walking
  <2>11. CASE ReallocFrees(c)
    <3> DEFINE o == [NoOp EXCEPT !.ptr = op[c].ptr]
    <3>0. op[c].ptr \in Int
      BY <2>0a, Zenon DEF Op
    <3>1. o \in Op /\ o.ptr = op[c].ptr
      BY <3>0 DEF NoOp, Op, Null
    <3>2. heap_pc[c] = "copy" /\ Acquire(c, "free", o)
      BY <2>11, Zenon DEF ReallocFrees
    <3>3. \E h \in held : h.by = c /\ h.ptr = op[c].ptr
      BY <3>2, Zenon DEF MallocInv, ClientOK, PassedOK, Passed
    <3> HIDE DEF o
    <3> QED BY <3>1, <3>2, <3>3, AcquireKeeps, Zenon DEF Walking
  <2>12. CASE AppletEnds(c)
    BY <2>12, EndsKeeps, Zenon
  <2> QED BY <2>0, <2>1, <2>2, <2>3, <2>4, <2>5, <2>6, <2>7, <2>8, <2>9, <2>10, <2>11,
             <2>12 DEF ClientStep
<1> QED BY <1>1, <1>2, Zenon DEF heap_vars

\* The inductive invariant of the heap: the list tiles the heap, the blocks in
\* use are the pieces held, and every call knows where it is.
THEOREM MallocInvariant == MallocSpec => []MallocInv
BY HeapInit, MallocStep, PTL DEF MallocSpec

\* Pieces are blocks of the tiling, so they cannot overlap.
LEMMA HInvSound == MallocInv => AllocationsSound
<1> SUFFICES ASSUME MallocInv, NEW h \in held
             PROVE  /\ 0 <= h.ptr /\ h.ptr + h.size <= Total
                    /\ \A g \in held : g # h => \/ g.ptr + g.size <= h.ptr
                                                \/ h.ptr + h.size <= g.ptr
                    /\ \A b \in DOMAIN block : \/ b + Header <= h.ptr
                                               \/ h.ptr + h.size <= b
  BY Zenon DEF AllocationsSound
<1>1. \A k \in held : /\ k.ptr \in Int /\ k.size \in Nat
                      /\ k.ptr - Header \in DOMAIN block /\ k.ptr - Header \in Nat
                      /\ k.ptr + k.size <= EndOf(block, k.ptr - Header)
                      /\ EndOf(block, k.ptr - Header) <= Total
                      /\ EndOf(block, k.ptr - Header) \in Int
  <2> SUFFICES ASSUME NEW k \in held
               PROVE  /\ k.ptr \in Int /\ k.size \in Nat
                      /\ k.ptr - Header \in DOMAIN block /\ k.ptr - Header \in Nat
                      /\ k.ptr + k.size <= EndOf(block, k.ptr - Header)
                      /\ EndOf(block, k.ptr - Header) <= Total
                      /\ EndOf(block, k.ptr - Header) \in Int
    BY Zenon
  <2>1. k.ptr \in Int /\ k.size \in Nat
    BY Zenon DEF MallocInv, HeapTypes
  <2>2. /\ k.ptr - Header \in DOMAIN block /\ k.ptr - Header \in Nat
        /\ block[k.ptr - Header].size \in Nat /\ block[k.ptr - Header].size >= k.size
        /\ EndOf(block, k.ptr - Header) <= Total
    BY MallocAssumption DEF MallocInv, HeldOK, HeapOK, Tiled, Block
  <2> QED BY <2>1, <2>2, MallocAssumption DEF EndOf
<1>2. \A b \in DOMAIN block : b \in Nat
  BY Zenon DEF MallocInv, HeapOK, Tiled
<1>3. \A b, d \in DOMAIN block : b < d => EndOf(block, b) <= d
  BY Zenon DEF MallocInv, HeapOK, Tiled
<1>4. ASSUME NEW g \in held, g # h
      PROVE  g.ptr + g.size <= h.ptr \/ h.ptr + h.size <= g.ptr
  <2>1. g.ptr # h.ptr
    BY <1>4, Zenon DEF MallocInv, HeldOK
  <2>2. CASE g.ptr < h.ptr
    <3>1. EndOf(block, g.ptr - Header) <= h.ptr - Header
      BY <2>2, <1>1, <1>3, MallocAssumption
    <3> QED BY <3>1, <1>1, MallocAssumption
  <2>3. CASE h.ptr < g.ptr
    <3>1. EndOf(block, h.ptr - Header) <= g.ptr - Header
      BY <2>3, <1>1, <1>3, MallocAssumption
    <3> QED BY <3>1, <1>1, MallocAssumption
  <2> QED BY <2>1, <2>2, <2>3, <1>1
<1>5. ASSUME NEW b \in DOMAIN block
      PROVE  b + Header <= h.ptr \/ h.ptr + h.size <= b
  BY <1>1, <1>2, <1>3, MallocAssumption
<1> QED BY <1>1, <1>4, <1>5, MallocAssumption

\* No two pieces that malloc and realloc gave out overlap, nor a piece and a
\* header, for any sizes and any number of threads in the middle of a call.
THEOREM PiecesDisjoint == MallocSpec => []AllocationsSound
BY MallocInvariant, HInvSound, PTL

\* With nothing held every block is free, and with no two free blocks in a row
\* there is one block.
LEMMA HInvWhole == MallocInv => EmptyHeapWhole
<1> SUFFICES ASSUME MallocInv, held = {}
             PROVE  block = [b \in {FirstBlock} |-> [size |-> Total - Header, next |-> Null,
                                                     free |-> TRUE]]
  BY Zenon DEF EmptyHeapWhole
<1>1. \A b \in DOMAIN block : block[b].free
  BY Zenon DEF MallocInv, HeldOK
<1>2. FirstBlock \in DOMAIN block /\ block \in [DOMAIN block -> Block] /\ DOMAIN block \subseteq Nat
  BY Zenon DEF MallocInv, HeapOK, Tiled
<1>3. block[FirstBlock].next = Null /\ EndOf(block, FirstBlock) = Total
  <2>1. \/ EndOf(block, FirstBlock) = Total /\ block[FirstBlock].next = Null
        \/ block[FirstBlock].next = EndOf(block, FirstBlock) /\ EndOf(block, FirstBlock) \in DOMAIN block
    BY <1>2, Zenon DEF MallocInv, HeapOK, Tiled
  <2>2. block[FirstBlock].next # Null => ~block[block[FirstBlock].next].free
    BY <1>1, <1>2, Zenon DEF MallocInv, HeapOK, NoNeighbours
  <2>3. EndOf(block, FirstBlock) \in DOMAIN block => EndOf(block, FirstBlock) # Null
    BY <1>2 DEF Null
  <2> QED BY <2>1, <2>2, <2>3, <1>1, Zenon
<1>4. DOMAIN block = {FirstBlock}
  <2> SUFFICES ASSUME NEW d \in DOMAIN block, d # FirstBlock PROVE FALSE
    BY <1>2, Zenon
  <2>1. d \in Nat /\ d > FirstBlock
    BY <1>2 DEF FirstBlock
  <2>2. Total <= d
    BY <2>1, <1>2, <1>3, ZenonT(30) DEF MallocInv, HeapOK, Tiled
  <2>3. block[d].size \in Nat /\ EndOf(block, d) <= Total
    BY <1>2, MallocAssumption, SMTT(30) DEF MallocInv, HeapOK, Tiled, Block
  <2> QED BY <2>1, <2>2, <2>3, MallocAssumption DEF EndOf
<1>5. block[FirstBlock] = [size |-> Total - Header, next |-> Null, free |-> TRUE]
  <2>1. block[FirstBlock].size = Total - Header /\ block[FirstBlock] \in Block
    BY <1>2, <1>3, MallocAssumption DEF EndOf, FirstBlock, Block
  <2>2. block[FirstBlock].free = TRUE
    BY <1>1, <1>2, <2>1, Zenon DEF Block
  <2> QED BY <2>1, <2>2, <1>3, ZenonT(30) DEF Block
<1> QED BY <1>2, <1>4, <1>5, Zenon

\* Once everything has been freed the heap is one block again, for any history
\* of splits, merges and reallocations.
THEOREM NothingLost == MallocSpec => []EmptyHeapWhole
BY MallocInvariant, HInvWhole, PTL

\* malloc passes no block that fits, however the list changed before.
THEOREM FullWhenMallocFails == MallocSpec => []FailsOnlyWhenFull
<1>1. MallocInv => FailsOnlyWhenFull
  BY Zenon DEF MallocInv, ClientOK, FitOK, FailsOnlyWhenFull
<1> QED BY <1>1, MallocInvariant, PTL

\* Between its two acquisitions of the lock realloc copies from a block that is
\* still its caller's and as large as it was, to one that is larger.
THEOREM ReallocCopies == MallocSpec => []CopyInBounds
<1>1. MallocInv => CopyInBounds
  <2> SUFFICES ASSUME MallocInv, NEW c \in HeapThreads, heap_pc[c] = "copy"
               PROVE  /\ \E h \in held : h.ptr = op[c].ptr
                      /\ op[c].ptr - Header \in DOMAIN block
                      /\ block[op[c].ptr - Header].size = op[c].old
                      /\ \E h \in held : /\ h.by = c /\ h.ptr # op[c].ptr
                                         /\ h.ptr = op[c].cur + Header
                                         /\ op[c].old <= h.size
    BY Zenon DEF CopyInBounds
  <2>1. ClientOK(c) /\ op[c] \in Op
    BY Zenon DEF MallocInv, HeapTypes
  <2>2. PICK h \in held : h.by = c /\ h.ptr = op[c].ptr
    BY <2>1, Zenon DEF ClientOK, PassedOK, Passed
  <2>3. op[c].ptr - Header \in DOMAIN block
    BY <2>2, Zenon DEF MallocInv, HeldOK
  <2>4. block[op[c].ptr - Header].size = op[c].old /\ op[c].old < op[c].size
    BY <2>1, Zenon DEF ClientOK, GrowOK, Growing
  <2>5. PICK k \in held : /\ k.by = c /\ k.ptr # op[c].ptr /\ k.ptr = op[c].cur + Header
                          /\ k.size = op[c].size
    BY <2>1, Zenon DEF ClientOK, CopyOK
  <2>6. op[c].old <= k.size
    BY <2>1, <2>4, <2>5, SMTT(30) DEF Op
  <2> QED BY <2>2, <2>3, <2>4, <2>5, <2>6, ZenonT(30)
<1> QED BY <1>1, MallocInvariant, PTL

----------------------------------------------------------------------------
USE DEF Goto

(* Type correctness of the semaphore: the count stays within 0..INT_MAX    *)
(* because task_sem_try_down only decrements a positive count and          *)
(* task_sem_up only increments one below INT_MAX.                          *)
LEMMA TypeInit == Init => TypeOK /\ CasGuarded
<1> SUFFICES ASSUME Init PROVE TypeOK /\ CasGuarded
  BY Zenon
<1>1. pc \in [Threads -> Labels] /\ \A t \in Threads : pc[t] = "idle"
  BY Zenon DEF Init, Labels
<1>2. 0 \in 0..IntMax /\ seen \in [Threads -> 0..IntMax]
  BY SemAssumption DEF Init
<1>3. QED
  BY <1>1, <1>2, SemAssumption, Zenon DEF Init, TypeOK, CasGuarded

\* Each step of a thread keeps the types, and a compare-and-swap is only tried
\* from a positive count (task_sem_down).
LEMMA TypeStep ==
    ASSUME TypeOK, CasGuarded, NEW t \in Threads, Begin(t) \/ Step(t), waiters' \in Nat
    PROVE  TypeOK' /\ CasGuarded'
<1> USE SemAssumption DEF TypeOK, CasGuarded, Labels, Fast, Trying, Parked, Leaving,
                          Closing, Posting
<1>1. CASE DownFirstLoad(t)
  BY <1>1, Zenon DEF DownFirstLoad, TryDownLoad, Loaded
<1>2. CASE UpLoad(t)
  BY <1>2, SMTT(30) DEF UpLoad, UpLoaded
<1>3. CASE SignalOnce(t)
  BY <1>3 DEF SignalOnce
<1>4. CASE DownFirstCas(t)
  BY <1>4 DEF DownFirstCas, TryDownCas, Loaded
<1>5. CASE DownRegister(t)
  BY <1>5, Zenon DEF DownRegister
<1>6. CASE DownRetryLoad(t)
  BY <1>6, Zenon DEF DownRetryLoad, TryDownLoad, Loaded
<1>7. CASE DownRetryCas(t)
  BY <1>7 DEF DownRetryCas, TryDownCas, Loaded
<1>8. CASE DownWait(t)
  BY <1>8, Zenon DEF DownWait
<1>9. CASE DownDeregister(t)
  BY <1>9, Zenon DEF DownDeregister
<1>10. CASE DownRecheck(t)
  BY <1>10, ZenonT(30) DEF DownRecheck
<1>11. CASE Signal(t)
  BY <1>11, Zenon DEF Signal, Blocked
<1>12. CASE UpCas(t)
  BY <1>12 DEF UpCas, UpLoaded
<1>13. CASE Notify(t)
  BY <1>13, Zenon DEF Notify
<1>14. QED
  BY <1>1, <1>2, <1>3, <1>4, <1>5, <1>6, <1>7, <1>8, <1>9, <1>10, <1>11,
     <1>12, <1>13, ZenonT(30) DEF Begin, Step

----------------------------------------------------------------------------
(* How each step changes the set of threads sem->waiters counts. *)
LEMMA RegisteredFinite == /\ IsFiniteSet(Registered)
                          /\ Cardinality(Registered) \in Nat
                          /\ waiters = 0 /\ WaitersCounted => Registered = {}
<1>1. Registered \in SUBSET Threads
  BY Zenon DEF Registered
<1>2. IsFiniteSet(Registered)
  BY <1>1, SemAssumption, FS_Subset, Zenon
<1>3. QED
  BY <1>2, FS_CardinalityType, FS_EmptySet, Zenon DEF WaitersCounted

\* Each step keeps "waiters" equal to the number of registered threads.
LEMMA WaitersStep ==
    ASSUME TypeOK, WaitersCounted, NEW t \in Threads, Begin(t) \/ Step(t)
    PROVE  WaitersCounted' /\ waiters' \in Nat
<1> USE DEF TypeOK, Trying, Parked, Leaving
<1>1. CASE DownRegister(t)
  <2>1. Registered' = Registered \cup {t} /\ t \notin Registered
    BY <1>1, Zenon DEF DownRegister, Registered
  <2>2. Cardinality(Registered') = Cardinality(Registered) + 1
    BY <2>1, RegisteredFinite, FS_AddElement, ZenonT(30)
  <2>3. QED
    BY <1>1, <2>2 DEF DownRegister, WaitersCounted
<1>2. CASE DownDeregister(t)
  <2>1. Registered' = Registered \ {t} /\ t \in Registered
    BY <1>2, Zenon DEF DownDeregister, Registered
  <2>2. Cardinality(Registered') = Cardinality(Registered) - 1
    BY <2>1, RegisteredFinite, FS_RemoveElement, Zenon
  <2>3. Cardinality(Registered) # 0
    BY <2>1, RegisteredFinite, FS_EmptySet, Zenon
  <2>4. QED
    BY <1>2, <2>2, <2>3, RegisteredFinite DEF DownDeregister, WaitersCounted
<1>3. CASE Registered' = Registered /\ waiters' = waiters
  BY <1>3, Zenon DEF WaitersCounted
<1>4. CASE Signal(t)
  <2>1. Registered' = Registered
    BY <1>4, Zenon DEF Signal, Registered, Blocked
  <2>2. QED
    BY <1>3, <1>4, <2>1, Zenon DEF Signal
<1>5. CASE DownFirstLoad(t) \/ DownFirstCas(t) \/ UpLoad(t) \/ UpCas(t)
  BY <1>3, <1>5 DEF DownFirstLoad, DownFirstCas, TryDownLoad, TryDownCas,
     Loaded, UpLoad, UpCas, UpLoaded, Registered
<1>6. CASE DownRetryLoad(t) \/ DownRetryCas(t)
  BY <1>3, <1>6, Zenon
     DEF DownRetryLoad, DownRetryCas, TryDownLoad, TryDownCas,
     Loaded, Registered
<1>7. CASE SignalOnce(t) \/ Notify(t) \/ DownRecheck(t) \/ DownWait(t)
  BY <1>3, <1>7, ZenonT(30) DEF SignalOnce, Notify, DownRecheck, DownWait, Registered
<1>8. QED
  BY <1>1, <1>2, <1>4, <1>5, <1>6, <1>7, Zenon DEF Begin, Step

----------------------------------------------------------------------------
(* The Notification: only task_sem_down's seL4_Wait blocks, and it takes   *)
(* the remembered signal; seL4_Signal remembers one only when nobody is    *)
(* blocked.                                                                *)
LEMMA SignalStep ==
    ASSUME TypeOK, SignalDelivered, NEW t \in Threads, Begin(t) \/ Step(t)
    PROVE  SignalDelivered'
<1> USE DEF TypeOK, SignalDelivered, Blocked
<1>1. CASE Signal(t)
  BY <1>1, Zenon DEF Signal
<1>2. CASE DownWait(t)
  BY <1>2, Zenon DEF DownWait
<1>3. CASE Begin(t)
  BY <1>3, ZenonT(30) DEF Begin, DownFirstLoad, TryDownLoad, Loaded, UpLoad, UpLoaded,
     SignalOnce
<1>4. CASE DownFirstCas(t) \/ DownRetryLoad(t) \/ DownRetryCas(t)
  BY <1>4, ZenonT(30) DEF DownFirstCas, DownRetryLoad, DownRetryCas, TryDownLoad,
     TryDownCas, Loaded
<1>5. CASE UpCas(t) \/ Notify(t)
  BY <1>5, ZenonT(30) DEF UpCas, UpLoaded, Notify
<1>6. CASE DownRegister(t) \/ DownDeregister(t) \/ DownRecheck(t)
  BY <1>6, ZenonT(30) DEF DownRegister, DownDeregister, DownRecheck
<1>7. QED
  BY <1>1, <1>2, <1>3, <1>4, <1>5, <1>6, ZenonT(30) DEF Step

----------------------------------------------------------------------------
(* No lost wakeup, step by step.  A thread that stops attending has seen   *)
(* either no token (count = 0) or nobody registered (waiters = 0); in both *)
(* cases there is no parked thread it could have abandoned.                *)
LEMMA WakeupStep ==
    ASSUME IInv, NEW t \in Threads, Begin(t) \/ Step(t)
    PROVE  NoLostWakeup'
<1> USE DEF IInv, TypeOK, NoLostWakeup, Attending, Trying, Parked, Leaving,
            Closing
<1>1. CASE DownFirstLoad(t) \/ UpLoad(t)
  BY <1>1 DEF DownFirstLoad, TryDownLoad, Loaded, UpLoad, UpLoaded
<1>2. CASE SignalOnce(t)
  BY <1>2, Zenon DEF SignalOnce
<1>3. CASE DownFirstCas(t)
  BY <1>3, SemAssumption DEF DownFirstCas, TryDownCas, Loaded, CasGuarded
<1>4. CASE DownRegister(t)
  BY <1>4, Zenon DEF DownRegister
<1>5. CASE DownRetryLoad(t)
  BY <1>5, Zenon DEF DownRetryLoad, TryDownLoad, Loaded
<1>6. CASE DownRetryCas(t)
  BY <1>6, ZenonT(30) DEF DownRetryCas, TryDownCas, Loaded
<1>7. CASE DownWait(t)
  BY <1>7, ZenonT(30) DEF DownWait
<1>8. CASE DownDeregister(t)
  <2>1. CASE waiters - 1 > 0
    BY <1>8, <2>1, ZenonT(30) DEF DownDeregister
  <2>2. CASE ~(waiters - 1 > 0)
    <3>1. waiters' = 0 /\ WaitersCounted'
      <4>1. WaitersCounted' /\ waiters' \in Nat
        BY <1>8, WaitersStep, Zenon DEF Step
      <4>2. QED
        BY <1>8, <2>2, <4>1, SMTT(30) DEF DownDeregister
    <3>2. Registered' = {}
      <4>1. IsFiniteSet(Registered') /\ Cardinality(Registered') = 0
        <5>1. Registered' \in SUBSET Threads
          BY Zenon DEF Registered
        <5>2. QED
          BY <3>1, <5>1, SemAssumption, FS_Subset, ZenonT(30) DEF WaitersCounted
      <4>2. QED
        BY <4>1, FS_EmptySet, Zenon
    <3>3. QED
      BY <3>2, Zenon DEF Registered
  <2>3. QED
    BY <2>1, <2>2, Zenon
<1>9. CASE DownRecheck(t)
  BY <1>9, Zenon DEF DownRecheck
<1>10. CASE Signal(t)
  BY <1>10, Zenon DEF Signal, Blocked
<1>11. CASE UpCas(t)
  BY <1>11, SMTT(30) DEF UpCas, UpLoaded
<1>12. CASE Notify(t)
  <2>1. CASE waiters > 0
    BY <1>12, <2>1, ZenonT(30) DEF Notify
  <2>2. CASE ~(waiters > 0)
    <3>1. Registered = {}
      BY <2>2, RegisteredFinite
    <3>2. \A u \in Threads : pc'[u] \notin Parked
      BY <1>12, <2>2, <3>1, SMTT(30) DEF Notify, Registered
    <3>3. QED
      BY <3>2, ZenonT(30)
  <2>3. QED
    BY <2>1, <2>2, Zenon
<1>13. QED
  BY <1>1, <1>2, <1>3, <1>4, <1>5, <1>6, <1>7, <1>8, <1>9, <1>10, <1>11,
     <1>12, SMTT(30) DEF Begin, Step

(* IInv is an invariant of the semaphore, for every interleaving of        *)
(* task_sem_up, task_sem_down and luna_lkl_task_sem_signal_once.           *)
THEOREM Invariance == Safety => []IInv
<1>1. Init => IInv
  <2> SUFFICES ASSUME Init PROVE IInv
    BY Zenon
  <2>1. TypeOK /\ CasGuarded
    BY TypeInit, Zenon
  <2>2. Registered = {} /\ Blocked = {}
    BY Zenon DEF Init, Registered, Blocked, Trying, Parked, Leaving
  <2>3. WaitersCounted
    BY <2>2, FS_EmptySet, Zenon DEF WaitersCounted, Init
  <2>4. NoLostWakeup
    BY Zenon DEF Init, NoLostWakeup, Parked
  <2>5. QED
    BY <2>1, <2>2, <2>3, <2>4, ZenonT(30) DEF IInv, SignalDelivered
<1>2. IInv /\ [Next]_vars => IInv'
  <2> SUFFICES ASSUME IInv, [Next]_vars PROVE IInv'
    BY Zenon
  <2>1. CASE UNCHANGED vars
    BY <2>1, Zenon DEF vars, IInv, TypeOK, CasGuarded, WaitersCounted, Registered,
       SignalDelivered, Blocked, NoLostWakeup
  <2>2. ASSUME NEW t \in Threads, Begin(t) \/ Step(t) PROVE IInv'
    BY <2>2, TypeStep, WaitersStep, SignalStep, WakeupStep, ZenonT(30) DEF IInv
  <2>3. QED
    BY <2>1, <2>2, ZenonT(30) DEF Next
<1>3. QED
  BY <1>1, <1>2, PTL DEF Safety

(* A token and a parked thread never coexist without a signal remembered   *)
(* or a thread on its way to the token or to the signal: the wakeup that   *)
(* task_sem_up owes a waiter is not lost, for any number of threads.       *)
THEOREM WakeupNeverLost == Safety => []NoLostWakeup
<1>1. IInv => NoLostWakeup
  BY Zenon DEF IInv
<1>2. QED
  BY <1>1, Invariance, PTL

(* sem->waiters counts the threads inside the registered part of           *)
(* task_sem_down, so task_sem_free's refusal (waiters # 0) is exact.       *)
THEOREM WaitersExact == Safety => []WaitersCounted
<1>1. IInv => WaitersCounted
  BY Zenon DEF IInv
<1>2. QED
  BY <1>1, Invariance, PTL

----------------------------------------------------------------------------
(* Every step of the semaphore is a step of the counting semaphore or      *)
(* leaves it unchanged: the successful compare-exchange of                 *)
(* task_sem_try_down is the grant, that of task_sem_up or                  *)
(* luna_lkl_task_sem_signal_once the post, the first load of task_sem_down *)
(* the request.                                                            *)
LEMMA StepRefines ==
    ASSUME IInv, NEW t \in Threads, Begin(t) \/ Step(t)
    PROVE  [Abs!ANext]_(Abs!avars)
<1> USE DEF IInv, TypeOK, Asking, Fast, Trying, Parked, Abs!avars
<1>1. CASE DownFirstLoad(t)
  <2>1. Abs!Ask(t)
    BY <1>1, Zenon DEF DownFirstLoad, TryDownLoad, Loaded, Abs!Ask
  <2>2. QED
    BY <2>1, Zenon DEF Abs!ANext
<1>2. CASE DownFirstCas(t)
  <2>1. CASE count = seen[t]
    <3>1. Abs!Grant(t)
      BY <1>2, <2>1, Zenon DEF DownFirstCas, TryDownCas, CasGuarded, Abs!Grant
    <3>2. QED
      BY <3>1, Zenon DEF Abs!ANext
  <2>2. CASE count # seen[t]
    BY <1>2, <2>2, SMTT(30) DEF DownFirstCas, TryDownCas, Loaded
  <2>3. QED
    BY <2>1, <2>2, ZenonT(30)
<1>3. CASE DownRetryCas(t)
  <2>1. CASE count = seen[t]
    <3>1. Abs!Grant(t)
      BY <1>3, <2>1, ZenonT(30)
         DEF DownRetryCas, TryDownCas, CasGuarded, Abs!Grant
    <3>2. QED
      BY <3>1, Zenon DEF Abs!ANext
  <2>2. CASE count # seen[t]
    BY <1>3, <2>2, SMTT(30) DEF DownRetryCas, TryDownCas, Loaded
  <2>3. QED
    BY <2>1, <2>2, Zenon
<1>4. CASE UpCas(t)
  <2>1. CASE count = seen[t]
    <3>1. Abs!Post
      BY <1>4, <2>1, SemAssumption, ZenonT(30) DEF UpCas, CasGuarded, Abs!Post
    <3>2. QED
      BY <3>1, ZenonT(30) DEF Abs!ANext
  <2>2. CASE count # seen[t]
    BY <1>4, <2>2, ZenonT(30) DEF UpCas, UpLoaded
  <2>3. QED
    BY <2>1, <2>2, Zenon
<1>5. CASE SignalOnce(t)
  <2>1. Abs!Post
    BY <1>5, SemAssumption, SMTT(30) DEF SignalOnce, Abs!Post
  <2>2. QED
    BY <2>1, Zenon DEF Abs!ANext
<1>6. CASE UpLoad(t) \/ DownRegister(t) \/ DownRetryLoad(t)
  BY <1>6, ZenonT(30) DEF UpLoad, UpLoaded, DownRegister, DownRetryLoad, TryDownLoad,
     Loaded
<1>7. CASE DownWait(t) \/ DownDeregister(t) \/ DownRecheck(t) \/ Notify(t)
  BY <1>7, ZenonT(30) DEF DownWait, DownDeregister, DownRecheck, Notify
<1>8. CASE Signal(t)
  BY <1>8, Zenon DEF Signal, Blocked
<1>9. QED
  BY <1>1, <1>2, <1>3, <1>4, <1>5, <1>6, <1>7, <1>8, SMTT(30) DEF Begin, Step

(* The host semaphore implements the safety part of a counting semaphore:  *)
(* every token is granted at most once and none appears from signals.      *)
THEOREM RefinesSemaphore == Safety => ImplementsSemaphoreSafety
<1>1. Init => Abs!AInit
  BY Zenon DEF Init, Abs!AInit, Asking, Fast, Trying, Parked
<1>2. IInv /\ [Next]_vars => [Abs!ANext]_(Abs!avars)
  <2> SUFFICES ASSUME IInv, [Next]_vars PROVE [Abs!ANext]_(Abs!avars)
    BY Zenon
  <2>1. CASE UNCHANGED vars
    BY <2>1, Zenon DEF vars, Abs!avars, Asking
  <2>2. CASE Next
    BY <2>2, StepRefines, Zenon DEF Next
  <2>3. QED
    BY <2>1, <2>2, Zenon
<1>3. QED
  BY <1>1, <1>2, Invariance, PTL DEF Safety, ImplementsSemaphoreSafety,
     Abs!ASafety
============================================================================
