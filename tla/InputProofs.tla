---------------------------- MODULE InputProofs ----------------------------
(***************************************************************************)
(* The two ends of the input: the ring between the console and the child,  *)
(* for any size of it and any characters; the descriptors and the input of *)
(* an applet, for any descriptors, files, buffer and sizes of a read.      *)
(***************************************************************************)
EXTENDS Console, Stdio, SequenceTheorems, WellFoundedInduction, TLAPS

(* The types of the kernel's table and of the applet's descriptors.         *)
FileType == [fd : Fds \cup {Closed}, ungot : Int, eof : BOOLEAN]
OpenType == [at : 0..FileLen, pipe : BOOLEAN]
StdioType ==
    /\ table \in [Fds -> Opens \cup {Unused}]
    /\ off \in [Opens -> OpenType]
    /\ fd_map \in [Virtual -> Fds \cup {Closed}]
    /\ buf \in Seq(Int) /\ pos \in Int /\ lost \in BOOLEAN
    /\ file \in FileType /\ fpos \in Int /\ skipped \in BOOLEAN
    /\ aliased \in BOOLEAN

(* A FILE has an open descriptor, and reads from the open file of stdin     *)
(* only where it has the descriptor of stdin.                               *)
FileOpen ==
    /\ file.fd # Closed => table[file.fd] # Unused
    /\ file.fd = Closed => file = NoFile
    /\ Readable(fd_map[0]) /\ Stdin \in Streamed => fd_map[0] = file.fd

(* A closed stdin has left no read-ahead for the file that takes its place. *)
StdinOff == fd_map[0] = Closed => buf = <<>> /\ pos = 0

(* The inductive invariant.                                                 *)
SInv == StdioType /\ MapNamesOpen /\ FileOpen /\ StdinOff /\ InputExact

----------------------------------------------------------------------------
(* Adding nothing.                                                          *)
LEMMA PlusZero == \A i \in Int : i = i + 0
OBVIOUS

(* A set of natural numbers has a minimum.                                  *)
LEMMA MinOf ==
    ASSUME NEW S, S \subseteq Nat, S # {}
    PROVE  Min(S) \in S /\ \A j \in S : Min(S) <= j
<1> DEFINE less == OpToRel(<, Nat)
<1>1. IsWellFoundedOn(less, Nat)
  BY NatLessThanWellFounded, Zenon
<1>2. \A i, j \in Nat : <<j, i>> \in less <=> j < i
  BY Zenon DEF OpToRel
<1> HIDE DEF less
<1>3. PICK i \in S : \A j \in S : ~(<<j, i>> \in less)
  BY <1>1, WFMin, Zenon
<1>4. \A j \in S : ~(j < i)
  BY <1>2, <1>3, Zenon
<1>5. \E k \in S : \A j \in S : k <= j
  BY <1>4
<1> QED BY <1>5, Zenon DEF Min

(* A kernel read returns at most what was asked for and what the file has   *)
(* left, and nothing only at its end.                                       *)
LEMMA ReturnedBytes ==
    ASSUME StdioType, NEW o \in Opens, NEW n \in Nat \ {0},
           NEW k \in Returned(o, n)
    PROVE  /\ k \in 0..n /\ off[o].at + k \in 0..FileLen
           /\ k = 0 => off[o].at = FileLen
           /\ off[o].at = FileLen => k = 0
<1> DEFINE left == FileLen - off[o].at
           most == Min({n, left})
<1>1. left \in Nat /\ FileLen \in Nat /\ off[o].at \in 0..FileLen
  BY StdioAssumption DEF StdioType, OpenType
<1>2. most \in {n, left} /\ most <= n /\ most <= left
  BY <1>1, MinOf, Zenon
<1>3. k \in IF off[o].pipe /\ most > 0 THEN 1..most ELSE {most}
  BY Zenon DEF Returned
<1> HIDE DEF most
<1> QED BY <1>1, <1>2, <1>3

(* A read moves the offset of its open file and no other.                   *)
LEMMA ReadMoves ==
    ASSUME StdioType, NEW o \in Opens, NEW k \in Nat,
           off[o].at + k \in 0..FileLen, ReadBy(o, k)
    PROVE  /\ off' \in [Opens -> OpenType]
           /\ off'[o].at = off[o].at + k
           /\ \A p \in Opens \ {o} : off'[p] = off[p]
<1> DEFINE next == [off[o] EXCEPT !.at = off[o].at + k]
<1>1. next \in OpenType /\ next.at = off[o].at + k
  BY Zenon DEF StdioType, OpenType
<1>2. off' = [off EXCEPT ![o] = next]
  BY Zenon DEF ReadBy
<1> HIDE DEF next
<1> QED BY <1>1, <1>2, Zenon DEF StdioType

(* The kernel gives out a number that was unused.                           *)
LEMMA LowestFree ==
    ASSUME FreeFds # {}
    PROVE  Lowest \in Fds /\ table[Lowest] = Unused
  BY MinOf, StdioAssumption, Zenon DEF FreeFds, Lowest

(* A change of the table leaves the open files alone that are still in it.  *)
LEMMA TableChanged ==
    ASSUME StdioType, NEW t \in [Fds -> Opens \cup {Unused}], Tabled(t)
    PROVE  /\ table' = t /\ off' \in [Opens -> OpenType]
           /\ \A n \in Fds : t[n] \in Opens => off'[t[n]] = off[t[n]]
<1>1. [at |-> 0, pipe |-> FALSE] \in OpenType
  BY StdioAssumption DEF OpenType
<1>2. \A o \in Opens : off'[o] = IF \E n \in Fds : t[n] = o THEN off[o]
                                 ELSE [at |-> 0, pipe |-> FALSE]
  BY Zenon DEF Tabled
<1>3. \A o \in Opens : off'[o] \in OpenType
  BY <1>1, <1>2, ZenonT(30) DEF StdioType
<1>4. \A n \in Fds : t[n] \in Opens => off'[t[n]] = off[t[n]]
  BY <1>2, Zenon
<1> QED BY <1>3, <1>4, Zenon DEF Tabled

----------------------------------------------------------------------------
(* What a call that does not touch a FILE leaves true of it.                *)
LEMMA StreamKept ==
    ASSUME SInv, UNCHANGED <<file, fpos, skipped>>,
           file.fd # Closed =>
             /\ table'[file.fd] = table[file.fd]
             /\ off'[table[file.fd]] = off[table[file.fd]]
    PROVE  StreamExact'
  BY Zenon DEF SInv, InputExact, StreamExact, Streaming, Readable, FileOpen

(* What a call that neither closes nor reads stdin leaves true.             *)
LEMMA StdinOffKept ==
    ASSUME SInv, UNCHANGED <<buf, pos>>, fd_map'[0] = fd_map[0]
    PROVE  StdinOff'
  BY Zenon DEF SInv, StdinOff

(* What a call that does not touch stdin or its open file leaves true.      *)
LEMMA StdinKept ==
    ASSUME SInv, UNCHANGED <<buf, pos, lost>>, fd_map'[0] = fd_map[0],
           Readable(fd_map[0])' => table'[fd_map[0]] = table[fd_map[0]],
           Readable(fd_map[0])' /\ Stdin' \notin Streamed' =>
             /\ Stdin \notin Streamed
             /\ off'[Stdin] = off[Stdin]
    PROVE  StdinExact'
  BY Zenon DEF SInv, InputExact, StdinExact, Readable, Stdin

(* What a call that closes neither stdin nor a FILE leaves true.            *)
LEMMA FileKept ==
    ASSUME SInv, UNCHANGED file, fd_map'[0] = fd_map[0],
           file.fd # Closed => table'[file.fd] = table[file.fd],
           fd_map[0] # Closed => table'[fd_map[0]] = table[fd_map[0]]
    PROVE  FileOpen' /\ Streamed' = Streamed
  BY Zenon DEF SInv, FileOpen, Readable, Stdin, Streamed

(* The applet starts with its buffer empty and no FILE.                     *)
LEMMA StdioInits == StdioInit => SInv
<1> SUFFICES ASSUME StdioInit PROVE SInv
  BY Zenon
<1>0. /\ 0 \in Virtual /\ Virtual \subseteq Nat /\ Fds \subseteq Nat
      /\ FileLen \in Nat /\ Unused \notin Opens
      /\ \A v \in Virtual : Min(Fds) + v \in Fds
  BY StdioAssumption, Zenon
<1>1. Min(Fds) \in Nat
  BY <1>0, MinOf, Zenon
<1>2. Shells \in Opens
  BY StdioAssumption, Zenon DEF Shells
<1>3. /\ off \in [Opens -> OpenType] /\ \A p \in Opens : off[p].at = 0
  BY <1>0 DEF StdioInit, OpenType
<1>4. file = NoFile /\ NoFile \in FileType
  BY DEF StdioInit, NoFile, FileType, NoByte, Closed
<1>5. /\ fd_map \in [Virtual -> Fds \cup {Closed}]
      /\ \A v \in Virtual : fd_map[v] = Min(Fds) + v
  BY <1>0, Zenon DEF StdioInit
<1>6. table \in [Fds -> Opens \cup {Unused}]
  BY <1>2, Zenon DEF StdioInit
<1>7. \A v \in Virtual : table[fd_map[v]] = Shells
  <2> SUFFICES ASSUME NEW v \in Virtual PROVE table[fd_map[v]] = Shells
    BY Zenon
  <2>1. fd_map[v] \in Fds /\ fd_map[v] - Min(Fds) = v
    BY <1>0, <1>1, <1>5
  <2> QED BY <2>1, Zenon DEF StdioInit
<1>8. StdioType
  <2>1. buf \in Seq(Int) /\ pos \in Int /\ fpos \in Int
    BY EmptySeq DEF StdioInit
  <2> QED BY <1>3, <1>4, <1>5, <1>6, <2>1, Zenon DEF StdioInit, StdioType
<1>9. MapNamesOpen
  BY <1>0, <1>1, <1>2, <1>5, <1>7 DEF MapNamesOpen, Readable, Closed
<1>10. FileOpen /\ StdinOff /\ StreamExact
  <2>1. FileOpen /\ StreamExact
    BY <1>4, Zenon DEF FileOpen, StreamExact, Streaming, Streamed, Readable, NoFile
  <2>2. StdinOff
    BY Zenon DEF StdinOff, StdioInit
  <2> QED BY <2>1, <2>2, Zenon
<1>11. StdinExact
  <2>1. buf = <<>> /\ Len(buf) = 0 /\ pos = 0
    BY EmptySeq, Zenon DEF StdioInit
  <2>2. buf = [i \in 1..0 |-> pos + i]
    BY <2>1
  <2> QED BY <1>0, <1>2, <1>3, <1>7, <2>1, <2>2 DEF StdinExact, Stdin
<1> QED BY <1>8, <1>9, <1>10, <1>11, ZenonT(30) DEF SInv, InputExact

(* luna_bb_open and luna_bb_fopen take a number nobody has, for the lowest  *)
(* closed virtual descriptor if there is one; that one is stdin if stdin is *)
(* closed.                                                                  *)
LEMMA OpenSteps ==
    ASSUME SInv, ~aliased, NEW o \in FreeOpens, NEW pipe \in BOOLEAN,
           OpenTo(o, pipe)
    PROVE  /\ Lowest \in Fds /\ table[Lowest] = Unused /\ o \in Opens
           /\ table' \in [Fds -> Opens \cup {Unused}]
           /\ table'[Lowest] = o
           /\ \A n \in Fds \ {Lowest} : table'[n] = table[n]
           /\ off' \in [Opens -> OpenType]
           /\ off'[o].at = 0
           /\ \A p \in Opens \ {o} : off'[p] = off[p]
           /\ fd_map' \in [Virtual -> Fds \cup {Closed}]
           /\ buf' \in Seq(Int) /\ pos' \in Int /\ lost' \in BOOLEAN
           /\ fd_map[0] # Closed =>
                fd_map'[0] = fd_map[0] /\ UNCHANGED <<buf, pos, lost>>
           /\ fd_map[0] = Closed =>
                fd_map'[0] = Lowest /\ buf' = <<>> /\ pos' = 0
           /\ ~aliased' => MapNamesOpen'
<1> DEFINE closed == {v \in Virtual : fd_map[v] = Closed}
<1>0. /\ StdioType /\ MapNamesOpen /\ 0 \in Virtual /\ Virtual \subseteq Nat
      /\ FileLen \in Nat /\ Unused \notin Opens /\ Fds \subseteq Nat
  BY StdioAssumption, Zenon DEF SInv
<1>i. UNCHANGED <<buf, pos, lost>> /\ StdinOff
  BY Zenon DEF SInv, OpenTo, input
<1>1. Lowest \in Fds /\ table[Lowest] = Unused /\ o \in Opens
  BY LowestFree, Zenon DEF OpenTo, FreeOpens
<1>2. /\ table' \in [Fds -> Opens \cup {Unused}] /\ table'[Lowest] = o
      /\ \A n \in Fds \ {Lowest} : table'[n] = table[n]
  BY <1>0, <1>1, Zenon DEF OpenTo, StdioType
<1>3. /\ off' \in [Opens -> OpenType] /\ off'[o].at = 0
      /\ \A p \in Opens \ {o} : off'[p] = off[p]
  <2>1. [at |-> 0, pipe |-> pipe] \in OpenType
    BY <1>0 DEF OpenType
  <2>2. off' = [off EXCEPT ![o] = [at |-> 0, pipe |-> pipe]]
    BY Zenon DEF OpenTo
  <2> QED BY <1>0, <1>1, <2>1, <2>2, ZenonT(30) DEF StdioType
<1>4. CASE closed = {}
  <2>1. fd_map' = fd_map /\ fd_map[0] # Closed
    BY <1>0, <1>4, Zenon DEF OpenTo
  <2>2. ~aliased' => MapNamesOpen'
    BY <1>0, <1>1, <1>2, <2>1, SMTT(30) DEF MapNamesOpen, Readable, StdioType
  <2> QED BY <1>0, <1>i, <1>1, <1>2, <1>3, <2>1, <2>2, Zenon DEF StdioType
<1>5. CASE closed # {}
  <2> DEFINE w == Min(closed)
  <2>1. w \in closed /\ \A j \in closed : w <= j
    BY <1>0, <1>5, MinOf, Zenon
  <2>2. fd_map' = [fd_map EXCEPT ![w] = Lowest]
    BY <1>5, Zenon DEF OpenTo
  <2> HIDE DEF w
  <2>3. /\ fd_map' \in [Virtual -> Fds \cup {Closed}] /\ fd_map'[w] = Lowest
        /\ \A v \in Virtual \ {w} : fd_map'[v] = fd_map[v]
    BY <1>0, <1>1, <2>1, <2>2, ZenonT(30) DEF StdioType
  <2>4. ~aliased' => MapNamesOpen'
    <3>1. \A v \in Virtual \ {w} : fd_map[v] # Closed =>
            /\ fd_map[v] \in Fds /\ table[fd_map[v]] # Unused
            /\ fd_map[v] # Lowest /\ table'[fd_map[v]] = table[fd_map[v]]
      BY <1>0, <1>1, <1>2, ZenonT(30) DEF MapNamesOpen, Readable, StdioType
    <3>2. Lowest # Closed /\ o # Unused
      BY <1>0, <1>1 DEF Closed
    <3> QED BY <1>0, <1>2, <2>1, <2>3, <3>1, <3>2 DEF MapNamesOpen, Readable
  <2>5. fd_map[0] # Closed => fd_map'[0] = fd_map[0]
    BY <1>0, <2>1, <2>3, Zenon
  <2>6. fd_map[0] = Closed => fd_map'[0] = Lowest /\ buf' = <<>> /\ pos' = 0
    <3>1. fd_map[0] = Closed => w = 0
      BY <1>0, <2>1
    <3> QED BY <1>0, <1>i, <2>3, <3>1, Zenon DEF StdinOff
  <2>7. buf' \in Seq(Int) /\ pos' \in Int /\ lost' \in BOOLEAN
    BY <1>0, <1>i, Zenon DEF StdioType
  <2> QED BY <1>i, <1>1, <1>2, <1>3, <2>3, <2>4, <2>5, <2>6, <2>7, ZenonT(30)
<1> QED BY <1>4, <1>5, ZenonT(30)

(* An open file that stdin or a FILE reads from is not a free one.          *)
LEMMA FreshOpen ==
    ASSUME SInv, NEW o \in FreeOpens
    PROVE  /\ file.fd # Closed => table[file.fd] \in Opens \ {o}
           /\ fd_map[0] # Closed => table[fd_map[0]] # o
           /\ fd_map[0] # Closed /\ table[fd_map[0]] # Unused
                => table[fd_map[0]] \in Opens
  BY StdioAssumption, Zenon DEF SInv, StdioType, FileOpen, FreeOpens, FileType

(* luna_bb_open.                                                            *)
LEMMA OpenKeeps ==
    ASSUME SInv, ~aliased, NEW o \in Opens, NEW pipe \in BOOLEAN, Open(o, pipe)
    PROVE  SInv'
<1>0. /\ StdioType /\ FileOpen /\ o \in FreeOpens /\ OpenTo(o, pipe)
      /\ UNCHANGED <<file, fpos, skipped, aliased>> /\ 0 \in Virtual
  BY StdioAssumption, Zenon DEF Open, stream, SInv
<1>1. /\ Lowest \in Fds /\ table[Lowest] = Unused
      /\ table'[Lowest] = o
      /\ \A n \in Fds \ {Lowest} : table'[n] = table[n]
      /\ \A p \in Opens \ {o} : off'[p] = off[p]
      /\ off'[o].at = 0
      /\ fd_map[0] # Closed =>
           fd_map'[0] = fd_map[0] /\ UNCHANGED <<buf, pos, lost>>
      /\ fd_map[0] = Closed =>
           fd_map'[0] = Lowest /\ buf' = <<>> /\ pos' = 0
  BY <1>0, OpenSteps
<1>2. StdioType' /\ MapNamesOpen' /\ StdinOff'
  <2>1. fd_map'[0] # Closed
    BY <1>1, StdioAssumption DEF Closed
  <2> QED BY <1>0, <2>1, OpenSteps, Zenon DEF StdioType, StdinOff
<1>3. /\ file.fd # Closed => /\ table[file.fd] \in Opens \ {o}
                             /\ file.fd # Lowest
                             /\ table'[file.fd] = table[file.fd]
      /\ fd_map[0] # Closed => /\ table[fd_map[0]] # o /\ fd_map[0] # Lowest
                               /\ table'[fd_map[0]] = table[fd_map[0]]
                               /\ table[fd_map[0]] \in Opens
  BY <1>0, <1>1, FreshOpen, StdioAssumption, ZenonT(30)
     DEF SInv, StdioType, FileOpen, FileType, MapNamesOpen, Readable
<1>4. StreamExact'
  BY <1>0, <1>1, <1>3, StreamKept, Zenon
<1>5. Streamed' = Streamed /\ o \notin Streamed
  BY <1>0, <1>3, Zenon DEF Streamed, Readable
<1>6. CASE fd_map[0] # Closed
  <2>1. FileOpen'
    BY <1>0, <1>1, <1>3, <1>6, FileKept, ZenonT(30)
  <2>2. StdinExact'
    BY <1>1, <1>3, <1>5, <1>6, StdinKept DEF Stdin
  <2> QED BY <1>2, <1>4, <2>1, <2>2, ZenonT(30) DEF SInv, InputExact
<1>7. CASE fd_map[0] = Closed
  <2>1. Stdin' = o
    BY <1>1, <1>7, Zenon DEF Stdin
  <2>2. FileOpen'
    BY <1>0, <1>3, <1>5, <2>1, ZenonT(30) DEF FileOpen
  <2>3. StdinExact'
    <3>1. Len(buf') = 0 /\ buf' = [i \in 1..0 |-> pos' + i]
      BY <1>1, <1>7, EmptySeq
    <3> QED BY <1>1, <1>7, <2>1, <3>1 DEF StdinExact
  <2> QED BY <1>2, <1>4, <2>2, <2>3, Zenon DEF SInv, InputExact
<1> QED BY <1>6, <1>7, Zenon

(* luna_bb_fopen.                                                           *)
LEMMA FopenKeeps ==
    ASSUME SInv, ~aliased, NEW o \in Opens, NEW pipe \in BOOLEAN,
           Fopen(o, pipe)
    PROVE  SInv'
<1>0. /\ StdioType /\ FileOpen /\ o \in FreeOpens /\ OpenTo(o, pipe)
      /\ UNCHANGED aliased /\ 0 \in Virtual /\ file = NoFile /\ fpos' = 0
      /\ skipped' = FALSE
  BY StdioAssumption, Zenon DEF Fopen, SInv
<1>1. /\ Lowest \in Fds /\ table[Lowest] = Unused
      /\ table'[Lowest] = o
      /\ \A n \in Fds \ {Lowest} : table'[n] = table[n]
      /\ \A p \in Opens \ {o} : off'[p] = off[p]
      /\ off'[o].at = 0
      /\ fd_map[0] # Closed =>
           fd_map'[0] = fd_map[0] /\ UNCHANGED <<buf, pos, lost>>
      /\ fd_map[0] = Closed =>
           fd_map'[0] = Lowest /\ buf' = <<>> /\ pos' = 0
  BY <1>0, OpenSteps, ZenonT(30)
<1>2. /\ file' \in FileType /\ file'.fd = Lowest /\ file'.ungot = NoByte
      /\ file'.eof = FALSE /\ Lowest # Closed /\ o # Unused
  <2>1. file' = [fd |-> Lowest, ungot |-> NoByte, eof |-> FALSE]
    BY Zenon DEF Fopen, NoFile
  <2>2. Lowest # Closed /\ o # Unused
    BY <1>1, StdioAssumption DEF Closed
  <2>3. file' \in FileType
    BY <1>1, <2>1 DEF FileType, NoByte
  <2> QED BY <2>1, <2>2, <2>3, Zenon
<1>3. StdioType'
  <2>1. fpos' \in Int
    BY <1>0
  <2>2. skipped' \in BOOLEAN /\ aliased' \in BOOLEAN
    BY <1>0, Zenon DEF StdioType
  <2> QED BY <1>0, <1>2, <2>1, <2>2, OpenSteps, ZenonT(30) DEF StdioType
<1>4. MapNamesOpen' /\ StdinOff'
  <2>1. fd_map'[0] # Closed
    BY <1>1, <1>2, Zenon
  <2> QED BY <1>0, <2>1, OpenSteps, Zenon DEF StdinOff
<1>5. Streamed' = {o} /\ Streamed = {} /\ Streaming'
  BY <1>0, <1>1, <1>2, Zenon DEF Streamed, Streaming, Readable, NoFile
<1>6. StreamExact'
  BY <1>0, <1>1, <1>2 DEF StreamExact
<1>7. CASE fd_map[0] # Closed
  <2>1. /\ table[fd_map[0]] # o /\ fd_map[0] # Lowest
        /\ table'[fd_map[0]] = table[fd_map[0]]
        /\ table[fd_map[0]] \in Opens
    BY <1>0, <1>1, <1>7, FreshOpen, StdioAssumption, Zenon
       DEF SInv, StdioType, MapNamesOpen, Readable
  <2>2. FileOpen'
    BY <1>1, <1>2, <1>5, <1>7, <2>1 DEF FileOpen, Stdin
  <2>3. StdinExact'
    BY <1>1, <1>5, <1>7, <2>1, StdinKept, Zenon DEF Stdin
  <2> QED BY <1>3, <1>4, <1>6, <2>2, <2>3, Zenon DEF SInv, InputExact
<1>8. CASE fd_map[0] = Closed
  <2>1. Stdin' = o
    BY <1>1, <1>8, Zenon DEF Stdin
  <2>2. FileOpen'
    BY <1>1, <1>2, <1>8, Zenon DEF FileOpen
  <2>3. StdinExact'
    BY <1>5, <2>1, Zenon DEF StdinExact
  <2> QED BY <1>3, <1>4, <1>6, <2>2, <2>3, Zenon DEF SInv, InputExact
<1> QED BY <1>7, <1>8, Zenon

(* luna_bb_close of a virtual descriptor.                                   *)
LEMMA CloseKeeps ==
    ASSUME SInv, ~aliased, NEW v \in Virtual, Close(v)
    PROVE  SInv'
<1> DEFINE t == [n \in Fds |-> IF n \in {fd_map[v]} THEN Unused ELSE table[n]]
<1>0. /\ StdioType /\ MapNamesOpen /\ FileOpen /\ 0 \in Virtual
      /\ fd_map[v] # Closed /\ fd_map[v] # file.fd
      /\ UNCHANGED <<file, fpos, skipped, aliased>>
      /\ fd_map' = [fd_map EXCEPT ![v] = Closed]
      /\ v = 0 => buf' = <<>> /\ pos' = 0 /\ lost' = FALSE
      /\ v # 0 => UNCHANGED <<buf, pos, lost>>
      /\ Tabled(t)
  BY StdioAssumption, Zenon DEF Close, KernelClose, stream, input, SInv
<1>1. /\ fd_map' \in [Virtual -> Fds \cup {Closed}] /\ fd_map'[v] = Closed
      /\ \A w \in Virtual \ {v} : fd_map'[w] = fd_map[w]
  BY <1>0, Zenon DEF StdioType
<1>2. /\ table' \in [Fds -> Opens \cup {Unused}]
      /\ off' \in [Opens -> OpenType]
      /\ \A n \in Fds \ {fd_map[v]} : table'[n] = table[n]
      /\ \A n \in Fds \ {fd_map[v]} : table[n] \in Opens =>
           off'[table[n]] = off[table[n]]
  <2>1. /\ t \in [Fds -> Opens \cup {Unused}]
        /\ \A n \in Fds \ {fd_map[v]} : t[n] = table[n]
    BY <1>0, Zenon DEF StdioType
  <2> HIDE DEF t
  <2>2. /\ table' = t /\ off' \in [Opens -> OpenType]
        /\ \A n \in Fds : t[n] \in Opens => off'[t[n]] = off[t[n]]
    BY <1>0, <2>1, TableChanged, Zenon
  <2> QED BY <2>1, <2>2, Zenon
<1> HIDE DEF t
<1>3. buf' \in Seq(Int) /\ pos' \in Int /\ lost' \in BOOLEAN
  <2>1. <<>> \in Seq(Int) /\ 0 \in Int
    BY EmptySeq
  <2> QED BY <1>0, <2>1, Zenon DEF StdioType
<1>4. StdioType'
  BY <1>0, <1>1, <1>2, <1>3, Zenon DEF StdioType
<1>5. \A w \in Virtual \ {v} : fd_map[w] # Closed =>
        fd_map[w] \in Fds \ {fd_map[v]}
  BY <1>0, Zenon DEF StdioType, MapNamesOpen
<1>6. MapNamesOpen'
  BY <1>0, <1>1, <1>2, <1>5 DEF MapNamesOpen, Readable
<1>7. file.fd # Closed => /\ file.fd \in Fds /\ table'[file.fd] = table[file.fd]
                          /\ off'[table[file.fd]] = off[table[file.fd]]
  BY <1>0, <1>2, Zenon DEF StdioType, FileType, FileOpen
<1>8. StreamExact'
  BY <1>0, <1>7, StreamKept, Zenon
<1>9. Streamed' = Streamed
  BY <1>0, <1>7, Zenon DEF Streamed, Readable
<1>10. CASE v = 0
  BY <1>0, <1>1, <1>4, <1>6, <1>7, <1>8, <1>10, ZenonT(30)
     DEF SInv, InputExact, FileOpen, StdinOff, StdinExact, Readable
<1>11. CASE v # 0
  <2>1. /\ fd_map'[0] = fd_map[0]
        /\ fd_map[0] # Closed =>
             /\ table'[fd_map[0]] = table[fd_map[0]]
             /\ table[fd_map[0]] # Unused => off'[Stdin] = off[Stdin]
        /\ UNCHANGED <<buf, pos, lost>>
    BY <1>0, <1>1, <1>2, <1>5, <1>11, ZenonT(30) DEF StdioType, Stdin
  <2>2. FileOpen'
    BY <1>0, <1>7, <2>1, FileKept, ZenonT(30)
  <2>3. StdinExact'
    BY <1>0, <1>9, <2>1, StdinKept DEF Stdin, Readable
  <2>4. StdinOff'
    BY <2>1, StdinOffKept, Zenon
  <2> QED BY <1>4, <1>6, <1>8, <2>2, <2>3, <2>4, ZenonT(30) DEF SInv, InputExact
<1> QED BY <1>10, <1>11, Zenon

(* luna_bb_close of a descriptor that is neither virtual nor a FILE's.      *)
LEMMA CloseKnownKeeps ==
    ASSUME SInv, ~aliased, NEW n \in Fds, CloseKnown(n)
    PROVE  SInv'
<1> DEFINE t == [m \in Fds |-> IF m \in {n} THEN Unused ELSE table[m]]
<1>0. /\ StdioType /\ MapNamesOpen /\ FileOpen /\ 0 \in Virtual
      /\ n # file.fd /\ \A v \in Virtual : fd_map[v] # n
      /\ UNCHANGED <<fd_map, buf, pos, lost, file, fpos, skipped, aliased>>
      /\ Tabled(t)
  BY StdioAssumption, Zenon DEF CloseKnown, Known, KernelClose, stream, input, SInv
<1>1. /\ table' \in [Fds -> Opens \cup {Unused}]
      /\ off' \in [Opens -> OpenType]
      /\ \A m \in Fds \ {n} : table'[m] = table[m]
      /\ \A m \in Fds \ {n} : table[m] \in Opens => off'[table[m]] = off[table[m]]
  <2>1. /\ t \in [Fds -> Opens \cup {Unused}]
        /\ \A m \in Fds \ {n} : t[m] = table[m]
    BY <1>0, Zenon DEF StdioType
  <2> HIDE DEF t
  <2>2. /\ table' = t /\ off' \in [Opens -> OpenType]
        /\ \A m \in Fds : t[m] \in Opens => off'[t[m]] = off[t[m]]
    BY <1>0, <2>1, TableChanged, Zenon
  <2>3. \A m \in Fds \ {n} : table[m] \in Opens => off'[table[m]] = off[table[m]]
    <3> SUFFICES ASSUME NEW m \in Fds \ {n}, table[m] \in Opens
                 PROVE  off'[table[m]] = off[table[m]]
      BY Zenon
    <3>1. t[m] = table[m] /\ m \in Fds
      BY <2>1, Zenon
    <3>2. t[m] \in Opens => off'[t[m]] = off[t[m]]
      BY <2>2, <3>1, Zenon
    <3> QED BY <3>1, <3>2, Zenon
  <2> QED BY <2>1, <2>2, <2>3, Zenon
<1> HIDE DEF t
<1>2. StdioType' /\ StdinOff'
  BY <1>0, <1>1, StdinOffKept, Zenon DEF StdioType
<1>3. /\ \A v \in Virtual : fd_map[v] # Closed =>
           /\ table'[fd_map[v]] = table[fd_map[v]]
           /\ table[fd_map[v]] # Unused =>
                off'[table[fd_map[v]]] = off[table[fd_map[v]]]
      /\ file.fd # Closed => /\ table'[file.fd] = table[file.fd]
                             /\ off'[table[file.fd]] = off[table[file.fd]]
  BY <1>0, <1>1, ZenonT(30) DEF StdioType, FileType, FileOpen
<1>4. MapNamesOpen'
  BY <1>0, <1>3 DEF MapNamesOpen, Readable
<1>5. FileOpen' /\ Streamed' = Streamed
  BY <1>0, <1>3, FileKept, Zenon
<1>6. StreamExact'
  BY <1>0, <1>3, StreamKept, Zenon
<1>7. StdinExact'
  BY <1>0, <1>3, <1>5, StdinKept DEF Stdin, Readable
<1> QED BY <1>2, <1>4, <1>5, <1>6, <1>7, ZenonT(30) DEF SInv, InputExact

(* luna_bb_dup.                                                             *)
LEMMA DupKeeps ==
    ASSUME SInv, ~aliased, NEW n \in Fds, Dup(n)
    PROVE  SInv'
<1>0. /\ StdioType /\ MapNamesOpen /\ FileOpen /\ 0 \in Virtual
      /\ table[n] \in Opens
      /\ UNCHANGED <<off, fd_map, buf, pos, lost, file, fpos, skipped, aliased>>
      /\ table' = [table EXCEPT ![Lowest] = table[n]]
  BY StdioAssumption, Zenon DEF Dup, Readable, stream, input, SInv, StdioType
<1>1. Lowest \in Fds /\ table[Lowest] = Unused
  BY LowestFree, Zenon DEF Dup
<1>2. /\ table' \in [Fds -> Opens \cup {Unused}]
      /\ \A m \in Fds \ {Lowest} : table'[m] = table[m]
  BY <1>0, <1>1, Zenon DEF StdioType
<1>3. StdioType' /\ StdinOff'
  BY <1>0, <1>2, StdinOffKept, Zenon DEF StdioType
<1>4. /\ \A v \in Virtual : fd_map[v] # Closed =>
           table'[fd_map[v]] = table[fd_map[v]]
      /\ file.fd # Closed => table'[file.fd] = table[file.fd]
  BY <1>0, <1>1, <1>2, ZenonT(30)
     DEF StdioType, FileType, FileOpen, MapNamesOpen, Readable
<1>5. MapNamesOpen'
  BY <1>0, <1>4 DEF MapNamesOpen, Readable
<1>6. FileOpen' /\ Streamed' = Streamed
  BY <1>0, <1>4, FileKept, Zenon
<1>7. StreamExact'
  BY <1>0, <1>4, StreamKept, Zenon
<1>8. StdinExact'
  BY <1>0, <1>4, <1>6, StdinKept DEF Stdin, Readable
<1> QED BY <1>3, <1>5, <1>6, <1>7, <1>8, ZenonT(30) DEF SInv, InputExact

(* luna_bb_dup2.                                                            *)
LEMMA Dup2Keeps ==
    ASSUME SInv, ~aliased, NEW n \in Fds, NEW v \in Virtual, Dup2(n, v)
    PROVE  SInv'
<1> DEFINE t == [m \in Fds |-> IF m \in {fd_map[v]} \ {Closed} THEN Unused
                               ELSE IF m = Lowest THEN table[n] ELSE table[m]]
<1>0. /\ StdioType /\ MapNamesOpen /\ FileOpen /\ 0 \in Virtual
      /\ n # fd_map[v]
      /\ table[n] \in Opens /\ Unused \notin Opens /\ table[n] \notin Streamed
      /\ fd_map[v] = Closed \/ fd_map[v] # file.fd
      /\ UNCHANGED <<file, fpos, skipped, aliased>>
      /\ fd_map' = [fd_map EXCEPT ![v] = Lowest]
      /\ v = 0 => /\ buf' = <<>> /\ pos' = off[table[n]].at
                  /\ lost' = (table[n] \in Through /\ (lost \/ buf # <<>>))
      /\ v # 0 => UNCHANGED <<buf, pos, lost>>
      /\ Tabled(t)
  BY StdioAssumption, ZenonT(30)
     DEF Dup2, Readable, Closed, stream, input, SInv, StdioType
<1>1. Lowest \in Fds /\ table[Lowest] = Unused /\ Lowest # Closed
  BY LowestFree, StdioAssumption DEF Dup2, Closed
<1>2. /\ t \in [Fds -> Opens \cup {Unused}]
      /\ \A m \in Fds : t[m] = IF m \in {fd_map[v]} \ {Closed} THEN Unused
                              ELSE IF m = Lowest THEN table[n] ELSE table[m]
      /\ table' = t /\ off' \in [Opens -> OpenType]
      /\ \A m \in Fds : t[m] \in Opens => off'[t[m]] = off[t[m]]
  <2>1. t \in [Fds -> Opens \cup {Unused}]
    BY <1>0, Zenon DEF StdioType
  <2>2. \A m \in Fds : t[m] = IF m \in {fd_map[v]} \ {Closed} THEN Unused
                              ELSE IF m = Lowest THEN table[n] ELSE table[m]
    BY Zenon
  <2> HIDE DEF t
  <2> QED BY <1>0, <2>1, <2>2, TableChanged, Zenon
<1> HIDE DEF t
<1>3. /\ table' \in [Fds -> Opens \cup {Unused}]
      /\ \A m \in Fds \ {fd_map[v], Lowest} : table'[m] = table[m]
      /\ \A m \in Fds \ {fd_map[v], Lowest} : table[m] \in Opens =>
           off'[table[m]] = off[table[m]]
  BY <1>2, ZenonT(30)
<1>4. \A w \in Virtual : fd_map[w] # Closed =>
        /\ fd_map[w] \in Fds /\ fd_map[w] # Lowest
        /\ w # v => fd_map[w] # fd_map[v]
  BY <1>0, <1>1, Zenon DEF StdioType, MapNamesOpen, Readable
<1>5. table'[Lowest] = table[n] /\ off'[table[n]] = off[table[n]]
  BY <1>0, <1>1, <1>2, <1>4, ZenonT(30)
<1>6. /\ fd_map' \in [Virtual -> Fds \cup {Closed}] /\ fd_map'[v] = Lowest
      /\ \A w \in Virtual \ {v} : fd_map'[w] = fd_map[w]
  BY <1>0, <1>1, Zenon DEF StdioType
<1>7. off[table[n]].at \in Int
  BY <1>0 DEF StdioType, OpenType
<1>8. StdioType'
  <2>1. <<>> \in Seq(Int) /\ buf \in Seq(Int) /\ pos \in Int
    BY <1>0, EmptySeq, Zenon DEF StdioType
  <2>2. buf' \in Seq(Int) /\ pos' \in Int
    BY <1>0, <1>7, <2>1, Zenon
  <2>3. lost' \in BOOLEAN
    BY <1>0, <1>7, Zenon DEF StdioType
  <2>4. file' \in FileType /\ fpos' \in Int /\ skipped' \in BOOLEAN /\ aliased' \in BOOLEAN
    BY <1>0, Zenon DEF StdioType
  <2> QED BY <1>2, <1>3, <1>6, <2>2, <2>3, <2>4, Zenon DEF StdioType
<1>9. MapNamesOpen'
  BY <1>0, <1>1, <1>3, <1>4, <1>5, <1>6 DEF MapNamesOpen, Readable
<1>10. file.fd # Closed => /\ file.fd \in Fds \ {fd_map[v], Lowest}
                           /\ table'[file.fd] = table[file.fd]
                           /\ off'[table[file.fd]] = off[table[file.fd]]
  BY <1>0, <1>1, <1>3, ZenonT(30) DEF StdioType, FileType, FileOpen
<1>11. StreamExact' /\ Streamed' = Streamed
  BY <1>0, <1>10, StreamKept, Zenon DEF Streamed, Readable
<1>12. CASE v = 0
  <2>1. Stdin' = table[n] /\ fd_map'[0] = Lowest
    BY <1>5, <1>6, <1>12, Zenon DEF Stdin
  <2>2. FileOpen'
    BY <1>0, <1>10, <1>11, <2>1, ZenonT(30) DEF FileOpen
  <2>3. StdinExact'
    <3>1. Len(buf') = 0 /\ buf' = [i \in 1..0 |-> pos' + i]
      BY <1>0, <1>12, EmptySeq, SMTT(30)
    <3>2. off'[Stdin'].at = pos' /\ pos' \in Int
      BY <1>0, <1>5, <1>7, <1>12, <2>1, Zenon
    <3>3. pos' = pos' + Len(buf') /\ buf' = [i \in 1..Len(buf') |-> pos' + i]
      BY <3>1, <3>2, PlusZero, Zenon
    <3> QED BY <3>2, <3>3, Zenon DEF StdinExact
  <2>4. StdinOff'
    BY <1>1, <2>1, Zenon DEF StdinOff
  <2> QED BY <1>8, <1>9, <1>11, <2>2, <2>3, <2>4, ZenonT(30) DEF SInv, InputExact
<1>13. CASE v # 0
  <2>1. /\ fd_map'[0] = fd_map[0]
        /\ fd_map[0] # Closed =>
             /\ table'[fd_map[0]] = table[fd_map[0]]
             /\ table[fd_map[0]] # Unused => off'[Stdin] = off[Stdin]
        /\ UNCHANGED <<buf, pos, lost>>
    BY <1>0, <1>3, <1>4, <1>6, <1>13, ZenonT(30) DEF Stdin, StdioType
  <2>2. FileOpen'
    BY <1>0, <1>10, <2>1, FileKept, ZenonT(30)
  <2>3. StdinExact'
    BY <1>0, <1>11, <2>1, StdinKept DEF Stdin, Readable
  <2>4. StdinOff'
    BY <2>1, StdinOffKept, Zenon
  <2> QED BY <1>8, <1>9, <1>11, <2>2, <2>3, <2>4, Zenon DEF SInv, InputExact
<1> QED BY <1>12, <1>13, Zenon

(* luna_bb_fdopen.                                                          *)
LEMMA FdopenKeeps ==
    ASSUME SInv, ~aliased, NEW n \in Fds, Fdopen(n)
    PROVE  SInv'
<1>0. /\ StdioType /\ MapNamesOpen /\ FileOpen /\ file = NoFile
      /\ table[n] \in Opens /\ Unused \notin Opens /\ table[n] \notin Through
      /\ UNCHANGED <<table, off, fd_map, buf, pos, lost, aliased>>
      /\ fpos' = off[table[n]].at /\ skipped' = FALSE
  BY StdioAssumption, Zenon
     DEF Fdopen, Known, stream, input, kernel, SInv, StdioType
<1>1. /\ file' \in FileType /\ file'.fd = n /\ file'.ungot = NoByte
      /\ file'.eof = FALSE /\ n # Closed
  <2>1. file' = [fd |-> n, ungot |-> NoByte, eof |-> FALSE]
    BY ZenonT(30) DEF Fdopen, NoFile
  <2>2. n # Closed
    BY StdioAssumption DEF Closed
  <2>3. file' \in FileType
    BY <2>1 DEF FileType, NoByte
  <2> QED BY <2>1, <2>2, <2>3, Zenon
<1>2. fpos' \in Int
  BY <1>0 DEF StdioType, OpenType
<1>3. StdioType' /\ MapNamesOpen' /\ StdinOff'
  BY <1>0, <1>1, <1>2, StdinOffKept, Zenon DEF StdioType, MapNamesOpen, Readable
<1>4. Streamed' = {table[n]} /\ Streamed = {}
  BY <1>0, <1>1, Zenon DEF Streamed, Readable, NoFile
<1>5. FileOpen'
  BY <1>0, <1>1, <1>4, Zenon DEF FileOpen, Through, Stdin, Readable
<1>6. StdinExact'
  BY <1>0, <1>4, StdinKept, Zenon DEF Stdin
<1>7. StreamExact'
  BY <1>0, <1>1, <1>2 DEF StreamExact
<1> QED BY <1>3, <1>5, <1>6, <1>7, ZenonT(30) DEF SInv, InputExact

(* luna_bb_fclose.                                                          *)
LEMMA FcloseKeeps ==
    ASSUME SInv, ~aliased, Fclose
    PROVE  SInv'
<1> DEFINE t == [m \in Fds |-> IF m \in {file.fd} THEN Unused ELSE table[m]]
<1>0. /\ StdioType /\ MapNamesOpen /\ FileOpen /\ 0 \in Virtual
      /\ file # NoFile /\ file' = NoFile /\ fpos' = 0 /\ skipped' = FALSE
      /\ UNCHANGED <<fd_map, buf, pos, lost>>
      /\ aliased' = (aliased \/ \E v \in Virtual : fd_map[v] = file.fd)
      /\ Tabled(t)
  BY StdioAssumption, Zenon DEF Fclose, KernelClose, input, SInv
<1>1. /\ file.fd # Closed /\ file.fd \in Fds
      /\ table' \in [Fds -> Opens \cup {Unused}]
      /\ off' \in [Opens -> OpenType]
      /\ \A m \in Fds \ {file.fd} : table'[m] = table[m]
      /\ \A m \in Fds \ {file.fd} : table[m] \in Opens =>
           off'[table[m]] = off[table[m]]
      /\ table'[file.fd] = Unused
  <2>1. file.fd # Closed /\ file.fd \in Fds
    BY <1>0, Zenon DEF StdioType, FileOpen, FileType
  <2>2. /\ t \in [Fds -> Opens \cup {Unused}] /\ t[file.fd] = Unused
        /\ \A m \in Fds \ {file.fd} : t[m] = table[m]
    BY <1>0, <2>1, Zenon DEF StdioType
  <2> HIDE DEF t
  <2>3. /\ table' = t /\ off' \in [Opens -> OpenType]
        /\ \A m \in Fds : t[m] \in Opens => off'[t[m]] = off[t[m]]
    BY <1>0, <2>2, TableChanged, Zenon
  <2> QED BY <2>1, <2>2, <2>3, Zenon
<1> HIDE DEF t
<1>2. file'.fd = Closed /\ file' \in FileType
  BY <1>0 DEF NoFile, FileType, Closed, NoByte
<1>3. aliased' \in BOOLEAN
  BY <1>0, Zenon
<1>4. StdioType' /\ StdinOff'
  <2>1. fpos' \in Int
    BY <1>0
  <2>2. skipped' \in BOOLEAN /\ buf' \in Seq(Int) /\ pos' \in Int /\ lost' \in BOOLEAN
    BY <1>0, Zenon DEF StdioType
  <2>3. fd_map' \in [Virtual -> Fds \cup {Closed}]
    BY <1>0, Zenon DEF StdioType
  <2> QED BY <1>0, <1>1, <1>2, <1>3, <2>1, <2>2, <2>3, StdinOffKept, Zenon DEF StdioType
<1>5. MapNamesOpen'
  BY <1>0, <1>1, ZenonT(30) DEF StdioType, MapNamesOpen, Readable
<1>6. Streamed' = {} /\ ~Streaming'
  BY <1>2, Zenon DEF Streamed, Streaming, Readable
<1>7. FileOpen' /\ StreamExact'
  BY <1>0, <1>2, <1>6, ZenonT(30) DEF FileOpen, StreamExact
<1>8. Readable(fd_map[0])' => /\ fd_map[0] # file.fd
                              /\ table'[fd_map[0]] = table[fd_map[0]]
                              /\ Stdin \notin Streamed
                              /\ off'[Stdin] = off[Stdin]
  BY <1>0, <1>1, ZenonT(30) DEF StdioType, Readable, FileOpen, Stdin
<1>9. StdinExact'
  BY <1>0, <1>8, StdinKept, ZenonT(30)
<1> QED BY <1>4, <1>5, <1>7, <1>9, Zenon DEF SInv, InputExact

(* A call that reads stdin or moves in it: the table and the FILE stay, and *)
(* if the offset moves it is the one of stdin's open file.                  *)
LEMMA StdinMoved ==
    ASSUME SInv, Readable(fd_map[0]), Stdin \notin Streamed,
           UNCHANGED <<table, fd_map, file, fpos, skipped, aliased>>,
           off' \in [Opens -> OpenType],
           \A p \in Opens \ {Stdin} : off'[p] = off[p],
           buf' \in Seq(Int), pos' \in Int, lost' \in BOOLEAN,
           ~lost' => /\ \A i \in 1..Len(buf') : buf'[i] = pos' + i
                     /\ off'[Stdin].at = pos' + Len(buf')
    PROVE  SInv'
<1>1. StdioType'
  BY Zenon DEF SInv, StdioType
<1>2. MapNamesOpen' /\ FileOpen' /\ StdinOff'
  BY Zenon DEF SInv, MapNamesOpen, FileOpen, StdinOff, Readable, Stdin, Streamed
<1>3. StreamExact'
  <2>1. file.fd # Closed => /\ table[file.fd] \in Streamed
                            /\ table[file.fd] \in Opens
    BY ZenonT(30) DEF SInv, StdioType, FileType, FileOpen, Streamed, Readable
  <2> QED BY <2>1, StreamKept, ZenonT(30)
<1>4. StdinExact'
  <2> SUFFICES ASSUME ~lost'
               PROVE  /\ buf' = [i \in 1..Len(buf') |-> pos' + i]
                      /\ off'[Stdin].at = pos' + Len(buf')
    BY Zenon DEF StdinExact, Stdin
  <2>1. buf' = [i \in 1..Len(buf') |-> buf'[i]]
    BY SeqDef
  <2> QED BY <2>1, Zenon
<1> QED BY <1>1, <1>2, <1>3, <1>4, ZenonT(30) DEF SInv, InputExact

(* What holds where stdin is read.                                          *)
LEMMA StdinHas ==
    ASSUME SInv, Readable(fd_map[0]), Stdin \notin Streamed
    PROVE  /\ Stdin \in Opens /\ off[Stdin].at \in Int
           /\ buf \in Seq(Int) /\ Len(buf) \in Nat /\ pos \in Int
           /\ ~lost => /\ \A i \in 1..Len(buf) : buf[i] = pos + i
                       /\ off[Stdin].at = pos + Len(buf)
<1>1. StdioType /\ 0 \in Virtual
  BY StdioAssumption, Zenon DEF SInv
<1>2. Stdin \in Opens
  BY <1>1, Zenon DEF StdioType, Readable, Stdin
<1>3. buf \in Seq(Int) /\ Len(buf) \in Nat /\ pos \in Int
  BY <1>1, LenProperties, Zenon DEF StdioType
<1>4. off[Stdin].at \in Int
  BY <1>1, <1>2 DEF StdioType, OpenType
<1> QED BY <1>2, <1>3, <1>4, Zenon DEF SInv, InputExact, StdinExact

(* luna_bb_lseek.                                                           *)
LEMMA LseekKeeps ==
    ASSUME SInv, NEW k \in Seeks, Lseek(k[1], k[2])
    PROVE  SInv'
<1> DEFINE from == off[Stdin].at - Len(buf)
           to == Target(from, k[1], k[2])
           asked == Target(pos, k[1], k[2])
<1>0. /\ StdioType /\ Readable(fd_map[0]) /\ Stdin \notin Streamed
      /\ buf' = <<>> /\ UNCHANGED <<table, fd_map, file, fpos, skipped, aliased>>
      /\ to <= FileLen
  BY Zenon DEF Lseek, SeekStdin, stream, SInv
<1>1. buf' \in Seq(Int) /\ Len(buf') = 0
  BY <1>0, EmptySeq, Zenon
<1>2. \A i \in 1..Len(buf') : buf'[i] = pos' + i
  BY <1>1
<1>3. CASE ~Seekable(Stdin, to)
  <2>1. /\ lost' = (lost \/ buf # <<>>) /\ pos' = off[Stdin].at
        /\ UNCHANGED off
    BY <1>3, Zenon DEF Lseek, SeekStdin
  <2>2. lost' \in BOOLEAN
    BY <2>1, Zenon
  <2>3. pos' \in Int /\ off'[Stdin].at = pos' + Len(buf')
    BY <1>0, <1>1, <2>1, StdinHas
  <2> QED BY <1>0, <1>1, <1>2, <2>1, <2>2, <2>3, StdinMoved, ZenonT(30) DEF StdioType
<1>4. CASE Seekable(Stdin, to)
  <2> DEFINE next == [off[Stdin] EXCEPT !.at = to]
  <2>1. /\ off' = [off EXCEPT ![Stdin] = next]
        /\ pos' = asked /\ lost' = (lost /\ k[1] = "cur")
    BY <1>4, Zenon DEF Lseek, SeekStdin
  <2>2. /\ k[1] \in {"set", "cur", "end"} /\ k[2] \in Int /\ FileLen \in Nat
        /\ from \in Int /\ pos \in Int
    <3>1. off[Stdin].at \in Int /\ Len(buf) \in Nat /\ pos \in Int
      BY <1>0, StdinHas, Zenon
    <3> QED BY <3>1, StdioAssumption
  <2>3. /\ to \in 0..FileLen /\ asked \in Int
        /\ k[1] # "cur" => to = asked
        /\ from = pos => to = asked
    <3>1. to >= 0
      BY <1>4, Zenon DEF Seekable
    <3> HIDE DEF from
    <3> QED BY <1>0, <2>2, <3>1 DEF Target
  <2>4. ~lost => from = pos
    BY <1>0, StdinHas
  <2> HIDE DEF from, to, asked
  <2>5. next \in OpenType /\ next.at = to
    BY <1>0, <2>3, StdinHas, Zenon DEF StdioType, OpenType
  <2>6. /\ off' \in [Opens -> OpenType] /\ off'[Stdin] = next
        /\ \A p \in Opens \ {Stdin} : off'[p] = off[p]
    <3> HIDE DEF next
    <3> QED BY <1>0, <2>1, <2>5, StdinHas, ZenonT(30) DEF StdioType
  <2> HIDE DEF next
  <2>7. pos' \in Int /\ lost' \in BOOLEAN
    BY <2>1, <2>3, Zenon
  <2>8. ~lost' => off'[Stdin].at = pos'
    BY <2>1, <2>3, <2>4, <2>5, <2>6, Zenon
  <2>9. ~lost' => off'[Stdin].at = pos' + Len(buf')
    BY <1>1, <2>7, <2>8
  <2> QED BY <1>0, <1>1, <1>2, <2>6, <2>7, <2>9, StdinMoved, ZenonT(30)
<1> QED BY <1>3, <1>4, Zenon

(* luna_bb_read.                                                            *)
LEMMA ReadKeeps ==
    ASSUME SInv, NEW count \in Counts, Read(count)
    PROVE  SInv'
<1>0. /\ StdioType /\ Readable(fd_map[0]) /\ Stdin \notin Streamed
      /\ UNCHANGED <<table, fd_map, file, fpos, skipped, aliased, lost>>
      /\ count \in Nat \ {0}
  BY StdioAssumption, Zenon DEF Read, stream, SInv
<1>1. CASE count <= Len(buf)
  <2>1. /\ buf' = SubSeq(buf, count + 1, Len(buf)) /\ pos' = pos + count
        /\ UNCHANGED off
    BY <1>1, Zenon DEF Read
  <2>2. /\ buf' \in Seq(Int) /\ Len(buf') = Len(buf) - count
        /\ \A i \in 1..Len(buf') : buf'[i] = buf[count + i]
    BY <1>0, <1>1, <2>1, StdinHas, SubSeqProperties, SMTT(30)
  <2>3. ~lost => /\ \A i \in 1..Len(buf') : buf'[i] = pos' + i
                 /\ off'[Stdin].at = pos' + Len(buf')
    <3> SUFFICES ASSUME ~lost
                 PROVE  /\ \A i \in 1..Len(buf') : buf'[i] = pos' + i
                        /\ off'[Stdin].at = pos' + Len(buf')
      BY Zenon
    <3>1. /\ Len(buf) \in Nat /\ pos \in Int /\ off[Stdin].at = pos + Len(buf)
          /\ \A i \in 1..Len(buf) : buf[i] = pos + i
      BY <1>0, StdinHas, Zenon
    <3>2. ASSUME NEW i \in 1..Len(buf') PROVE buf'[i] = pos' + i
      <4>1. count + i \in 1..Len(buf) /\ buf'[i] = buf[count + i]
        BY <1>0, <1>1, <2>2, <3>1
      <4>2. buf[count + i] = pos + (count + i)
        BY <3>1, <4>1, Zenon
      <4>3. count \in Int /\ i \in Int /\ pos' = pos + count
        BY <1>0, <2>1, <2>2, <3>1
      <4> QED BY <3>1, <4>1, <4>2, <4>3, SMTT(30)
    <3>3. off'[Stdin].at = pos' + Len(buf')
      BY <1>0, <1>1, <2>1, <2>2, <3>1, SMTT(30)
    <3> QED BY <3>2, <3>3, Zenon
  <2>4. pos' \in Int
    BY <1>0, <2>1, StdinHas, SMTT(30)
  <2> QED BY <1>0, <2>1, <2>2, <2>3, <2>4, StdinMoved, Zenon DEF StdioType
<1>2. CASE ~(count <= Len(buf))
  <2>1. PICK k \in {0} \cup Returned(Stdin, count - Len(buf)) :
          /\ buf' = <<>> /\ ReadBy(Stdin, k)
          /\ pos' = pos + Len(buf) + k
    BY <1>2, Zenon DEF Read
  <2>2. count - Len(buf) \in Nat \ {0}
    BY <1>0, <1>2, StdinHas
  <2>3. k \in Nat /\ off[Stdin].at + k \in 0..FileLen
    <3>1. CASE k = 0
      BY <1>0, <3>1, StdinHas DEF StdioType, OpenType
    <3>2. CASE k \in Returned(Stdin, count - Len(buf))
      BY <1>0, <2>2, <3>2, ReturnedBytes, StdinHas, SMTT(30)
    <3> QED BY <3>1, <3>2, Zenon
  <2>4. /\ off' \in [Opens -> OpenType] /\ off'[Stdin].at = off[Stdin].at + k
        /\ \A p \in Opens \ {Stdin} : off'[p] = off[p]
    BY <1>0, <2>1, <2>3, ReadMoves, StdinHas, Zenon
  <2>5. buf' \in Seq(Int) /\ Len(buf') = 0
    BY <2>1, EmptySeq, Zenon
  <2>6. pos' \in Int /\ (~lost => off'[Stdin].at = pos' + Len(buf'))
    BY <1>0, <2>1, <2>3, <2>4, <2>5, StdinHas
  <2>7. \A i \in 1..Len(buf') : buf'[i] = pos' + i
    BY <2>5
  <2> QED BY <1>0, <2>4, <2>5, <2>6, <2>7, StdinMoved, Zenon DEF StdioType
<1> QED BY <1>1, <1>2, Zenon

(* luna_bb_getc of stdin.                                                   *)
LEMMA GetcKeeps ==
    ASSUME SInv, Getc
    PROVE  SInv'
<1>0. /\ StdioType /\ Readable(fd_map[0]) /\ Stdin \notin Streamed
      /\ UNCHANGED <<table, fd_map, file, fpos, skipped, aliased, lost>>
  BY Zenon DEF Getc, stream, SInv
<1>1. CASE buf # <<>>
  <2>1. buf' = Tail(buf) /\ pos' = pos + 1 /\ UNCHANGED off
    BY <1>1, Zenon DEF Getc
  <2>2. /\ buf' \in Seq(Int) /\ Len(buf') = Len(buf) - 1
        /\ \A i \in 1..Len(buf') : buf'[i] = buf[i + 1]
    BY <1>0, <1>1, <2>1, StdinHas, HeadTailProperties, ZenonT(30)
  <2>3. ~lost => /\ \A i \in 1..Len(buf') : buf'[i] = pos' + i
                 /\ off'[Stdin].at = pos' + Len(buf')
    <3> SUFFICES ASSUME ~lost
                 PROVE  /\ \A i \in 1..Len(buf') : buf'[i] = pos' + i
                        /\ off'[Stdin].at = pos' + Len(buf')
      BY Zenon
    <3>1. /\ Len(buf) \in Nat /\ pos \in Int /\ off[Stdin].at = pos + Len(buf)
          /\ \A i \in 1..Len(buf) : buf[i] = pos + i
      BY <1>0, StdinHas, Zenon
    <3>2. ASSUME NEW i \in 1..Len(buf') PROVE buf'[i] = pos' + i
      <4>1. i + 1 \in 1..Len(buf) /\ buf'[i] = buf[i + 1]
        BY <2>2, <3>1, SMTT(30)
      <4>2. buf[i + 1] = pos + (i + 1)
        BY <3>1, <4>1, Zenon
      <4> QED BY <2>1, <2>2, <3>1, <4>1, <4>2, SMTT(30)
    <3>3. off'[Stdin].at = pos' + Len(buf')
      BY <2>1, <2>2, <3>1
    <3> QED BY <3>2, <3>3, Zenon
  <2>4. pos' \in Int
    BY <1>0, <2>1, StdinHas
  <2> QED BY <1>0, <2>1, <2>2, <2>3, <2>4, StdinMoved, Zenon DEF StdioType
<1>2. CASE buf = <<>>
  <2>1. PICK k \in {0} \cup Returned(Stdin, BufSize) :
          /\ ReadBy(Stdin, k)
          /\ buf' = IF k = 0 THEN <<>> ELSE Tail(Bytes(Stdin, k))
          /\ pos' = IF k = 0 THEN pos ELSE pos + 1
    BY <1>2, Zenon DEF Getc
  <2>2. Len(buf) = 0
    BY <1>2, EmptySeq, Zenon
  <2>3. k \in Nat /\ off[Stdin].at + k \in 0..FileLen
    <3>1. CASE k = 0
      BY <1>0, <3>1, StdinHas DEF StdioType, OpenType
    <3>2. CASE k \in Returned(Stdin, BufSize)
      BY <1>0, <3>2, ReturnedBytes, StdinHas, StdioAssumption, SMTT(30)
    <3> QED BY <3>1, <3>2, Zenon
  <2>4. /\ off' \in [Opens -> OpenType] /\ off'[Stdin].at = off[Stdin].at + k
        /\ \A p \in Opens \ {Stdin} : off'[p] = off[p]
    BY <1>0, <2>1, <2>3, ReadMoves, StdinHas, Zenon
  <2>5. CASE k = 0
    <3>1. /\ buf' = <<>> /\ buf' \in Seq(Int) /\ Len(buf') = 0 /\ pos' = pos
      BY <2>1, <2>5, EmptySeq, Zenon
    <3>2. ~lost => off'[Stdin].at = pos' + Len(buf')
      BY <1>0, <2>2, <2>4, <2>5, <3>1, StdinHas
    <3>3. \A i \in 1..Len(buf') : buf'[i] = pos' + i
      BY <3>1
    <3> QED BY <1>0, <2>4, <3>1, <3>2, <3>3, StdinMoved, Zenon DEF StdioType
  <2>6. CASE k # 0
    <3> DEFINE bytes == Bytes(Stdin, k)
    <3>1. bytes \in [1..k -> Int] /\ \A i \in 1..k : bytes[i] = off[Stdin].at + i
      BY <1>0, <2>3, StdinHas, SMTT(30) DEF Bytes
    <3>2. bytes \in Seq(Int) /\ Len(bytes) = k
      BY <2>3, <3>1, SeqDef, LenProperties
    <3> HIDE DEF bytes
    <3>3. bytes # <<>>
      BY <2>6, <3>2, EmptySeq, Zenon
    <3>4. /\ buf' \in Seq(Int) /\ Len(buf') = k - 1
          /\ \A i \in 1..Len(buf') : buf'[i] = bytes[i + 1]
      <4>1. buf' = Tail(bytes)
        BY <2>1, <2>6, ZenonT(30) DEF bytes
      <4> QED BY <3>2, <3>3, <4>1, HeadTailProperties, ZenonT(30)
    <3>5. pos' = pos + 1 /\ pos' \in Int
      BY <1>0, <2>1, <2>6, StdinHas, SMTT(30)
    <3>6. ~lost => off[Stdin].at = pos
      BY <1>0, <2>2, StdinHas, SMTT(30)
    <3>7. ~lost => off'[Stdin].at = pos' + Len(buf')
      BY <1>0, <2>3, <2>4, <3>4, <3>5, <3>6, StdinHas, SMTT(30)
    <3>8. ~lost => \A i \in 1..Len(buf') : buf'[i] = pos' + i
      <4> SUFFICES ASSUME ~lost, NEW i \in 1..Len(buf')
                   PROVE  buf'[i] = pos' + i
        BY Zenon
      <4>1. i + 1 \in 1..k /\ buf'[i] = bytes[i + 1]
        BY <2>3, <3>4
      <4>2. bytes[i + 1] = off[Stdin].at + (i + 1)
        BY <3>1, <4>1, ZenonT(30)
      <4>3. pos \in Int /\ off[Stdin].at = pos
        BY <1>0, <3>6, StdinHas, ZenonT(30)
      <4> QED BY <2>3, <3>4, <3>5, <4>1, <4>2, <4>3, SMTT(30)
    <3> QED BY <1>0, <2>4, <3>4, <3>5, <3>7, <3>8, StdinMoved, Zenon
               DEF StdioType
  <2> QED BY <2>5, <2>6, Zenon
<1> QED BY <1>1, <1>2, Zenon

(* A call that uses the FILE: the table and stdin stay, and if an offset    *)
(* moves it is the one of the FILE's open file.                             *)
LEMMA FileMoved ==
    ASSUME SInv, Streaming,
           UNCHANGED <<table, fd_map, buf, pos, lost, aliased>>,
           off' \in [Opens -> OpenType],
           \A p \in Opens \ {table[file.fd]} : off'[p] = off[p],
           file' \in FileType, file'.fd = file.fd, fpos' \in Int,
           skipped' \in BOOLEAN, StreamExact'
    PROVE  SInv'
<1>1. StdioType'
  BY Zenon DEF SInv, StdioType
<1>2. MapNamesOpen' /\ FileOpen' /\ StdinOff' /\ Streamed' = Streamed
  BY Zenon
     DEF SInv, MapNamesOpen, FileOpen, StdinOff, Streaming, Readable, Stdin, Streamed
<1>3. Streamed = {table[file.fd]}
  BY Zenon DEF Streaming, Streamed
<1>4. Readable(fd_map[0]) => Stdin \in Opens
  BY StdioAssumption, Zenon DEF SInv, StdioType, Readable, Stdin
<1>5. StdinExact'
  <2>1. Readable(fd_map[0])' => Readable(fd_map[0]) /\ Stdin' = Stdin
    BY Zenon DEF Readable, Stdin
  <2> QED BY <1>2, <1>3, <1>4, <2>1, StdinKept, ZenonT(30)
<1> QED BY <1>1, <1>2, <1>5, ZenonT(30) DEF SInv, InputExact

(* What holds where a FILE is used.                                         *)
LEMMA FileHas ==
    ASSUME SInv, Streaming
    PROVE  /\ StdioType /\ file \in FileType /\ fpos \in Int
           /\ table[file.fd] \in Opens /\ off[table[file.fd]].at \in 0..FileLen
           /\ FileLen \in Nat /\ FileLen # 0 /\ file.ungot \in Int
           /\ skipped \in BOOLEAN
           /\ ~skipped =>
                /\ file.ungot # NoByte =>
                     file.ungot = fpos + 1 /\ off[table[file.fd]].at = fpos + 1
                /\ file.ungot = NoByte => off[table[file.fd]].at = fpos
                /\ file.eof => fpos = FileLen
<1>1. StdioType /\ FileLen \in Nat /\ FileLen # 0
  BY StdioAssumption, Zenon DEF SInv
<1>2. /\ file \in FileType /\ fpos \in Int /\ file.ungot \in Int
      /\ skipped \in BOOLEAN
  BY <1>1, Zenon DEF StdioType, FileType
<1>3. table[file.fd] \in Opens
  BY <1>1, Zenon DEF StdioType, FileType, Streaming, Readable
<1>4. off[table[file.fd]].at \in 0..FileLen
  BY <1>1, <1>3, Zenon DEF StdioType, OpenType
<1>5. ~skipped =>
        off[table[file.fd]].at = fpos + IF file.ungot # NoByte THEN 1 ELSE 0
  BY Zenon DEF SInv, InputExact, StreamExact
<1>6. ~skipped => /\ file.ungot # NoByte => file.ungot = fpos + 1
                  /\ file.eof => fpos = FileLen
  BY ZenonT(30) DEF SInv, InputExact, StreamExact
<1> QED BY <1>1, <1>2, <1>3, <1>4, <1>5, <1>6

(* A FILE without an ungot character is exact when its offset is its        *)
(* position and eof is set only at the end.                                 *)
LEMMA StreamAt ==
    ASSUME file'.ungot = NoByte, fpos' \in Int,
           ~skipped' => /\ off'[table'[file'.fd]].at = fpos'
                        /\ file'.eof => fpos' = FileLen
    PROVE  StreamExact'
<1>1. fpos' = fpos' + 0
  BY PlusZero, Zenon
<1>2. (IF file.ungot # NoByte THEN 1 ELSE 0)' = 0
  BY Zenon DEF NoByte
<1>3. 0 # 1
  OBVIOUS
<1> QED BY <1>1, <1>2, <1>3, Zenon DEF StreamExact

(* The mark for no ungot character is a number.                             *)
LEMMA NoByteInt == NoByte \in Int
BY DEF NoByte

(* What a call that sets a FILE's ungot character and its eof leaves.       *)
LEMMA FileSet ==
    ASSUME NEW f \in FileType, NEW b \in Int, NEW e \in BOOLEAN
    PROVE  LET g == [f EXCEPT !.ungot = b, !.eof = e] IN
           g \in FileType /\ g.fd = f.fd /\ g.ungot = b /\ g.eof = e
BY Zenon DEF FileType

(* What a FILE is without its ungot character.                              *)
LEMMA FileEmptied ==
    \A f \in FileType, e \in BOOLEAN :
        LET g == [f EXCEPT !.ungot = NoByte, !.eof = e] IN
        g \in FileType /\ g.fd = f.fd /\ g.ungot = NoByte /\ g.eof = e
BY FileSet, NoByteInt, Zenon

(* A call that takes the ungot character of a FILE and perhaps some of its  *)
(* file leaves the FILE as it should be.                                    *)
LEMMA FileTaken ==
    ASSUME SInv, Streaming, NEW e \in BOOLEAN,
           UNCHANGED <<table, fd_map, buf, pos, lost, aliased>>,
           off' \in [Opens -> OpenType],
           \A p \in Opens \ {table[file.fd]} : off'[p] = off[p],
           file' = [file EXCEPT !.ungot = NoByte, !.eof = e],
           fpos' \in Int, skipped' \in BOOLEAN,
           ~skipped' => /\ off'[table[file.fd]].at = fpos'
                        /\ e => fpos' = FileLen
    PROVE  SInv'
<1>1. /\ file' \in FileType /\ file'.fd = file.fd /\ file'.ungot = NoByte
      /\ file'.eof = e
  <2>1. file \in FileType
    BY FileHas, Zenon
  <2>2. LET g == [file EXCEPT !.ungot = NoByte, !.eof = e] IN
        g \in FileType /\ g.fd = file.fd /\ g.ungot = NoByte /\ g.eof = e
    BY <2>1, FileEmptied, Zenon
  <2> QED BY <2>2, Zenon
<1>2. table'[file'.fd] = table[file.fd]
  BY <1>1, Zenon
<1>3. StreamExact'
  BY <1>1, <1>2, StreamAt, Zenon
<1> QED BY <1>1, <1>3, FileMoved, Zenon

(* luna_bb_getc and luna_bb_fread of a FILE.                                *)
LEMMA FreadKeeps ==
    ASSUME SInv, NEW count \in Counts, Fread(count)
    PROVE  SInv'
<1> DEFINE o == table[file.fd]
           u == IF file.ungot # NoByte THEN 1 ELSE 0
           still == file.eof /\ u = 0
<1>0. /\ Streaming /\ UNCHANGED <<table, fd_map, buf, pos, lost, aliased, skipped>>
      /\ count \in Nat \ {0} /\ o \in Opens /\ StdioType
  BY StdioAssumption, FileHas, Zenon DEF Fread, input
<1>1. /\ u \in 0..1 /\ fpos \in Int /\ skipped \in BOOLEAN /\ FileLen \in Nat
      /\ off[o].at \in 0..FileLen
      /\ ~skipped => off[o].at = fpos + u
      /\ ~skipped /\ still => off[o].at = FileLen
  BY <1>0, FileHas
<1>2. CASE /\ file' = [file EXCEPT !.ungot = NoByte, !.eof = still]
           /\ fpos' = fpos + u /\ UNCHANGED off
  <2>1. still \in BOOLEAN
    BY Zenon
  <2>2. fpos' \in Int
    BY <1>1, <1>2
  <2>3. ~skipped' => /\ off'[o].at = fpos'
                     /\ still => fpos' = FileLen
    BY <1>0, <1>1, <1>2, ZenonT(30)
  <2>4. off' \in [Opens -> OpenType] /\ \A p \in Opens \ {o} : off'[p] = off[p]
    BY <1>0, <1>2, Zenon DEF StdioType
  <2>5. skipped' \in BOOLEAN
    BY <1>0, <1>1, Zenon
  <2> HIDE DEF still, u
  <2> QED BY <1>0, <1>2, <2>1, <2>2, <2>3, <2>4, <2>5, FileTaken, ZenonT(30)
<1>3. CASE count > u /\ \E k \in Returned(o, count - u) :
             /\ ReadBy(o, k)
             /\ file' = [file EXCEPT !.ungot = NoByte, !.eof = (k = 0 \/ still)]
             /\ fpos' = fpos + u + k
  <2>1. PICK k \in Returned(o, count - u) :
          /\ ReadBy(o, k)
          /\ file' = [file EXCEPT !.ungot = NoByte, !.eof = (k = 0 \/ still)]
          /\ fpos' = fpos + u + k
    BY <1>3, Zenon
  <2> DEFINE ends == k = 0 \/ still
  <2>2. count - u \in Nat \ {0}
    BY <1>0, <1>1, <1>3, SMTT(30)
  <2>3. /\ k \in Nat /\ off[o].at + k \in 0..FileLen
        /\ k = 0 => off[o].at = FileLen
        /\ off[o].at = FileLen => k = 0
    BY <1>0, <2>2, ReturnedBytes
  <2>4. /\ off' \in [Opens -> OpenType] /\ off'[o].at = off[o].at + k
        /\ \A p \in Opens \ {o} : off'[p] = off[p]
    BY <1>0, <2>1, <2>3, ReadMoves, Zenon
  <2>5. ends \in BOOLEAN /\ file' = [file EXCEPT !.ungot = NoByte, !.eof = ends]
    BY <2>1, Zenon
  <2>6. ~skipped /\ ends => k = 0 /\ off[o].at = FileLen
    BY <1>1, <2>3, Zenon
  <2> HIDE DEF still, u, ends
  <2>7. /\ fpos' \in Int
        /\ ~skipped => off'[o].at = fpos'
        /\ ~skipped /\ ends => fpos' = FileLen
    BY <1>1, <2>1, <2>3, <2>4, <2>6
  <2>8. skipped' \in BOOLEAN /\ skipped' = skipped
    BY <1>0, <1>1, Zenon
  <2>9. ~skipped' => /\ off'[o].at = fpos'
                     /\ ends => fpos' = FileLen
    BY <2>7, <2>8, Zenon
  <2> QED BY <1>0, <2>4, <2>5, <2>7, <2>8, <2>9, FileTaken, ZenonT(30)
<1> QED BY <1>2, <1>3, ZenonT(30) DEF Fread

(* luna_bb_ungetc.                                                          *)
LEMMA UngetcKeeps ==
    ASSUME SInv, Ungetc
    PROVE  SInv'
<1>0. /\ Streaming
      /\ UNCHANGED <<table, off, fd_map, buf, pos, lost, aliased, skipped>>
      /\ file.ungot = NoByte /\ fpos > 0 /\ fpos' = fpos - 1
      /\ file' = [file EXCEPT !.ungot = fpos, !.eof = FALSE]
  BY Zenon DEF Ungetc, input, kernel
<1>1. /\ file' \in FileType /\ file'.fd = file.fd /\ file'.ungot = fpos
      /\ file'.eof = FALSE /\ fpos \in Int /\ skipped' \in BOOLEAN
  BY <1>0, FileHas, Zenon DEF FileType
<1>2. /\ fpos # NoByte /\ fpos' \in Int /\ fpos = fpos' + 1
      /\ ~skipped => off[table[file.fd]].at = fpos
  BY <1>0, <1>1, FileHas DEF NoByte
<1>3. StreamExact'
  BY <1>0, <1>1, <1>2, ZenonT(30) DEF StreamExact
<1> QED BY <1>0, <1>1, <1>2, <1>3, FileMoved, FileHas DEF StdioType

(* luna_bb_fseek and luna_bb_rewind.                                        *)
LEMMA FseekKeeps ==
    ASSUME SInv, NEW k \in Seeks, Fseek(k[1], k[2])
    PROVE  SInv'
<1> DEFINE o == table[file.fd]
           at == off[o].at
           to == Target(at, k[1], k[2])
           asked == Target(fpos, k[1], k[2])
           next == [off[o] EXCEPT !.at = to]
<1>0. /\ Streaming /\ UNCHANGED <<table, fd_map, buf, pos, lost, aliased>>
      /\ off' = [off EXCEPT ![o] = next]
      /\ file' = [file EXCEPT !.ungot = NoByte, !.eof = FALSE]
      /\ skipped' = (k[1] = "cur" /\ (skipped \/ file.ungot # NoByte))
      /\ fpos' = IF skipped' THEN to ELSE asked
      /\ to <= FileLen /\ Seekable(o, to)
  BY Zenon DEF Fseek, input
<1>1. /\ StdioType /\ o \in Opens /\ fpos \in Int /\ at \in Int /\ FileLen \in Nat
      /\ ~skipped /\ file.ungot = NoByte => at = fpos
      /\ k[1] \in {"set", "cur", "end"} /\ k[2] \in Int
  <2>1. k[1] \in {"set", "cur", "end"} /\ k[2] \in Int
    BY StdioAssumption
  <2> QED BY <1>0, <2>1, FileHas
<1>2. /\ to \in 0..FileLen /\ asked \in Int
      /\ k[1] # "cur" => to = asked
      /\ at = fpos => to = asked
  <2>1. to >= 0
    BY <1>0, Zenon DEF Seekable
  <2> HIDE DEF at
  <2> QED BY <1>0, <1>1, <2>1 DEF Target
<1> HIDE DEF at, to, asked
<1>3. next \in OpenType /\ next.at = to
  BY <1>1, <1>2, Zenon DEF StdioType, OpenType
<1>4. /\ off' \in [Opens -> OpenType] /\ off'[o] = next
      /\ \A p \in Opens \ {o} : off'[p] = off[p]
  <2> HIDE DEF next, o
  <2> QED BY <1>0, <1>1, <1>3, Zenon DEF StdioType
<1>5. skipped' \in BOOLEAN /\ fpos' = to /\ fpos' \in Int
  <2>1. ~skipped' => to = asked
    BY <1>0, <1>1, <1>2, Zenon
  <2>2. skipped' \in BOOLEAN /\ fpos' = to
    BY <1>0, <2>1, Zenon
  <2> QED BY <1>2, <2>2
<1>6. off'[o].at = fpos'
  BY <1>3, <1>4, <1>5, Zenon
<1> QED BY <1>0, <1>4, <1>5, <1>6, FileTaken, ZenonT(30)

(* The invariant is inductive.                                              *)
LEMMA StdioStep == SInv /\ [StdioNext]_stdio_vars => SInv'
<1> SUFFICES ASSUME SInv, [StdioNext]_stdio_vars PROVE SInv'
  BY Zenon
<1>1. CASE StdioNext
  BY <1>1, OpenKeeps, FopenKeeps, CloseKeeps, CloseKnownKeeps, DupKeeps, Dup2Keeps,
     FdopenKeeps, FcloseKeeps, LseekKeeps, ReadKeeps, GetcKeeps, FreadKeeps,
     UngetcKeeps, FseekKeeps, Zenon DEF StdioNext, Call
<1>2. CASE UNCHANGED stdio_vars
  <2>1. UNCHANGED <<table, off, fd_map, buf, pos, lost, file, fpos, skipped, aliased>>
    BY <1>2, ZenonT(30) DEF stdio_vars, kernel, input, stream
  <2>2. StdioType' /\ MapNamesOpen' /\ FileOpen' /\ StdinOff'
    BY <2>1, ZenonT(30)
       DEF SInv, StdioType, MapNamesOpen, FileOpen, StdinOff, Readable, Stdin,
                Streamed
  <2>3. InputExact'
    BY <2>1, Zenon DEF SInv, InputExact, StdinExact, StreamExact, Readable, Stdin,
                Streamed, Streaming
  <2> QED BY <2>2, <2>3, Zenon DEF SInv
<1> QED BY <1>1, <1>2, ZenonT(30)

(* The applet reads the bytes of stdin and of a FILE in order, none lost    *)
(* and none twice, however it mixes the calls: for any descriptors, files,  *)
(* buffer and sizes of a read.                                              *)
THEOREM InputAlwaysExact == StdioSpec => []InputExact
<1>1. SInv => InputExact
  BY DEF SInv
<1> QED BY <1>1, StdioInits, StdioStep, PTL DEF StdioSpec

(* fd_map names open descriptors, each once, until a FILE over a virtual    *)
(* descriptor is closed.                                                    *)
THEOREM MapAlwaysOpen == StdioSpec => []MapNamesOpen
<1>1. SInv => MapNamesOpen
  BY Zenon DEF SInv
<1> QED BY <1>1, StdioInits, StdioStep, PTL DEF StdioSpec

----------------------------------------------------------------------------
(* The cells of the ring and the types of the threads' locals.              *)
Cells == 0..RingSize - 1
ServiceType == [pc : {"off", "poll", "test", "store", "trigger"}, next : Cells,
                was_empty : BOOLEAN, char : Nat]

ConsoleType ==
    /\ ring \in [Cells -> Nat] /\ head \in Cells /\ tail \in Cells
    /\ service \in ServiceType /\ irq \in BOOLEAN /\ raced \in BOOLEAN
    /\ handler \in {"off", "take", "advance"}
    /\ typed \in Nat /\ accepted \in Seq(Nat) /\ taken \in Seq(Nat)

\* How many characters lie in the ring, the cell of the k-th, the next cell.
RingCount == IF head >= tail THEN head - tail ELSE head - tail + RingSize
Cell(k) == IF tail + k - 1 >= RingSize THEN tail + k - 1 - RingSize
           ELSE tail + k - 1
After(i) == IF i + 1 = RingSize THEN 0 ELSE i + 1

\* The character at the tail counts as taken while the tail is to advance.
Ahead == IF handler = "advance" THEN 1 ELSE 0

\* The ring is the part of "accepted" that "taken" does not have.
RingHolds ==
    /\ Ahead <= RingCount /\ Ahead <= Len(taken)
    /\ Len(accepted) = Len(taken) + RingCount - Ahead
    /\ \A i \in 1..Len(taken) : taken[i] = accepted[i]
    /\ \A k \in 1..RingCount : ring[Cell(k)] = accepted[Len(taken) - Ahead + k]

\* The cell the console thread is to fill is free, and stays so.
RoomLeft == service.pc \in {"test", "store"} =>
                service.next = After(head) /\ service.next # tail

\* Before task_console_start nothing runs and the ring is empty.
NotStarted == stop = "never" =>
    head = 0 /\ tail = 0 /\ service.pc = "off" /\ ~irq /\ handler = "off"

\* The inductive invariant of Console.
CInv == ConsoleType /\ RingHolds /\ RoomLeft /\ NotStarted /\ RingServed

(* What the code computes with remainders by RingSize is the distance from  *)
(* tail to head, the cell after one and the k-th cell from the tail.        *)
LEMMA RingSteps ==
    ASSUME head \in Cells, tail \in Cells
    PROVE  /\ RingCount \in Cells /\ (head - tail) % RingSize = RingCount
           /\ \A i \in Cells : /\ (i + 1) % RingSize = After(i)
                               /\ After(i) \in Cells
           /\ \A k \in 1..RingCount : /\ (tail + k - 1) % RingSize = Cell(k)
                                    /\ Cell(k) \in Cells
<1> USE ConsoleAssumption DEF Cells
<1>1. RingCount \in Cells /\ (head - tail) % RingSize = RingCount
  BY DEF RingCount
<1>2. ASSUME NEW i \in Cells
      PROVE  (i + 1) % RingSize = After(i) /\ After(i) \in Cells
  BY DEF After
<1>3. ASSUME NEW k \in 1..RingCount
      PROVE  (tail + k - 1) % RingSize = Cell(k) /\ Cell(k) \in Cells
  BY DEF Cell, RingCount
<1> QED
  BY <1>1, <1>2, <1>3, ZenonT(30)

(* The ring starts empty, with nothing accepted and nothing taken.          *)
LEMMA ConsoleInits == TtyInit => CInv
<1> SUFFICES ASSUME TtyInit PROVE CInv
  BY Zenon
<1> USE ConsoleAssumption DEF TtyInit
<1>1. ConsoleType
  BY SMTT(30) DEF ConsoleType, ServiceType, NoService, Cells
<1>2. RingHolds
  BY DEF RingHolds, RingCount, Ahead
<1> QED
  BY <1>1, <1>2, ZenonT(30)
     DEF CInv, RoomLeft, NotStarted, RingServed, NoService, Empty

(* A step that changes neither the ring nor the two sequences keeps what it *)
(* holds.                                                                   *)
LEMMA RingKept ==
    ASSUME RingHolds, UNCHANGED <<ring, head, tail, accepted, taken>>, Ahead' = Ahead
    PROVE  RingHolds'
BY ZenonT(30) DEF RingHolds, RingCount, Cell, Ahead

(* The console thread stores a character in the free cell at the head: the  *)
(* ring holds one more, the last one accepted.                              *)
LEMMA StoreHolds ==
    ASSUME CInv, Store PROVE RingHolds'
<1> USE ConsoleAssumption DEF Cells
<1>0. /\ ConsoleType /\ RingHolds /\ service.pc = "store" /\ service.next = After(head)
      /\ service.next # tail
  BY Zenon DEF CInv, Store, RoomLeft
<1>1. /\ ring' = [ring EXCEPT ![head] = service.char] /\ head' = After(head)
      /\ accepted' = Append(accepted, service.char) /\ service.char \in Nat
      /\ UNCHANGED <<tail, taken, handler>>
  BY <1>0, Zenon DEF Store, ConsoleType, ServiceType
<1>2. /\ Len(accepted') = Len(accepted) + 1
      /\ \A i \in 1..Len(accepted) : accepted'[i] = accepted[i]
      /\ accepted'[Len(accepted) + 1] = service.char
  BY <1>0, <1>1, AppendProperties DEF ConsoleType
<1>3. Len(taken) \in Nat /\ Len(accepted) \in Nat
  BY <1>0 DEF ConsoleType
<1>4. RingCount' = RingCount + 1 /\ Ahead' = Ahead /\ RingCount \in Nat /\ Ahead \in {0, 1}
  BY <1>0, <1>1, SMTT(30) DEF ConsoleType, RingCount, After, Ahead
<1>5. Cell(RingCount + 1) = head
  BY <1>0, <1>1, SMTT(30) DEF ConsoleType, Cell, RingCount, After
<1>6. ASSUME NEW k \in 1..RingCount PROVE Cell(k) # head /\ Cell(k) \in Cells
  BY <1>0, SMTT(30) DEF ConsoleType, Cell, RingCount
<1>7. ASSUME NEW k \in 1..RingCount' PROVE ring'[Cell(k)'] = accepted'[Len(taken') - Ahead' + k]
  <2>1. Cell(k)' = Cell(k)
    BY <1>1, Zenon DEF Cell
  <2>2. CASE k = RingCount + 1
    BY <1>0, <1>1, <1>2, <1>3, <1>4, <1>5, <2>1, <2>2, SMTT(30)
       DEF RingHolds, ConsoleType
  <2>3. CASE k \in 1..RingCount
    <3>1. ring'[Cell(k)] = ring[Cell(k)]
      BY <1>0, <1>1, <1>6, <2>3, ZenonT(30) DEF ConsoleType
    <3>2. ring[Cell(k)] = accepted[Len(taken) - Ahead + k]
      BY <1>0, <2>3, ZenonT(30) DEF RingHolds
    <3>3. Len(taken) - Ahead + k \in 1..Len(accepted)
      BY <1>0, <1>3, <1>4, <2>3, SMTT(30) DEF RingHolds, Ahead
    <3> QED
      BY <1>1, <1>2, <1>4, <2>1, <3>1, <3>2, <3>3, Zenon
  <2> QED
    BY <1>4, <2>2, <2>3, SMTT(30)
<1>8. \A i \in 1..Len(taken') : taken'[i] = accepted'[i]
  BY <1>0, <1>1, <1>2, <1>3, <1>4, SMTT(30) DEF RingHolds
<1>9. /\ Ahead' <= RingCount' /\ Ahead' <= Len(taken')
      /\ Len(accepted') = Len(taken') + RingCount' - Ahead'
  BY <1>0, <1>1, <1>2, <1>3, <1>4, SMTT(30) DEF RingHolds
<1> QED
  BY <1>7, <1>8, <1>9, Zenon DEF RingHolds

(* The interrupt handler reads the character at the tail, which counts as   *)
(* taken from then on.                                                      *)
LEMMA TakeHolds ==
    ASSUME CInv, Take PROVE RingHolds'
<1> USE ConsoleAssumption DEF Cells
<1>0. /\ ConsoleType /\ RingHolds /\ handler = "take" /\ UNCHANGED <<ring, head, tail, accepted>>
  BY Zenon DEF CInv, Take
<1>1. CASE handler' = "off" /\ UNCHANGED taken
  BY <1>0, <1>1, RingKept, Zenon DEF Ahead
<1>2. CASE ~Empty /\ taken' = Append(taken, ring[tail]) /\ handler' = "advance"
  <2>1. /\ RingCount' = RingCount /\ Ahead = 0 /\ Ahead' = 1 /\ RingCount > 0 /\ RingCount \in Nat
        /\ Cell(1) = tail /\ ring[tail] \in Nat
    BY <1>0, <1>2, SMTT(30) DEF ConsoleType, RingCount, Ahead, Empty, Cell
  <2>2. /\ Len(taken') = Len(taken) + 1
        /\ \A i \in 1..Len(taken) : taken'[i] = taken[i]
        /\ taken'[Len(taken) + 1] = ring[tail]
    BY <1>0, <1>2, <2>1, AppendProperties DEF ConsoleType
  <2>3. Len(taken) \in Nat /\ Len(accepted) \in Nat
    BY <1>0 DEF ConsoleType
  <2>4. ring[tail] = accepted[Len(taken) + 1]
    BY <1>0, <2>1, <2>3, SMTT(30) DEF RingHolds
  <2>5. \A i \in 1..Len(taken') : taken'[i] = accepted'[i]
    BY <1>0, <2>2, <2>3, <2>4, SMTT(30) DEF RingHolds
  <2>6. ASSUME NEW j \in 1..RingCount' PROVE ring'[Cell(j)'] = accepted'[Len(taken') - Ahead' + j]
    <3>1. Cell(j)' = Cell(j)
      BY <1>0, Zenon DEF Cell
    <3>2. ring[Cell(j)] = accepted[Len(taken) - Ahead + j]
      BY <1>0, <2>1, ZenonT(30) DEF RingHolds
    <3> QED
      BY <1>0, <2>1, <2>2, <2>3, <3>1, <3>2, SMTT(30)
  <2>7. /\ Ahead' <= RingCount' /\ Ahead' <= Len(taken')
        /\ Len(accepted') = Len(taken') + RingCount' - Ahead'
    BY <1>0, <2>1, <2>2, <2>3, SMTT(30) DEF RingHolds
  <2> QED
    BY <2>5, <2>6, <2>7, Zenon DEF RingHolds
<1> QED
  BY <1>1, <1>2, Zenon DEF Take

(* The handler moves the tail past the character it took.                   *)
LEMMA AdvanceHolds ==
    ASSUME CInv, Advance PROVE RingHolds' /\ tail' = After(tail) /\ head # tail
<1> USE ConsoleAssumption DEF Cells
<1>0. /\ ConsoleType /\ RingHolds /\ handler = "advance" /\ handler' = "take"
      /\ UNCHANGED <<ring, head, accepted, taken>>
  BY Zenon DEF CInv, Advance
<1>1. tail' = After(tail)
  BY <1>0, RingSteps, ZenonT(30) DEF ConsoleType, Advance
<1>2. /\ Ahead = 1 /\ Ahead' = 0 /\ RingCount \in Nat /\ RingCount > 0 /\ RingCount' = RingCount - 1
      /\ head # tail
  BY <1>0, <1>1 DEF RingHolds, ConsoleType, RingCount, Ahead, After
<1>3. Len(taken) \in Nat /\ Len(accepted) \in Nat
  BY <1>0, SMTT(30) DEF ConsoleType
<1>4. ASSUME NEW j \in 1..RingCount' PROVE ring'[Cell(j)'] = accepted'[Len(taken') - Ahead' + j]
  <2>1. Cell(j)' = Cell(j + 1) /\ j + 1 \in 1..RingCount
    BY <1>0, <1>1, <1>2, SMTT(30) DEF ConsoleType, Cell, After, RingCount
  <2>2. ring[Cell(j + 1)] = accepted[Len(taken) - Ahead + (j + 1)]
    BY <1>0, <2>1, Zenon DEF RingHolds
  <2> QED
    BY <1>0, <1>2, <1>3, <2>1, <2>2, SMTT(30)
<1>5. \A i \in 1..Len(taken') : taken'[i] = accepted'[i]
  BY <1>0, ZenonT(30) DEF RingHolds
<1>6. /\ Ahead' <= RingCount' /\ Ahead' <= Len(taken')
      /\ Len(accepted') = Len(taken') + RingCount' - Ahead'
  BY <1>0, <1>2, <1>3 DEF RingHolds
<1> QED
  BY <1>1, <1>2, <1>4, <1>5, <1>6, Zenon DEF RingHolds

(* Every step keeps the types.                                              *)
LEMMA ConsoleTypes == ASSUME CInv, TtyNext PROVE ConsoleType'
<1> USE ConsoleAssumption DEF Cells
<1>0. ConsoleType
  BY Zenon DEF CInv
<1>a. 0 \in Cells /\ NoService \in ServiceType /\ [NoService EXCEPT !.pc = "poll"] \in ServiceType
  <2>1. 0 \in Cells
    OBVIOUS
  <2>2. NoService \in ServiceType
    BY <2>1, Zenon DEF ServiceType, NoService
  <2> QED
    BY <2>1, <2>2, ZenonT(30) DEF ServiceType
<1>1. CASE Start
  BY <1>0, <1>1, <1>a, ZenonT(30) DEF Start, ConsoleType
<1>2. CASE Poll
  BY <1>0, <1>2, RingSteps, SMTT(30) DEF Poll, ConsoleType, ServiceType, After
<1>3. CASE Test \/ Trigger \/ ServiceEnds
  <2>1. CASE Test
    <3>1. service' \in ServiceType
      BY <1>0, <2>1, Zenon DEF Test, ConsoleType, ServiceType, Empty
    <3> QED
      BY <1>0, <2>1, <3>1, Zenon DEF Test, ConsoleType
  <2>2. CASE Trigger \/ ServiceEnds
    <3>1. service' \in ServiceType /\ irq' \in BOOLEAN
      BY <1>0, <1>a, <2>2, ZenonT(30)
         DEF Trigger, ServiceEnds, ConsoleType, ServiceType
    <3> QED
      BY <1>0, <2>2, <3>1, Zenon DEF Trigger, ServiceEnds, ConsoleType
  <2> QED
    BY <1>3, <2>1, <2>2, Zenon
<1>4. CASE Store
  <2>1. service.next \in Cells /\ service.char \in Nat
    BY <1>0, Zenon DEF ConsoleType, ServiceType
  <2>2. ring' \in [Cells -> Nat] /\ head' \in Cells /\ accepted' \in Seq(Nat)
    BY <1>0, <1>4, <2>1, AppendProperties, ZenonT(30) DEF Store, ConsoleType
  <2>3. service' \in ServiceType /\ raced' \in BOOLEAN
    BY <1>0, <1>4, Zenon DEF Store, ConsoleType, ServiceType, Empty
  <2> QED
    BY <1>0, <1>4, <2>2, <2>3, ZenonT(30) DEF Store, ConsoleType
<1>5. CASE Interrupt \/ Stop \/ StopReturns
  BY <1>0, <1>5, ZenonT(30) DEF Interrupt, Stop, StopReturns, ConsoleType
<1>6. CASE Take
  <2>0. ring[tail] \in Nat /\ taken \in Seq(Nat)
    BY <1>0, ZenonT(30) DEF ConsoleType
  <2>1. taken' \in Seq(Nat)
    <3>1. Append(taken, ring[tail]) \in Seq(Nat)
      BY <2>0, AppendProperties, Zenon
    <3> QED BY <1>6, <2>0, <3>1, ZenonT(30) DEF Take
  <2> QED
    BY <1>0, <1>6, <2>1 DEF Take, ConsoleType
<1>7. CASE Advance
  BY <1>0, <1>7, RingSteps, ZenonT(30) DEF Advance, ConsoleType, After
<1> QED
  BY <1>1, <1>2, <1>3, <1>4, <1>5, <1>6, <1>7, SMTT(30) DEF TtyNext

(* Every step leaves a ring that is not empty to somebody: a pending        *)
(* interrupt, the running handler, the thread about to trigger it, or the   *)
(* race that "raced" records.                                               *)
LEMMA ConsoleServed == ASSUME CInv, TtyNext PROVE RingServed'
<1>0. ConsoleType /\ RingServed
  BY Zenon DEF CInv
<1>1. CASE Start \/ Poll \/ Test \/ ServiceEnds
  BY <1>0, <1>1, ZenonT(30)
     DEF Start, Poll, Test, ServiceEnds, RingServed, Empty, NoService
<1>2. CASE Store
  BY <1>0, <1>2, ZenonT(30)
     DEF Store, RingServed, Empty, ConsoleType, ServiceType
<1>3. CASE Trigger
  BY <1>0, <1>3, ZenonT(30) DEF Trigger, RingServed, Empty, ConsoleType, ServiceType
<1>4. CASE Interrupt \/ Take \/ Advance \/ Stop \/ StopReturns
  BY <1>0, <1>4, Zenon
     DEF Interrupt, Take, Advance, Stop, StopReturns, RingServed, Empty
<1> QED
  BY <1>1, <1>2, <1>3, <1>4, ZenonT(30) DEF TtyNext

(* The invariant is inductive.                                              *)
LEMMA ConsoleStep == CInv /\ [TtyNext]_tty_vars => CInv'
<1> SUFFICES ASSUME CInv, [TtyNext]_tty_vars PROVE CInv'
  BY Zenon
<1> USE ConsoleAssumption DEF Cells
<1>0. ConsoleType /\ RingHolds /\ RoomLeft /\ NotStarted
  BY Zenon DEF CInv
<1>1. CASE UNCHANGED tty_vars
  <2>1. RingHolds'
    BY <1>0, <1>1, RingKept, ZenonT(30) DEF tty_vars, Ahead
  <2> QED
    BY <1>1, <2>1, Zenon
       DEF tty_vars, CInv, ConsoleType, RoomLeft, NotStarted, RingServed,
           Empty
<1>2. ASSUME TtyNext PROVE RingHolds' /\ RoomLeft' /\ NotStarted'
  <2>1. CASE Start
    BY <1>0, <2>1, RingKept, ZenonT(30)
       DEF Start, RoomLeft, NotStarted, Ahead, NoService
  <2>2. CASE Poll
    BY <1>0, <2>2, RingKept, RingSteps, ZenonT(30)
       DEF Poll, RoomLeft, NotStarted, Ahead, ConsoleType
  <2>3. CASE Test \/ Trigger \/ ServiceEnds
    <3>1. RingHolds'
      BY <1>0, <2>3, RingKept, ZenonT(30) DEF Test, Trigger, ServiceEnds, Ahead
    <3>2. RoomLeft'
      <4>1. CASE Test
        <5>1. service'.next = service.next /\ service.pc = "test"
          BY <1>0, <4>1, ZenonT(30) DEF Test, ConsoleType, ServiceType
        <5> QED
          BY <1>0, <4>1, <5>1, ZenonT(30) DEF Test, RoomLeft, After
      <4>2. CASE Trigger \/ ServiceEnds
        <5>1. service'.pc \in {"poll", "off"}
          BY <4>2 DEF Trigger, ServiceEnds, NoService
        <5> QED
          BY <5>1, Zenon DEF RoomLeft
      <4> QED
        BY <2>3, <4>1, <4>2, ZenonT(30)
    <3>3. NotStarted'
      BY <1>0, <2>3, Zenon DEF Test, Trigger, ServiceEnds, NotStarted
    <3> QED
      BY <3>1, <3>2, <3>3, ZenonT(30)
  <2>4. CASE Store
    BY <1>0, <2>4, StoreHolds, ZenonT(30)
       DEF Store, RoomLeft, NotStarted, ConsoleType, ServiceType
  <2>5. CASE Interrupt \/ Stop \/ StopReturns
    BY <1>0, <2>5, RingKept, ZenonT(30)
       DEF Interrupt, Stop, StopReturns, RoomLeft, NotStarted, Ahead
  <2>6. CASE Take
    BY <1>0, <2>6, TakeHolds, Zenon DEF Take, RoomLeft, NotStarted
  <2>7. CASE Advance
    <3>0. tail' = After(tail) /\ head # tail /\ UNCHANGED <<head, service>>
      BY <2>7, AdvanceHolds, ZenonT(30) DEF Advance
    <3>1. RoomLeft'
      BY <1>0, <3>0 DEF RoomLeft, After, ConsoleType
    <3> QED
      BY <1>0, <2>7, <3>1, AdvanceHolds, ZenonT(30) DEF Advance, NotStarted
  <2> QED
    BY <1>2, <2>1, <2>2, <2>3, <2>4, <2>5, <2>6, <2>7, SMTT(30) DEF TtyNext
<1> QED
  BY <1>1, <1>2, ConsoleTypes, ConsoleServed, ZenonT(30) DEF CInv

(* The characters taken and those still in the ring are, in this order,     *)
(* the characters accepted.                                                 *)
LEMMA InOrder == CInv => ConsoleInOrder
<1> SUFFICES ASSUME CInv PROVE ConsoleInOrder
  BY Zenon
<1> USE ConsoleAssumption DEF Cells
<1> DEFINE rest == IF handler = "advance" THEN Tail(Held) ELSE Held
<1>0. ConsoleType /\ RingHolds
  BY Zenon DEF CInv
<1>1. /\ RingCount \in Nat /\ (head - tail) % RingSize = RingCount
      /\ \A j \in 1..RingCount : (tail + j - 1) % RingSize = Cell(j) /\ Cell(j) \in Cells
  BY <1>0, RingSteps, SMTT(30) DEF ConsoleType
<1>2. Held = [j \in 1..RingCount |-> ring[Cell(j)]] /\ Held \in [1..RingCount -> Nat]
  BY <1>0, <1>1, ZenonT(30) DEF Held, ConsoleType
<1>3. Held \in Seq(Nat) /\ Len(Held) = RingCount
  BY <1>1, <1>2, SeqDef
<1>4. \A j \in 1..RingCount : Held[j] = ring[Cell(j)]
  BY <1>2, Zenon
<1>5. Len(taken) \in Nat /\ Len(accepted) \in Nat /\ Ahead \in {0, 1}
  BY <1>0, SMTT(30) DEF ConsoleType, Ahead
<1>6. /\ rest \in Seq(Nat) /\ Len(rest) = RingCount - Ahead
      /\ \A j \in 1..Len(rest) : rest[j] = Held[j + Ahead]
  <2>1. CASE handler = "advance"
    <3>1. Held # <<>>
      BY <1>0, <1>3, <2>1, SMTT(30) DEF RingHolds, Ahead
    <3> QED
      BY <1>3, <2>1, <3>1, HeadTailProperties, Zenon DEF Ahead
  <2>2. CASE handler # "advance"
    BY <1>3, <2>2, SMTT(30) DEF Ahead
  <2> QED
    BY <2>1, <2>2, Zenon
<1> HIDE DEF rest
<1>7. /\ taken \o rest \in Seq(Nat) /\ Len(taken \o rest) = Len(taken) + Len(rest)
      /\ \A i \in 1..Len(taken) + Len(rest) :
            (taken \o rest)[i] = IF i <= Len(taken) THEN taken[i] ELSE rest[i - Len(taken)]
  BY <1>0, <1>6, ConcatProperties, ZenonT(30) DEF ConsoleType
<1>8. Len(accepted) = Len(taken \o rest)
  BY <1>0, <1>6, <1>7, Zenon DEF RingHolds
<1>9. ASSUME NEW i \in 1..Len(accepted) PROVE accepted[i] = (taken \o rest)[i]
  <2>1. CASE i <= Len(taken)
    BY <1>0, <1>5, <1>7, <1>8, <2>1, SMTT(30) DEF RingHolds
  <2>2. CASE i > Len(taken)
    <3> DEFINE j == i - Len(taken)
    <3>0. Len(accepted) = Len(taken) + Len(rest) /\ Len(rest) = RingCount - Ahead
      BY <1>6, <1>7, <1>8, ZenonT(30)
    <3>1. j \in 1..Len(rest) /\ j + Ahead \in 1..RingCount
      BY <1>1, <1>5, <2>2, <3>0, SMTT(30)
    <3>2. rest[j] = ring[Cell(j + Ahead)]
      BY <1>4, <1>6, <3>1, Zenon
    <3>3. ring[Cell(j + Ahead)] = accepted[Len(taken) - Ahead + (j + Ahead)]
      BY <1>0, <3>1, Zenon DEF RingHolds
    <3>4. Len(taken) - Ahead + (j + Ahead) = i
      BY <1>5
    <3> QED
      BY <1>5, <1>7, <1>8, <2>2, <3>2, <3>3, <3>4, SMTT(30)
  <2>3. i <= Len(taken) \/ i > Len(taken)
    BY <1>5, SMTT(30)
  <2> QED
    BY <2>1, <2>2, <2>3, ZenonT(30)
<1>10. accepted = taken \o rest
  BY <1>0, <1>7, <1>8, <1>9, SeqEqual, Zenon DEF ConsoleType
<1> QED
  BY <1>10, Zenon DEF ConsoleInOrder, rest

(* LKL reads the characters that the console thread accepted, each once and *)
(* in the order they were typed: for any size of the ring, and though the   *)
(* thread and the interrupt handler share head and tail without a lock.     *)
THEOREM CharactersInOrder == TtySpec => []ConsoleInOrder
<1>1. TtySpec => []CInv
  BY ConsoleInits, ConsoleStep, PTL DEF TtySpec
<1> QED
  BY <1>1, InOrder, PTL

(* No character is left in the ring without an interrupt to fetch it, the   *)
(* handler at work or the thread about to trigger one, but for the race in  *)
(* which the handler empties the ring between the thread's test and store.  *)
THEOREM CharactersServed == TtySpec => []RingServed
<1>1. CInv => RingServed
  BY Zenon DEF CInv
<1>2. TtySpec => []CInv
  BY ConsoleInits, ConsoleStep, PTL DEF TtySpec
<1> QED
  BY <1>1, <1>2, PTL
============================================================================
