------------------------------- MODULE Stdio -------------------------------
(***************************************************************************)
(* The descriptors and streams of one static applet (lkl_task_user.c):     *)
(* descriptors 0 to 2 are virtual and mapped to kernel descriptors, stdin  *)
(* has a read-ahead buffer that getc fills and read drains, and FILE       *)
(* objects read through a kernel descriptor with one ungot character.      *)
(* Applets are threads of one LKL process: all share its descriptor table, *)
(* so a number this applet has closed may be another's next.               *)
(*                                                                         *)
(* A byte is its position in its file.  External: the kernel's descriptor  *)
(* table and open files; the applet makes any sequence of calls.  While    *)
(* it has a FILE it uses that file and its descriptor through the FILE.    *)
(***************************************************************************)
EXTENDS Integers, Sequences, FiniteSetsExt

CONSTANTS Virtual,    \* the virtual descriptors, 0..2 in the code
          Fds,        \* kernel descriptor numbers, above 2
          Opens,      \* open file descriptions
          FileLen,    \* bytes in a file
          BufSize,    \* the stdin buffer
          Counts,     \* sizes of a read
          Seeks       \* the seeks made: whence and distance

VARIABLES table,      \* kernel: per number, its open file
          off,        \* kernel: per open file, its offset and whether a pipe
          fd_map,     \* worker->fd_map
          buf,        \* the unread part of worker->stdin_buffer
          file,       \* a FILE: descriptor, ungot, eof
          pos,        \* history: bytes of stdin the applet has consumed
          fpos,       \* history: bytes of the FILE it has consumed
          lost,       \* history: read-ahead of this stdin was dropped
          skipped,    \* history: a relative fseek passed over an ungot byte
          aliased     \* history: a FILE over a virtual descriptor was closed

kernel == <<table, off>>
stream == <<file, fpos, skipped>>
input == <<buf, pos, lost>>
stdio_vars == <<kernel, fd_map, input, stream, aliased>>

Unused == "unused"
Closed == -1
NoByte == -1
NoFile == [fd |-> Closed, ungot |-> NoByte, eof |-> FALSE]

ASSUME StdioAssumption ==
    /\ Virtual \subseteq Nat /\ 0 \in Virtual
    /\ Fds \subseteq Nat /\ {Min(Fds) + v : v \in Virtual} \subseteq Fds
    /\ Opens # {} /\ Unused \notin Opens
    /\ FileLen \in Nat \ {0} /\ BufSize \in Nat \ {0}
    /\ Counts \subseteq Nat \ {0}
    /\ Seeks \subseteq {"set", "cur", "end"} \X Int

FreeFds == {n \in Fds : table[n] = Unused}
FreeOpens == {o \in Opens : \A n \in Fds : table[n] # o}
Lowest == Min(FreeFds)
Stdin == table[fd_map[0]]
Readable(n) == n # Closed /\ table[n] # Unused
\* The open files this applet reads through stdin and through the FILE.
Through == IF Readable(fd_map[0]) THEN {Stdin} ELSE {}
Streamed == IF Readable(file.fd) THEN {table[file.fd]} ELSE {}

\* The applet starts with its three descriptors duplicated from the shell's.
Shells == CHOOSE o \in Opens : TRUE

StdioInit == /\ table = [n \in Fds |-> IF n - Min(Fds) \in Virtual THEN Shells ELSE Unused]
             /\ \E pipe \in BOOLEAN :
                  off = [p \in Opens |-> [at |-> 0, pipe |-> pipe /\ p = Shells]]
             /\ fd_map = [v \in Virtual |-> Min(Fds) + v]
             /\ buf = <<>> /\ pos = 0 /\ lost = FALSE
             /\ file = NoFile /\ fpos = 0 /\ skipped = FALSE
             /\ aliased = FALSE

----------------------------------------------------------------------------
(* Kernel calls                                                            *)

\* How many bytes a read of n may return: a pipe may have fewer at hand.
Returned(o, n) ==
    LET most == Min({n, FileLen - off[o].at})
    IN  IF off[o].pipe /\ most > 0 THEN 1..most ELSE {most}
ReadBy(o, k) == off' = [off EXCEPT ![o].at = @ + k]
Bytes(o, k) == [i \in 1..k |-> off[o].at + i]

\* Where a seek from position `from` leads; a negative target and a pipe are
\* refused.  Bound: no seek past the end of the file.
Target(from, whence, d) ==
    d + CASE whence = "set" -> 0 [] whence = "cur" -> from [] whence = "end" -> FileLen
Seekable(o, to) == ~off[o].pipe /\ to >= 0

\* The descriptor table becomes t: an open file goes with its last number.
Tabled(t) ==
    /\ table' = t
    /\ off' = [o \in Opens |-> IF \E n \in Fds : t[n] = o THEN off[o]
                               ELSE [at |-> 0, pipe |-> FALSE]]

\* lkl_sys_close of the numbers in ns.
KernelClose(ns) == Tabled([n \in Fds |-> IF n \in ns THEN Unused ELSE table[n]])

----------------------------------------------------------------------------
(* Descriptors: luna_bb_open, _close, _dup, _dup2, _lseek                  *)

\* luna_bb_open: the lowest closed virtual descriptor, else the kernel's.
\* It leaves the stdin buffer alone; luna_bb_close has emptied it.
OpenTo(o, pipe) ==
    LET closed == {v \in Virtual : fd_map[v] = Closed} IN
    /\ FreeFds # {}
    /\ table' = [table EXCEPT ![Lowest] = o]
    /\ off' = [off EXCEPT ![o] = [at |-> 0, pipe |-> pipe]]
    /\ fd_map' = IF closed = {} THEN fd_map ELSE [fd_map EXCEPT ![Min(closed)] = Lowest]
    /\ UNCHANGED input

Open(o, pipe) ==
    /\ o \in FreeOpens /\ OpenTo(o, pipe)
    /\ UNCHANGED <<stream, aliased>>

\* Mutant: the descriptor stays in the map.
CloseKeepingMap(v) ==
    /\ fd_map[v] \notin {Closed, file.fd}
    /\ IF v = 0 THEN buf' = <<>> /\ pos' = 0 /\ lost' = FALSE ELSE UNCHANGED input
    /\ KernelClose({fd_map[v]})
    /\ UNCHANGED <<fd_map, stream, aliased>>

\* luna_bb_close of a virtual descriptor.
Close(v) ==
    /\ fd_map[v] \notin {Closed, file.fd}
    /\ fd_map' = [fd_map EXCEPT ![v] = Closed]
    /\ IF v = 0 THEN buf' = <<>> /\ pos' = 0 /\ lost' = FALSE ELSE UNCHANGED input
    /\ KernelClose({fd_map[v]})
    /\ UNCHANGED <<stream, aliased>>

\* The descriptors the applet knows by their kernel number.
Known == {n \in Fds : table[n] # Unused /\ n \notin {fd_map[v] : v \in Virtual}
                      /\ n # file.fd}

\* luna_bb_close of another descriptor.
CloseKnown(n) ==
    /\ n \in Known /\ KernelClose({n})
    /\ UNCHANGED <<fd_map, input, stream, aliased>>

\* luna_bb_dup: of any descriptor of the applet, by bb_fd.
Dup(n) ==
    /\ Readable(n) /\ n # file.fd /\ FreeFds # {}
    /\ table' = [table EXCEPT ![Lowest] = table[n]]
    /\ UNCHANGED <<off, fd_map, input, stream, aliased>>

\* luna_bb_dup2 of another descriptor, virtual or not, onto a virtual one: a
\* duplicate, then the old one closed and the buffer of stdin dropped.  With
\* the same open file as before the read-ahead is lost to the applet.
Dup2(n, v) ==
    LET old == {fd_map[v]} \ {Closed} IN
    /\ Readable(n) /\ n \notin old /\ FreeFds # {} /\ table[n] \notin Streamed
    /\ fd_map[v] = Closed \/ fd_map[v] # file.fd
    /\ Tabled([m \in Fds |-> IF m \in old THEN Unused
                            ELSE IF m = Lowest THEN table[n] ELSE table[m]])
    /\ fd_map' = [fd_map EXCEPT ![v] = Lowest]
    /\ IF v = 0
       THEN /\ buf' = <<>> /\ pos' = off[table[n]].at
            /\ lost' = (table[n] \in Through /\ (lost \/ buf # <<>>))
       ELSE UNCHANGED input
    /\ UNCHANGED <<stream, aliased>>

\* luna_bb_lseek of stdin to kernel offset `to`, which the applet means to be
\* `asked`: the buffer is dropped, also when the kernel refuses.  Then the
\* applet goes on at the kernel's offset.
SeekStdin(whence, to, asked) ==
    /\ Readable(fd_map[0]) /\ Stdin \notin Streamed
    /\ to <= FileLen
    /\ IF Seekable(Stdin, to)
       THEN /\ off' = [off EXCEPT ![Stdin].at = to]
            /\ lost' = (lost /\ whence = "cur")
            /\ pos' = asked
       ELSE /\ lost' = (lost \/ buf # <<>>)
            /\ pos' = off[Stdin].at
            /\ UNCHANGED off
    /\ buf' = <<>>
    /\ UNCHANGED <<table, fd_map, stream, aliased>>

\* Mutant: the read-ahead is not taken off the offset.
LseekIgnoringBuffer(whence, d) ==
    SeekStdin(whence, Target(off[Stdin].at, whence, d), Target(pos, whence, d))

\* luna_bb_lseek(0, d, whence): a relative seek is corrected by the read-ahead.
Lseek(whence, d) ==
    SeekStdin(whence, Target(off[Stdin].at - Len(buf), whence, d),
              Target(pos, whence, d))

----------------------------------------------------------------------------
(* Reading stdin: luna_bb_read(0), luna_bb_getc(stdin), luna_bb_fread      *)

\* luna_bb_read: the buffered bytes, then the kernel's; luna_bb_fread
\* repeats it.  When the kernel's read fails (k = 0) the buffered bytes are
\* returned all the same.
Read(count) ==
    /\ Readable(fd_map[0]) /\ Stdin \notin Streamed
    /\ IF count <= Len(buf)
       THEN /\ buf' = SubSeq(buf, count + 1, Len(buf))
            /\ pos' = pos + count
            /\ UNCHANGED off
       ELSE \E k \in {0} \cup Returned(Stdin, count - Len(buf)) :
            /\ buf' = <<>> /\ ReadBy(Stdin, k)
            /\ pos' = pos + Len(buf) + k
    /\ UNCHANGED <<table, fd_map, stream, aliased, lost>>

\* luna_bb_getc(stdin): fill the buffer when it is empty, take a byte of it;
\* EOF at the end and when the read fails.
Getc ==
    /\ Readable(fd_map[0]) /\ Stdin \notin Streamed
    /\ IF buf # <<>>
       THEN buf' = Tail(buf) /\ pos' = pos + 1 /\ UNCHANGED off
       ELSE \E k \in {0} \cup Returned(Stdin, BufSize) :
            /\ ReadBy(Stdin, k)
            /\ buf' = IF k = 0 THEN <<>> ELSE Tail(Bytes(Stdin, k))
            /\ pos' = IF k = 0 THEN pos ELSE pos + 1
    /\ UNCHANGED <<table, fd_map, stream, aliased, lost>>

----------------------------------------------------------------------------
(* FILE objects: luna_bb_fopen, _fdopen, _fclose, _getc, _fread, _ungetc,   *)
(* _fseek                                                                  *)

\* luna_bb_fopen opens like luna_bb_open; the FILE keeps the kernel number.
\* With no memory for the FILE the descriptor is closed again.
Fopen(o, pipe) ==
    /\ file = NoFile /\ o \in FreeOpens /\ OpenTo(o, pipe)
    /\ file' = [NoFile EXCEPT !.fd = Lowest] /\ fpos' = 0 /\ skipped' = FALSE
    /\ UNCHANGED aliased

\* luna_bb_fdopen of a descriptor the applet opened.
Fdopen(n) ==
    /\ file = NoFile /\ n \in Known /\ table[n] \notin Through
    /\ file' = [NoFile EXCEPT !.fd = n] /\ fpos' = off[table[n]].at
    /\ skipped' = FALSE
    /\ UNCHANGED <<kernel, fd_map, input, aliased>>

\* luna_bb_fclose closes the kernel number; fd_map may still name it.
Fclose ==
    /\ file # NoFile
    /\ KernelClose({file.fd})
    /\ aliased' = (aliased \/ \E v \in Virtual : fd_map[v] = file.fd)
    /\ file' = NoFile /\ fpos' = 0 /\ skipped' = FALSE
    /\ UNCHANGED <<fd_map, input>>

Streaming == Readable(file.fd)

\* luna_bb_getc (count 1) and luna_bb_fread: the ungot character first, the
\* rest from the kernel; eof is what the last kernel read said, unless the
\* read failed.
Fread(count) ==
    LET o == table[file.fd]
        u == IF file.ungot # NoByte THEN 1 ELSE 0
        Taken(eof) == file' = [file EXCEPT !.ungot = NoByte, !.eof = eof]
    IN
    /\ Streaming
    /\ \/ /\ count >= u                  \* nothing to read, or the read fails
          /\ Taken(file.eof /\ u = 0)
          /\ fpos' = fpos + u /\ UNCHANGED off
       \/ /\ count > u
          /\ \E k \in Returned(o, count - u) :
               /\ ReadBy(o, k)
               /\ Taken(k = 0 \/ (file.eof /\ u = 0))
               /\ fpos' = fpos + u + k
    /\ UNCHANGED <<table, fd_map, input, aliased, skipped>>

\* luna_bb_ungetc of the last character read.
Ungetc ==
    /\ Streaming /\ file.ungot = NoByte /\ fpos > 0
    /\ file' = [file EXCEPT !.ungot = fpos, !.eof = FALSE]
    /\ fpos' = fpos - 1
    /\ UNCHANGED <<kernel, fd_map, input, aliased, skipped>>

\* luna_bb_fseek and luna_bb_rewind.  A seek the kernel refuses changes
\* nothing; otherwise the ungot character is dropped.  A relative seek does
\* not take it off the kernel's offset and so passes over a byte; the applet
\* then goes on from there.
Fseek(whence, d) ==
    LET o == table[file.fd]
        to == Target(off[o].at, whence, d)
    IN
    /\ Streaming /\ to <= FileLen /\ Seekable(o, to)
    /\ off' = [off EXCEPT ![o].at = to]
    /\ file' = [file EXCEPT !.ungot = NoByte, !.eof = FALSE]
    /\ skipped' = (whence = "cur" /\ (skipped \/ file.ungot # NoByte))
    /\ fpos' = IF skipped' THEN to ELSE Target(fpos, whence, d)
    /\ UNCHANGED <<table, fd_map, input, aliased>>

----------------------------------------------------------------------------
Call ==
    \/ Getc \/ Fclose \/ Ungetc
    \/ \E o \in Opens, pipe \in BOOLEAN : Open(o, pipe) \/ Fopen(o, pipe)
    \/ \E v \in Virtual : Close(v)
    \/ \E n \in Fds : CloseKnown(n) \/ Fdopen(n) \/ Dup(n) \/ \E v \in Virtual : Dup2(n, v)
    \/ \E c \in Counts : Read(c) \/ Fread(c)
    \/ \E k \in Seeks : Lseek(k[1], k[2]) \/ Fseek(k[1], k[2])

\* An applet that has closed a FILE over a virtual descriptor is followed no
\* further: fd_map names a number that is not its own.
StdioNext == ~aliased /\ Call

StdioSpec == StdioInit /\ [][StdioNext]_stdio_vars

----------------------------------------------------------------------------
(* Properties                                                              *)

(* The applet reads the bytes of stdin in order, none lost and none twice, *)
(* however it mixes getc, fread, read, lseek, dup2, close and open: the    *)
(* read-ahead is what lies between what it consumed and the kernel's       *)
(* offset (luna_bb_read, luna_bb_getc, luna_bb_lseek).  The exceptions     *)
(* drop read-ahead: an lseek the kernel refuses, and a dup2 onto stdin of  *)
(* the file it reads already.                                              *)
StdinExact ==
    Readable(fd_map[0]) /\ Stdin \notin Streamed /\ ~lost =>
        /\ buf = [i \in 1..Len(buf) |-> pos + i]
        /\ off[Stdin].at = pos + Len(buf)

(* A FILE returns the bytes of its file in order, an ungot one again, and  *)
(* feof only at the end (luna_bb_getc, luna_bb_fread, luna_bb_ungetc,      *)
(* luna_bb_fseek).  The exception is a relative fseek with a character     *)
(* ungot, which passes over a byte: until the next absolute one the FILE   *)
(* is not where the applet asked it to be.                                 *)
StreamExact ==
    Streaming /\ ~skipped =>
        LET ungot == IF file.ungot # NoByte THEN 1 ELSE 0 IN
        /\ ungot = 1 => file.ungot = fpos + 1
        /\ off[table[file.fd]].at = fpos + ungot
        /\ file.eof => fpos = FileLen

(* Input is exact: stdin and a FILE each return the bytes in order.        *)
InputExact == StdinExact /\ StreamExact

(* The applet's descriptors are its own: fd_map never names a number that  *)
(* is closed, which the end of the applet would close again after another  *)
(* has got it (luna_bb_open, _close, _dup2).  The exception is a FILE      *)
(* opened over a virtual descriptor: luna_bb_fclose leaves it in fd_map.   *)
MapNamesOpen ==
    /\ ~aliased => \A v \in Virtual : fd_map[v] # Closed => Readable(fd_map[v])
    /\ \A v, w \in Virtual : fd_map[v] = fd_map[w] => v = w \/ fd_map[v] = Closed
=============================================================================
