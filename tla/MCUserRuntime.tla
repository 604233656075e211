--------------------------- MODULE MCUserRuntime ---------------------------
(***************************************************************************)
(* The user-mode runtime of BusyBox, side by side: its heap, the static    *)
(* applets with their pipelines, and the descriptors and streams of one    *)
(* applet.  They share no state, so a behaviour is one of a single part.   *)
(*                                                                         *)
(*   heap      Two threads in a heap of twelve units: room for three       *)
(*             pieces, so that all merges happen, or for one large piece.  *)
(*   applets   Three worker slots and pipes of one unit: a pipeline of     *)
(*             three takes them all, a writer fills a pipe, and every      *)
(*             start may fail.                                             *)
(*   stdio     Two virtual descriptors, files of three bytes and a buffer  *)
(*             of two: read-ahead, short reads and reuse of a number.      *)
(***************************************************************************)
EXTENDS UserHeap, StaticRuntime, Stdio

VARIABLE part

OneCommands == {"cat", "usage"}
SomePipelines == {<<"printf", "head">>, <<"printf", "cat", "false">>, <<"vi", "cat">>}

SomeSeeks == {<<"set", 1>>, <<"cur", -1>>, <<"cur", 0>>, <<"cur", 1>>, <<"end", 0>>}

UserInit ==
    /\ part \in {"heap", "applets", "stdio"}
    /\ MallocInit /\ AppletInit /\ StdioInit
    /\ part = "stdio" \/ \A o \in Opens : ~off[o].pipe

UserNext ==
    /\ UNCHANGED part
    /\ \/ /\ part = "heap" /\ MallocNext /\ UNCHANGED <<applet_vars, stdio_vars>>
       \/ /\ part = "applets" /\ AppletNext /\ UNCHANGED <<heap_vars, stdio_vars>>
       \/ /\ part = "stdio" /\ StdioNext /\ UNCHANGED <<heap_vars, applet_vars>>

UserSpec ==
    /\ UserInit /\ [][UserNext]_<<part, heap_vars, applet_vars, stdio_vars>>
    /\ WF_applet_vars(part = "applets" /\ ShellStep)
    /\ \A s \in Slots : WF_applet_vars(part = "applets" /\ Worker(s))
=============================================================================
