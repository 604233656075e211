-------------------------- MODULE MCStaticRollback --------------------------
(* A background job holds one of three worker slots, so a pipeline of three *)
(* fails half-way: its first stage ends, its second reads from a pipe whose *)
(* writing end the launcher still holds.                                    *)
EXTENDS StaticRuntime

Background == {"false"}
Exhausting == {<<"false", "cat", "cat">>}
=============================================================================
