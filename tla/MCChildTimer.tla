---------------------------- MODULE MCChildTimer ----------------------------
(* The child's timer and the manager's, with one client thread and the      *)
(* callback, which sets the timer too.                                      *)
EXTENDS ChildTimer
=============================================================================
