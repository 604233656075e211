---------------------------- MODULE MCLifecycle ----------------------------
(* The manager's life with a small pool, window and heap. *)
EXTENDS Lifecycle
=============================================================================
