------------------------------ MODULE MCNetRx ------------------------------
(* A ring of four entries, three of which can be used, that wraps, and a    *)
(* window of fewer packets.                                                 *)
EXTENDS NetRx
=============================================================================
