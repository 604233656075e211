------------------------------ MODULE MCNetTx ------------------------------
(* A queue of one or two packets, one DMA buffer and a budget of one: every *)
(* limit is reached, and the sequence words wrap.                           *)
EXTENDS NetTx

\* The interactive child, the only one that uses the network.
LastChild == <<TRUE>>
=============================================================================
