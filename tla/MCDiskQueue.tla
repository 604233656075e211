---------------------------- MODULE MCDiskQueue ----------------------------
(* Two batches of two chunks and two blocks: a write request can fill a      *)
(* batch and start the next, and the writer can run out of batches.          *)
EXTENDS DiskQueue

MCBlocks == {"p", "q"}
MCRequests == {<<"p">>, <<"q", "p">>}
=============================================================================
