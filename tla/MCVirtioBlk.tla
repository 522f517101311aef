---------------------------- MODULE MCVirtioBlk ------------------------------
(* VirtioBlk on a queue of two entries whose indices wrap at four.         *)
EXTENDS VirtioBlk
=============================================================================
