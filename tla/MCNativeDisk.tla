---------------------------- MODULE MCNativeDisk ----------------------------
(* A disk of three blocks in lines of two, a cache of one line.            *)
EXTENDS NativeDisk, TLC

CONSTANTS v0, v1

MCBlocks == 0 .. 2
MCValues == {v0, v1}
MCImage == [b \in MCBlocks |-> v0]
=============================================================================
