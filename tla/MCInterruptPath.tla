-------------------------- MODULE MCInterruptPath ----------------------------
(* InterruptPath with two priorities and a threshold that masks one.       *)
EXTENDS InterruptPath

MCPriorities == {1, 2}
MCThresholds == {0, 1}
=============================================================================
