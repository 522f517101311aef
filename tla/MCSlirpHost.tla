----------------------------- MODULE MCSlirpHost -----------------------------
(* Small instance of SlirpHost: two callers and a frame for the guest, or  *)
(* one caller and two frames each way.                                     *)
EXTENDS SlirpHost

CONSTANTS c1, c2

MCLoads == {[callers |-> {c1, c2}, in |-> 0, out |-> 1], [callers |-> {c1}, in |-> 2, out |-> 2]}
=============================================================================
