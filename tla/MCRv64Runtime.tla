--------------------------- MODULE MCRv64Runtime ---------------------------
(* Model values for the TLC runs of Rv64Runtime.                           *)
EXTENDS Rv64Runtime, TLC

CONSTANTS c1, c2

TwoCalls == {c1, c2}
OneCall == {c1}
=============================================================================
