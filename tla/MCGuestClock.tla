---------------------------- MODULE MCGuestClock -----------------------------
(* GuestClock over a few slices of a few ticks each.                       *)
EXTENDS GuestClock

MCDeadlines == {1, 3, 5}
=============================================================================
