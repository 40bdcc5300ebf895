------------------------- MODULE MCControllableClock -------------------------
(* Small instances of ControllableClock for TLC. *)
EXTENDS ControllableClock
=============================================================================
