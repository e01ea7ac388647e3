------------------------- MODULE MC_BootCalibration -------------------------
(* A receiver whose intervals agree to a tick.                                *)
EXTENDS BootCalibration
Steady == {8, 9}
=============================================================================
