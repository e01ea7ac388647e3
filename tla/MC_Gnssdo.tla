----------------------------- MODULE MC_Gnssdo -----------------------------
(* One second is 100 ticks.  The spacings sit on and beside every boundary   *)
(* the code compares to: backwards, glitch, tolerance (80/120), emergency    *)
(* stop (92/108), converge gate (96/104), residual gate, one missed pulse.   *)
EXTENDS DisciplinedTime
MCDeltas == {-30, 0, 40, 79, 80, 92, 93, 95, 96, 99, 100, 101, 104, 105, 107, 108, 120, 121, 200, 205}
=============================================================================
