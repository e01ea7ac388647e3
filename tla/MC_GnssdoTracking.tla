------------------------- MODULE MC_GnssdoTracking -------------------------
(* An honest second is 103 ticks and the counter turns over every 603 (the    *)
(* code: 62.5 M ticks, 2^32), so that, as in the code, an outage of whole     *)
(* seconds can fold back to any phase of a second.                            *)
EXTENDS GnssdoTracking
\* multipath on both sides of the honest edge
MCMultipath == {96, 99, 102, 104, 107, 110}
\* a glitch, an edge outside the tolerance, missed pulses, a whole turn of the
\* counter (interval 0) and outages past it that do not fold back to a second
MCGaps == {40, 79, 206, 309, 603, 618, 824}
MCSpacings == MCMultipath \cup MCGaps
\* the one multipath edge of the lockout run, inside the converge gate
MCLateMultipath == {107}
=============================================================================
