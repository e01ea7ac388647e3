---------------------------- MODULE MC_PhaseLoop ----------------------------
EXTENDS PhaseLoop
SteadyGains == [alpha |-> 4, beta |-> 16, pgain |-> 4]
FastGains == [alpha |-> 2, beta |-> 8, pgain |-> 2]
Starts == {100}
Residues == {12}
BadCaptures == {-70}
Kicks == {60}
Moments == {0, 2, 6, 40}
=============================================================================
