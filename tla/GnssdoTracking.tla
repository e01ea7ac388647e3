--------------------------- MODULE GnssdoTracking ---------------------------
(***************************************************************************)
(* The edge path and the temperature feedforward driven by a receiver and a *)
(* crystal.  Honest edges are apart by what the crystal's temperature makes *)
(* of a second.  A bounded number of times the receiver is disturbed: gaps, *)
(* outages longer than the counter's span, glitches, and multipath edges    *)
(* that are off by a few ticks but look like a lock; or the temperature     *)
(* changes.                                                                *)
(***************************************************************************)
EXTENDS TempFeedforward

CONSTANTS
  Honest,          \* spacing of the honest edges at temperature 0
  Tempco,          \* ticks it grows by with each step of the temperature
  Temps,           \* the temperatures
  ReadFrom,        \* samples in when the phase loop may lock and read it (lock_hold)
  Multipath,       \* the disturbed spacings that are multipath
  MultipathFrom,   \* multipath only once this many samples are in
  MaxDisturbances, \* bound on the disturbed edges and glitches of the sensor
  MaxWarmings      \* bound on the changes of the temperature

\* the crystal is never so far off that an honest edge is no lock
ASSUME HonestAssumption ==
  \A t \in Temps : Honest + Tempco * t \in Nat /\ ~Disturbed(Honest + Tempco * t)

VARIABLES
  ambient,         \* the temperature
  heard,           \* it has been read since the last edge
  left,            \* disturbances still to come
  warmings         \* changes of the temperature still to come

tvars == <<fvars, ambient, heard, left, warmings>>

HonestSpacing == Honest + Tempco * ambient
Offset == (HonestSpacing - Nominal) * Scale

HonestEdge ==
  /\ OnPpsEdgeLearning(HonestSpacing)
  /\ heard' = FALSE /\ UNCHANGED <<ambient, left, warmings>>

\* a multipath edge finds an estimate that has caught up with the temperature
CaughtUp == Abs(Offset - freq) <= Scale

DisturbedEdge ==
  /\ left > 0
  /\ \E spacing \in Spacings :
       /\ spacing \in Multipath => samples >= MultipathFrom /\ (warmings < MaxWarmings => CaughtUp)
       /\ OnPpsEdgeLearning(spacing)
  /\ heard' = FALSE /\ left' = left - 1 /\ UNCHANGED <<ambient, warmings>>

\* gen_capture_task, on an output edge with the phase loop locked
ReadTemp ==
  /\ samples >= ReadFrom /\ ~heard
  /\ heard' = TRUE
  /\ \/ UpdateTemp(ambient) /\ UNCHANGED left
     \/ /\ left > 0 /\ left' = left - 1
        /\ \E glitch \in Temps \ {ambient} : UpdateTemp(glitch)
  /\ UNCHANGED <<ambient, warmings>>

\* slowly: the edges stay inside the gate
Warm ==
  /\ warmings > 0 /\ warmings' = warmings - 1
  /\ IsLocked /\ CaughtUp
  /\ \E t \in Temps \intersect {ambient - 1, ambient + 1} : ambient' = t
  /\ UNCHANGED <<fvars, heard, left>>

TInit == FInit /\ ambient \in Temps /\ heard = FALSE /\ left = MaxDisturbances
         /\ warmings = MaxWarmings
TNext == HonestEdge \/ DisturbedEdge \/ ReadTemp \/ Warm

(* The receiver keeps producing edges and every one of them reaches on_pps.   *)
TSpec == TInit /\ [][TNext]_tvars /\ WF_tvars(HonestEdge)
-----------------------------------------------------------------------------
(* Once the receiver is honest again, every edge is eventually applied: no    *)
(* combination of gates and quarantine rejects good edges for ever.           *)
HonestEdgesApplied == <>[](outcome = "Applied")

(* ... and the estimate ends up on the crystal's offset, less the residue the *)
(* rounding-down shifts leave (a residual below SlopeDiv moves no slope).     *)
Converges == <>[](Abs(Offset - Projected) < SlopeDiv)

(* Nor does the feedforward lead the output astray: at whatever coefficient   *)
(* the regression has ended, the prediction comes back to the crystal's       *)
(* offset, to the observer's resolution, and the clamp is dormant             *)
(* (gpsdo.rs:413-418, 630-634).                                              *)
SteeringSettles ==
  <>[](Engaged => Abs(Offset - Predicted) < ObsDiv /\ Steering = Predicted)
=============================================================================
