-------------------------- MODULE CaptureTimeline --------------------------
(***************************************************************************)
(* The edge path of PpsGpsdo: the PIO capture counter, PpsEdgeTimeline, and *)
(* Gnssdo::on_pps behind them.  The counter is CounterSpan ticks long (2^32 *)
(* in the code) and PpsEdgeTimeline subtracts two readings modulo its span, *)
(* so what on_pps sees of a spacing is the spacing modulo CounterSpan.      *)
(* edge_ns accumulates those intervals, so the tracker, which is fed        *)
(* edge_ns, sees the same interval as the estimator.                        *)
(***************************************************************************)
EXTENDS Gnssdo

CONSTANTS
  CounterSpan,  \* ticks in one turn of the capture counter
  Spacings      \* true spacings of the captured edges

ASSUME CaptureAssumption ==
  /\ CounterSpan \in Nat \ {0}
  /\ Spacings \subseteq Nat \ {0}

VARIABLE settled  \* history: in-window edges since the last true gap

cvars == <<vars, settled>>

\* interval_ticks: prev.wrapping_sub(curr); observe gives 0 on the first call
Interval(spacing) == spacing % CounterSpan

Measured(spacing) == IF seen THEN Interval(spacing) ELSE 0

\* A true gap or glitch, whatever the counter makes of it
Disturbed(spacing) == Abs(spacing - Nominal) > Tolerance

\* A tolerance is less than half a second and a turn of the counter longer than
\* a second.  No gap folds back into the tolerance: an outage of 482 s, seven turns
\* and 0.964 s, would, and is taken for a second.
ASSUME FoldAssumption ==
  /\ 2 * Tolerance < Nominal /\ Nominal + Tolerance < CounterSpan
  /\ \A s \in Spacings : Disturbed(s) => Abs(Interval(s) - Nominal) > Tolerance

\* Like Calm, but counted from the true spacings; a clock without an estimate
\* has nothing to protect.
Settled(spacing) ==
  IF Disturbed(spacing) /\ samples > 0 THEN 0
  ELSE IF ~Disturbed(spacing) /\ Abs(spacing - Nominal) < SaneDev
    THEN AtMost(settled + 1, QuarantineSamples + 1)
    ELSE settled

\* PpsGpsdo::on_pps_edge, the frequency half
OnPpsEdge(spacing) ==
  /\ OnPps(Measured(spacing))
  /\ calm' = Calm(Measured(spacing))
  /\ settled' = IF seen THEN Settled(spacing) ELSE settled

CInit == Init /\ settled = QuarantineSamples + 1
-----------------------------------------------------------------------------
(* Gnssdo's policy (gpsdo.rs:757-760): "quarantine the estimate for a few     *)
(* edges after recovering from a gap".  An edge that moves an existing        *)
(* estimate has at least QuarantineSamples settled edges between it and the   *)
(* last true gap.                                                             *)
GapQuarantined == [][ UNCHANGED estimate \/ samples = 0 \/ settled' > QuarantineSamples ]_cvars
=============================================================================
