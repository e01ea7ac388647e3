--------------------------- MODULE DisciplinedTime ---------------------------
(***************************************************************************)
(* What the disciplined clock's estimate is used for: reading the time off  *)
(* a local counter, and the local instant of a coming time.  Times are      *)
(* ticks since the epoch, local (capture and query count alike) or true.    *)
(***************************************************************************)
EXTENDS Gnssdo

CONSTANT Horizon \* bound: seconds that are read or scheduled ahead

ASSUME HorizonAssumption == Horizon \in Nat

\* `/` on i128: toward zero
Quot(x, y) == IF x < 0 THEN -((-x) \div y) ELSE x \div y

Level(d) == Quot(d * freq, Nominal * Scale)
Corrected(d) == d - Level(d)

\* mutant: the slope is left out, as in `corrected`
CorrectedLevel(d) == d - Level(d)
\* the holdover's reading: the slope is projected across the interval
CorrectedSlope(d) == d - Level(d) - Quot(slope * d * d, 2 * Nominal * Nominal * Scale)

\* mutant: the inverse subtracts what the reading subtracts
TrueToLocalSwapped(dt) == dt - Quot(dt * freq, Nominal * Scale)
\* query_ns_for_unix_ns, capture_ns_for_unix_ns and true_to_local_ns
TrueToLocal(dt) == dt + Quot(dt * freq, Nominal * Scale)

\* snap_to_second_ns: the distance to the nearest whole second
SnapToSecond(x) ==
  x - Nominal * Quot(IF x < 0 THEN x - Nominal \div 2 ELSE x + Nominal \div 2, Nominal)

\* how far the reading, and the scheduled instant, are from an edge seen at `capture`
PredictionResidual(capture, unix) == SnapToSecond(Corrected(capture) - unix)
FireResidual(capture, unix) == SnapToSecond(TrueToLocal(unix) - capture)
-----------------------------------------------------------------------------
\* the relative error of the crystal, over x ticks, times itself
SecondOrder(x) == (Abs(x) * freq * freq) \div (Nominal * Nominal * Scale * Scale)

\* A pulse scheduled for a time is seen at that time: the instant computed from
\* a time reads back as the time, and the two self-checks of an edge agree but
\* for their sign, to second order in the crystal's error, over any outage
\* (gpsdo.rs:552-559, 679-734).
ReadoutInverts ==
  \A n \in 0..Horizon :
    LET T == n * Nominal IN
    /\ Abs(Corrected(TrueToLocal(T)) - T) <= SecondOrder(T) + 2
    /\ \A x \in {-1, 0, 1} :
         Abs(SnapToSecond(PredictionResidual(T + x, T) + FireResidual(T + x, T)))
           <= 2 + Quot(Abs(x * freq), Nominal * Scale)

\* local ticks in n seconds of a crystal that keeps drifting along the slope
Ramp(n) == n * Nominal + Quot(2 * n * freq + slope * n * n, 2 * Scale)

\* When the receiver is gone and the crystal drifts on as it did, the holdover's
\* reading is right to second order: the error does not grow with the square of
\* the outage (gpsdo.rs:561-579, 661-669).
HoldoverTracksRamp ==
  \A n \in 0..Horizon :
    LET x == Abs(Ramp(n) - n * Nominal)
    IN  Abs(CorrectedSlope(Ramp(n)) - n * Nominal)
          <= 4 + (x * (2 * Nominal * (Abs(freq) + n * Abs(slope)) + Abs(slope) * x))
                   \div (2 * Nominal * Nominal * Scale)
=============================================================================
