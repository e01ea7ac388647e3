------------------------------- MODULE Gnssdo -------------------------------
(***************************************************************************)
(* The turn-key disciplined clock of gnssdo: PpsTracker classifies every    *)
(* PPS edge, DisciplinedClock turns the good intervals into a frequency     *)
(* estimate, and Gnssdo::on_pps wires the two.  An edge is the time since   *)
(* the previous edge, in ticks; Nominal ticks are one second.  A frequency  *)
(* is the deviation of an interval, in ticks per second, times Scale (the   *)
(* code's milli-ppb: Scale = 1000).  The temperature feedforward, which     *)
(* update_freq also steps, never feeds back into the fields modelled here:  *)
(* TempFeedforward adds it.  `samples` saturates at LockSamples, the only   *)
(* value (with 0) the code compares it to.                                  *)
(***************************************************************************)
EXTENDS Integers

CONSTANTS
  Nominal,           \* nominal_us: ticks in one second
  Tolerance,         \* tolerance_us: PpsTracker's lock window
  SaneDev,           \* sane_dev_ns: the emergency-stop window
  ConvergeGate,      \* converge_gate_ns: absolute gate before lock
  ResidualGate,      \* residual_gate_ns: residual gate after lock
  Scale,             \* frequency units per tick of deviation
  AlphaDiv,          \* 2^ema_shift
  AlphaFastDiv,      \* 2^ema_shift_fast
  SlopeDiv,          \* 2^slope_ema_shift
  SlopeMax,          \* slope_max_mppb
  SlopeWiden,        \* residual_slope_widen
  SlopeFreeze,       \* slope_freeze_resid_mppb
  LockSamples,       \* lock_samples
  QuarantineSamples, \* quarantine_samples
  Deltas             \* the edge spacings the receiver and the antenna produce

ASSUME GnssdoAssumption ==
  /\ Nominal \in Nat \ {0} /\ Tolerance \in Nat
  /\ SaneDev \in Nat \ {0} /\ ConvergeGate \in Nat \ {0} /\ ResidualGate \in Nat \ {0}
  /\ Scale \in Nat \ {0}
  /\ AlphaDiv \in Nat \ {0} /\ AlphaFastDiv \in Nat \ {0} /\ SlopeDiv \in Nat \ {0}
  /\ SlopeMax \in Nat /\ SlopeWiden \in Nat /\ SlopeFreeze \in Nat
  /\ LockSamples \in Nat \ {0} /\ QuarantineSamples \in Nat
  /\ Deltas \subseteq Int

VARIABLES
  seen,        \* PpsTracker.last_us is Some
  lastLocked,  \* Gnssdo.last_pps_locked
  freq,        \* DisciplinedClock.freq_mppb
  slope,       \* DisciplinedClock.freq_slope_mppb
  samples,     \* DisciplinedClock.samples, saturated at LockSamples
  quarantine,  \* DisciplinedClock.quarantine
  outcome,     \* GnssdoStep.freq of the last edge ("None": not disciplined)
  calm         \* history: in-window Locked edges since the last recovery

tracker == <<seen, lastLocked>>
estimate == <<freq, slope, samples>>
vars == <<seen, lastLocked, freq, slope, samples, quarantine, outcome, calm>>

Abs(x) == IF x < 0 THEN -x ELSE x
Clamp(x, b) == IF x > b THEN b ELSE IF x < -b THEN -b ELSE x
AtMost(x, b) == IF x > b THEN b ELSE x
-----------------------------------------------------------------------------
(* PpsTracker::record.  The nearest multiple of the nominal interval decides; *)
(* only the first multiple, within the tolerance, is a lock.                  *)
Multiple(d) == (d + Nominal \div 2) \div Nominal

\* mutant: any whole number of seconds is a lock
ClassifyAnyMultiple(d) ==
  IF ~seen THEN "First"
  ELSE IF d < 0 THEN "NonMonotonic"
  ELSE IF Multiple(d) >= 1 /\ Abs(d - Multiple(d) * Nominal) <= Tolerance * Multiple(d) THEN "Locked"
  ELSE "Irregular"

Classify(d) ==
  IF ~seen THEN "First"
  ELSE IF d < 0 THEN "NonMonotonic"
  ELSE IF Multiple(d) = 1 /\ Abs(d - Nominal) <= Tolerance THEN "Locked"
  ELSE "Irregular"
-----------------------------------------------------------------------------
IsLocked == samples >= LockSamples

\* DisciplinedClock::start_quarantine, called by on_pps on a recovery
StartQuarantine(recovered) == IF recovered /\ samples > 0 THEN QuarantineSamples ELSE quarantine

\* The post-lock residual gate, widened by the tracked slope
Gate == ResidualGate * Scale + Abs(slope) * SlopeWiden

\* mutant: the emergency stop only looks at long intervals
InsaneLongOnly(dev) == dev >= SaneDev

\* 1. emergency stop
Insane(dev) == Abs(dev) >= SaneDev

\* mutant: the residual is compared without its absolute value
GoodQualityOneSided(dev) ==
  IF IsLocked THEN dev * Scale - freq <= Gate ELSE Abs(dev) <= ConvergeGate

\* 3. quality gate
GoodQuality(dev) ==
  IF IsLocked THEN Abs(dev * Scale - freq) <= Gate ELSE Abs(dev) <= ConvergeGate

Projected == freq + slope

\* mutant: the quarantine is also spent on edges the emergency stop rejects
SaneGatedSpendsQuarantine(dev, q) ==
  /\ Insane(dev)
  /\ outcome' = "GatedSane"
  /\ quarantine' = IF q > 0 THEN q - 1 ELSE 0
  /\ UNCHANGED estimate

SaneGated(dev, q) ==
  /\ Insane(dev)
  /\ outcome' = "GatedSane"
  /\ quarantine' = q
  /\ UNCHANGED estimate

\* mutant: the quarantine is never spent
HeldOffForever(dev, q) ==
  /\ ~Insane(dev) /\ q > 0
  /\ outcome' = "Quarantined"
  /\ quarantine' = q
  /\ UNCHANGED estimate

HeldOff(dev, q) ==
  /\ ~Insane(dev) /\ q > 0
  /\ outcome' = "Quarantined"
  /\ quarantine' = q - 1
  /\ UNCHANGED estimate

\* the very first sample has no reference and passes on the emergency stop alone
FirstSample(dev, q) ==
  /\ ~Insane(dev) /\ q = 0 /\ samples = 0
  /\ outcome' = "Applied"
  /\ freq' = dev * Scale
  /\ samples' = 1
  /\ quarantine' = q
  /\ UNCHANGED slope

QualityGated(dev, q) ==
  /\ ~Insane(dev) /\ q = 0 /\ samples > 0 /\ ~GoodQuality(dev)
  /\ outcome' = "GatedQuality"
  /\ quarantine' = q
  /\ UNCHANGED estimate

\* mutant: the slope is driven away from the residual
NextSlopeSwapped(resid) ==
  IF IsLocked /\ Abs(resid) < SlopeFreeze
    THEN Clamp(slope - resid \div SlopeDiv, SlopeMax)
    ELSE slope

NextSlope(resid) ==
  IF IsLocked /\ Abs(resid) < SlopeFreeze
    THEN Clamp(slope + resid \div SlopeDiv, SlopeMax)
    ELSE slope

\* 4. alpha-beta update; >> on i64 rounds down, as \div does
Applied(dev, q) ==
  /\ ~Insane(dev) /\ q = 0 /\ samples > 0 /\ GoodQuality(dev)
  /\ outcome' = "Applied"
  /\ LET resid == dev * Scale - Projected
     IN  /\ freq' = Projected + resid \div (IF IsLocked THEN AlphaDiv ELSE AlphaFastDiv)
         /\ slope' = NextSlope(resid)
  /\ samples' = AtMost(samples + 1, LockSamples)
  /\ quarantine' = q

\* DisciplinedClock::update_freq
UpdateFreq(dev, q) ==
  \/ SaneGated(dev, q)
  \/ HeldOff(dev, q)
  \/ FirstSample(dev, q)
  \/ QualityGated(dev, q)
  \/ Applied(dev, q)
-----------------------------------------------------------------------------
(* Gnssdo::on_pps.  The first edge has no interval (0), so only a positive    *)
(* interval of a Locked edge reaches the frequency estimate.                  *)
Disciplines(d) == Classify(d) = "Locked" /\ d > 0
Recovered(d) == Classify(d) = "Locked" /\ ~lastLocked

OnPps(d) ==
  /\ seen' = TRUE
  /\ lastLocked' = (Classify(d) = "Locked")
  /\ IF Disciplines(d)
       THEN UpdateFreq(d - Nominal, StartQuarantine(Recovered(d)))
       ELSE outcome' = "None" /\ UNCHANGED <<estimate, quarantine>>

\* `calm` observes the edges, not the estimator: a recovery restarts the count,
\* every Locked edge inside the emergency-stop window adds one.
Calm(d) ==
  LET base == IF Recovered(d) /\ samples > 0 THEN 0 ELSE calm
  IN  IF ~Disciplines(d) THEN calm
      ELSE IF Abs(d - Nominal) < SaneDev THEN AtMost(base + 1, QuarantineSamples + 1) ELSE base

Init ==
  /\ seen = FALSE /\ lastLocked = FALSE
  /\ freq = 0 /\ slope = 0 /\ samples = 0 /\ quarantine = 0
  /\ outcome = "None"
  /\ calm = QuarantineSamples + 1

Next == \E d \in Deltas : OnPps(d) /\ calm' = Calm(d)

Spec == Init /\ [][Next]_vars
-----------------------------------------------------------------------------
Outcomes == {"None", "Applied", "GatedSane", "GatedQuality", "Quarantined"}

TypeOK ==
  /\ seen \in BOOLEAN /\ lastLocked \in BOOLEAN
  /\ freq \in Int /\ slope \in -SlopeMax .. SlopeMax
  /\ samples \in 0 .. LockSamples
  /\ quarantine \in 0 .. QuarantineSamples
  /\ outcome \in Outcomes
  /\ calm \in 0 .. QuarantineSamples + 1

(* The estimate never leaves the range the emergency stop admits by more than *)
(* the overshoot the slope projection can sustain, whatever sequence of       *)
(* outliers, gaps and ramps update_freq is fed.                               *)
FreqBound == SaneDev * Scale + SlopeMax * (AlphaDiv - 1)
FreqBounded == Abs(freq) <= FreqBound

(* After a recovery from a gap or an irregular edge the estimate is frozen    *)
(* until QuarantineSamples in-window edges have gone by: an edge that moves   *)
(* the estimate is more than that many edges from the last recovery.          *)
QuarantineProtects ==
  [][ UNCHANGED estimate \/ samples = 0 \/ calm' > QuarantineSamples ]_vars

(* Once locked, no single edge, however wrong, moves the level away from its   *)
(* projection by more than a 1/AlphaDiv share of the (widened) residual gate.  *)
EdgeAuthority ==
  [][ IsLocked => \/ freq' = freq
                  \/ AlphaDiv * Abs(freq' - Projected) <= Gate + Abs(slope) + AlphaDiv - 1 ]_vars
=============================================================================
