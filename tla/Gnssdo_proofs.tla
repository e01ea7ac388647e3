--------------------------- MODULE Gnssdo_proofs ---------------------------
(***************************************************************************)
(* Proofs about the estimator for every value of its constants: the         *)
(* frequency estimate stays bounded, the recovery quarantine protects it    *)
(* also when the gap is seen through a counter that wraps, and what is read *)
(* and scheduled from the estimate is right to within its rounding.         *)
(***************************************************************************)
EXTENDS DisciplinedTime, GnssdoTracking, TLAPS

(* The arithmetic shift of the code is division rounding down.              *)
LEMMA DivBounds ==
  ASSUME NEW a \in Int, NEW b \in Nat \ {0}
  PROVE  /\ a \div b \in Int
         /\ b * (a \div b) <= a
         /\ a < b * (a \div b) + b
OBVIOUS

(* A product with a positive factor keeps the order.                        *)
LEMMA MulMono ==
  ASSUME NEW k \in Nat, NEW x \in Int, NEW y \in Int, x <= y
  PROVE  k * x <= k * y
OBVIOUS
-----------------------------------------------------------------------------
(* One level correction, from p towards the measurement m with gain 1/a.    *)

(* While converging the projection is the level itself: the corrected level *)
(* lies between the level and the measurement.                              *)
LEMMA CorrectionHull ==
  ASSUME NEW a \in Nat \ {0}, NEW p \in Int, NEW m \in Int, NEW b \in Nat,
         -b <= p, p <= b, -b <= m, m <= b
  PROVE  /\ p + (m - p) \div a \in Int
         /\ -b <= p + (m - p) \div a
         /\ p + (m - p) \div a <= b
<1> DEFINE q == (m - p) \div a
<1>1. q \in Int /\ a * q <= m - p /\ m - p < a * q + a
  BY DivBounds
<1>2. CASE m >= p
  <2>1. q >= 0
    <3>1. SUFFICES ASSUME q <= -1 PROVE FALSE
      BY <1>1
    <3>2. a * q <= a * (-1)
      BY <1>1, <3>1, MulMono
    <3> QED BY <1>1, <1>2, <3>2
  <2>2. q <= m - p
    <3>1. 1 * q <= a * q
      BY <1>1, <2>1
    <3> QED BY <1>1, <3>1
  <2> QED BY <1>1, <2>1, <2>2
<1>3. CASE m < p
  <2>1. q <= 0
    <3>1. SUFFICES ASSUME q >= 1 PROVE FALSE
      BY <1>1
    <3>2. a * 1 <= a * q
      BY <1>1, <3>1, MulMono
    <3> QED BY <1>1, <1>3, <3>2
  <2>2. q >= m - p
    <3>1. SUFFICES ASSUME q <= m - p - 1 PROVE FALSE
      BY <1>1
    <3>2. a * q <= a * (m - p - 1)
      BY <1>1, <3>1, MulMono
    <3>3. a * (m - p - 1) <= m - p - a
      <4>1. (a - 1) * (m - p) <= (a - 1) * 0
        BY <1>3, MulMono
      <4> QED BY <4>1
    <3> QED BY <1>1, <3>2, <3>3
  <2> QED BY <1>1, <2>1, <2>2
<1> QED BY <1>1, <1>2, <1>3

(* Once locked the projection may lead the level by s.  A measurement a full *)
(* frequency unit inside mm leaves the corrected level within mm + s * (a-1).*)
LEMMA CorrectionBound ==
  ASSUME NEW a \in Nat \ {0}, NEW s \in Nat, NEW mm \in Nat \ {0},
         NEW p \in Int, NEW m \in Int,
         -(mm + s * (a - 1) + s) <= p, p <= mm + s * (a - 1) + s,
         -mm < m, m < mm
  PROVE  /\ p + (m - p) \div a \in Int
         /\ -(mm + s * (a - 1)) <= p + (m - p) \div a
         /\ p + (m - p) \div a <= mm + s * (a - 1)
<1> DEFINE q == (m - p) \div a
           b == mm + s * (a - 1)
           x == p + q
<1>1. q \in Int /\ a * q <= m - p /\ m - p < a * q + a
  BY DivBounds
<1>2. b \in Int /\ x \in Int /\ b + s \in Int
  BY <1>1
<1>3. a * x = a * p + a * q
  BY <1>1
<1>4. (a - 1) * p <= (a - 1) * (b + s) /\ (a - 1) * (-(b + s)) <= (a - 1) * p
  BY <1>2, MulMono
<1>5. (a - 1) * (b + s) = a * b - mm
  OBVIOUS
<1>6. a * x <= (a - 1) * p + m /\ (a - 1) * p + m < a * x + a
  BY <1>1, <1>3
<1>7. a * x <= a * b
  BY <1>2, <1>4, <1>5, <1>6
<1>8. a * (-b) < a * x + a
  <2>1. (a - 1) * (-(b + s)) = -(a * b - mm)
    BY <1>2, <1>5
  <2> QED BY <1>2, <1>4, <1>6, <2>1
<1>9. x <= b
  <2>1. SUFFICES ASSUME b + 1 <= x PROVE FALSE
    BY <1>2
  <2>2. a * (b + 1) <= a * x
    BY <1>2, <2>1, MulMono
  <2> QED BY <1>2, <1>7, <2>2
<1>10. -b <= x
  <2>1. SUFFICES ASSUME x <= -b - 1 PROVE FALSE
    BY <1>2
  <2>2. a * x <= a * (-b - 1)
    BY <1>2, <2>1, MulMono
  <2> QED BY <1>2, <1>8, <2>2
<1> QED BY <1>2, <1>9, <1>10
-----------------------------------------------------------------------------
(* The inductive invariant.  The slope only moves once locked, so while       *)
(* converging the projection is the level; and every in-window edge since the *)
(* last recovery took one off the quarantine.                                 *)
SlopeAtRest == ~IsLocked => slope = 0
CalmPaysQuarantine == calm + quarantine >= QuarantineSamples

IInv == TypeOK /\ FreqBounded /\ SlopeAtRest /\ CalmPaysQuarantine

LEMMA AbsWithin ==
  ASSUME NEW x \in Int, NEW b \in Int
  PROVE  Abs(x) <= b <=> -b <= x /\ x <= b
BY DEF Abs

LEMMA ClampInRange ==
  ASSUME NEW x \in Int, NEW b \in Nat
  PROVE  Clamp(x, b) \in -b .. b
BY DEF Clamp

(* A deviation inside the emergency-stop window, in frequency units.        *)
LEMMA SaneMeasurement ==
  ASSUME NEW dev \in Int, ~Insane(dev)
  PROVE  /\ dev * Scale \in Int
         /\ -(SaneDev * Scale) < dev * Scale
         /\ dev * Scale < SaneDev * Scale
<1> USE GnssdoAssumption
<1>1. dev <= SaneDev - 1 /\ -(SaneDev - 1) <= dev
  BY DEF Insane, Abs
<1>2. Scale * dev <= Scale * (SaneDev - 1) /\ Scale * (-(SaneDev - 1)) <= Scale * dev
  BY <1>1, MulMono
<1> QED BY <1>2

LEMMA BoundFacts ==
  /\ FreqBound \in Nat
  /\ SaneDev * Scale \in Nat \ {0}
  /\ SaneDev * Scale <= FreqBound
<1> USE GnssdoAssumption
<1>1. SaneDev * Scale \in Nat \ {0}
  OBVIOUS
<1>2. SlopeMax * (AlphaDiv - 1) \in Nat
  OBVIOUS
<1> QED BY <1>1, <1>2 DEF FreqBound

(* The quarantine a step starts from: a recovery of a clock that has an       *)
(* estimate restarts it, and restarts the count of calm edges with it.        *)
CalmBase(d) == IF Recovered(d) /\ samples > 0 THEN 0 ELSE calm

LEMMA QuarantineBase ==
  ASSUME IInv, NEW d \in Int
  PROVE  /\ StartQuarantine(Recovered(d)) \in 0 .. QuarantineSamples
         /\ CalmBase(d) \in 0 .. QuarantineSamples + 1
         /\ CalmBase(d) + StartQuarantine(Recovered(d)) >= QuarantineSamples
<1> USE GnssdoAssumption
<1>1. CASE Recovered(d) /\ samples > 0
  BY <1>1 DEF StartQuarantine, CalmBase
<1>2. CASE ~(Recovered(d) /\ samples > 0)
  BY <1>2 DEF StartQuarantine, CalmBase, IInv, TypeOK, CalmPaysQuarantine
<1> QED BY <1>1, <1>2

(* What the step leaves in calm, given the quarantine it starts from.       *)
LEMMA CalmStep ==
  ASSUME NEW d \in Int, Disciplines(d)
  PROVE  Calm(d) = IF Insane(d - Nominal) THEN CalmBase(d)
                   ELSE AtMost(CalmBase(d) + 1, QuarantineSamples + 1)
<1> USE GnssdoAssumption
<1>1. Abs(d - Nominal) \in Int
  BY DEF Abs
<1> QED BY <1>1 DEF Calm, CalmBase, Insane

(* The estimate after a step of update_freq.                                *)
EstimateOK ==
  /\ freq' \in Int /\ slope' \in -SlopeMax .. SlopeMax /\ samples' \in 0 .. LockSamples
  /\ FreqBounded' /\ SlopeAtRest'

LEMMA UnchangedEstimateOK ==
  ASSUME IInv, UNCHANGED estimate
  PROVE  EstimateOK
BY DEF IInv, TypeOK, EstimateOK, FreqBounded, SlopeAtRest, IsLocked, estimate, Abs

LEMMA FirstSampleOK ==
  ASSUME IInv, NEW dev \in Int, NEW q, FirstSample(dev, q)
  PROVE  EstimateOK
<1> USE GnssdoAssumption
<1>1. freq' = dev * Scale /\ samples' = 1 /\ slope' = slope /\ samples = 0 /\ ~Insane(dev)
  BY DEF FirstSample
<1>2. slope = 0
  BY <1>1 DEF IInv, SlopeAtRest, IsLocked
<1>3. freq' \in Int /\ Abs(freq') <= FreqBound
  BY <1>1, SaneMeasurement, BoundFacts DEF Abs
<1>4. FreqBounded'
  BY <1>3 DEF FreqBounded, FreqBound
<1> QED BY <1>1, <1>2, <1>3, <1>4 DEF EstimateOK, SlopeAtRest

LEMMA AppliedOK ==
  ASSUME IInv, NEW dev \in Int, NEW q, Applied(dev, q)
  PROVE  EstimateOK
<1> USE GnssdoAssumption
<1> DEFINE m == dev * Scale
           resid == m - Projected
<1>1. /\ ~Insane(dev)
      /\ freq' = Projected + resid \div (IF IsLocked THEN AlphaDiv ELSE AlphaFastDiv)
      /\ slope' = NextSlope(resid)
      /\ samples' = AtMost(samples + 1, LockSamples)
  BY DEF Applied
<1>2. /\ freq \in Int /\ slope \in Int /\ -SlopeMax <= slope /\ slope <= SlopeMax
      /\ -FreqBound <= freq /\ freq <= FreqBound /\ samples \in 0 .. LockSamples
  BY BoundFacts DEF IInv, TypeOK, FreqBounded, Abs
<1>3. m \in Int /\ -(SaneDev * Scale) < m /\ m < SaneDev * Scale
  BY <1>1, SaneMeasurement
<1>4. Projected \in Int /\ resid \in Int
  BY <1>2, <1>3 DEF Projected
<1>5. freq' \in Int /\ -FreqBound <= freq' /\ freq' <= FreqBound
  <2>1. CASE IsLocked
    <3>1. -(FreqBound + SlopeMax) <= Projected /\ Projected <= FreqBound + SlopeMax
      BY <1>2, BoundFacts DEF Projected
    <3>2. freq' = Projected + (m - Projected) \div AlphaDiv
      BY <1>1, <2>1
    <3> HIDE DEF m
    <3> QED BY <1>3, <1>4, <3>1, <3>2, BoundFacts, CorrectionBound DEF FreqBound
  <2>2. CASE ~IsLocked
    <3>1. Projected = freq
      BY <1>2, <2>2 DEF IInv, SlopeAtRest, Projected
    <3>2. freq' = freq + (m - freq) \div AlphaFastDiv
      BY <1>1, <2>2, <3>1
    <3>3. -FreqBound <= m /\ m <= FreqBound
      BY <1>3, BoundFacts
    <3> HIDE DEF m
    <3> QED BY <1>2, <1>3, <3>2, <3>3, BoundFacts, CorrectionHull
  <2> QED BY <2>1, <2>2
<1>6. slope' \in -SlopeMax .. SlopeMax
  <2>1. slope + resid \div SlopeDiv \in Int
    BY <1>2, <1>4, DivBounds
  <2>2. Clamp(slope + resid \div SlopeDiv, SlopeMax) \in -SlopeMax .. SlopeMax
    BY <2>1, ClampInRange
  <2> QED BY <1>1, <1>2, <2>2 DEF NextSlope
<1>7. samples' \in 0 .. LockSamples
  BY <1>1, <1>2 DEF AtMost
<1>8. SlopeAtRest'
  <2>1. SUFFICES ASSUME ~(samples' >= LockSamples) PROVE slope' = 0
    BY DEF SlopeAtRest, IsLocked
  <2>2. ~IsLocked
    BY <1>1, <1>2, <2>1 DEF AtMost, IsLocked
  <2> QED BY <1>1, <2>2 DEF NextSlope, IInv, SlopeAtRest
<1>9. Abs(freq') <= FreqBound
  BY <1>5, BoundFacts, AbsWithin
<1>10. FreqBounded'
  BY <1>9 DEF FreqBounded, FreqBound
<1> QED BY <1>5, <1>6, <1>7, <1>8, <1>10 DEF EstimateOK
-----------------------------------------------------------------------------
(* One step of update_freq, from the quarantine q that on_pps hands it.      *)

LEMMA UpdateEstimateOK ==
  ASSUME IInv, NEW dev \in Int, NEW q, UpdateFreq(dev, q)
  PROVE  EstimateOK
<1>1. CASE SaneGated(dev, q)
  BY <1>1, UnchangedEstimateOK DEF SaneGated
<1>2. CASE HeldOff(dev, q)
  BY <1>2, UnchangedEstimateOK DEF HeldOff
<1>3. CASE FirstSample(dev, q)
  BY <1>3, FirstSampleOK
<1>4. CASE QualityGated(dev, q)
  BY <1>4, UnchangedEstimateOK DEF QualityGated
<1>5. CASE Applied(dev, q)
  BY <1>5, AppliedOK
<1> QED BY <1>1, <1>2, <1>3, <1>4, <1>5 DEF UpdateFreq

(* The quarantine is spent exactly on the in-window edges.                   *)
LEMMA UpdateQuarantine ==
  ASSUME NEW dev \in Int, NEW q \in Nat, UpdateFreq(dev, q)
  PROVE  /\ outcome' \in Outcomes
         /\ Insane(dev) => quarantine' = q /\ UNCHANGED estimate
         /\ ~Insane(dev) /\ q > 0 => quarantine' = q - 1 /\ UNCHANGED estimate
         /\ ~Insane(dev) /\ ~(q > 0) => quarantine' = 0
BY DEF UpdateFreq, SaneGated, HeldOff, FirstSample, QualityGated, Applied, Outcomes

(* An edge that disciplines: what becomes of the quarantine and of calm.     *)
LEMMA DisciplineStep ==
  ASSUME IInv, NEW d \in Int, Disciplines(d), OnPps(d), calm' = Calm(d)
  PROVE  /\ outcome' \in Outcomes
         /\ quarantine' \in 0 .. QuarantineSamples
         /\ calm' \in 0 .. QuarantineSamples + 1
         /\ CalmPaysQuarantine'
         /\ UNCHANGED estimate \/ calm' > QuarantineSamples
<1> USE GnssdoAssumption
<1> DEFINE dev == d - Nominal
           q == StartQuarantine(Recovered(d))
           base == CalmBase(d)
<1>1. dev \in Int
  OBVIOUS
<1>2. /\ q \in 0 .. QuarantineSamples /\ base \in 0 .. QuarantineSamples + 1
      /\ base + q >= QuarantineSamples
  BY QuarantineBase
<1>3. UpdateFreq(dev, q)
  BY DEF OnPps
<1>4. calm' = IF Insane(dev) THEN base ELSE AtMost(base + 1, QuarantineSamples + 1)
  BY CalmStep
<1> HIDE DEF dev, q, base
<1>5. /\ outcome' \in Outcomes
      /\ Insane(dev) => quarantine' = q /\ UNCHANGED estimate
      /\ ~Insane(dev) /\ q > 0 => quarantine' = q - 1 /\ UNCHANGED estimate
      /\ ~Insane(dev) /\ ~(q > 0) => quarantine' = 0
  BY <1>1, <1>2, <1>3, UpdateQuarantine
<1>6. CASE Insane(dev)
  BY <1>2, <1>4, <1>5, <1>6 DEF CalmPaysQuarantine
<1>7. CASE ~Insane(dev) /\ q > 0
  BY <1>2, <1>4, <1>5, <1>7 DEF CalmPaysQuarantine, AtMost
<1>8. CASE ~Insane(dev) /\ ~(q > 0)
  <2>1. base >= QuarantineSamples
    BY <1>2, <1>8
  <2>2. calm' = QuarantineSamples + 1
    BY <1>2, <1>4, <1>8, <2>1 DEF AtMost
  <2> QED BY <1>5, <1>8, <2>2 DEF CalmPaysQuarantine
<1> QED BY <1>6, <1>7, <1>8

LEMMA StepOK ==
  ASSUME IInv, NEW d \in Int, OnPps(d), calm' = Calm(d)
  PROVE  IInv' /\ (UNCHANGED estimate \/ samples = 0 \/ calm' > QuarantineSamples)
<1> USE GnssdoAssumption
<1>1. seen' \in BOOLEAN /\ lastLocked' \in BOOLEAN
  BY DEF OnPps
<1>2. CASE Disciplines(d)
  <2>1. EstimateOK
    BY <1>2, UpdateEstimateOK DEF OnPps
  <2>2. /\ outcome' \in Outcomes /\ quarantine' \in 0 .. QuarantineSamples
        /\ calm' \in 0 .. QuarantineSamples + 1 /\ CalmPaysQuarantine'
        /\ UNCHANGED estimate \/ calm' > QuarantineSamples
    BY <1>2, DisciplineStep
  <2> QED BY <1>1, <2>1, <2>2 DEF IInv, TypeOK, EstimateOK
<1>3. CASE ~Disciplines(d)
  <2>1. UNCHANGED <<estimate, quarantine, calm>> /\ outcome' = "None"
    BY <1>3 DEF OnPps, Calm
  <2>2. EstimateOK
    BY <2>1, UnchangedEstimateOK
  <2> QED BY <1>1, <2>1, <2>2 DEF IInv, TypeOK, EstimateOK, Outcomes, CalmPaysQuarantine
<1> QED BY <1>2, <1>3

LEMMA InitOK == Init => IInv
<1> SUFFICES ASSUME Init PROVE IInv
  OBVIOUS
<1> USE GnssdoAssumption
<1>1. TypeOK
  <2>1. 0 \in Int /\ 0 \in -SlopeMax .. SlopeMax /\ 0 \in 0 .. LockSamples /\ 0 \in 0 .. QuarantineSamples
        /\ QuarantineSamples + 1 \in 0 .. QuarantineSamples + 1
    OBVIOUS
  <2> QED BY <2>1, Zenon DEF Init, TypeOK, Outcomes
<1>2. FreqBounded
  BY BoundFacts, AbsWithin DEF Init, FreqBounded
<1>3. SlopeAtRest /\ CalmPaysQuarantine
  BY DEF Init, SlopeAtRest, CalmPaysQuarantine
<1> QED BY <1>1, <1>2, <1>3 DEF IInv

LEMMA StutterOK == IInv /\ UNCHANGED vars => IInv'
BY DEF IInv, TypeOK, FreqBounded, FreqBound, Abs, SlopeAtRest, IsLocked, CalmPaysQuarantine, vars

(* Every reachable state of the tracker and the estimator satisfies the       *)
(* inductive invariant.                                                       *)
THEOREM Invariance == Spec => []IInv
<1>1. IInv /\ [Next]_vars => IInv'
  BY GnssdoAssumption, StepOK, StutterOK DEF Next
<1> QED BY InitOK, <1>1, PTL DEF Spec

(* The fields keep their types, for every configuration.                      *)
THEOREM TypeCorrect == Spec => []TypeOK
<1>1. IInv => TypeOK
  BY DEF IInv
<1> QED BY Invariance, <1>1, PTL

(* Whatever sequence of edges on_pps is fed, the frequency estimate stays      *)
(* within the emergency-stop window plus the overshoot of the slope.           *)
THEOREM EstimateBounded == Spec => []FreqBounded
<1>1. IInv => FreqBounded
  BY DEF IInv
<1> QED BY Invariance, <1>1, PTL

(* An edge that moves an existing estimate is more than QuarantineSamples      *)
(* in-window edges away from the last recovery.                                *)
THEOREM QuarantineHolds == Spec => QuarantineProtects
<1>1. IInv /\ [Next]_vars
        => [UNCHANGED estimate \/ samples = 0 \/ calm' > QuarantineSamples]_vars
  BY GnssdoAssumption, StepOK DEF Next
<1> QED BY Invariance, <1>1, PTL DEF Spec, QuarantineProtects
-----------------------------------------------------------------------------
(* How far one applied edge moves a locked level.                             *)
LEMMA AppliedAuthority ==
  ASSUME IInv, NEW dev \in Int, NEW q, Applied(dev, q), IsLocked
  PROVE  AlphaDiv * Abs(freq' - Projected) <= Gate + Abs(slope) + AlphaDiv - 1
<1> USE GnssdoAssumption
<1> DEFINE m == dev * Scale
           x == (m - Projected) \div AlphaDiv
<1>1. freq' = Projected + x /\ Abs(m - freq) <= Gate
  BY DEF Applied, GoodQuality
<1>2. freq \in Int /\ slope \in Int /\ m \in Int /\ Abs(slope) \in Nat
  BY DEF IInv, TypeOK, Abs
<1>3. Gate \in Nat
  <2>1. ResidualGate * Scale \in Nat /\ Abs(slope) * SlopeWiden \in Nat
    BY <1>2
  <2> QED BY <2>1 DEF Gate
<1>4. Projected \in Int /\ m - Projected \in Int
  BY <1>2 DEF Projected
<1>5. Abs(m - Projected) <= Gate + Abs(slope)
  <2>1. -Gate <= m - freq /\ m - freq <= Gate
    BY <1>1, <1>2, <1>3, AbsWithin
  <2>2. -Abs(slope) <= slope /\ slope <= Abs(slope)
    BY <1>2 DEF Abs
  <2>3. /\ -(Gate + Abs(slope)) <= m - Projected
        /\ m - Projected <= Gate + Abs(slope)
    BY <1>2, <1>3, <2>1, <2>2 DEF Projected
  <2> QED BY <1>2, <1>3, <1>4, <2>3, AbsWithin
<1>6. /\ x \in Int /\ AlphaDiv * x <= m - Projected
      /\ m - Projected < AlphaDiv * x + AlphaDiv
  BY <1>4, DivBounds
<1>7. AlphaDiv * Abs(x) <= Abs(m - Projected) + AlphaDiv - 1
  <2> HIDE DEF x, m
  <2>1. CASE x >= 0
    BY <1>4, <1>6, <2>1 DEF Abs
  <2>2. CASE x < 0
    <3>1. AlphaDiv * (-x) = -(AlphaDiv * x)
      BY <1>6
    <3> QED BY <1>4, <1>6, <2>2, <3>1 DEF Abs
  <2> QED BY <1>6, <2>1, <2>2
<1>8. freq' - Projected = x
  BY <1>1, <1>4, <1>6
<1> HIDE DEF x, m
<1>9. AlphaDiv * Abs(x) \in Int /\ Abs(m - Projected) \in Int
  BY <1>4, <1>6 DEF Abs
<1> QED BY <1>2, <1>3, <1>5, <1>7, <1>8, <1>9

(* No single edge, however wrong, moves a locked level by more than its share  *)
(* of the residual gate.                                                       *)
THEOREM EdgeAuthorityBounded == Spec => EdgeAuthority
<1> DEFINE A == IsLocked => \/ freq' = freq
                            \/ AlphaDiv * Abs(freq' - Projected) <= Gate + Abs(slope) + AlphaDiv - 1
<1>1. ASSUME IInv, NEW d \in Int, OnPps(d)
      PROVE  A
  <2>1. SUFFICES ASSUME IsLocked, freq' # freq
                 PROVE  AlphaDiv * Abs(freq' - Projected) <= Gate + Abs(slope) + AlphaDiv - 1
    OBVIOUS
  <2>2. d - Nominal \in Int
    BY GnssdoAssumption
  <2>3. samples # 0
    BY <2>1, GnssdoAssumption DEF IsLocked
  <2>4. Applied(d - Nominal, StartQuarantine(Recovered(d)))
    BY <1>1, <2>1, <2>3 DEF OnPps, UpdateFreq, SaneGated, HeldOff, FirstSample, QualityGated, estimate
  <2> QED BY <1>1, <2>1, <2>2, <2>4, AppliedAuthority
<1>2. IInv /\ [Next]_vars => [A]_vars
  BY <1>1, GnssdoAssumption DEF Next
<1> QED BY Invariance, <1>2, PTL DEF Spec, EdgeAuthority
-----------------------------------------------------------------------------
(* The edge path.  As long as no gap folds back into the tolerance, an edge is  *)
(* a lock exactly when its true spacing is undisturbed, so the last edge was     *)
(* the end of a gap exactly when the next lock is a recovery.                   *)
GapInv ==
  /\ settled \in 0 .. QuarantineSamples + 1
  /\ samples = 0 => settled = QuarantineSamples + 1
  /\ samples > 0 => seen /\ (~lastLocked => settled = 0)
  /\ samples = 0 \/ lastLocked => quarantine + settled >= QuarantineSamples

LEMMA LockIsUndisturbed ==
  ASSUME seen, NEW d \in Nat
  PROVE  /\ Classify(d) = "Locked" <=> Abs(d - Nominal) <= Tolerance
         /\ Classify(d) = "Locked" => d > 0
<1> USE GnssdoAssumption, FoldAssumption
<1> DEFINE h == Nominal \div 2
           m == (d + h) \div Nominal
<1>1. h \in Nat /\ 2 * h <= Nominal /\ Nominal <= 2 * h + 1
  OBVIOUS
<1> HIDE DEF h
<1>2. m \in Int /\ Nominal * m <= d + h /\ d + h < Nominal * m + Nominal
  <2>1. d + h \in Int
    BY <1>1
  <2> QED BY <2>1, DivBounds
<1>3. Classify(d) = "Locked" <=> m = 1 /\ Abs(d - Nominal) <= Tolerance
  BY DEF Classify, Multiple, h
<1> HIDE DEF m
<1>4. ASSUME Abs(d - Nominal) <= Tolerance PROVE m = 1 /\ d > 0
  <2>1. Nominal - Tolerance <= d /\ d <= Nominal + Tolerance
    BY <1>4 DEF Abs
  <2>2. Nominal <= d + h /\ d + h < 2 * Nominal
    BY <1>1, <2>1
  <2>3. ~(m <= 0)
    <3>1. SUFFICES ASSUME m <= 0 PROVE FALSE
      OBVIOUS
    <3>2. Nominal * m <= Nominal * 0
      BY <1>2, <3>1, MulMono
    <3> QED BY <1>1, <1>2, <2>2, <3>2
  <2>4. ~(2 <= m)
    <3>1. SUFFICES ASSUME 2 <= m PROVE FALSE
      OBVIOUS
    <3>2. Nominal * 2 <= Nominal * m
      BY <1>2, <3>1, MulMono
    <3> QED BY <1>1, <1>2, <2>2, <3>2
  <2> QED BY <1>2, <2>1, <2>3, <2>4
<1> QED BY <1>3, <1>4

LEMMA UndisturbedLocks ==
  ASSUME seen, NEW s \in Nat, s \in Spacings \/ ~Disturbed(s)
  PROVE  /\ Measured(s) \in Nat
         /\ Classify(Measured(s)) = "Locked" <=> ~Disturbed(s)
         /\ ~Disturbed(s) => Measured(s) = s /\ Measured(s) > 0
<1> USE GnssdoAssumption, FoldAssumption, CaptureAssumption
<1>1. Measured(s) = Interval(s) /\ Interval(s) \in Nat
  BY DEF Measured, Interval
<1>2. CASE Disturbed(s)
  <2>1. Abs(Interval(s) - Nominal) > Tolerance
    BY <1>2
  <2>2. Abs(Interval(s) - Nominal) \in Int
    BY <1>1 DEF Abs
  <2>3. ~(Abs(Measured(s) - Nominal) <= Tolerance)
    BY <1>1, <2>1, <2>2
  <2> QED BY <1>1, <1>2, <2>3, LockIsUndisturbed
<1>3. CASE ~Disturbed(s)
  <2>1. Abs(s - Nominal) <= Tolerance
    <3>1. Abs(s - Nominal) \in Int
      BY DEF Abs
    <3> QED BY <1>3, <3>1 DEF Disturbed
  <2>2. s < CounterSpan
    BY <2>1 DEF Abs
  <2>3. s % CounterSpan = s
    BY <2>2
  <2>4. Measured(s) = s
    BY <1>1, <2>3 DEF Interval
  <2> QED BY <1>3, <2>1, <2>4, LockIsUndisturbed
<1> QED BY <1>2, <1>3

LEMMA UpdateSamples ==
  ASSUME samples \in 0 .. LockSamples, NEW dev, NEW q, UpdateFreq(dev, q)
  PROVE  samples' \in Nat /\ (samples > 0 => samples' > 0)
BY GnssdoAssumption
   DEF UpdateFreq, SaneGated, HeldOff, FirstSample, QualityGated, Applied, AtMost, estimate

LEMMA UndisturbedStep ==
  ASSUME IInv, GapInv, seen, NEW s \in Nat, ~Disturbed(s), OnPpsEdge(s)
  PROVE  GapInv' /\ (UNCHANGED estimate \/ samples = 0 \/ settled' > QuarantineSamples)
<1> USE GnssdoAssumption
<1> DEFINE dev == s - Nominal
           q == StartQuarantine(Recovered(s))
<1>1. Measured(s) = s /\ Classify(s) = "Locked" /\ s > 0
  BY UndisturbedLocks
<1>2. UpdateFreq(dev, q) /\ seen' = TRUE /\ lastLocked' = TRUE /\ Disciplines(s)
  BY <1>1 DEF OnPpsEdge, OnPps, Disciplines
<1>3. settled' = IF Insane(dev) THEN settled ELSE AtMost(settled + 1, QuarantineSamples + 1)
  <2>1. settled' = IF Abs(dev) < SaneDev THEN AtMost(settled + 1, QuarantineSamples + 1) ELSE settled
    BY DEF OnPpsEdge, Settled
  <2>2. Abs(dev) \in Int
    BY DEF Abs
  <2> QED BY <2>1, <2>2 DEF Insane
<1>4. samples \in 0 .. LockSamples /\ quarantine \in 0 .. QuarantineSamples
  BY DEF IInv, TypeOK
<1>5. /\ q \in 0 .. QuarantineSamples /\ settled \in 0 .. QuarantineSamples + 1
      /\ q + settled >= QuarantineSamples
      /\ samples = 0 => settled = QuarantineSamples + 1
  <2>1. Recovered(s) <=> ~lastLocked
    BY <1>1 DEF Recovered
  <2> QED BY <1>4, <2>1 DEF GapInv, StartQuarantine
<1>6. samples' \in Nat /\ (samples > 0 => samples' > 0)
  BY <1>2, <1>4, UpdateSamples
<1>7. /\ Insane(dev) => quarantine' = q /\ UNCHANGED estimate
      /\ ~Insane(dev) /\ q > 0 => quarantine' = q - 1 /\ UNCHANGED estimate
      /\ ~Insane(dev) /\ ~(q > 0) => quarantine' = 0
  <2>1. dev \in Int /\ q \in Nat
    BY <1>5
  <2> QED BY <1>2, <2>1, UpdateQuarantine
<1> HIDE DEF dev, q
<1>8. CASE Insane(dev)
  BY <1>2, <1>3, <1>5, <1>6, <1>7, <1>8, <1>4 DEF GapInv
<1>9. CASE ~Insane(dev) /\ q > 0
  <2>1. settled' = AtMost(settled + 1, QuarantineSamples + 1) /\ quarantine' = q - 1
    BY <1>3, <1>7, <1>9
  <2> QED BY <1>2, <1>4, <1>5, <1>6, <1>7, <1>9, <2>1 DEF GapInv, AtMost
<1>10. CASE ~Insane(dev) /\ ~(q > 0)
  <2>1. settled' = QuarantineSamples + 1 /\ quarantine' = 0
    BY <1>3, <1>5, <1>7, <1>10 DEF AtMost
  <2> QED BY <1>2, <1>4, <1>5, <1>6, <2>1 DEF GapInv
<1> QED BY <1>8, <1>9, <1>10

LEMMA EdgeStep ==
  ASSUME IInv, GapInv, NEW s \in Nat, s \in Spacings \/ ~Disturbed(s), OnPpsEdge(s)
  PROVE  IInv' /\ GapInv' /\ (UNCHANGED estimate \/ samples = 0 \/ settled' > QuarantineSamples)
<1> USE GnssdoAssumption
<1>1. Measured(s) \in Int
  BY CaptureAssumption DEF Measured, Interval
<1>2. IInv'
  BY <1>1, StepOK DEF OnPpsEdge
<1>3. CASE seen /\ ~Disturbed(s)
  BY <1>2, <1>3, UndisturbedStep
<1>4. CASE seen /\ Disturbed(s)
  <2>1. Classify(Measured(s)) # "Locked"
    BY <1>4, UndisturbedLocks
  <2>2. /\ UNCHANGED <<estimate, quarantine>> /\ seen' = TRUE /\ lastLocked' = FALSE
        /\ settled' = IF samples > 0 THEN 0 ELSE settled
    BY <1>4, <2>1 DEF OnPpsEdge, OnPps, Disciplines, Settled
  <2>3. samples' = samples /\ samples \in Nat
    BY <2>2 DEF estimate, IInv, TypeOK
  <2> QED BY <1>2, <2>2, <2>3 DEF GapInv
<1>5. CASE ~seen
  <2>1. samples = 0
    BY <1>5 DEF GapInv, IInv, TypeOK
  <2>2. Classify(Measured(s)) # "Locked"
    BY <1>5 DEF Classify
  <2>3. UNCHANGED <<estimate, quarantine, settled>> /\ seen' = TRUE
    BY <1>5, <2>2 DEF OnPpsEdge, OnPps, Disciplines
  <2> QED BY <1>2, <2>1, <2>3 DEF GapInv, estimate
<1> QED BY <1>3, <1>4, <1>5

LEMMA EdgePathQuiet == IInv /\ GapInv /\ UNCHANGED cvars => IInv' /\ GapInv'
BY StutterOK DEF GapInv, cvars, vars

TrackInv == IInv /\ GapInv /\ ambient \in Temps

(* Whatever gaps, glitches and multipath the receiver produces among its honest   *)
(* edges, the estimate stays as it is until enough edges have settled since the  *)
(* last true gap (gpsdo.rs:757-760).                                           *)
THEOREM GapsQuarantined == TSpec => GapQuarantined
<1> DEFINE Held == UNCHANGED estimate \/ samples = 0 \/ settled' > QuarantineSamples
<1>1. TInit => TrackInv
  BY InitOK, GnssdoAssumption DEF TInit, FInit, CInit, Init, GapInv, TrackInv
<1>2. TrackInv /\ [TNext]_tvars => TrackInv' /\ [Held]_cvars
  <2> SUFFICES ASSUME IInv, GapInv, ambient \in Temps, [TNext]_tvars
               PROVE  IInv' /\ GapInv' /\ ambient' \in Temps /\ [Held]_cvars
    BY DEF TrackInv
  <2>1. CASE HonestEdge
    <3>1. OnPpsEdge(HonestSpacing) /\ ambient' = ambient
      BY <2>1 DEF HonestEdge, OnPpsEdgeLearning
    <3>2. HonestSpacing \in Nat /\ ~Disturbed(HonestSpacing)
      BY HonestAssumption DEF HonestSpacing
    <3> QED BY <3>1, <3>2, EdgeStep
  <2>2. CASE DisturbedEdge
    <3>1. PICK s \in Spacings : OnPpsEdge(s)
      BY <2>2 DEF DisturbedEdge, OnPpsEdgeLearning
    <3>2. s \in Nat /\ ambient' = ambient
      BY <2>2, CaptureAssumption DEF DisturbedEdge
    <3> QED BY <3>1, <3>2, EdgeStep
  <2>3. CASE ReadTemp
    <3>1. UNCHANGED cvars /\ ambient' = ambient
      BY <2>3 DEF ReadTemp, UpdateTemp
    <3> QED BY <3>1, EdgePathQuiet
  <2>4. CASE Warm
    <3>1. UNCHANGED cvars /\ ambient' \in Temps
      BY <2>4 DEF Warm, fvars
    <3> QED BY <3>1, EdgePathQuiet
  <2>5. CASE UNCHANGED tvars
    <3>1. UNCHANGED cvars /\ ambient' = ambient
      BY <2>5 DEF tvars, fvars
    <3> QED BY <3>1, EdgePathQuiet
  <2> QED BY <2>1, <2>2, <2>3, <2>4, <2>5 DEF TNext
<1> QED BY <1>1, <1>2, PTL DEF TSpec, GapQuarantined
-----------------------------------------------------------------------------
(* Reading and scheduling with the estimate.  Everything is compared after       *)
(* multiplying by the divisor, so that a division leaves a rest smaller than it. *)
LEMMA QuotRest ==
  ASSUME NEW x \in Int, NEW y \in Nat \ {0}
  PROVE  /\ Quot(x, y) \in Int /\ y * Quot(x, y) \in Int
         /\ -y < x - y * Quot(x, y) /\ x - y * Quot(x, y) < y
         /\ Abs(y * Quot(x, y)) <= Abs(x)
<1> DEFINE q == Quot(x, y)
           p == y * q
<1>1. CASE x >= 0
  <2>1. q = x \div y
    BY <1>1 DEF Quot
  <2>2. q \in Int /\ p <= x /\ x < p + y /\ p \in Int
    BY <2>1, DivBounds
  <2>3. q >= 0
    <3>1. SUFFICES ASSUME q <= -1 PROVE FALSE
      BY <2>2
    <3>2. y * q <= y * (-1)
      BY <2>2, <3>1, MulMono
    <3> QED BY <1>1, <2>2, <3>2
  <2>4. p >= 0
    BY <2>2, <2>3
  <2> HIDE DEF p
  <2>5. -y < x - p /\ x - p < y /\ Abs(p) <= Abs(x)
    BY <1>1, <2>2, <2>4 DEF Abs
  <2> QED BY <2>2, <2>5 DEF p
<1>2. CASE x < 0
  <2> DEFINE m == (-x) \div y
             k == y * m
  <2>1. q = -m
    BY <1>2 DEF Quot
  <2>2. m \in Int /\ k <= -x /\ -x < k + y /\ k \in Int
    BY DivBounds
  <2>3. m >= 0
    <3>1. SUFFICES ASSUME m <= -1 PROVE FALSE
      BY <2>2
    <3>2. y * m <= y * (-1)
      BY <2>2, <3>1, MulMono
    <3> QED BY <1>2, <2>2, <3>2
  <2>4. k >= 0
    BY <2>2, <2>3
  <2>5. p = -k /\ q \in Int
    <3> HIDE DEF m, q
    <3> QED BY <2>1, <2>2
  <2> HIDE DEF p, k
  <2>6. p \in Int /\ -y < x - p /\ x - p < y /\ Abs(p) <= Abs(x)
    BY <1>2, <2>2, <2>4, <2>5 DEF Abs
  <2> QED BY <2>5, <2>6 DEF p
<1> QED BY <1>1, <1>2

LEMMA AbsFacts ==
  ASSUME NEW x \in Int
  PROVE  /\ Abs(x) \in Nat /\ -Abs(x) <= x /\ x <= Abs(x)
         /\ Abs(x) = x \/ Abs(x) = -x
BY DEF Abs

LEMMA AbsProduct ==
  ASSUME NEW x \in Int, NEW y \in Int
  PROVE  Abs(x * y) = Abs(x) * Abs(y)
<1>1. CASE x >= 0 /\ y >= 0
  <2>1. x * y >= 0
    BY <1>1
  <2> QED BY <1>1, <2>1 DEF Abs
<1>2. CASE x < 0 /\ y >= 0
  <2>1. x * y = -((-x) * y) /\ (-x) * y >= 0
    BY <1>2
  <2>2. x * y <= 0 /\ x * y \in Int
    BY <2>1
  <2> QED BY <1>2, <2>1, <2>2 DEF Abs
<1>3. CASE x >= 0 /\ y < 0
  <2>1. x * y = -(x * (-y)) /\ x * (-y) >= 0
    BY <1>3
  <2>2. x * y <= 0 /\ x * y \in Int
    BY <2>1
  <2> QED BY <1>3, <2>1, <2>2 DEF Abs
<1>4. CASE x < 0 /\ y < 0
  <2>1. x * y = (-x) * (-y) /\ (-x) * (-y) >= 0
    BY <1>4
  <2> QED BY <1>4, <2>1 DEF Abs
<1> QED BY <1>1, <1>2, <1>3, <1>4

LEMMA AtLeastQuotient ==
  ASSUME NEW x \in Nat, NEW y \in Nat \ {0}, NEW k \in Int, y * k <= x
  PROVE  k <= x \div y
<1> DEFINE q == x \div y
<1>1. q \in Int /\ x < y * q + y /\ y * q \in Int
  BY DivBounds
<1> HIDE DEF q
<1>2. ~(q + 1 <= k)
  <2>1. SUFFICES ASSUME q + 1 <= k PROVE FALSE
    OBVIOUS
  <2>2. y * (q + 1) <= y * k
    BY <1>1, <2>1, MulMono
  <2>3. y * (q + 1) = y * q + y
    BY <1>1
  <2> QED BY <1>1, <2>2, <2>3
<1> QED BY <1>1, <1>2 DEF q

Unit == Nominal * Scale

LEMMA UnitTyped == Unit \in Nat \ {0}
BY GnssdoAssumption DEF Unit

LEMMA LevelRest ==
  ASSUME freq \in Int, NEW d \in Int
  PROVE  /\ Level(d) \in Int /\ Unit * Level(d) \in Int /\ d * freq \in Int
         /\ -Unit < d * freq - Unit * Level(d) /\ d * freq - Unit * Level(d) < Unit
         /\ Abs(Unit * Level(d)) <= Abs(d * freq)
<1>1. d * freq \in Int
  OBVIOUS
<1> QED BY <1>1, UnitTyped, QuotRest DEF Level, Unit

(* The instant of a time reads back as the time.                               *)
LEMMA ReadBack ==
  ASSUME freq \in Int, NEW T \in Nat
  PROVE  Abs(Corrected(TrueToLocal(T)) - T) <= SecondOrder(T) + 2
<1> USE UnitTyped
<1> DEFINE q == Level(T)
           p == Level(T + q)
           e == q - p
           F == Abs(freq)
           tf == T * freq
           mq == Unit * q
           qf == q * freq
           mp == Unit * p
<1>1. /\ q \in Int /\ mq \in Int /\ tf \in Int /\ -Unit < tf - mq /\ tf - mq < Unit
      /\ Abs(mq) <= Abs(tf)
  BY LevelRest
<1> HIDE DEF q
<1>2. p \in Int /\ mp \in Int /\ -Unit < tf + qf - mp /\ tf + qf - mp < Unit /\ qf \in Int
  <2>1. T + q \in Int
    BY <1>1
  <2>2. /\ p \in Int /\ Unit * p \in Int /\ -Unit < (T + q) * freq - Unit * p
        /\ (T + q) * freq - Unit * p < Unit
    BY <2>1, LevelRest
  <2>3. (T + q) * freq = tf + qf /\ qf \in Int
    BY <1>1
  <2> QED BY <2>2, <2>3
<1> HIDE DEF p
<1>3. Corrected(TrueToLocal(T)) - T = e
  <2>1. TrueToLocal(T) = T + q
    BY DEF TrueToLocal, q, Level
  <2>2. Corrected(T + q) = (T + q) - p
    BY DEF Corrected, p
  <2> QED BY <1>1, <1>2, <2>1, <2>2
<1>4. e \in Int /\ Unit * e = mq - mp /\ Unit * e \in Int
  BY <1>1, <1>2
<1> HIDE DEF e, tf, mq, qf, mp
<1>5. Abs(Unit * e) < 2 * Unit + Abs(qf)
  BY <1>1, <1>2, <1>4 DEF Abs
<1>6. F \in Nat /\ Abs(q) \in Nat /\ Abs(e) \in Nat
  BY <1>1, <1>4, AbsFacts DEF F
<1>7. Abs(Unit * e) = Unit * Abs(e) /\ Abs(qf) = Abs(q) * F
  <2>1. Abs(Unit) = Unit /\ Unit \in Int /\ freq \in Int
    BY DEF Abs
  <2>2. Abs(Unit * e) = Abs(Unit) * Abs(e) /\ Abs(q * freq) = Abs(q) * Abs(freq)
    BY <1>1, <1>4, <2>1, AbsProduct, Zenon
  <2> QED BY <2>1, <2>2 DEF qf, F
<1>8. Unit * Abs(q) <= T * F
  <2>1. Abs(mq) = Abs(Unit) * Abs(q) /\ Abs(tf) = Abs(T) * F
    <3>1. Unit \in Int /\ T \in Int /\ freq \in Int
      OBVIOUS
    <3> QED BY <1>1, <3>1, AbsProduct, Zenon DEF mq, tf, F
  <2>2. Abs(Unit) = Unit /\ Abs(T) = T
    BY DEF Abs
  <2> QED BY <1>1, <2>1, <2>2
<1> HIDE DEF F
<1> DEFINE E == Abs(e)
           Q == Abs(q)
           S == T * freq * freq
           MM == Unit * Unit
<1>9. S = F * (T * F) /\ S \in Nat
  <2>1. freq * freq = F * F
    <3>1. F = freq \/ F = -freq
      BY AbsFacts DEF F
    <3>2. (-freq) * (-freq) = freq * freq
      OBVIOUS
    <3> QED BY <3>1, <3>2
  <2>2. S = T * (freq * freq)
    OBVIOUS
  <2>3. T * (F * F) = F * (T * F) /\ T * (F * F) \in Nat
    BY <1>6
  <2> QED BY <2>1, <2>2, <2>3
<1>10. MM * (E - 2) <= S
  <2>1. Unit * (E - 2) <= Q * F
    <3>1. Unit * (E - 2) = Unit * E - 2 * Unit /\ Unit * E \in Int /\ Q * F \in Int
      BY <1>6
    <3> HIDE DEF E, Q
    <3> QED BY <1>5, <1>7, <3>1 DEF E, Q
  <2>2. Unit * (Unit * (E - 2)) <= Unit * (Q * F)
    <3>1. Unit * (E - 2) \in Int /\ Q * F \in Int
      BY <1>6
    <3> QED BY <2>1, <3>1, MulMono
  <2>3. F * (Unit * Q) <= F * (T * F)
    <3>1. Unit * Q \in Int /\ T * F \in Int
      BY <1>6
    <3> QED BY <1>6, <1>8, <3>1, MulMono
  <2>4. Unit * (Q * F) = F * (Unit * Q) /\ F * (Unit * Q) \in Int
    BY <1>6
  <2>5. Unit * (Unit * (E - 2)) = MM * (E - 2) /\ MM * (E - 2) \in Int
    <3> HIDE DEF E
    <3> QED BY <1>6 DEF E
  <2> DEFINE u == MM * (E - 2)
             v == F * (Unit * Q)
  <2>6. u <= v /\ v <= S /\ u \in Int /\ v \in Int
    BY <1>9, <2>2, <2>3, <2>4, <2>5
  <2> HIDE DEF u, v, S
  <2>7. u <= S
    BY <1>9, <2>6
  <2> QED BY <2>7 DEF u
<1>11. SecondOrder(T) = S \div MM
  <2>1. Abs(T) = T
    BY DEF Abs
  <2>2. Nominal * Nominal * Scale * Scale = MM
    BY GnssdoAssumption DEF Unit
  <2> QED BY <2>1, <2>2 DEF SecondOrder
<1>12. E - 2 <= S \div MM /\ S \div MM \in Int
  <2>1. MM \in Nat \ {0} /\ E - 2 \in Int
    BY <1>6
  <2> HIDE DEF S, MM, E
  <2> QED BY <1>9, <1>10, <2>1, AtLeastQuotient, DivBounds
<1> HIDE DEF E, S, MM
<1>13. E <= SecondOrder(T) + 2
  BY <1>6, <1>11, <1>12 DEF E
<1> QED BY <1>3, <1>13 DEF E

(* No whole number of seconds off the distance is nearer than the snapped one.   *)
LEMMA SnapNearest ==
  ASSUME NEW y \in Int, NEW k \in Int
  PROVE  /\ \E j \in Int : SnapToSecond(y) = y - Nominal * j
         /\ SnapToSecond(y) \in Int
         /\ Abs(SnapToSecond(y)) <= Abs(y - Nominal * k)
<1> USE GnssdoAssumption
<1> DEFINE h == Nominal \div 2
           z == IF y < 0 THEN y - h ELSE y + h
           j == Quot(z, Nominal)
           nj == Nominal * j
           nk == Nominal * k
           s == y - nj
<1>1. h \in Nat /\ 2 * h <= Nominal /\ Nominal <= 2 * h + 1
  OBVIOUS
<1> HIDE DEF h
<1>2. z \in Int
  BY <1>1
<1>3. j \in Int /\ nj \in Int /\ -Nominal < z - nj /\ z - nj < Nominal /\ Abs(nj) <= Abs(z)
  <2> HIDE DEF z
  <2> QED BY <1>2, QuotRest
<1>4. SnapToSecond(y) = s
  BY DEF SnapToSecond, h
<1>5. nk \in Int
  OBVIOUS
<1>6. \/ j = k
      \/ nj + Nominal <= nk
      \/ nk + Nominal <= nj
  <2>1. CASE j + 1 <= k
    <3>1. Nominal * (j + 1) <= Nominal * k
      BY <1>3, <2>1, MulMono
    <3>2. Nominal * (j + 1) = nj + Nominal
      BY <1>3
    <3> QED BY <3>1, <3>2
  <2>2. CASE k + 1 <= j
    <3>1. Nominal * (k + 1) <= Nominal * j
      BY <1>3, <2>2, MulMono
    <3>2. Nominal * (k + 1) = nk + Nominal
      BY <1>3
    <3> QED BY <3>1, <3>2
  <2> QED BY <1>3, <2>1, <2>2
\* the quotient rounds toward zero, so the rest has the sign of z
<1>7. y >= 0 => nj <= z /\ 0 <= nj
  <2>1. ASSUME y >= 0 PROVE nj <= z /\ 0 <= nj
    <3>1. z >= 0 /\ j = z \div Nominal
      BY <1>1, <2>1 DEF Quot
    <3>2. nj <= z
      <4> HIDE DEF z
      <4> QED BY <1>2, <3>1, DivBounds
    <3>3. 0 <= nj
      <4>1. ~(j <= -1)
        <5>1. SUFFICES ASSUME j <= -1 PROVE FALSE
          OBVIOUS
        <5>2. Nominal * j <= Nominal * (-1)
          BY <1>3, <5>1, MulMono
        <5> HIDE DEF z, j
        <5> QED BY <1>2, <1>3, <3>1, <5>2
      <4> HIDE DEF j
      <4> QED BY <1>3, <4>1
    <3> QED BY <3>2, <3>3
  <2> QED BY <2>1
<1>8. y < 0 => z <= nj /\ nj <= 0
  <2>1. ASSUME y < 0 PROVE z <= nj /\ nj <= 0
    <3> DEFINE w == -z
               m == w \div Nominal
    <3>1. z < 0 /\ w \in Int /\ w > 0 /\ j = -m
      BY <1>1, <2>1 DEF Quot
    <3>2. m \in Int /\ Nominal * m <= w /\ w < Nominal * m + Nominal /\ Nominal * m \in Int
      <4> HIDE DEF w
      <4> QED BY <3>1, DivBounds
    <3>3. nj = -(Nominal * m)
      <4> HIDE DEF m, w, z, j
      <4> QED BY <3>1, <3>2
    <3>4. ~(m <= -1)
      <4>1. SUFFICES ASSUME m <= -1 PROVE FALSE
        OBVIOUS
      <4> HIDE DEF w, z, m
      <4>2. Nominal * m <= Nominal * (-1)
        BY <3>2, <4>1, MulMono
      <4>3. Nominal * (-1) = -Nominal
        OBVIOUS
      <4> QED BY <3>1, <3>2, <4>2, <4>3
    <3>5. Nominal * m >= 0
      <4> HIDE DEF m
      <4> QED BY <3>2, <3>4
    <3> DEFINE nm == Nominal * m
    <3> HIDE DEF nm, nj, z
    <3>6. nm \in Int /\ nm >= 0 /\ nm <= -z /\ nj = -nm /\ z \in Int
      BY <1>2, <3>1, <3>2, <3>3, <3>5 DEF nm
    <3> QED BY <3>6
  <2> QED BY <2>1
<1>9. Abs(s) <= Abs(y - nk)
  <2>1. j = k => nj = nk
    OBVIOUS
  <2>2. y >= 0 => z = y + h
    OBVIOUS
  <2>3. y < 0 => z = y - h
    OBVIOUS
  <2> HIDE DEF z, j, nj, nk
  <2>4. CASE y >= 0
    BY <1>1, <1>2, <1>3, <1>5, <1>6, <1>7, <2>1, <2>2, <2>4 DEF Abs
  <2>5. CASE y < 0
    BY <1>1, <1>2, <1>3, <1>5, <1>6, <1>8, <2>1, <2>3, <2>5 DEF Abs
  <2> QED BY <2>4, <2>5
<1>10. s \in Int
  <2> HIDE DEF nj
  <2> QED BY <1>3
<1> QED BY <1>3, <1>4, <1>9, <1>10

(* The level a few ticks on is the same, to the rounding.                       *)
LEMMA LevelsClose ==
  ASSUME freq \in Int, NEW T \in Nat, NEW x \in {-1, 0, 1}
  PROVE  /\ Quot(Abs(x * freq), Unit) \in Int
         /\ Abs(Level(T) - Level(T + x)) <= 2 + Quot(Abs(x * freq), Unit)
<1> USE UnitTyped
<1> DEFINE a == Level(T)
           b == Level(T + x)
           d == a - b
           g == Quot(Abs(x * freq), Unit)
           tf == T * freq
           xf == x * freq
           ma == Unit * a
           mb == Unit * b
           mg == Unit * g
<1>1. a \in Int /\ ma \in Int /\ tf \in Int /\ -Unit < tf - ma /\ tf - ma < Unit
  BY LevelRest
<1>2. x \in Int /\ xf \in Int
  OBVIOUS
<1>3. b \in Int /\ mb \in Int /\ -Unit < tf + xf - mb /\ tf + xf - mb < Unit
  <2>1. T + x \in Int
    BY <1>2
  <2>2. /\ b \in Int /\ Unit * b \in Int /\ -Unit < (T + x) * freq - Unit * b
        /\ (T + x) * freq - Unit * b < Unit
    BY <2>1, LevelRest
  <2>3. (T + x) * freq = tf + xf
    BY <1>2
  <2> QED BY <2>2, <2>3
<1>4. g \in Int /\ mg \in Int /\ Abs(xf) - mg < Unit
  <2>1. Abs(xf) \in Int
    <3> HIDE DEF xf
    <3> QED BY <1>2, AbsFacts
  <2> HIDE DEF xf
  <2> QED BY <2>1, QuotRest DEF xf
<1> HIDE DEF a, b, g
<1>5. Unit * (Abs(d) - 3 - g) < 0
  <2>1. Abs(Unit * d) = Unit * Abs(d) /\ Unit * d = ma - mb
    <3>1. d \in Int /\ Unit \in Int /\ Abs(Unit) = Unit
      BY <1>1, <1>3 DEF Abs
    <3>2. Abs(Unit * d) = Abs(Unit) * Abs(d)
      BY <3>1, AbsProduct, Zenon
    <3>3. Unit * d = ma - mb
      BY <1>1, <1>3
    <3> QED BY <3>1, <3>2, <3>3
  <2>2. Abs(d) \in Nat
    BY <1>1, <1>3, AbsFacts
  <2> HIDE DEF ma, mb, tf, xf, mg, d
  <2>3. Abs(ma - mb) < 3 * Unit + mg
    BY <1>1, <1>2, <1>3, <1>4 DEF Abs
  <2>4. Unit * (Abs(d) - 3 - g) = Unit * Abs(d) - 3 * Unit - mg
    BY <1>4, <2>2 DEF mg
  <2>5. Abs(ma - mb) \in Int
    BY <1>1, <1>3 DEF Abs
  <2> DEFINE u == Unit * Abs(d)
  <2>6. u = Abs(ma - mb)
    BY <2>1
  <2> HIDE DEF u
  <2>7. u - 3 * Unit - mg < 0
    BY <1>4, <2>3, <2>5, <2>6
  <2> QED BY <2>4, <2>7 DEF u
<1>6. Abs(d) \in Nat
  BY <1>1, <1>3, AbsFacts
<1>7. ~(3 + g <= Abs(d))
  <2>1. SUFFICES ASSUME 3 + g <= Abs(d) PROVE FALSE
    OBVIOUS
  <2>2. Unit * 0 <= Unit * (Abs(d) - 3 - g)
    <3> HIDE DEF d
    <3> QED BY <1>4, <1>6, <2>1, MulMono
  <2>3. Unit * 0 = 0
    OBVIOUS
  <2>4. Unit * (Abs(d) - 3 - g) \in Int
    <3> HIDE DEF d
    <3> QED BY <1>4, <1>6
  <2> QED BY <1>5, <2>2, <2>3, <2>4
<1>8. Abs(d) <= 2 + g
  <2> HIDE DEF d
  <2> QED BY <1>4, <1>6, <1>7
<1> QED BY <1>4, <1>8 DEF a, b, g

(* The two self-checks of an edge agree but for their sign.                      *)
LEMMA ChecksAgree ==
  ASSUME freq \in Int, NEW T \in Nat, NEW x \in {-1, 0, 1}
  PROVE  Abs(SnapToSecond(PredictionResidual(T + x, T) + FireResidual(T + x, T)))
           <= 2 + Quot(Abs(x * freq), Nominal * Scale)
<1> USE GnssdoAssumption
<1> DEFINE a == Level(T)
           b == Level(T + x)
           p == PredictionResidual(T + x, T)
           f == FireResidual(T + x, T)
<1>0. x \in Int /\ T + x \in Int
  OBVIOUS
<1>1. a \in Int /\ b \in Int
  BY <1>0, LevelRest
<1>2. p = SnapToSecond(x - b)
  <2>1. p = SnapToSecond(((T + x) - b) - T)
    BY DEF PredictionResidual, Corrected
  <2> HIDE DEF b
  <2>2. ((T + x) - b) - T = x - b
    BY <1>0, <1>1
  <2> QED BY <2>1, <2>2
<1>3. f = SnapToSecond(a - x)
  <2>1. f = SnapToSecond((T + a) - (T + x))
    BY DEF FireResidual, TrueToLocal, Level
  <2> HIDE DEF a
  <2>2. (T + a) - (T + x) = a - x
    BY <1>0, <1>1
  <2> QED BY <2>1, <2>2
<1> HIDE DEF a, b, p, f
<1>4. PICK i \in Int : p = (x - b) - Nominal * i
  <2>1. x - b \in Int
    BY <1>0, <1>1
  <2> QED BY <1>2, <2>1, SnapNearest
<1>5. PICK j \in Int : f = (a - x) - Nominal * j
  <2>1. a - x \in Int
    BY <1>0, <1>1
  <2> QED BY <1>3, <2>1, SnapNearest
<1> DEFINE ni == Nominal * i
           nj == Nominal * j
           k == -(i + j)
           nk == Nominal * k
<1>6. ni \in Int /\ nj \in Int /\ nk = -(ni + nj) /\ k \in Int
  OBVIOUS
<1> HIDE DEF ni, nj, nk, k
<1>7. p + f \in Int /\ (p + f) - nk = a - b
  BY <1>0, <1>1, <1>4, <1>5, <1>6 DEF ni, nj
<1>8. Abs(SnapToSecond(p + f)) <= Abs((p + f) - nk) /\ SnapToSecond(p + f) \in Int
  BY <1>6, <1>7, SnapNearest DEF nk
<1>9. Abs(a - b) <= 2 + Quot(Abs(x * freq), Unit) /\ Quot(Abs(x * freq), Unit) \in Int
  BY LevelsClose DEF a, b
<1> DEFINE g == Quot(Abs(x * freq), Unit)
           s == SnapToSecond(p + f)
<1>10. Abs(s) \in Int /\ Abs(a - b) \in Int
  <2> HIDE DEF s
  <2>1. a - b \in Int
    BY <1>1
  <2> QED BY <1>8, <2>1, AbsFacts DEF s
<1> HIDE DEF g, s
<1>11. Abs(s) <= 2 + g
  <2>1. g \in Int /\ Abs(a - b) <= 2 + g
    BY <1>9 DEF g
  <2>2. Abs(s) <= Abs(a - b)
    BY <1>7, <1>8 DEF s
  <2> QED BY <1>10, <2>1, <2>2
<1> QED BY <1>11 DEF g, s, p, f, Unit

(* A pulse scheduled for a time is seen at that time, whatever the estimate      *)
(* (gpsdo.rs:552-559, 679-734).                                               *)
THEOREM ReadoutInverse == Spec => []ReadoutInverts
<1>1. IInv => ReadoutInverts
  <2> SUFFICES ASSUME IInv, NEW n \in 0 .. Horizon
               PROVE  LET T == n * Nominal
                      IN  /\ Abs(Corrected(TrueToLocal(T)) - T) <= SecondOrder(T) + 2
                          /\ \A x \in {-1, 0, 1} :
                               Abs(SnapToSecond(PredictionResidual(T + x, T) + FireResidual(T + x, T)))
                                 <= 2 + Quot(Abs(x * freq), Nominal * Scale)
    BY DEF ReadoutInverts
  <2> DEFINE T == n * Nominal
  <2>1. T \in Nat /\ freq \in Int
    BY GnssdoAssumption, HorizonAssumption DEF IInv, TypeOK
  <2> HIDE DEF T
  <2>2. Abs(Corrected(TrueToLocal(T)) - T) <= SecondOrder(T) + 2
    BY <2>1, ReadBack
  <2>3. \A x \in {-1, 0, 1} :
          Abs(SnapToSecond(PredictionResidual(T + x, T) + FireResidual(T + x, T)))
            <= 2 + Quot(Abs(x * freq), Nominal * Scale)
    BY <2>1, ChecksAgree
  <2> QED BY <2>2, <2>3 DEF T
<1> QED BY <1>1, Invariance, PTL
-----------------------------------------------------------------------------
(* The holdover.  With e what the crystal gains over the n seconds, the reading  *)
(* is wrong by what the divisions leave and by the parts of second order in e.   *)
LEMMA RampAlgebra ==
  ASSUME NEW n \in Int, NEW N \in Int, NEW f \in Int, NEW s \in Int, NEW e \in Int
  PROVE  N * N * (2 * n * f + s * n * n) - 2 * N * ((n * N + e) * f) - s * (n * N + e) * (n * N + e)
           = -(e * (2 * N * (f + n * s) + s * e))
OBVIOUS

LEMMA SumWithin ==
  ASSUME NEW a \in Int, NEW b \in Int
  PROVE  Abs(a + b) <= Abs(a) + Abs(b)
BY DEF Abs

\* the second-order part, factor by factor
LEMMA SecondOrderPart ==
  ASSUME NEW n \in Nat, NEW N \in Nat, NEW f \in Int, NEW s \in Int, NEW e \in Int
  PROVE  /\ Abs(e * (2 * N * (f + n * s) + s * e))
              <= Abs(e) * (2 * N * (Abs(f) + n * Abs(s)) + Abs(s) * Abs(e))
         /\ Abs(e) * (2 * N * (Abs(f) + n * Abs(s)) + Abs(s) * Abs(e)) \in Nat
<1> DEFINE F == Abs(f)
           G == Abs(s)
           x == Abs(e)
           a == f + n * s
           A == F + n * G
           b == 2 * N * a
           B == 2 * N * A
           c == s * e
           C == G * x
<1>1. F \in Nat /\ G \in Nat /\ x \in Nat
  BY AbsFacts
<1>2. Abs(n) = n /\ Abs(2 * N) = 2 * N /\ n \in Int /\ 2 * N \in Nat
  BY DEF Abs
<1>3. n * s \in Int /\ Abs(n * s) = n * G
  <2>1. n * s \in Int
    OBVIOUS
  <2>2. Abs(n * s) = Abs(n) * Abs(s)
    BY <1>2, AbsProduct, Zenon
  <2> QED BY <1>2, <2>1, <2>2, Zenon
<1>4. a \in Int /\ A \in Nat /\ Abs(a) <= A
  <2>1. Abs(a) <= F + Abs(n * s)
    BY <1>3, SumWithin
  <2> HIDE DEF F, G
  <2>2. n * G \in Nat
    BY <1>1
  <2> QED BY <1>1, <1>3, <2>1, <2>2
<1> HIDE DEF F, G, x, a, A
<1>5. b \in Int /\ B \in Nat /\ Abs(b) <= B
  <2>1. Abs(b) = 2 * N * Abs(a)
    <3> DEFINE D == 2 * N
    <3>1. D \in Int /\ Abs(D) = D
      BY <1>2
    <3>2. Abs(D * a) = Abs(D) * Abs(a)
      <4> HIDE DEF D
      <4> QED BY <1>4, <3>1, AbsProduct, Zenon
    <3> QED BY <3>1, <3>2, Zenon
  <2>2. Abs(a) \in Nat
    BY <1>4, AbsFacts
  <2>3. 2 * N * Abs(a) <= 2 * N * A
    BY <1>2, <1>4, <2>2, MulMono
  <2> QED BY <1>4, <2>1, <2>3
<1>6. c \in Int /\ C \in Nat /\ Abs(c) = C
  <2>1. Abs(c) = C
    BY AbsProduct DEF G, x
  <2> QED BY <1>1, <2>1
<1> HIDE DEF b, B, c, C
<1>7. Abs(b + c) <= B + C /\ Abs(b + c) \in Nat /\ b + c \in Int /\ B + C \in Nat
  <2>1. b + c \in Int /\ B + C \in Nat
    BY <1>5, <1>6
  <2>2. Abs(b + c) <= Abs(b) + Abs(c)
    BY <1>5, <1>6, SumWithin
  <2>3. Abs(b) \in Nat /\ Abs(b + c) \in Nat
    BY <1>5, <2>1, AbsFacts
  <2> QED BY <1>5, <1>6, <2>1, <2>2, <2>3
<1>8. Abs(e * (b + c)) = x * Abs(b + c)
  BY <1>7, AbsProduct DEF x
<1>9. x * Abs(b + c) <= x * (B + C) /\ x * (B + C) \in Nat
  BY <1>1, <1>7, MulMono
<1> QED BY <1>8, <1>9 DEF b, B, c, C, a, A, F, G, x

LEMMA RestTimes ==
  ASSUME NEW k \in Nat \ {0}, NEW r \in Int, NEW m \in Int, -m < r, r < m
  PROVE  k * r \in Int /\ k * m \in Int /\ -(k * m) < k * r /\ k * r < k * m
<1>1. k * (r + 1) <= k * m /\ k * (-m) <= k * (r - 1)
  <2>1. r + 1 \in Int /\ r - 1 \in Int /\ -m \in Int /\ r + 1 <= m /\ -m <= r - 1
    OBVIOUS
  <2> QED BY <2>1, MulMono
<1>2. k * (r + 1) = k * r + k /\ k * (r - 1) = k * r - k /\ k * (-m) = -(k * m)
  OBVIOUS
<1>3. k * r \in Int /\ k * m \in Int
  OBVIOUS
<1> DEFINE kr == k * r
           km == k * m
<1>4. kr + k <= km /\ -km <= kr - k /\ kr \in Int /\ km \in Int
  BY <1>1, <1>2, <1>3
<1> HIDE DEF kr, km
<1>5. -km < kr /\ kr < km
  BY <1>4
<1> QED BY <1>3, <1>5 DEF kr, km

LEMMA RampTracked ==
  ASSUME freq \in Int, slope \in Int, NEW n \in Nat
  PROVE  LET x == Abs(Ramp(n) - n * Nominal)
         IN  Abs(CorrectedSlope(Ramp(n)) - n * Nominal)
               <= 4 + (x * (2 * Nominal * (Abs(freq) + n * Abs(slope)) + Abs(slope) * x))
                        \div (2 * Nominal * Nominal * Scale)
<1> USE GnssdoAssumption
<1> DEFINE N == Nominal
           f == freq
           s == slope
           A == 2 * n * f + s * n * n
           S2 == 2 * Scale
           e == Quot(A, S2)
           d == n * N + e
           NS == Nominal * Scale
           K == 2 * Nominal * Nominal * Scale
           p == Quot(d * f, NS)
           B == s * d * d
           q == Quot(B, K)
           X == Abs(e) * (2 * N * (Abs(f) + n * Abs(s)) + Abs(s) * Abs(e))
           Y == e * (2 * N * (f + n * s) + s * e)
<1>1. A \in Int /\ S2 \in Nat \ {0} /\ NS \in Nat \ {0} /\ K \in Nat \ {0} /\ n * N \in Int
  <2>1. 2 * n * f \in Int /\ s * n * n \in Int
    OBVIOUS
  <2> QED BY <2>1
<1>2. e \in Int /\ S2 * e \in Int /\ -S2 < A - S2 * e /\ A - S2 * e < S2
  <2> HIDE DEF A, S2
  <2> QED BY <1>1, QuotRest
<1>3. d \in Int /\ d * f \in Int /\ B \in Int
  <2> HIDE DEF e
  <2> QED BY <1>1, <1>2
<1>4. p \in Int /\ NS * p \in Int /\ -NS < d * f - NS * p /\ d * f - NS * p < NS
  <2> DEFINE y == d * f
  <2>1. y \in Int
    BY <1>3
  <2> HIDE DEF y, NS
  <2>2. LET k == Quot(y, NS) IN k \in Int /\ NS * k \in Int /\ -NS < y - NS * k /\ y - NS * k < NS
    BY <1>1, <2>1, QuotRest
  <2> QED BY <2>2 DEF y
<1>5. q \in Int /\ K * q \in Int /\ -K < B - K * q /\ B - K * q < K
  <2> HIDE DEF B, K
  <2> QED BY <1>1, <1>3, QuotRest
<1>6. Ramp(n) = d /\ Ramp(n) - n * Nominal = e
  <2>1. Ramp(n) = d
    BY DEF Ramp
  <2> DEFINE nn == n * N
  <2>2. nn \in Int /\ d = nn + e
    BY <1>1
  <2> HIDE DEF nn, e, d
  <2>3. d - nn = e
    BY <1>2, <2>2
  <2> QED BY <2>1, <2>3 DEF nn
<1>7. CorrectedSlope(d) - n * Nominal = (e - p) - q
  <2>1. CorrectedSlope(d) = (d - p) - q
    BY DEF CorrectedSlope, Level
  <2> DEFINE nn == n * N
  <2>2. nn \in Int /\ d = nn + e
    BY <1>1
  <2> HIDE DEF nn, e, d, p, q
  <2>3. ((d - p) - q) - nn = (e - p) - q
    BY <1>2, <1>4, <1>5, <2>2
  <2> QED BY <2>1, <2>3 DEF nn
<1> DEFINE z == (e - p) - q
           r0 == A - S2 * e
           r1 == d * f - NS * p
           r2 == B - K * q
           N2 == N * N
           D2 == 2 * N
<1>8. N2 \in Nat \ {0} /\ D2 \in Nat \ {0} /\ N2 * S2 = K /\ D2 * NS = K
  OBVIOUS
<1>9. r0 \in Int /\ r1 \in Int /\ r2 \in Int
  <2> HIDE DEF A, B, e, d, p, q, S2, NS, K
  <2> QED BY <1>1, <1>2, <1>3, <1>4, <1>5
<1>10. /\ N2 * r0 \in Int /\ -K < N2 * r0 /\ N2 * r0 < K
       /\ D2 * r1 \in Int /\ -K < D2 * r1 /\ D2 * r1 < K
  <2>1. -S2 < r0 /\ r0 < S2 /\ -NS < r1 /\ r1 < NS /\ S2 \in Int /\ NS \in Int
    BY <1>1, <1>2, <1>4
  <2>2. N2 * r0 \in Int /\ -(N2 * S2) < N2 * r0 /\ N2 * r0 < N2 * S2
    <3> HIDE DEF N2, r0, S2
    <3> QED BY <1>8, <1>9, <2>1, RestTimes
  <2>3. D2 * r1 \in Int /\ -(D2 * NS) < D2 * r1 /\ D2 * r1 < D2 * NS
    <3> HIDE DEF D2, r1, NS
    <3> QED BY <1>8, <1>9, <2>1, RestTimes
  <2> QED BY <1>8, <2>2, <2>3
<1>11. K * z = ((r2 + D2 * r1) - N2 * r0) - Y
  <2>1. K * z = (K * e - K * p) - K * q
    <3> HIDE DEF K, e, p, q
    <3> QED BY <1>1, <1>2, <1>4, <1>5
  <2>2. K * e = N2 * (S2 * e) /\ K * p = D2 * (NS * p)
    <3> HIDE DEF e, p
    <3> QED BY <1>2, <1>4
  <2>3. N2 * (S2 * e) = N2 * A - N2 * r0
    <3> DEFINE u == S2 * e
    <3>1. u = A - r0 /\ u \in Int
      <4> HIDE DEF A, u
      <4>1. A - (A - u) = u /\ u \in Int
        BY <1>1, <1>2 DEF u
      <4> QED BY <4>1 DEF u
    <3> HIDE DEF u, A, N2, r0
    <3>2. N2 * u = N2 * A - N2 * r0
      BY <1>1, <1>8, <1>9, <3>1
    <3> QED BY <3>2 DEF u
  <2>4. D2 * (NS * p) = D2 * (d * f) - D2 * r1
    <3> DEFINE u == NS * p
               y == d * f
    <3>1. u = y - r1 /\ u \in Int /\ y \in Int
      <4> HIDE DEF u, y
      <4>1. y - (y - u) = u /\ u \in Int /\ y \in Int
        BY <1>3, <1>4 DEF u, y
      <4> QED BY <4>1 DEF u, y
    <3> HIDE DEF u, y, D2, r1
    <3>2. D2 * u = D2 * y - D2 * r1
      BY <1>8, <1>9, <3>1
    <3> QED BY <3>2 DEF u, y
  <2>5. K * q = B - r2
    <3> DEFINE u == K * q
    <3> HIDE DEF u, B
    <3>1. B - (B - u) = u
      BY <1>3, <1>5 DEF u
    <3> QED BY <3>1 DEF u
  <2>6. (N2 * A - D2 * (d * f)) - B = -Y
    <3> HIDE DEF e
    <3> QED BY <1>2, RampAlgebra
  <2> DEFINE a == N2 * A
             b == D2 * (d * f)
             i == N2 * r0
             j == D2 * r1
  <2>7. a \in Int /\ b \in Int /\ i \in Int /\ j \in Int
    <3> DEFINE y == d * f
    <3> HIDE DEF A, y
    <3> QED BY <1>1, <1>3, <1>8, <1>10 DEF y
  <2>8. K * z = ((a - i) - (b - j)) - (B - r2) /\ (a - b) - B = -Y
    BY <2>1, <2>2, <2>3, <2>4, <2>5, <2>6
  <2>9. Y \in Int
    <3> HIDE DEF e
    <3> QED BY <1>2
  <2> HIDE DEF a, b, i, j, Y, B, z, r2, K
  <2>10. ((a - i) - (b - j)) - (B - r2) = ((r2 + j) - i) - Y
    BY <1>3, <1>9, <2>7, <2>8, <2>9
  <2> QED BY <2>8, <2>10 DEF i, j
<1>12. Abs(Y) <= X /\ X \in Nat /\ Y \in Int
  <2>1. Y \in Int
    <3> HIDE DEF e
    <3> QED BY <1>2
  <2> HIDE DEF e
  <2> QED BY <1>2, <2>1, SecondOrderPart
<1>13. z \in Int /\ Abs(z) \in Nat
  <2>1. z \in Int
    <3> HIDE DEF e, p, q
    <3> QED BY <1>2, <1>4, <1>5
  <2> QED BY <2>1, AbsFacts
<1>14. K * Abs(z) <= 3 * K + X /\ K * Abs(z) \in Int
  <2> DEFINE u == K * z
             i == N2 * r0
             j == D2 * r1
  <2>1. u = ((r2 + j) - i) - Y /\ u \in Int
    <3> HIDE DEF z
    <3> QED BY <1>1, <1>11, <1>13
  <2>2. -K < r2 /\ r2 < K /\ -K < i /\ i < K /\ -K < j /\ j < K /\ i \in Int /\ j \in Int
    BY <1>5, <1>10
  <2>3. Abs(u) = K * Abs(z)
    <3> HIDE DEF z
    <3>1. Abs(K) = K /\ K \in Int
      <4> HIDE DEF K
      <4> QED BY <1>1 DEF Abs
    <3> HIDE DEF K
    <3> QED BY <1>13, <3>1, AbsProduct
  <2> HIDE DEF u, i, j, r2, Y, X, K
  <2>4. Abs(u) <= 3 * K + X /\ Abs(u) \in Int
    BY <1>1, <1>9, <1>12, <2>1, <2>2 DEF Abs
  <2> QED BY <2>3, <2>4
<1>15. K * (Abs(z) - 3) <= X
  <2> HIDE DEF K, z, X
  <2>1. K * (Abs(z) - 3) = K * Abs(z) - 3 * K
    BY <1>1, <1>13
  <2> DEFINE u == K * Abs(z)
  <2> HIDE DEF u
  <2>2. u - 3 * K <= X
    BY <1>1, <1>12, <1>14 DEF u
  <2> QED BY <2>1, <2>2 DEF u
<1>16. Abs(z) <= 4 + X \div K
  <2> HIDE DEF K, z, X
  <2> DEFINE g == X \div K
             k == Abs(z) - 3
  <2>0. k \in Int /\ X \in Nat /\ K * k <= X
    BY <1>12, <1>13, <1>15
  <2>1. Abs(z) - 3 <= g /\ g \in Int
    <3>1. g \in Int
      BY <1>1, <1>12
    <3> HIDE DEF k
    <3>2. k <= X \div K
      BY <1>1, <2>0, AtLeastQuotient, Zenon
    <3> QED BY <3>1, <3>2 DEF k
  <2> HIDE DEF g
  <2>2. Abs(z) <= 4 + g
    BY <1>13, <2>1 DEF g
  <2> QED BY <2>2 DEF g
<1> HIDE DEF z, X, K, d, e
<1>17. Abs(CorrectedSlope(Ramp(n)) - n * Nominal) <= 4 + X \div K
  BY <1>6, <1>7, <1>16 DEF z
<1> QED BY <1>6, <1>17 DEF X, K

(* With the receiver gone and the crystal drifting on as it did, the error of the *)
(* holdover's reading does not grow with the square of the outage               *)
(* (gpsdo.rs:561-579, 661-669).                                               *)
THEOREM HoldoverTracks == Spec => []HoldoverTracksRamp
<1>1. IInv => HoldoverTracksRamp
  <2>1. ASSUME IInv PROVE freq \in Int /\ slope \in Int
    BY <2>1, GnssdoAssumption DEF IInv, TypeOK
  <2>2. \A n \in 0 .. Horizon : n \in Nat
    BY HorizonAssumption
  <2> QED BY <2>1, <2>2, RampTracked DEF HoldoverTracksRamp
<1> QED BY <1>1, Invariance, PTL
=============================================================================
