-------------------------- MODULE PhaseLoop_proofs --------------------------
(***************************************************************************)
(* Proofs about PhaseLoop for every value of its constants: types and the   *)
(* limit of the trim, the lock that is not reported for ever on a strayed   *)
(* output, the boost that ends, and the seamless switch.                    *)
(***************************************************************************)
EXTENDS PhaseLoop, TLAPS

(* A symmetric clamp limits, and leaves alone what is within the limit.       *)
LEMMA Clamped ==
  ASSUME NEW x \in Int, NEW b \in Nat
  PROVE  /\ Clamp(x, b) \in -b .. b /\ Clamp(x, b) \in Int
         /\ x \in -b .. b => Clamp(x, b) = x
BY DEF Clamp

(* A quotient lies between zero and the dividend.                             *)
LEMMA QuotShrinks ==
  ASSUME NEW x \in Nat, NEW y \in Nat \ {0}
  PROVE  x \div y \in Nat /\ x \div y <= x
<1> DEFINE q == x \div y
<1>1. q \in Int /\ y * q <= x /\ x < y * q + y
  OBVIOUS
<1>2. q >= 0
  <2>1. SUFFICES ASSUME q <= -1 PROVE FALSE
    BY <1>1
  <2>2. y * q <= y * (-1)
    BY <1>1, <2>1
  <2> QED BY <1>1, <2>2
<1>3. 1 * q <= y * q
  BY <1>1, <1>2
<1> QED BY <1>1, <1>2, <1>3

(* What Quot returns: between zero and the dividend.                          *)
LEMMA Quotient ==
  ASSUME NEW x \in Int, NEW y \in Nat \ {0}
  PROVE  /\ Quot(x, y) \in Int
         /\ x >= 0 => 0 <= Quot(x, y) /\ Quot(x, y) <= x
         /\ x <= 0 => x <= Quot(x, y) /\ Quot(x, y) <= 0
<1>1. CASE x >= 0
  BY <1>1, QuotShrinks DEF Quot
<1>2. CASE x < 0
  <2>1. -x \in Nat
    BY <1>2
  <2>2. (-x) \div y \in Nat /\ (-x) \div y <= -x
    BY <2>1, QuotShrinks
  <2> QED BY <1>2, <2>2 DEF Quot
<1> QED BY <1>1, <1>2

LEMMA QuotBounded ==
  ASSUME NEW x \in Int, NEW y \in Nat \ {0}, NEW b \in Nat, -b <= x, x <= b
  PROVE  Quot(x, y) \in Int /\ -b <= Quot(x, y) /\ Quot(x, y) <= b
<1>1. /\ Quot(x, y) \in Int
      /\ x >= 0 => 0 <= Quot(x, y) /\ Quot(x, y) <= x
      /\ x <= 0 => x <= Quot(x, y) /\ Quot(x, y) <= 0
  BY Quotient
<1> DEFINE q == Quot(x, y)
<1> HIDE DEF q
<1>2. /\ q \in Int
      /\ x >= 0 => 0 <= q /\ q <= x
      /\ x <= 0 => x <= q /\ q <= 0
  BY <1>1 DEF q
<1>3. q \in Int /\ -b <= q /\ q <= b
  BY <1>2
<1> QED BY <1>3 DEF q
-----------------------------------------------------------------------------
(* The reworked integrator: what it bleeds back does not reach the other      *)
(* limit.                                                                     *)
LEMMA ReworkedInRange ==
  ASSUME NEW c \in Plls, NEW pred \in Int
  PROVE  Reworked(c, pred) \in Trims
<1> USE ControllersAssumption
<1> DEFINE step == Quot(Clamp(pred, InputClamp) * Scale, IDen)
           want == c.trim - step
           kept == Clamp(want, TrimMax)
           back == Quot(want - kept, KbcInv)
<1>1. Clamp(pred, InputClamp) \in -InputClamp .. InputClamp
  BY Clamped
<1>2. /\ Clamp(pred, InputClamp) * Scale \in Int
      /\ -(InputClamp * Scale) <= Clamp(pred, InputClamp) * Scale
      /\ Clamp(pred, InputClamp) * Scale <= InputClamp * Scale
  BY <1>1
<1>3. step \in Int /\ -(InputClamp * Scale) <= step /\ step <= InputClamp * Scale
  <2>1. InputClamp * Scale \in Nat
    OBVIOUS
  <2> QED BY <1>2, <2>1, QuotBounded
<1>4. c.trim \in -TrimMax .. TrimMax
  BY DEF Plls, Trims
<1>5. step \in Int /\ -(2 * TrimMax) <= step /\ step <= 2 * TrimMax
  BY <1>3, ReworkAssumption
<1>6. want \in Int /\ -(3 * TrimMax) <= want /\ want <= 3 * TrimMax
  BY <1>4, <1>5
<1> HIDE DEF step, want
<1>7. /\ kept \in -TrimMax .. TrimMax
      /\ want > TrimMax => kept = TrimMax
      /\ want < -TrimMax => kept = -TrimMax
      /\ -TrimMax <= want /\ want <= TrimMax => kept = want
  BY <1>6 DEF Clamp
<1>8. want - kept \in Int
  BY <1>6, <1>7
<1>9. /\ back \in Int
      /\ want - kept >= 0 => 0 <= back /\ back <= want - kept
      /\ want - kept <= 0 => want - kept <= back /\ back <= 0
  BY <1>8, Quotient
<1> HIDE DEF kept, back
<1>10. kept - back \in -TrimMax .. TrimMax
  BY <1>6, <1>7, <1>9
<1>11. Reworked(c, pred) = kept - back
  BY DEF Reworked, kept, back, want, step
<1> QED BY <1>10, <1>11 DEF Trims

(* The integrator of the PLL, and the corrections of the two.                  *)
LEMMA IntegratedInRange ==
  ASSUME NEW c \in Plls, NEW err \in Int, NEW pred \in Int
  PROVE  Integrated(c, err, pred) \in Trims
<1> USE ControllersAssumption
<1>1. c.trim \in Trims /\ 0 \in Trims /\ c.trim \in Int
  BY DEF Plls, Trims
<1>2. IDenEff(pred) \in Nat \ {0}
  BY DEF IDenEff
<1>3. pred * Scale \in Int
  OBVIOUS
<1>4. c.trim - Quot(pred * Scale, IDenEff(pred)) \in Int
  BY <1>1, <1>2, <1>3, Quotient
<1>5. Clamp(c.trim - Quot(pred * Scale, IDenEff(pred)), TrimMax) \in Trims
  BY <1>4, Clamped DEF Trims
<1> QED BY <1>1, <1>5 DEF Integrated

LEMMA CorrectionTyped ==
  ASSUME NEW c \in Plls, NEW pred \in Int
  PROVE  /\ PCorr(pred) \in Int /\ DCorr(c, pred) \in Int
         /\ Clamp(Quot(pred, KpInv), CorrClamp) \in Int
<1> USE ControllersAssumption
<1>1. Quot(pred, KpInv) \in Int
  BY Quotient
<1>2. pred - c.lastPred \in Int
  BY DEF Plls
<1>3. Quot(pred - c.lastPred, DDen) \in Int
  BY <1>2, Quotient
<1> QED BY <1>1, <1>3, Clamped DEF PCorr, DCorr

(* The lock counter keeps its range and an outlier clears it.                  *)
LEMMA LockCounted ==
  ASSUME NEW lockCnt \in Locks, NEW c, c.lockCnt = lockCnt, NEW err \in Int
  PROVE  /\ LockCount(c, err) \in Locks
         /\ Abs(err) > Outlier => LockCount(c, err) = 0
BY ControllersAssumption, WindowAssumption DEF LockCount, Locks, AtMost, Abs
-----------------------------------------------------------------------------
(* One step of each controller: what a sample that is not trusted leaves       *)
(* alone, and what an outlier seen by a locked controller does.                *)
Controllers == Plls \union Boosts \union Opens

StepGood(c, err, valid, u) ==
  /\ u.state \in Controllers /\ u.state.kind = c.kind
  /\ u.out.trim \in Trims /\ u.out.pcorr \in Int /\ u.out.locked \in BOOLEAN
  /\ ~valid /\ IsLocked(u.state) => IsLocked(c) /\ u.state.rejectCnt = c.rejectCnt
  /\ valid /\ Abs(err) > Outlier /\ u.out.locked =>
       IsLocked(c) /\ (IsLocked(u.state) => u.state.rejectCnt = c.rejectCnt + 1
                                             /\ u.state.rejectCnt <= OutlierMax)

(* A pll record after an applied edge.                                         *)
AppliedTo(c, trim, n, pred, pd) ==
  [c EXCEPT !.rejectCnt = 0, !.trim = trim, !.lockCnt = n, !.lastPred = pred, !.inFlight = pd]

LEMMA AppliedPll ==
  ASSUME NEW c \in Plls, NEW trim \in Trims, NEW n \in Locks, NEW pred \in Int, NEW pd \in Int
  PROVE  /\ AppliedTo(c, trim, n, pred, pd) \in Plls
         /\ AppliedTo(c, trim, n, pred, pd).trim = trim
         /\ AppliedTo(c, trim, n, pred, pd).lockCnt = n
         /\ AppliedTo(c, trim, n, pred, pd).kind = c.kind
<1>1. 0 \in Rejects
  BY ControllersAssumption DEF Rejects
<1> QED BY <1>1 DEF Plls, AppliedTo

(* A held spike only counts.                                                   *)
LEMMA SpikedPll ==
  ASSUME NEW c \in Plls, NEW err \in Int, Rejected(c, err)
  PROVE  /\ Spiked(c) \in Plls /\ IsLocked(c) /\ Spiked(c).kind = c.kind
         /\ Spiked(c).rejectCnt = c.rejectCnt + 1 /\ Spiked(c).rejectCnt <= OutlierMax
BY ControllersAssumption DEF Plls, Locks, Rejects, Spiked, Rejected

(* The three outcomes of an edge that the PLL and the reworked integrator share. *)
HeldUp(c) == [state |-> c, out |-> Output(c.trim, 0, FALSE, IsLocked(c), FALSE)]
SpikedUp(c) == [state |-> Spiked(c), out |-> Output(c.trim, 0, FALSE, TRUE, TRUE)]
AppliedUp(c, err, trim, pred, pd) ==
  LET next == AppliedTo(c, trim, LockCount(c, err), pred, pd)
  IN  [state |-> next, out |-> Output(next.trim, pd, TRUE, IsLocked(c), FALSE)]

LEMMA AppliedOut ==
  ASSUME NEW c \in Plls, NEW err \in Int, NEW trim \in Trims, NEW pred \in Int, NEW pd \in Int,
         ~IsLocked(c)
  PROVE  LET u == AppliedUp(c, err, trim, pred, pd)
         IN  u.out.trim = trim /\ u.out.pcorr = pd /\ ~u.out.locked
<1> DEFINE next == AppliedTo(c, trim, LockCount(c, err), pred, pd)
<1>1. LockCount(c, err) \in Locks
  BY LockCounted DEF Plls
<1>2. next.trim = trim
  BY <1>1, AppliedPll
<1> HIDE DEF next
<1>3. AppliedUp(c, err, trim, pred, pd)
        = [state |-> next, out |-> Output(next.trim, pd, TRUE, IsLocked(c), FALSE)]
  BY DEF AppliedUp, next
<1> QED BY <1>2, <1>3 DEF Output

LEMMA OutcomesGood ==
  ASSUME NEW c \in Plls, NEW err \in Int, NEW valid \in BOOLEAN,
         NEW trim \in Trims, NEW pred \in Int, NEW pd \in Int, NEW u,
         u = IF ~valid THEN HeldUp(c)
             ELSE IF Rejected(c, err) THEN SpikedUp(c)
             ELSE AppliedUp(c, err, trim, pred, pd)
  PROVE  StepGood(c, err, valid, u)
<1> USE ControllersAssumption
<1>1. IsLocked(c) \in BOOLEAN /\ c.trim \in Trims /\ c.lockCnt \in Locks
  BY DEF IsLocked, Plls
<1>2. CASE ~valid
  BY <1>1, <1>2 DEF StepGood, HeldUp, Output, Controllers
<1>3. CASE valid /\ Rejected(c, err)
  <2>1. u.state = Spiked(c) /\ u.out.trim = c.trim /\ u.out.pcorr = 0 /\ u.out.locked \in BOOLEAN
    BY <1>3 DEF SpikedUp, Output
  <2>2. /\ Spiked(c) \in Plls /\ IsLocked(c) /\ Spiked(c).kind = c.kind
        /\ Spiked(c).rejectCnt = c.rejectCnt + 1 /\ Spiked(c).rejectCnt <= OutlierMax
    BY <1>3, SpikedPll
  <2> QED BY <1>1, <1>3, <2>1, <2>2 DEF StepGood, Controllers
<1>4. CASE valid /\ ~Rejected(c, err)
  <2> DEFINE next == AppliedTo(c, trim, LockCount(c, err), pred, pd)
  <2>1. LockCount(c, err) \in Locks /\ (Abs(err) > Outlier => LockCount(c, err) = 0)
    BY <1>1, LockCounted
  <2>2. next \in Plls /\ next.trim = trim /\ next.lockCnt = LockCount(c, err)
    BY <2>1, AppliedPll
  <2>3. u.state = next /\ u.out.trim = next.trim /\ u.out.pcorr = pd /\ u.out.locked = IsLocked(c)
    BY <1>4 DEF AppliedUp, Output
  <2> HIDE DEF next
  <2>4. Abs(err) > Outlier => ~IsLocked(next)
    BY <2>1, <2>2 DEF IsLocked
  <2>5. next.kind = c.kind
    BY <2>1, AppliedPll DEF next
  <2> QED BY <2>5, <1>1, <1>4, <2>2, <2>3, <2>4 DEF StepGood, Controllers
<1> QED BY <1>2, <1>3, <1>4

LEMMA PllStepGood ==
  ASSUME NEW c \in Plls, NEW err \in Int, NEW valid \in BOOLEAN
  PROVE  StepGood(c, err, valid, PllStep(c, err, valid))
<1> USE ControllersAssumption
<1> DEFINE pred == Pred(c, err)
           pd == PCorr(pred) + (IF UsesD(c.kind) /\ IsLocked(c) THEN DCorr(c, pred) ELSE 0)
<1>1. pred \in Int
  BY DEF Pred, Plls
<1>2. pd \in Int
  BY <1>1, CorrectionTyped
<1>3. Integrated(c, err, pred) \in Trims
  BY <1>1, IntegratedInRange
<1>4. PllStep(c, err, valid) =
        IF ~valid THEN HeldUp(c)
        ELSE IF Rejected(c, err) THEN SpikedUp(c)
        ELSE AppliedUp(c, err, Integrated(c, err, pred), pred, pd)
  BY DEF PllStep, HeldUp, SpikedUp, AppliedUp, AppliedTo
<1> HIDE DEF pred, pd
<1> QED BY <1>1, <1>2, <1>3, <1>4, OutcomesGood

LEMMA ReworkStepGood ==
  ASSUME NEW c \in Plls, NEW err \in Int, NEW valid \in BOOLEAN
  PROVE  StepGood(c, err, valid, ReworkStep(c, err, valid))
<1> USE ControllersAssumption
<1> DEFINE pred == err - c.inFlight
           pd == Clamp(Quot(pred, KpInv), CorrClamp) + (IF IsLocked(c) THEN DCorr(c, pred) ELSE 0)
<1>1. pred \in Int
  BY DEF Plls
<1>2. pd \in Int
  BY <1>1, CorrectionTyped
<1>3. Reworked(c, pred) \in Trims
  BY <1>1, ReworkedInRange
<1>4. ReworkStep(c, err, valid) =
        IF ~valid THEN HeldUp(c)
        ELSE IF Rejected(c, err) THEN SpikedUp(c)
        ELSE AppliedUp(c, err, Reworked(c, pred), pred, pd)
  BY DEF ReworkStep, HeldUp, SpikedUp, AppliedUp, AppliedTo
<1> HIDE DEF pred, pd
<1> QED BY <1>1, <1>2, <1>3, <1>4, OutcomesGood
-----------------------------------------------------------------------------
(* The observer: the same, and how many edges in a row the boost has lasted.   *)
BoostCounted(c, next) ==
  /\ c.boosting /\ next.boosting => next.boostEdges = c.boostEdges + 1 /\ next.boostEdges < BoostMax
  /\ ~c.boosting /\ next.boosting => next.boostEdges = 0

LEMMA Ticked ==
  ASSUME NEW c \in Boosts
  PROVE  /\ Tick(c) \in Boosts /\ BoostCounted(c, Tick(c))
         /\ Tick(c).lockCnt = c.lockCnt /\ Tick(c).rejectCnt = c.rejectCnt /\ Tick(c).kind = c.kind
<1> USE ControllersAssumption
<1> DEFINE stays == c.boostEdges + 1 < BoostMax
<1>1. CASE ~c.boosting
  BY <1>1 DEF Tick, BoostCounted
<1>2. CASE c.boosting
  <2>1. Tick(c) = [c EXCEPT !.boostEdges = c.boostEdges + 1, !.boosting = stays]
    BY <1>2 DEF Tick, Boosts
  <2>2. c.boostEdges + 1 \in Nat /\ stays \in BOOLEAN /\ (stays => c.boostEdges + 1 < BoostMax)
    BY DEF Boosts
  <2> HIDE DEF stays
  <2> QED BY <1>2, <2>1, <2>2 DEF Boosts, BoostCounted
<1> QED BY <1>1, <1>2

LEMMA SpikedBoost ==
  ASSUME NEW c \in Boosts, NEW err \in Int, Rejected(c, err)
  PROVE  /\ Spiked(c) \in Boosts /\ IsLocked(c) /\ Spiked(c).kind = c.kind
         /\ Spiked(c).rejectCnt = c.rejectCnt + 1 /\ Spiked(c).rejectCnt <= OutlierMax
         /\ Spiked(c).boosting = c.boosting /\ Spiked(c).boostEdges = c.boostEdges
         /\ Spiked(c).lockCnt = c.lockCnt
BY ControllersAssumption DEF Boosts, Locks, Rejects, Spiked, Rejected

LEMMA HysteresisCounted ==
  ASSUME NEW c \in Boosts, NEW err \in Int, NEW innov \in Int
  PROVE  Hysteresis(c, err, innov) \in Boosts /\ BoostCounted(c, Hysteresis(c, err, innov))
<1> USE ControllersAssumption
<1>1. 0 \in Rejects /\ c.exitCnt + 1 \in Nat /\ c.boostEdges + 1 \in Nat /\ 1 <= BoostMax
  BY DEF Rejects, Boosts
<1> DEFINE exit == IF Abs(err) < ExitWindow THEN c.exitCnt + 1 ELSE 0
           stays == exit < ExitHold /\ c.boostEdges + 1 < BoostMax
<1>2. CASE ~c.boosting
  BY <1>1, <1>2 DEF Hysteresis, Boosts, BoostCounted
<1>3. CASE c.boosting
  <2>1. exit \in Nat /\ stays \in BOOLEAN
    BY <1>1
  <2>2. Hysteresis(c, err, innov) = [c EXCEPT !.boostEdges = c.boostEdges + 1, !.exitCnt = exit,
                                              !.rejectCnt = 0, !.boosting = stays]
    BY <1>3 DEF Hysteresis, Boosts
  <2>3. stays => c.boostEdges + 1 < BoostMax
    OBVIOUS
  <2> HIDE DEF exit, stays
  <2> QED BY <1>1, <1>3, <2>1, <2>2, <2>3 DEF Boosts, BoostCounted
<1> QED BY <1>2, <1>3

ObservedAs(h, phaseHat, d, trim, corr, n) ==
  [h EXCEPT !.phaseHat = phaseHat, !.drift = d, !.lastTrim = trim, !.lastCorr = corr, !.lockCnt = n]

LEMMA ObservedBoost ==
  ASSUME NEW h \in Boosts, NEW phaseHat \in Int, NEW d \in Trims, NEW trim \in Trims,
         NEW corr \in Int, NEW n \in Locks
  PROVE  LET next == ObservedAs(h, phaseHat, d, trim, corr, n)
         IN  /\ next \in Boosts /\ next.kind = h.kind /\ next.lockCnt = n
             /\ next.boosting = h.boosting /\ next.boostEdges = h.boostEdges
             /\ next.lastTrim = trim /\ next.lastCorr = corr
BY DEF Boosts, ObservedAs

(* A trusted edge that is not rejected.                                         *)
LEMMA BoostAppliedGood ==
  ASSUME NEW c \in Boosts, NEW err \in Int
  PROVE  LET next == BoostApplied(c, err)
         IN  /\ next \in Boosts /\ BoostCounted(c, next)
             /\ next.lockCnt = LockCount(c, err) /\ next.kind = c.kind
<1> USE ControllersAssumption
<1> DEFINE innov == err - PhasePred(c)
           h == Hysteresis(c, err, innov)
           gain == IF h.boosting THEN Fast ELSE Steady
           phaseHat == PhasePred(c) + Quot(innov, gain.alpha)
           drift1 == Clamp(c.drift + Quot(innov * Scale, gain.beta), TrimMax)
           corr == Clamp(Quot(phaseHat, gain.pgain), CorrClamp)
<1>1. PhasePred(c) \in Int
  <2>1. c.drift + c.lastTrim \in Int /\ c.phaseHat \in Int /\ c.lastCorr \in Int
    BY DEF Boosts, Trims
  <2>2. Quot(c.drift + c.lastTrim, Scale) \in Int
    BY <2>1, Quotient
  <2> QED BY <2>1, <2>2 DEF PhasePred
<1>2. innov \in Int /\ innov * Scale \in Int
  BY <1>1
<1>3. gain \in Gains
  OBVIOUS
<1>4. gain.alpha \in Nat \ {0} /\ gain.beta \in Nat \ {0} /\ gain.pgain \in Nat \ {0}
  BY <1>3 DEF Gains
<1>5. h \in Boosts /\ BoostCounted(c, h)
  BY <1>2, HysteresisCounted
<1> HIDE DEF innov, gain, h
<1>6. phaseHat \in Int
  <2>1. Quot(innov, gain.alpha) \in Int
    BY <1>2, <1>4, Quotient
  <2> QED BY <1>1, <2>1
<1>7. drift1 \in Trims /\ -drift1 \in Trims
  <2>1. Quot(innov * Scale, gain.beta) \in Int
    BY <1>2, <1>4, Quotient
  <2>2. c.drift + Quot(innov * Scale, gain.beta) \in Int
    BY <2>1 DEF Boosts, Trims
  <2>3. drift1 \in -TrimMax .. TrimMax
    BY <2>2, Clamped
  <2> HIDE DEF drift1
  <2> QED BY <2>3 DEF Trims
<1> HIDE DEF phaseHat
<1>8. corr \in Int
  BY <1>4, <1>6, Quotient, Clamped
<1>9. LockCount(c, err) \in Locks
  BY LockCounted DEF Boosts
<1>10. BoostApplied(c, err) = ObservedAs(h, phaseHat, drift1, -drift1, corr, LockCount(c, err))
  BY DEF BoostApplied, ObservedAs, innov, h, gain, phaseHat
<1> HIDE DEF drift1, corr
<1>11. /\ BoostApplied(c, err) \in Boosts /\ BoostApplied(c, err).kind = c.kind
       /\ BoostApplied(c, err).boosting = h.boosting /\ BoostApplied(c, err).boostEdges = h.boostEdges
       /\ BoostApplied(c, err).lockCnt = LockCount(c, err)
  <2>1. c.kind = h.kind
    BY <1>5 DEF Boosts
  <2> QED BY <2>1, <1>5, <1>6, <1>7, <1>8, <1>9, <1>10, ObservedBoost
<1> QED BY <1>5, <1>11 DEF BoostCounted

LEMMA BoostStepGood ==
  ASSUME NEW c \in Boosts, NEW err \in Int, NEW valid \in BOOLEAN
  PROVE  LET u == BoostStep(c, err, valid)
         IN  StepGood(c, err, valid, u) /\ u.state \in Boosts /\ BoostCounted(c, u.state)
<1> USE ControllersAssumption
<1> DEFINE u == BoostStep(c, err, valid)
           trim == Clamp(-c.drift, TrimMax)
<1>1. c.lockCnt \in Locks /\ IsLocked(c) \in BOOLEAN
  BY DEF IsLocked, Boosts
<1>2. trim \in Trims
  <2>1. -c.drift \in Int
    BY DEF Boosts, Trims
  <2> QED BY <2>1, Clamped DEF Trims
<1> HIDE DEF trim
<1>3. CASE ~valid
  <2>1. u.state = Tick(c) /\ u.out.trim = trim /\ u.out.pcorr = 0 /\ u.out.locked = IsLocked(c)
    BY <1>3 DEF BoostStep, Output, trim
  <2> HIDE DEF u
  <2>2. StepGood(c, err, valid, u) /\ u.state \in Boosts /\ BoostCounted(c, u.state)
    BY <1>1, <1>2, <1>3, <2>1, Ticked DEF StepGood, Controllers, IsLocked
  <2> QED BY <2>2 DEF u
<1>4. CASE valid /\ Rejected(c, err)
  <2>1. u.state = Tick(Spiked(c)) /\ u.out.trim = trim /\ u.out.pcorr = 0
        /\ u.out.locked = IsLocked(c)
    BY <1>4 DEF BoostStep, Output, trim
  <2> HIDE DEF u
  <2>2. /\ Spiked(c) \in Boosts /\ IsLocked(c) /\ Spiked(c).kind = c.kind
        /\ Spiked(c).rejectCnt = c.rejectCnt + 1 /\ Spiked(c).rejectCnt <= OutlierMax
        /\ Spiked(c).boosting = c.boosting /\ Spiked(c).boostEdges = c.boostEdges
    BY <1>4, SpikedBoost
  <2>3. /\ Tick(Spiked(c)) \in Boosts /\ BoostCounted(Spiked(c), Tick(Spiked(c)))
        /\ Tick(Spiked(c)).rejectCnt = Spiked(c).rejectCnt
        /\ Tick(Spiked(c)).kind = Spiked(c).kind
    BY <2>2, Ticked
  <2>4. BoostCounted(c, u.state)
    BY <2>1, <2>2, <2>3 DEF BoostCounted
  <2>5. StepGood(c, err, valid, u)
    BY <1>1, <1>2, <1>4, <2>1, <2>2, <2>3 DEF StepGood, Controllers
  <2> QED BY <2>1, <2>3, <2>4, <2>5 DEF u
<1>5. CASE valid /\ ~Rejected(c, err)
  <2> DEFINE next == BoostApplied(c, err)
  <2>1. /\ next \in Boosts /\ BoostCounted(c, next)
        /\ next.lockCnt = LockCount(c, err) /\ next.kind = c.kind
    BY BoostAppliedGood
  <2>2. Abs(err) > Outlier => LockCount(c, err) = 0
    BY <1>1, LockCounted
  <2>3. u.state = next /\ u.out.trim = next.lastTrim /\ u.out.pcorr = next.lastCorr
        /\ u.out.locked = IsLocked(c)
    BY <1>5 DEF BoostStep, Output
  <2> HIDE DEF next, u
  <2>4. Abs(err) > Outlier => ~IsLocked(next)
    BY <2>1, <2>2 DEF IsLocked
  <2>5. next.lastTrim \in Trims /\ next.lastCorr \in Int
    BY <2>1 DEF Boosts
  <2>6. StepGood(c, err, valid, u)
    BY <1>1, <1>5, <2>1, <2>3, <2>4, <2>5 DEF StepGood, Controllers
  <2> QED BY <2>1, <2>3, <2>6 DEF u
<1> QED BY <1>3, <1>4, <1>5
-----------------------------------------------------------------------------
(* Any controller: what one step does to the lock and to the boost.             *)
BoostGood(c, next) ==
  Boosting(next) =>
    \/ ~Boosting(c) /\ next.boostEdges = 0
    \/ Boosting(c) /\ next.boostEdges = c.boostEdges + 1 /\ next.boostEdges < BoostMax

LEMMA AnyStepGood ==
  ASSUME NEW c \in Controllers, NEW err \in Int, NEW valid \in BOOLEAN
  PROVE  LET u == Step(c, err, valid)
         IN  StepGood(c, err, valid, u) /\ BoostGood(c, u.state)
<1> USE ControllersAssumption
<1> DEFINE u == Step(c, err, valid)
<1>1. CASE c \in Plls
  <2>1. c.kind \in PllKinds \union {"rework"} /\ c.kind # "boost"
    BY <1>1 DEF Plls, PllKinds
  <2>2. CASE c.kind \in PllKinds
    <3>1. u = PllStep(c, err, valid)
      BY <2>2 DEF Step, PllKinds
    <3>2. StepGood(c, err, valid, u)
      BY <1>1, <3>1, PllStepGood
    <3> HIDE DEF u
    <3> QED BY <2>1, <3>2 DEF StepGood, BoostGood, Boosting, u
  <2>3. CASE c.kind = "rework"
    <3>1. u = ReworkStep(c, err, valid)
      BY <2>3 DEF Step, PllKinds
    <3>2. StepGood(c, err, valid, u)
      BY <1>1, <3>1, ReworkStepGood
    <3> HIDE DEF u
    <3> QED BY <2>1, <3>2 DEF StepGood, BoostGood, Boosting, u
  <2> QED BY <2>1, <2>2, <2>3
<1>2. CASE c \in Boosts
  <2>1. c.kind = "boost" /\ c.boosting \in BOOLEAN
    BY <1>2 DEF Boosts
  <2>2. u = BoostStep(c, err, valid)
    BY <2>1 DEF Step, PllKinds
  <2>3. StepGood(c, err, valid, u) /\ u.state \in Boosts /\ BoostCounted(c, u.state)
    BY <1>2, <2>2, BoostStepGood
  <2> HIDE DEF u
  <2>4. BoostGood(c, u.state)
    BY <2>1, <2>3 DEF BoostGood, BoostCounted, Boosting
  <2> QED BY <2>3, <2>4 DEF u
<1>3. CASE c \in Opens
  <2>1. c.kind = "open" /\ c.trim \in Trims
    BY <1>3 DEF Opens
  <2>2. u.state = c /\ u.out.trim = c.trim /\ u.out.pcorr = 0 /\ u.out.locked \in BOOLEAN
        /\ ~u.out.locked
    BY <2>1 DEF Step, PllKinds, OpenStep, Output
  <2> HIDE DEF u
  <2>3. StepGood(c, err, valid, u) /\ BoostGood(c, u.state)
    BY <1>3, <2>1, <2>2 DEF StepGood, BoostGood, Boosting, IsLocked, Controllers
  <2> QED BY <2>3 DEF u
<1> QED BY <1>1, <1>2, <1>3 DEF Controllers

LEMMA StartGood ==
  ASSUME NEW kind \in Kinds, NEW seed \in Trims
  PROVE  LET c == StartSegment(kind, seed)
         IN  c \in Controllers /\ c.kind = kind /\ ~IsLocked(c) /\ ~Boosting(c)
<1> USE ControllersAssumption
<1>1. 0 \in Locks /\ 0 \in Rejects /\ 0 < LockHold /\ -seed \in Trims
  BY DEF Locks, Rejects, Trims
<1>2. CASE kind \in PllKinds \union {"rework"}
  <2>1. StartSegment(kind, seed) = PllStart(kind, seed)
    BY <1>2 DEF StartSegment, PllKinds
  <2>2. kind # "boost"
    BY <1>2 DEF PllKinds
  <2>3. PllStart(kind, seed) \in Plls /\ PllStart(kind, seed).kind = kind
        /\ PllStart(kind, seed).lockCnt = 0
    BY <1>1, <1>2 DEF PllStart, Plls
  <2> QED BY <1>1, <2>1, <2>2, <2>3 DEF Controllers, IsLocked, Boosting
<1>3. CASE kind = "boost"
  <2>1. StartSegment(kind, seed) = BoostStart(seed)
    BY <1>3 DEF StartSegment, PllKinds
  <2>2. BoostStart(seed) \in Boosts /\ BoostStart(seed).kind = "boost"
        /\ BoostStart(seed).lockCnt = 0 /\ BoostStart(seed).boosting = FALSE
    BY <1>1 DEF BoostStart, Boosts
  <2> QED BY <1>1, <1>3, <2>1, <2>2 DEF Controllers, IsLocked, Boosting
<1>4. CASE kind = "open"
  BY <1>4 DEF StartSegment, PllKinds, Opens, Controllers, IsLocked, Boosting
<1> QED BY <1>2, <1>3, <1>4 DEF Kinds
-----------------------------------------------------------------------------
(* While the loop reports lock, the edges gone astray are those the controller  *)
(* has held as spikes; while it boosts, the backstop has counted the boost.     *)
LockAccount == astray <= OutlierMax + 1 /\ (IsLocked(ctl) => astray <= ctl.rejectCnt)
BoostAccount ==
  /\ Boosting(ctl) => boosted = ctl.boostEdges + 1 /\ ctl.boostEdges < BoostMax
  /\ ~Boosting(ctl) => boosted = 0
LoopInv == TypeOK /\ LockAccount /\ BoostAccount

LEMMA EdgeKeeps ==
  ASSUME LoopInv, NEW noise \in Int, NEW valid \in BOOLEAN, Edge(noise, valid)
  PROVE  /\ ctl' \in Controllers /\ word' \in [trim : Trims, pcorr : Int]
         /\ astray' \in Nat /\ boosted' \in Nat /\ LockAccount' /\ BoostAccount'
<1> USE ControllersAssumption
<1> DEFINE err == Measured + noise
           u == Step(ctl, err, valid)
<1>1. ctl \in Controllers /\ astray \in Nat /\ boosted \in Nat /\ phase \in Int
  BY DEF LoopInv, TypeOK, Controllers
<1>2. err \in Int
  BY <1>1 DEF Measured
<1>3. StepGood(ctl, err, valid, u) /\ BoostGood(ctl, u.state)
  BY <1>1, <1>2, AnyStepGood
<1>4. /\ ctl' = u.state /\ word' = [trim |-> u.out.trim, pcorr |-> u.out.pcorr]
      /\ astray' = IF valid /\ Abs(err) > Outlier /\ u.out.locked THEN astray + 1
                   ELSE IF valid THEN 0 ELSE astray
      /\ boosted' = IF Boosting(u.state) THEN boosted + 1 ELSE 0
  BY DEF Edge
<1> HIDE DEF err, u
<1>5. ctl' \in Controllers /\ word' \in [trim : Trims, pcorr : Int]
  BY <1>3, <1>4 DEF StepGood
<1>6. astray' \in Nat /\ boosted' \in Nat
  BY <1>1, <1>4
<1>7. LockAccount'
  <2>1. IsLocked(ctl) => astray <= ctl.rejectCnt /\ ctl.rejectCnt \in 0 .. OutlierMax
    BY <1>1 DEF LoopInv, LockAccount, Controllers, Plls, Boosts, Opens, IsLocked, Rejects
  <2>2. astray <= OutlierMax + 1
    BY DEF LoopInv, LockAccount
  <2>3. CASE valid /\ Abs(err) > Outlier /\ u.out.locked
    BY <1>1, <1>3, <1>4, <2>1, <2>3 DEF StepGood, LockAccount
  <2>4. CASE valid /\ ~(Abs(err) > Outlier /\ u.out.locked)
    <3>1. astray' = 0
      BY <1>4, <2>4
    <3>2. IsLocked(ctl') => ctl'.rejectCnt \in 0 .. OutlierMax
      BY <1>5 DEF Controllers, Plls, Boosts, Opens, IsLocked, Rejects
    <3> QED BY <3>1, <3>2 DEF LockAccount
  <2>5. CASE ~valid
    BY <1>1, <1>3, <1>4, <2>1, <2>2, <2>5 DEF StepGood, LockAccount
  <2> QED BY <2>3, <2>4, <2>5
<1>8. BoostAccount'
  BY <1>1, <1>3, <1>4 DEF BoostGood, BoostAccount, LoopInv
<1> QED BY <1>5, <1>6, <1>7, <1>8

LEMMA AdvanceTyped ==
  ASSUME LoopInv, NEW jump \in Int, Advance(jump)
  PROVE  phase' \in Int
<1> USE ControllersAssumption, LoopAssumption
<1>1. word.trim \in Int /\ word.pcorr \in Int /\ phase \in Int /\ drift \in Int
  BY DEF LoopInv, TypeOK, Trims
<1>2. Scale * word.pcorr \in Int /\ Scale * jump \in Int
  BY <1>1
<1> QED BY <1>1, <1>2 DEF Advance

LEMMA SpendTyped ==
  ASSUME LoopInv, Spend
  PROVE  faults' \in 0 .. MaxFaults /\ age' \in 0 .. Settling
BY LoopAssumption DEF LoopInv, TypeOK, Spend

LEMMA InitLoopInv == Init => LoopInv
<1> USE ControllersAssumption, LoopAssumption
<1> SUFFICES ASSUME Init PROVE LoopInv
  OBVIOUS
<1>1. 0 \in Trims
  BY DEF Trims
<1>2. ctl \in Controllers /\ ~IsLocked(ctl) /\ ~Boosting(ctl)
  BY <1>1, StartGood DEF Init
<1>3. word \in [trim : Trims, pcorr : Int]
  BY <1>1 DEF Init
<1>4. phase \in Int
  <2>1. PICK s \in Start : phase = Scale * s
    BY DEF Init
  <2> QED BY <2>1
<1>5. TypeOK
  <2>1. /\ drift \in Drifts \union {0} /\ astray \in Nat /\ boosted \in Nat
    BY DEF Init
  <2>2. settled \in BOOLEAN
    BY DEF Init
  <2>3. faults \in 0 .. MaxFaults
    BY DEF Init
  <2>4. age \in 0 .. Settling
    BY DEF Init
  <2> QED BY <1>2, <1>3, <1>4, <2>1, <2>2, <2>3, <2>4 DEF TypeOK, Controllers
<1> QED BY <1>2, <1>5 DEF Init, LoopInv, LockAccount, BoostAccount

LEMMA NextLoopInv == LoopInv /\ [Next]_vars => LoopInv'
<1> USE ControllersAssumption, LoopAssumption
<1> SUFFICES ASSUME LoopInv, [Next]_vars PROVE LoopInv'
  OBVIOUS
<1>0. /\ 0 \in Int /\ TRUE \in BOOLEAN /\ FALSE \in BOOLEAN /\ drift \in Drifts \union {0}
      /\ settled \in BOOLEAN /\ faults \in 0 .. MaxFaults /\ age \in 0 .. Settling
  BY DEF LoopInv, TypeOK
<1>1. CASE Quiet
  <2>1. Edge(0, TRUE) /\ Advance(0) /\ UNCHANGED <<drift, faults>>
        /\ age' = AtMost(age + 1, Settling) /\ settled' \in BOOLEAN
    BY <1>0, <1>1 DEF Quiet
  <2>2. age' \in 0 .. Settling
    BY <1>0, <2>1 DEF AtMost
  <2>3. phase' \in Int
    BY <1>0, <2>1, AdvanceTyped
  <2>4. /\ ctl' \in Controllers /\ word' \in [trim : Trims, pcorr : Int]
        /\ astray' \in Nat /\ boosted' \in Nat /\ LockAccount' /\ BoostAccount'
    BY <1>0, <2>1, EdgeKeeps
  <2> QED BY <1>0, <2>1, <2>2, <2>3, <2>4 DEF LoopInv, TypeOK, Controllers
<1>2. CASE Spike
  <2>1. PICK s \in Spikes : Edge(s, TRUE)
    BY <1>2 DEF Spike
  <2>2. Spend /\ Advance(0) /\ UNCHANGED <<drift, settled>> /\ s \in Int
    BY <1>2 DEF Spike
  <2>3. phase' \in Int /\ faults' \in 0 .. MaxFaults /\ age' \in 0 .. Settling
    BY <1>0, <2>2, AdvanceTyped, SpendTyped
  <2>4. /\ ctl' \in Controllers /\ word' \in [trim : Trims, pcorr : Int]
        /\ astray' \in Nat /\ boosted' \in Nat /\ LockAccount' /\ BoostAccount'
    BY <1>0, <2>1, <2>2, EdgeKeeps
  <2> QED BY <1>0, <2>2, <2>3, <2>4 DEF LoopInv, TypeOK, Controllers
<1>3. CASE Holdover
  <2>1. Spend /\ Edge(0, FALSE) /\ Advance(0) /\ UNCHANGED drift /\ settled' = FALSE
    BY <1>3 DEF Holdover
  <2>2. phase' \in Int /\ faults' \in 0 .. MaxFaults /\ age' \in 0 .. Settling
    BY <1>0, <2>1, AdvanceTyped, SpendTyped
  <2>3. /\ ctl' \in Controllers /\ word' \in [trim : Trims, pcorr : Int]
        /\ astray' \in Nat /\ boosted' \in Nat /\ LockAccount' /\ BoostAccount'
    BY <1>0, <2>1, EdgeKeeps
  <2> QED BY <1>0, <2>1, <2>2, <2>3 DEF LoopInv, TypeOK, Controllers
<1>4. CASE Jump
  <2>1. PICK j \in Jumps : Advance(j)
    BY <1>4 DEF Jump
  <2>2. Spend /\ Edge(0, TRUE) /\ UNCHANGED drift /\ settled' = FALSE /\ j \in Int
    BY <1>4 DEF Jump
  <2>3. phase' \in Int /\ faults' \in 0 .. MaxFaults /\ age' \in 0 .. Settling
    BY <2>1, <2>2, AdvanceTyped, SpendTyped
  <2>4. /\ ctl' \in Controllers /\ word' \in [trim : Trims, pcorr : Int]
        /\ astray' \in Nat /\ boosted' \in Nat /\ LockAccount' /\ BoostAccount'
    BY <1>0, <2>2, EdgeKeeps
  <2> QED BY <1>0, <2>2, <2>3, <2>4 DEF LoopInv, TypeOK, Controllers
<1>5. CASE Switch
  <2>1. PICK kind \in Kinds \ {"open"} : ctl' = StartSegment(kind, word.trim)
    BY <1>5 DEF Switch
  <2>2. /\ Spend /\ boosted' = 0 /\ astray' = 0 /\ settled' = FALSE
        /\ UNCHANGED <<word, plant>>
    BY <1>5 DEF Switch
  <2>3. faults' \in 0 .. MaxFaults /\ age' \in 0 .. Settling
    BY <2>2, SpendTyped
  <2>4. word \in [trim : Trims, pcorr : Int] /\ phase \in Int
    BY DEF LoopInv, TypeOK
  <2>5. ctl' \in Controllers /\ ~IsLocked(ctl') /\ ~Boosting(ctl')
    BY <2>1, <2>4, StartGood
  <2>6. TypeOK'
    BY <1>0, <2>2, <2>3, <2>4, <2>5 DEF TypeOK, Controllers, plant
  <2> QED BY <2>2, <2>5, <2>6 DEF LoopInv, LockAccount, BoostAccount
<1>6. CASE UNCHANGED vars
  BY <1>6 DEF vars, plant, LoopInv, TypeOK, LockAccount, BoostAccount
<1> QED BY <1>1, <1>2, <1>3, <1>4, <1>5, <1>6 DEF Next

(* Every controller keeps its counters and its trim within their limits, and so *)
(* does the word it pushes: whatever the gains, no edge steers the output       *)
(* beyond TrimMax (pll.rs:332-333, controllers.rs:262, 397, 546-556).           *)
THEOREM TypeCorrect == Spec => []TypeOK
<1>1. LoopInv => TypeOK
  BY DEF LoopInv
<1> QED BY <1>1, InitLoopInv, NextLoopInv, PTL DEF Spec

(* The lock is not reported for ever on an output out of the outlier band: no   *)
(* order of spikes, missing samples and switches hides more than OutlierMax + 1 *)
(* trusted edges that show it (pll.rs:306-312, 354).                            *)
THEOREM StrayedLockEnds == Spec => []AstrayBounded
<1>1. LoopInv => AstrayBounded
  BY DEF LoopInv, LockAccount, AstrayBounded
<1> QED BY <1>1, InitLoopInv, NextLoopInv, PTL DEF Spec

(* The boost ends after BoostMax edges, counted over every path of step(): held, *)
(* rejected or applied (controllers.rs:265-275, 291-294).                        *)
THEOREM BoostEnds == Spec => []BoostBounded
<1>1. LoopInv => BoostBounded
  <2> SUFFICES ASSUME LoopInv PROVE BoostBounded
    OBVIOUS
  <2>1. CASE Boosting(ctl)
    <3>1. ctl \in Boosts
      BY <2>1 DEF LoopInv, TypeOK, Boosting, Plls, PllKinds, Opens
    <3>2. ctl.boostEdges \in Nat
      BY <3>1 DEF Boosts
    <3> QED BY <2>1, <3>2, ControllersAssumption DEF LoopInv, BoostAccount, BoostBounded
  <2>2. CASE ~Boosting(ctl)
    BY <2>2, ControllersAssumption DEF LoopInv, BoostAccount, BoostBounded
  <2> QED BY <2>1, <2>2
<1> QED BY <1>1, InitLoopInv, NextLoopInv, PTL DEF Spec
-----------------------------------------------------------------------------
(* What a controller newly put in charge does with a phase of zero.             *)
LEMMA QuotZero ==
  ASSUME NEW y \in Nat \ {0}
  PROVE  Quot(0, y) = 0
<1>1. 0 \div y = 0
  <2> DEFINE q == 0 \div y
  <2>1. q \in Nat /\ q <= 0
    BY QuotShrinks
  <2> QED BY <2>1
<1> QED BY <1>1 DEF Quot

LEMMA StartSeamless ==
  ASSUME NEW kind \in Kinds \ {"open", "P", "Pd"}, NEW seed \in Trims
  PROVE  LET u == Step(StartSegment(kind, seed), 0, TRUE)
         IN  u.out.trim = seed /\ u.out.pcorr = 0 /\ ~u.out.locked
<1> USE ControllersAssumption
<1> DEFINE c == StartSegment(kind, seed)
           u == Step(c, 0, TRUE)
<1>0. /\ seed \in Int /\ seed \in -TrimMax .. TrimMax /\ -seed \in -TrimMax .. TrimMax
      /\ Clamp(seed, TrimMax) = seed /\ Clamp(-seed, TrimMax) = -seed
  <2>1. seed \in Int /\ seed \in -TrimMax .. TrimMax /\ -seed \in -TrimMax .. TrimMax
    BY DEF Trims
  <2> QED BY <2>1, Clamped
<1>1. Clamp(0, CorrClamp) = 0 /\ Clamp(0, InputClamp) = 0
  BY Clamped
<1>2. ~IsLocked(c) /\ c.kind = kind
  BY StartGood
<1>3. ~Rejected(c, 0)
  BY <1>2 DEF Rejected
<1>4. CASE kind \in {"Pi", "Pid", "PidSmith"}
  <2>1. c = PllStart(kind, seed)
    BY <1>4 DEF StartSegment, PllKinds
  <2>2. c.trim = seed /\ Pred(c, 0) = 0
    BY <2>1 DEF PllStart, Pred
  <2>3. PCorr(0) = 0
    BY <1>1, QuotZero DEF PCorr
  <2>4. Integrated(c, 0, 0) = seed
    <3>1. Quot(0 * Scale, IDenEff(0)) = 0
      <4>1. IDenEff(0) \in Nat \ {0}
        BY DEF IDenEff
      <4> QED BY <4>1, QuotZero
    <3> QED BY <1>0, <1>2, <1>4, <2>2, <3>1 DEF Integrated, UsesI
  <2>5. u = PllStep(c, 0, TRUE)
    BY <1>2, <1>4 DEF Step, PllKinds
  <2> HIDE DEF c
  <2>6. u.out.trim = seed /\ u.out.pcorr = 0 /\ ~u.out.locked
    <3> DEFINE pd == PCorr(0) + (IF UsesD(c.kind) /\ IsLocked(c) THEN DCorr(c, 0) ELSE 0)
    <3>1. PllStep(c, 0, TRUE) = AppliedUp(c, 0, Integrated(c, 0, 0), 0, pd)
      BY <1>3, <2>2 DEF PllStep, AppliedUp, AppliedTo
    <3>2. pd = 0
      BY <1>2, <2>3
    <3>3. c \in Plls
      BY <1>4, StartGood DEF c, Controllers, Plls, Boosts, Opens
    <3> HIDE DEF pd
    <3>4. u = AppliedUp(c, 0, seed, 0, 0)
      BY <2>4, <2>5, <3>1, <3>2
    <3>5. LET x == AppliedUp(c, 0, seed, 0, 0)
          IN  x.out.trim = seed /\ x.out.pcorr = 0 /\ ~x.out.locked
      BY <1>2, <3>3, AppliedOut
    <3> QED BY <3>4, <3>5, Zenon
  <2> QED BY <1>2, <2>6 DEF c
<1>5. CASE kind = "rework"
  <2>1. c = PllStart(kind, seed)
    BY <1>5 DEF StartSegment, PllKinds
  <2>2. c.trim = seed /\ c.inFlight = 0
    BY <2>1 DEF PllStart
  <2>3. Reworked(c, 0) = seed
    <3>1. Quot(Clamp(0, InputClamp) * Scale, IDen) = 0 /\ Quot(0, KbcInv) = 0
      BY <1>1, QuotZero
    <3> HIDE DEF c
    <3> QED BY <1>0, <2>2, <3>1 DEF Reworked
  <2>4. Clamp(Quot(0, KpInv), CorrClamp) = 0
    BY <1>1, QuotZero
  <2>5. u = ReworkStep(c, 0, TRUE)
    BY <1>2, <1>5 DEF Step, PllKinds
  <2> HIDE DEF c
  <2>6. u.out.trim = seed /\ u.out.pcorr = 0 /\ ~u.out.locked
    <3>1. ReworkStep(c, 0, TRUE) = AppliedUp(c, 0, Reworked(c, 0), 0, 0)
      <4>1. 0 - c.inFlight = 0 /\ Clamp(Quot(0, KpInv), CorrClamp) + 0 = 0
        BY <2>2, <2>4
      <4> QED BY <1>2, <1>3, <4>1 DEF ReworkStep, AppliedUp, AppliedTo
    <3>2. c \in Plls
      BY <1>5, StartGood DEF c, Controllers, Plls, Boosts, Opens
    <3>3. u = AppliedUp(c, 0, seed, 0, 0)
      BY <2>3, <2>5, <3>1
    <3>4. LET x == AppliedUp(c, 0, seed, 0, 0)
          IN  x.out.trim = seed /\ x.out.pcorr = 0 /\ ~x.out.locked
      BY <1>2, <3>2, AppliedOut
    <3> QED BY <3>3, <3>4, Zenon
  <2> QED BY <1>2, <2>6 DEF c
<1>6. CASE kind = "boost"
  <2>1. c = BoostStart(seed)
    BY <1>6 DEF StartSegment, PllKinds
  <2>2. /\ c.phaseHat = 0 /\ c.drift = -seed /\ c.lastTrim = seed /\ c.lastCorr = 0
        /\ ~c.boosting
    BY <2>1 DEF BoostStart
  <2>3. c \in Boosts
    BY <1>6, StartGood DEF Controllers, Plls, PllKinds, Opens
  <2>4. u = BoostStep(c, 0, TRUE)
    BY <1>2, <1>6 DEF Step, PllKinds
  <2> HIDE DEF c
  <2>5. PhasePred(c) = 0
    BY <1>0, <2>2, QuotZero DEF PhasePred
  <2> DEFINE h == Hysteresis(c, 0, 0)
             gain == IF h.boosting THEN Fast ELSE Steady
  <2>6. h \in Boosts
    BY <2>3, HysteresisCounted
  <2>7. gain.alpha \in Nat \ {0} /\ gain.beta \in Nat \ {0} /\ gain.pgain \in Nat \ {0}
    BY DEF Gains
  <2> HIDE DEF gain, h
  <2>8. /\ Quot(0, gain.alpha) = 0 /\ Quot(0 * Scale, gain.beta) = 0 /\ Quot(0, gain.pgain) = 0
    BY <2>7, QuotZero
  <2>9. BoostApplied(c, 0) = ObservedAs(h, 0, -seed, seed, 0, LockCount(c, 0))
    <3>1. c.drift + Quot(0 * Scale, gain.beta) = -seed /\ -(-seed) = seed /\ 0 - 0 = 0 /\ 0 + 0 = 0
      BY <1>0, <2>2, <2>8
    <3> QED BY <1>0, <1>1, <2>5, <2>8, <3>1 DEF BoostApplied, ObservedAs, h, gain
  <2>10. LockCount(c, 0) \in Locks
    BY <2>3, LockCounted DEF Boosts
  <2>11. BoostApplied(c, 0).lastTrim = seed /\ BoostApplied(c, 0).lastCorr = 0
    BY <1>0, <2>6, <2>9, <2>10, ObservedBoost DEF Trims
  <2> DEFINE next == BoostApplied(c, 0)
             up == [state |-> next,
                    out |-> Output(next.lastTrim, next.lastCorr, TRUE, IsLocked(c), FALSE)]
  <2>12. u = up
    BY <1>3, <2>4 DEF BoostStep
  <2>13. up.out.trim = seed /\ up.out.pcorr = 0 /\ ~up.out.locked
    BY <1>2, <2>11 DEF Output
  <2> HIDE DEF up
  <2> QED BY <2>12, <2>13, Zenon DEF c
<1> QED BY <1>4, <1>5, <1>6 DEF Kinds, PllKinds

(* Put in charge at a phase of zero, a controller that integrates goes on with  *)
(* the trim last applied, corrects nothing and claims no lock, whatever the one *)
(* before it had reached (control.rs:69-80, controllers.rs:425-431).            *)
THEOREM SwitchIsSeamless == Spec => SwitchSeamless
<1> DEFINE seamless == LET u == Step(ctl', 0, TRUE)
                       IN  u.out.trim = word.trim /\ u.out.pcorr = 0 /\ ~u.out.locked
<1>1. LoopInv /\ [Next]_vars => [Switch /\ ClosedLoop' => seamless]_vars
  <2> SUFFICES ASSUME LoopInv, Switch, ClosedLoop' PROVE seamless
    OBVIOUS
  <2>1. PICK kind \in Kinds \ {"open"} : ctl' = StartSegment(kind, word.trim)
    BY DEF Switch
  <2>2. word.trim \in Trims
    BY DEF LoopInv, TypeOK
  <2>3. ctl'.kind = kind
    BY <2>1, <2>2, StartGood
  <2>4. kind \in Kinds \ {"open", "P", "Pd"}
    BY <2>1, <2>3 DEF ClosedLoop
  <2> QED BY <2>1, <2>2, <2>4, StartSeamless
<1>2. LoopInv /\ [Next]_vars => [Switch /\ ClosedLoop' => LET u == Step(ctl', 0, TRUE)
                       IN  u.out.trim = word.trim /\ u.out.pcorr = 0 /\ ~u.out.locked]_vars
  BY <1>1
<1> QED BY <1>2, InitLoopInv, NextLoopInv, PTL DEF Spec, SwitchSeamless
=============================================================================
