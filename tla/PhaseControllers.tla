-------------------------- MODULE PhaseControllers --------------------------
(***************************************************************************)
(* The output-phase controllers of gnssdo (PhaseController): the PLL in its *)
(* five modes, the continuous integrator, the alpha-beta observer with its  *)
(* transient boost, and the open loop.  A controller is its state, a record *)
(* that carries its kind; Step is one call of step() and yields the next    *)
(* state and the output.  Phases are in ns, trims in Scale-ths of a ppb.    *)
(* Only the histories that are read are kept: the last SmithEdges           *)
(* corrections, and no telemetry.                                           *)
(***************************************************************************)
EXTENDS FixedPoint, Sequences

CONSTANTS
  Scale,       \* 1000: milli-ppb per ppb
  CorrClamp,   \* CORR_CLAMP_NS
  LockWindow, LockHold,    \* lock_ns, lock_hold
  Outlier, OutlierMax,     \* outlier_ns, outlier_max
  TrimMax,                 \* trim_max_mppb
  KpInv, DDen, IDen,       \* kp_inv, d_den, i_den
  IEnable, Calm, Shift,    \* i_enable_ns, calm_ns, 2^i_den_disturbed_shift
  Deadband,                \* deadband_ns
  InputClamp, KbcInv,      \* e_i_ns, kbc_inv of IntegralRework
  Steady, Fast,            \* gains of AlphaBetaBoost: [alpha, beta, pgain]
  InnovEnter, BoostMax,    \* innov_enter_ns, boost_max_edges
  ExitWindow, ExitHold     \* exit_lock_ns, exit_hold

Gains == [alpha : Nat \ {0}, beta : Nat \ {0}, pgain : Nat \ {0}]

ASSUME ControllersAssumption ==
  /\ Scale \in Nat \ {0} /\ CorrClamp \in Nat
  /\ LockWindow \in Nat /\ LockHold \in Nat \ {0}
  /\ Outlier \in Nat /\ OutlierMax \in Nat /\ TrimMax \in Nat
  /\ KpInv \in Nat \ {0} /\ DDen \in Nat \ {0} /\ IDen \in Nat \ {0}
  /\ IEnable \in Nat /\ Calm \in Nat /\ Shift \in Nat \ {0} /\ Deadband \in Nat
  /\ InputClamp \in Nat /\ KbcInv \in Nat \ {0}
  /\ Steady \in Gains /\ Fast \in Gains
  /\ InnovEnter \in Nat /\ BoostMax \in Nat \ {0}
  /\ ExitWindow \in Nat /\ ExitHold \in Nat \ {0}

\* a phase in the lock window is no outlier
ASSUME WindowAssumption == LockWindow <= Outlier
\* one edge of the reworked integrator moves less than the trim's range
ASSUME ReworkAssumption == InputClamp * Scale <= 2 * TrimMax

(* LoopMode, and the other variants of Controller.                            *)
PllKinds == {"P", "Pd", "Pi", "Pid", "PidSmith"}
UsesI(kind) == kind \in {"Pi", "Pid", "PidSmith"}
UsesD(kind) == kind \in {"Pd", "Pid", "PidSmith"}
Smith(kind) == kind = "PidSmith"
Kinds == PllKinds \cup {"rework", "boost", "open"}

IsLocked(c) == c.kind # "open" /\ c.lockCnt >= LockHold

\* What step() returns, telemetry left out.
Output(trim, pcorr, applied, locked, rejected) ==
  [trim |-> trim, pcorr |-> pcorr, applied |-> applied, locked |-> locked, rejected |-> rejected]
-----------------------------------------------------------------------------
(* What the closed-loop controllers share.                                    *)

\* mutant: an outlier is only one before the lock
RejectedUnlocked(c, err) == ~IsLocked(c) /\ Abs(err) > Outlier /\ c.rejectCnt < OutlierMax

\* a spike while locked: held, up to OutlierMax times in a row
Rejected(c, err) == IsLocked(c) /\ Abs(err) > Outlier /\ c.rejectCnt < OutlierMax

\* mutant: the count stops one short of LockHold
LockCountShort(c, err) == IF Abs(err) < LockWindow THEN AtMost(c.lockCnt + 1, LockHold - 1) ELSE 0

LockCount(c, err) == IF Abs(err) < LockWindow THEN AtMost(c.lockCnt + 1, LockHold) ELSE 0

Spiked(c) == [c EXCEPT !.rejectCnt = @ + 1]
-----------------------------------------------------------------------------
(* PhaseLockLoop.                                                             *)
Pred(c, err) == IF Smith(c.kind) THEN err - c.inFlight ELSE err

IDenEff(pred) == IF Abs(pred) < Calm THEN IDen ELSE IDen * Shift

Integrated(c, err, pred) ==
  IF ~UsesI(c.kind) THEN 0
  ELSE IF Abs(err) < IEnable THEN Clamp(c.trim - Quot(pred * Scale, IDenEff(pred)), TrimMax)
  ELSE c.trim

PCorr(pred) == IF Abs(pred) > Deadband THEN Clamp(Quot(pred, KpInv), CorrClamp) ELSE 0
DCorr(c, pred) == Clamp(Quot(pred - c.lastPred, DDen), CorrClamp)

\* mutant: a sample that is not trusted clears the count of outliers
PllStepForgetful(c, err, valid) ==
  LET pred == Pred(c, err)
      pd == PCorr(pred) + (IF UsesD(c.kind) /\ IsLocked(c) THEN DCorr(c, pred) ELSE 0)
      next == [c EXCEPT !.rejectCnt = 0, !.trim = Integrated(c, err, pred),
                        !.lockCnt = LockCount(c, err), !.lastPred = pred, !.inFlight = pd]
  IN  IF ~valid THEN [state |-> [c EXCEPT !.rejectCnt = 0],
                      out |-> Output(c.trim, 0, FALSE, IsLocked(c), FALSE)]
      ELSE IF Rejected(c, err) THEN [state |-> Spiked(c), out |-> Output(c.trim, 0, FALSE, TRUE, TRUE)]
      ELSE [state |-> next, out |-> Output(next.trim, pd, TRUE, IsLocked(c), FALSE)]

(* update(): an edge that is not trusted, or is rejected, holds everything     *)
(* and corrects nothing.  smith_edges is 1: inFlight is pd_hist[0].            *)
PllStep(c, err, valid) ==
  LET pred == Pred(c, err)
      pd == PCorr(pred) + (IF UsesD(c.kind) /\ IsLocked(c) THEN DCorr(c, pred) ELSE 0)
      next == [c EXCEPT !.rejectCnt = 0, !.trim = Integrated(c, err, pred),
                        !.lockCnt = LockCount(c, err), !.lastPred = pred, !.inFlight = pd]
  IN  IF ~valid THEN [state |-> c, out |-> Output(c.trim, 0, FALSE, IsLocked(c), FALSE)]
      ELSE IF Rejected(c, err) THEN [state |-> Spiked(c), out |-> Output(c.trim, 0, FALSE, TRUE, TRUE)]
      ELSE [state |-> next, out |-> Output(next.trim, pd, TRUE, IsLocked(c), FALSE)]

PllStart(kind, seed) ==
  [kind |-> kind, lockCnt |-> 0, rejectCnt |-> 0, trim |-> seed, lastPred |-> 0, inFlight |-> 0]
-----------------------------------------------------------------------------
(* IntegralRework: integrates always, its input clamped, and bleeds back what  *)
(* the trim's limit cut off.                                                   *)
Reworked(c, pred) ==
  LET want == c.trim - Quot(Clamp(pred, InputClamp) * Scale, IDen)
      kept == Clamp(want, TrimMax)
  IN  kept - Quot(want - kept, KbcInv)

ReworkStep(c, err, valid) ==
  LET pred == err - c.inFlight
      pd == Clamp(Quot(pred, KpInv), CorrClamp) + (IF IsLocked(c) THEN DCorr(c, pred) ELSE 0)
      next == [c EXCEPT !.rejectCnt = 0, !.trim = Reworked(c, pred),
                        !.lockCnt = LockCount(c, err), !.lastPred = pred, !.inFlight = pd]
  IN  IF ~valid THEN [state |-> c, out |-> Output(c.trim, 0, FALSE, IsLocked(c), FALSE)]
      ELSE IF Rejected(c, err) THEN [state |-> Spiked(c), out |-> Output(c.trim, 0, FALSE, TRUE, TRUE)]
      ELSE [state |-> next, out |-> Output(next.trim, pd, TRUE, IsLocked(c), FALSE)]
-----------------------------------------------------------------------------
(* AlphaBetaBoost.                                                             *)

\* mutant: the backstop only counts the edges that are applied
TickStarved(c) == c

\* tick_boost_backstop
Tick(c) ==
  IF ~c.boosting THEN c
  ELSE [c EXCEPT !.boostEdges = @ + 1, !.boosting = c.boostEdges + 1 < BoostMax]

PhasePred(c) == c.phaseHat + Quot(c.drift + c.lastTrim, Scale) - c.lastCorr

(* The hysteresis: in on a surprise or an accepted disturbance, out after       *)
(* ExitHold edges in the exit window or BoostMax edges.                         *)
Hysteresis(c, err, innov) ==
  LET disturbed == c.rejectCnt >= OutlierMax /\ Abs(err) >= LockWindow
      exit == IF Abs(err) < ExitWindow THEN c.exitCnt + 1 ELSE 0
  IN  IF ~c.boosting
        THEN IF Abs(innov) > InnovEnter \/ disturbed
               THEN [c EXCEPT !.boosting = TRUE, !.boostEdges = 0, !.exitCnt = 0, !.rejectCnt = 0]
               ELSE [c EXCEPT !.rejectCnt = 0]
        ELSE [c EXCEPT !.boostEdges = @ + 1, !.exitCnt = exit, !.rejectCnt = 0,
                       !.boosting = exit < ExitHold /\ c.boostEdges + 1 < BoostMax]

BoostApplied(c, err) ==
  LET innov == err - PhasePred(c)
      h == Hysteresis(c, err, innov)
      gain == IF h.boosting THEN Fast ELSE Steady
      phaseHat == PhasePred(c) + Quot(innov, gain.alpha)
      drift == Clamp(c.drift + Quot(innov * Scale, gain.beta), TrimMax)
  IN  [h EXCEPT !.phaseHat = phaseHat, !.drift = drift, !.lastTrim = -drift,
                !.lastCorr = Clamp(Quot(phaseHat, gain.pgain), CorrClamp),
                !.lockCnt = LockCount(c, err)]

BoostStep(c, err, valid) ==
  LET held(s, rejected) == [state |-> Tick(s),
        out |-> Output(Clamp(-c.drift, TrimMax), 0, FALSE, IsLocked(c), rejected)]
      next == BoostApplied(c, err)
  IN  IF ~valid THEN held(c, FALSE)
      ELSE IF Rejected(c, err) THEN held(Spiked(c), TRUE)
      ELSE [state |-> next, out |-> Output(next.lastTrim, next.lastCorr, TRUE, IsLocked(c), FALSE)]

\* mutant: the trim of the last edge is not seeded
BoostStartUnseeded(seed) ==
  [kind |-> "boost", phaseHat |-> 0, drift |-> -seed, lastTrim |-> 0, lastCorr |-> 0,
   boosting |-> FALSE, boostEdges |-> 0, exitCnt |-> 0, lockCnt |-> 0, rejectCnt |-> 0]

BoostStart(seed) ==
  [kind |-> "boost", phaseHat |-> 0, drift |-> -seed, lastTrim |-> seed, lastCorr |-> 0,
   boosting |-> FALSE, boostEdges |-> 0, exitCnt |-> 0, lockCnt |-> 0, rejectCnt |-> 0]
-----------------------------------------------------------------------------
(* OpenLoopFf: holds its trim, corrects no phase, is never locked.              *)
OpenStep(c, valid) == [state |-> c, out |-> Output(c.trim, 0, valid, FALSE, FALSE)]

(* Controller: the dispatch.                                                    *)
Step(c, err, valid) ==
  CASE c.kind \in PllKinds -> PllStep(c, err, valid)
    [] c.kind = "rework" -> ReworkStep(c, err, valid)
    [] c.kind = "boost" -> BoostStep(c, err, valid)
    [] c.kind = "open" -> OpenStep(c, valid)

(* A controller newly made and, if it succeeds another, start_segment.          *)
StartSegment(kind, seed) ==
  CASE kind \in PllKinds \cup {"rework"} -> PllStart(kind, seed)
    [] kind = "boost" -> BoostStart(seed)
    [] kind = "open" -> [kind |-> "open", trim |-> seed]
=============================================================================
