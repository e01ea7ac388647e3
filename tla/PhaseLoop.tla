----------------------------- MODULE PhaseLoop -----------------------------
(***************************************************************************)
(* The phase loop closed: gen_capture_task feeds each output edge's phase   *)
(* to the controller and pushes a period word, which the output program     *)
(* takes up one edge later.  The plant keeps the phase in Scale-ths of a ns *)
(* and drifts by what the crystal feedforward leaves over.  Besides quiet   *)
(* edges there are spikes (one bad capture), samples that are not valid     *)
(* (holdover), jumps of the real phase, and switches of the controller.     *)
(***************************************************************************)
EXTENDS PhaseControllers, FiniteSets

CONSTANTS
  Start,     \* phases the output may begin at, in ns
  Drifts,    \* what the feedforward leaves over, Scale-ths of a ns per edge
  Spikes,    \* errors of a bad capture, in ns
  Jumps,     \* jumps of the phase, in ns
  MaxFaults, \* bound on the disturbances
  When,      \* bound: edges after the last disturbance at which one may come
  Settling   \* edges the loop is given to settle

ASSUME LoopAssumption ==
  /\ Start \subseteq Int /\ Drifts \subseteq Int
  /\ Spikes \subseteq Int /\ Jumps \subseteq Int
  /\ MaxFaults \in Nat /\ When \subseteq Nat /\ Settling \in Nat \ {0}

VARIABLES
  ctl,     \* the controller
  word,    \* trim and correction of the period word in the TX FIFO
  phase,   \* output edge minus reference edge
  drift,   \* residual frequency
  faults,  \* disturbances so far
  astray,  \* history: trusted edges in a row that show the output out of the
           \* outlier band while the loop reports lock
  boosted, \* history: edges in a row spent in boost
  age,     \* history: edges since the last disturbance, saturated at Settling
  settled  \* history: undisturbed for Settling edges, and since then only spikes

plant == <<phase, drift>>
vars == <<ctl, word, plant, faults, astray, boosted, age, settled>>

Measured == phase \div Scale
Boosting(c) == c.kind = "boost" /\ c.boosting
-----------------------------------------------------------------------------
(* One iteration of gen_capture_task: the controller's step and the word.     *)
Edge(noise, valid) ==
  LET err == Measured + noise
      u == Step(ctl, err, valid)
  IN  /\ ctl' = u.state
      /\ word' = [trim |-> u.out.trim, pcorr |-> u.out.pcorr]
      /\ astray' = IF valid /\ Abs(err) > Outlier /\ u.out.locked THEN astray + 1
                   ELSE IF valid THEN 0 ELSE astray
      /\ boosted' = IF Boosting(u.state) THEN boosted + 1 ELSE 0

\* the word before this edge's sets the length of the period after it
Advance(jump) == phase' = phase + drift + word.trim - Scale * word.pcorr + Scale * jump

Spend == faults < MaxFaults /\ age \in When /\ faults' = faults + 1 /\ age' = 0

Quiet ==
  /\ Edge(0, TRUE) /\ Advance(0)
  /\ age' = AtMost(age + 1, Settling) /\ settled' = (settled \/ age' = Settling)
  /\ UNCHANGED <<drift, faults>>

Spike ==
  /\ Spend
  /\ \E s \in Spikes : Edge(s, TRUE)
  /\ Advance(0)
  /\ UNCHANGED <<drift, settled>>

Holdover ==
  /\ Spend
  /\ Edge(0, FALSE) /\ Advance(0)
  /\ settled' = FALSE
  /\ UNCHANGED drift

Jump ==
  /\ Spend
  /\ Edge(0, TRUE)
  /\ \E j \in Jumps : Advance(j)
  /\ settled' = FALSE
  /\ UNCHANGED drift

(* CONTROLLER_SWEEP: the next controller continues at the applied frequency;   *)
(* the sweep goes through the closed loops only.                               *)
Switch ==
  /\ Spend
  /\ \E kind \in Kinds \ {"open"} : ctl' = StartSegment(kind, word.trim)
  /\ boosted' = 0 /\ astray' = 0 /\ settled' = FALSE
  /\ UNCHANGED <<word, plant>>

Init ==
  /\ ctl \in {StartSegment(kind, 0) : kind \in Kinds}
  /\ word = [trim |-> 0, pcorr |-> 0]
  /\ phase \in {Scale * s : s \in Start}
  /\ drift \in IF ctl.kind = "open" THEN {0} ELSE Drifts  \* nothing would stop it
  /\ faults = 0 /\ astray = 0 /\ boosted = 0 /\ age = 0 /\ settled = FALSE

Next == Quiet \/ Spike \/ Holdover \/ Jump \/ Switch

Spec == Init /\ [][Next]_vars /\ WF_vars(Quiet)
-----------------------------------------------------------------------------
Trims == -TrimMax .. TrimMax
Locks == 0 .. LockHold
Rejects == 0 .. OutlierMax

Plls ==
  [kind : PllKinds \union {"rework"}, lockCnt : Locks, rejectCnt : Rejects, trim : Trims,
   lastPred : Int, inFlight : Int]
Boosts ==
  [kind : {"boost"}, phaseHat : Int, drift : Trims, lastTrim : Trims, lastCorr : Int,
   boosting : BOOLEAN, boostEdges : Nat, exitCnt : Nat, lockCnt : Locks, rejectCnt : Rejects]
Opens == [kind : {"open"}, trim : Trims]

\* The trim stays within its limit, also where the reworked integrator bleeds
\* back what the limit cut off, and every counter within its own (pll.rs:332-333,
\* 348; controllers.rs:262, 397, 546-556).
TypeOK ==
  /\ ctl \in Plls \union Boosts \union Opens
  /\ word \in [trim : Trims, pcorr : Int]
  /\ phase \in Int /\ drift \in Drifts \union {0} /\ astray \in Nat /\ boosted \in Nat
  /\ faults \in 0 .. MaxFaults /\ age \in 0 .. Settling /\ settled \in BOOLEAN

\* P and Pd have no integrator and settle beside zero, the open loop not at all.
ClosedLoop == ctl.kind \notin {"open", "P", "Pd"}
InWindow == Abs(Measured) < LockWindow

(* Once the disturbances are over, a loop with an integrator takes the output   *)
(* into the lock window, reports lock, and keeps both: after a holdover, a jump *)
(* of the phase or a switch, whatever the counters then held (pll.rs:288-375).  *)
Settles == <>[](ClosedLoop => InWindow /\ IsLocked(ctl))

(* A settled output is not moved out of the window by spikes, up to OutlierMax  *)
(* of them at any spacing (pll.rs:305-312, 356-358: no kick on the edge after). *)
SettledHolds == ClosedLoop /\ settled => InWindow

(* The lock is not reported for ever on an output that is out of the outlier    *)
(* band: OutlierMax trusted edges show it and are held, the next acts, and      *)
(* samples that are not trusted, which hold the lock, do not start the count    *)
(* anew (pll.rs:306-308, 354; main.rs:1005-1015).                               *)
AstrayBounded == astray <= OutlierMax + 1

(* No pattern of outliers and missing samples keeps the boost on                *)
(* (controllers.rs:265-275, 291-294).                                           *)
BoostBounded == boosted <= BoostMax

(* A switch changes neither frequency nor phase: from a phase of zero the new   *)
(* controller goes on with the trim applied so far, corrects nothing and does   *)
(* not claim the lock of the one before (control.rs:69-80, pll.rs:410,          *)
(* controllers.rs:425-436).  P and Pd drop the trim they are seeded with at     *)
(* their first edge (pll.rs:335-337).                                          *)
SwitchSeamless ==
  [][ Switch /\ ClosedLoop' => LET u == Step(ctl', 0, TRUE)
                               IN  u.out.trim = word.trim /\ u.out.pcorr = 0 /\ ~u.out.locked ]_vars
=============================================================================
