------------------------ MODULE NtpBroadcast_proofs ------------------------
(***************************************************************************)
(* Proofs about NtpBroadcast for every value of its constants: the port     *)
(* follows the receiver, the pair is never quiet for long, a packet leaves  *)
(* when the second it names begins, only while the clock can be vouched     *)
(* for, and after all that name an earlier one.                            *)
(***************************************************************************)
EXTENDS NtpBroadcast, TLAPS

(* The establishing of the link.  A command is on its way only to a receiver    *)
(* that still talks at the slow rate, and a probe that need not hear anything   *)
(* at the fast rate listens to a receiver at the slow one.                      *)
LinkInv ==
  /\ firmware \in Firmwares
  /\ port \in Rates /\ rate \in Rates /\ talking \in BOOLEAN /\ agreed \in BOOLEAN
  /\ ~talking => rate = "slow"
  /\ command => talking /\ rate = "slow"
  /\ stage \in Probes /\ ~agreed => ~command
  /\ stage \in Probes /\ port = "fast" => ~command /\ (~agreed => rate = "slow")
  /\ stage \in {"raised", "kept"} /\ tidy => port = rate
  /\ firmware # "pico-ntp" /\ stage = "lost" /\ tidy => port = "slow" /\ rate = "slow"

LEMMA LinkInitInv == LinkInit => LinkInv
BY DEF LinkInit, LinkInv, Rates, Probes

LEMMA LinkSteps ==
  ASSUME LinkInv,
         Probing \/ Restart \/ Switch \/ PowerLoss \/ PowerUp \/ UNCHANGED <<firmware, port, receiver, stage, agreed, tidy>>
  PROVE  LinkInv'
<1> USE DEF LinkInv, Rates, Probes, receiver
<1>1. CASE Heard
  BY <1>1 DEF Heard, Framing
<1>2. CASE NotHeard
  BY <1>2 DEF NotHeard, SetPort, LostPort
<1>3. CASE Waited
  BY <1>3 DEF Waited, SetPort
<1>4. CASE Restart
  BY <1>4 DEF Restart, SetPort
<1>5. CASE Switch
  BY <1>5 DEF Switch, Ends
<1>6. CASE PowerLoss
  BY <1>6 DEF PowerLoss
<1>7. CASE PowerUp
  BY <1>7 DEF PowerUp
<1>8. CASE UNCHANGED <<firmware, port, receiver, stage, agreed, tidy>>
  BY <1>8
<1> QED BY <1>1, <1>2, <1>3, <1>4, <1>5, <1>6, <1>7, <1>8 DEF Probing
-----------------------------------------------------------------------------
(* ntp_task.  What it sleeps for bounds how long the pair has been quiet and    *)
(* how far the second of a prepared packet is.                                  *)
TaskTypes ==
  /\ pc \in {"pulse", "packet"} /\ sleep \in Int /\ -Late <= sleep /\ quiet \in Nat
  /\ phase \in 0 .. (Second - 1) /\ off \in Int /\ epoch \in BOOLEAN /\ holdover \in Nat
  /\ lastTarget \in Nat /\ target \in Int /\ stepped \in BOOLEAN

Busy ==
  /\ pc = "pulse" => quiet + sleep <= Nlp
  /\ pc = "packet" => quiet + sleep <= 2 * Nlp + Late

Vouched == pc = "packet" => Trusted /\ epoch
Aimed == pc = "packet" /\ ~stepped => phase + sleep - target * Second \in -Early .. 0

TaskInv == TaskTypes /\ Busy /\ Vouched /\ Aimed

(* What the task is about, besides the link, and what leaves it alone.          *)
taskState == <<phase, off, epoch, holdover, pc, sleep, lastTarget, target, stepped, quiet>>

LEMMA TaskStutters ==
  ASSUME TaskInv, UNCHANGED <<taskState, firmware>>, stage = "raised" => stage' = "raised"
  PROVE  TaskInv'
BY DEF TaskInv, TaskTypes, Busy, Vouched, Aimed, taskState, Trusted

LEMMA Pulses ==
  ASSUME TaskInv, LinkPulse, UNCHANGED <<phase, off, epoch, holdover, stepped>>,
         lastTarget' \in Nat, target' \in Int
  PROVE  TaskInv'
BY BroadcastAssumption DEF TaskInv, TaskTypes, Busy, Vouched, Aimed, LinkPulse

LEMMA ConstantsTyped == Nlp \in Nat /\ 1 <= Nlp /\ Late \in Nat /\ Second \in Nat /\ Caps \in Nat
BY BroadcastAssumption, ServerAssumption DEF Caps

LEMMA SleepsOn ==
  ASSUME NEW q \in Nat, NEW n \in Nat, NEW l \in Nat, NEW s0 \in Int, NEW s1 \in Nat,
         q + s0 <= n, -l <= s0, s1 <= n
  PROVE  q + s1 <= 2 * n + l
OBVIOUS

LEMMA NextTargetTyped ==
  ASSUME TaskInv
  PROVE  NextTarget \in Nat /\ Wait \in Int
BY BroadcastAssumption DEF TaskInv, TaskTypes, NextTarget, Wait

LEMMA TickKeeps == TaskInv /\ Tick => TaskInv'
<1> USE BroadcastAssumption
<1> SUFFICES ASSUME TaskInv, Tick PROVE TaskInv'
  OBVIOUS
<1>1. /\ sleep > -Late /\ sleep' = sleep - 1 /\ quiet' = AtMost(quiet + 1, LongQuiet)
      /\ phase' = (phase + 1) % Second /\ UNCHANGED <<pc, off, epoch, stepped, firmware, stage>>
  BY DEF Tick, link
<1>2. TaskTypes /\ Busy /\ Vouched /\ Aimed
  BY DEF TaskInv
<1>3. LongQuiet \in Nat
  BY DEF LongQuiet
<1>4. quiet' \in Nat /\ quiet' <= quiet + 1
  BY <1>1, <1>2, <1>3 DEF TaskTypes, AtMost
<1>5. Busy' /\ holdover' \in Nat
  <2>1. Busy'
    BY <1>1, <1>2, <1>4 DEF TaskTypes, Busy
  <2>2. holdover' \in Nat
    BY <1>2, ConstantsTyped DEF Tick, TaskTypes, AtMost
  <2> QED BY <2>1, <2>2
<1>6. Vouched'
  BY <1>1, <1>2 DEF Vouched, Trusted
<1>7. \/ phase + 1 < Second /\ phase' = phase + 1 /\ phase' # 0
      \/ phase + 1 = Second /\ phase' = 0
  <2>1. phase \in 0 .. (Second - 1)
    BY <1>2 DEF TaskTypes
  <2>2. CASE phase + 1 < Second
    BY <1>1, <2>1, <2>2
  <2>3. CASE phase + 1 = Second
    <3>1. Second % Second = 0
      OBVIOUS
    <3> QED BY <1>1, <2>3, <3>1
  <2> QED BY <2>1, <2>2, <2>3
<1>8. CASE phase' # 0
  <2>1. phase' = phase + 1 /\ UNCHANGED <<lastTarget, target>>
    BY <1>7, <1>8 DEF Tick
  <2>2. TaskTypes'
    BY <1>1, <1>2, <1>4, <1>5, <1>7, <1>8, <2>1 DEF TaskTypes
  <2>3. Aimed'
    <3>1. target * Second \in Int
      BY <1>2 DEF TaskTypes
    <3> QED BY <1>1, <1>2, <2>1, <3>1 DEF Aimed, TaskTypes
  <2> QED BY <1>5, <1>6, <2>2, <2>3 DEF TaskInv
<1>9. CASE phase' = 0
  <2>1. /\ lastTarget' = AtLeast(lastTarget - 1, 0)
        /\ target' = IF pc = "packet" THEN target - 1 ELSE 0
        /\ phase + 1 = Second
    BY <1>7, <1>9 DEF Tick
  <2>2. lastTarget' \in Nat /\ target' \in Int
    BY <1>2, <2>1 DEF TaskTypes, AtLeast
  <2>3. TaskTypes'
    BY <1>1, <1>2, <1>4, <1>5, <1>9, <2>2 DEF TaskTypes
  <2>4. Aimed'
    <3>1. SUFFICES ASSUME pc = "packet", ~stepped
                   PROVE  0 + sleep' - target' * Second \in -Early .. 0
      BY <1>1, <1>9 DEF Aimed
    <3>2. target' = target - 1 /\ target \in Int
      BY <1>2, <2>1, <3>1 DEF TaskTypes
    <3>3. target' * Second = target * Second - Second /\ target * Second \in Int
      BY <3>2
    <3>4. phase + sleep - target * Second \in -Early .. 0 /\ sleep \in Int
      BY <1>2, <3>1 DEF Aimed, TaskTypes
    <3>5. 0 + sleep' - target' * Second = phase + sleep - target * Second
      BY <1>1, <1>2, <2>1, <3>3, <3>4 DEF TaskTypes
    <3> QED BY <3>4, <3>5
  <2> QED BY <1>5, <1>6, <2>3, <2>4 DEF TaskInv
<1> QED BY <1>8, <1>9

LEMMA PairKeeps == TaskInv /\ Pair => TaskInv'
<1> USE BroadcastAssumption
<1> SUFFICES ASSUME TaskInv, Pair PROVE TaskInv'
  OBVIOUS
<1>1. PICK e \in Errors \union {0} :
        /\ off' = e /\ epoch' = TRUE /\ holdover' = phase
        /\ IF epoch
             THEN /\ lastTarget' = AtLeast(lastTarget - (e - off), 0)
                  /\ target' = IF pc = "packet" THEN target - (e - off) ELSE 0
                  /\ stepped' = (stepped \/ e # off)
             ELSE UNCHANGED <<lastTarget, target, stepped>>
        /\ UNCHANGED <<firmware, stage, phase, pc, sleep, quiet>>
  BY DEF Pair
<1>2. TaskTypes /\ Busy /\ Vouched /\ Aimed /\ e \in Int
  BY DEF TaskInv
<1>3. lastTarget' \in Nat /\ target' \in Int /\ stepped' \in BOOLEAN
  BY <1>1, <1>2 DEF TaskTypes, AtLeast
<1>4. TaskTypes'
  BY <1>1, <1>2, <1>3 DEF TaskTypes
<1>5. Busy' /\ Vouched'
  BY <1>1, <1>2 DEF Busy, Vouched, Trusted
<1>6. Aimed'
  <2>1. SUFFICES ASSUME pc = "packet", ~stepped' PROVE UNCHANGED <<target, stepped>>
    BY <1>1, <1>2 DEF Aimed
  <2>2. epoch /\ e = off /\ ~stepped
    BY <1>1, <1>2, <2>1 DEF Vouched, TaskTypes
  <2> QED BY <1>1, <1>2, <1>3, <2>1, <2>2 DEF TaskTypes
<1> QED BY <1>4, <1>5, <1>6 DEF TaskInv

LEMMA PrepareKeeps == TaskInv /\ Prepare => TaskInv'
<1> USE BroadcastAssumption
<1> SUFFICES ASSUME TaskInv, Prepare PROVE TaskInv'
  OBVIOUS
<1>1. /\ Runs /\ pc = "pulse" /\ AtHand /\ lastTarget' = NextTarget
      /\ UNCHANGED <<firmware, stage, phase, off, epoch, holdover>>
  BY DEF Prepare, link, clock
<1>2. NextTarget \in Nat /\ Wait \in Int
  BY NextTargetTyped
<1>3. TaskTypes /\ Busy
  BY DEF TaskInv
<1>4. CASE MayServe
  <2>1. /\ pc' = "packet" /\ sleep' \in Remaining /\ target' = NextTarget
        /\ stepped' = FALSE /\ UNCHANGED quiet
    BY <1>4 DEF Prepare
  <2>2. sleep' \in Nat /\ Wait - Early <= sleep' /\ sleep' <= Wait /\ Wait <= Nlp
    BY <1>1, <1>2, <2>1 DEF Remaining, AtHand
  <2>3. TaskTypes'
    <3>1. stepped' \in BOOLEAN
      BY <2>1
    <3>2. -Late <= sleep' /\ sleep' \in Int
      BY <2>2
    <3>3. lastTarget' \in Nat /\ target' \in Int /\ pc' \in {"pulse", "packet"}
      BY <1>1, <1>2, <2>1
    <3> QED BY <1>1, <1>3, <2>1, <3>1, <3>2, <3>3 DEF TaskTypes
  <2>4. Busy'
    <3>1. quiet + sleep <= Nlp /\ -Late <= sleep /\ quiet \in Nat /\ sleep \in Int
      BY <1>1, <1>3 DEF Busy, TaskTypes
    <3>2. sleep' \in Nat /\ sleep' <= Nlp
      BY <1>2, <2>2
    <3>3. quiet + sleep' <= 2 * Nlp + Late
      BY <3>1, <3>2, ConstantsTyped, SleepsOn
    <3> QED BY <2>1, <3>3 DEF Busy
  <2>5. Vouched'
    BY <1>1 DEF Vouched, AtHand, Trusted
  <2>6. Aimed'
    <3>1. Wait = target' * Second - phase /\ target' * Second \in Int /\ phase \in Int
      BY <1>2, <1>3, <2>1 DEF Wait, TaskTypes
    <3>2. phase' = phase
      BY <1>1
    <3> QED BY <1>2, <2>2, <3>1, <3>2 DEF Aimed
  <2> QED BY <2>3, <2>4, <2>5, <2>6 DEF TaskInv
<1>5. CASE ~MayServe
  <2>1. LinkPulse /\ UNCHANGED <<target, stepped>>
    BY <1>5 DEF Prepare
  <2> QED BY <1>1, <1>2, <1>3, <2>1, Pulses DEF TaskTypes
<1> QED BY <1>4, <1>5

LEMMA HandoverKeeps == TaskInv /\ Handover => TaskInv'
<1> USE BroadcastAssumption
<1> SUFFICES ASSUME TaskInv, Handover PROVE TaskInv'
  OBVIOUS
<1>1. UNCHANGED <<phase, off, epoch, holdover, lastTarget, target, stepped>> /\ TaskTypes
  BY DEF Handover, clock, TaskInv
<1>2. CASE MayServe
  <2>1. quiet' = 0 /\ pc' = "pulse" /\ sleep' = 0
    BY <1>2 DEF Handover
  <2> QED BY <1>1, <2>1 DEF TaskInv, TaskTypes, Busy, Vouched, Aimed
<1>3. CASE ~MayServe
  <2>1. LinkPulse
    BY <1>3 DEF Handover
  <2> QED BY <1>1, <2>1, Pulses DEF TaskTypes
<1> QED BY <1>2, <1>3
-----------------------------------------------------------------------------
(* The system.                                                                *)
Inv == LinkInv /\ TaskInv

LEMMA InitInv == Init => Inv
<1> SUFFICES ASSUME Init PROVE Inv
  OBVIOUS
<1>1. LinkInv
  BY LinkInitInv DEF Init
<1>2. TaskInv
  <2>1. TaskTypes
    <3>1. epoch \in BOOLEAN /\ stepped \in BOOLEAN
      BY DEF Init, ClockInit
    <3>2. 0 \in 0 .. (Second - 1) /\ -Late <= 0
      BY BroadcastAssumption
    <3> QED BY <3>1, <3>2 DEF Init, ClockInit, TaskTypes
  <2>2. pc = "pulse" /\ quiet = 0 /\ sleep = 0
    BY DEF Init, ClockInit
  <2> QED BY <2>1, <2>2, ConstantsTyped DEF TaskInv, Busy, Vouched, Aimed
<1> QED BY <1>1, <1>2 DEF Inv

LEMMA NextLink == Inv /\ [Next]_vars => LinkInv'
<1> SUFFICES ASSUME Inv, [Next]_vars PROVE LinkInv'
  OBVIOUS
<1> DEFINE still == UNCHANGED <<firmware, port, receiver, stage, agreed, tidy>>
<1>1. CASE Probing \/ Switch \/ PowerUp \/ Reboot \/ Outage
  BY <1>1, LinkSteps DEF Inv, Reboot, Outage
<1>2. CASE Tick \/ Pair \/ FixLost \/ FixFound \/ NtpTask \/ ReadsOn \/ UNCHANGED vars
  <2>1. still
    BY <1>2 DEF Tick, Pair, FixLost, FixFound, NtpTask, Idle, Prepare, Handover, ReadsOn, vars, link
  <2> QED BY <2>1, LinkSteps DEF Inv
<1> QED BY <1>1, <1>2 DEF Next

LEMMA NextTask == Inv /\ [Next]_vars => TaskInv'
<1> SUFFICES ASSUME Inv, [Next]_vars PROVE TaskInv'
  OBVIOUS
<1>0. TaskInv
  BY DEF Inv
<1>1. CASE (Probing \/ Switch \/ PowerUp) /\ UNCHANGED Others
  <2>1. UNCHANGED <<taskState, firmware>> /\ (stage = "raised" => stage' = "raised")
    BY <1>1 DEF Probing, Heard, NotHeard, Waited, Switch, PowerUp, Others, clock, task, taskState,
                Probes
  <2> QED BY <1>0, <2>1, TaskStutters
<1>2. CASE Reboot
  <2>1. TaskTypes'
    <3>1. epoch' \in BOOLEAN /\ stepped' \in BOOLEAN
      BY <1>2 DEF Reboot
    <3>2. 0 \in 0 .. (Second - 1) /\ -Late <= 0
      BY BroadcastAssumption
    <3> QED BY <1>2, <3>1, <3>2 DEF Reboot, TaskTypes
  <2>2. pc' = "pulse" /\ quiet' = 0 /\ sleep' = 0
    BY <1>2 DEF Reboot
  <2> QED BY <2>1, <2>2, ConstantsTyped DEF TaskInv, Busy, Vouched, Aimed
<1>3. CASE Outage
  <2>1. UNCHANGED <<taskState, firmware, stage>>
    BY <1>3 DEF Outage, PowerLoss, task, taskState
  <2> QED BY <1>0, <2>1, TaskStutters
<1>4. CASE FixLost \/ FixFound \/ ReadsOn \/ UNCHANGED vars
  <2>1. UNCHANGED <<taskState, firmware, stage>>
    BY <1>4 DEF FixLost, FixFound, ReadsOn, vars, link, clock, task, taskState
  <2> QED BY <1>0, <2>1, TaskStutters
<1>5. CASE Tick
  BY <1>0, <1>5, TickKeeps
<1>6. CASE Pair
  BY <1>0, <1>6, PairKeeps
<1>7. CASE Idle
  <2>1. LinkPulse /\ UNCHANGED <<phase, off, epoch, holdover, stepped, lastTarget, target>>
    BY <1>7 DEF Idle, clock
  <2>2. lastTarget \in Nat /\ target \in Int
    BY <1>0 DEF TaskInv, TaskTypes
  <2> QED BY <1>0, <2>1, <2>2, Pulses
<1>8. CASE Prepare
  BY <1>0, <1>8, PrepareKeeps
<1>9. CASE Handover
  BY <1>0, <1>9, HandoverKeeps
<1> QED BY <1>1, <1>2, <1>3, <1>4, <1>5, <1>6, <1>7, <1>8, <1>9 DEF Next, NtpTask

LEMMA NextInv == Inv /\ [Next]_vars => Inv'
BY NextLink, NextTask DEF Inv

(* Whatever the receiver's rate was and whatever became of the command, a link  *)
(* reported found is one the port can read, and so is the receiver that comes   *)
(* up after pico-gnss or an example has given up (main.rs:557-559,              *)
(* mt3333.rs:131-138, 177-187).                                                *)
THEOREM LinkFollows == Spec => []PortFollows
<1>1. Inv => PortFollows
  BY DEF Inv, LinkInv, PortFollows, Framing
<1> QED BY <1>1, InitInv, NextInv, PTL DEF Spec

(* Serving, silent or withholding a packet, the task never leaves the pair      *)
(* quiet for more than two pulse intervals and two delays of its wake-up        *)
(* (main.rs:353-360, 382-415, 463-468).                                         *)
THEOREM PairStaysUp == Spec => []LinkHeld
<1>1. Inv => LinkHeld
  BY BroadcastAssumption DEF Inv, TaskInv, TaskTypes, Busy, LinkHeld
<1> QED BY <1>1, InitInv, NextInv, PTL DEF Spec

(* Only the handover sends.                                                    *)
LEMMA SendsIsHandover ==
  ASSUME Inv, [Next]_vars, Sends
  PROVE  Runs /\ MayServe
<1> USE BroadcastAssumption
<1>1. pc = "packet" /\ pc' = "pulse" /\ sleep' = 0 /\ stage' = stage
  BY DEF Sends
<1>2. stage = "raised"
  BY <1>1 DEF Inv, TaskInv, Vouched, Trusted
<1>3. ~(Tick \/ Pair \/ FixLost \/ FixFound \/ ReadsOn \/ UNCHANGED vars \/ Outage)
  BY <1>1 DEF Tick, Pair, FixLost, FixFound, ReadsOn, vars, task, Outage
<1>4. ~((Probing \/ Switch \/ PowerUp) /\ UNCHANGED Others) /\ ~Reboot
  BY <1>1, <1>2 DEF Others, task, Reboot, Restart
<1>5. ~Idle /\ ~Prepare
  BY <1>1 DEF Idle, Prepare
<1>6. Handover
  BY <1>3, <1>4, <1>5 DEF Next, NtpTask
<1> QED BY <1>1, <1>6 DEF Handover, LinkPulse

(* A packet leaves only from a server whose link is up and whose clock the      *)
(* policy vouches for at that very moment, however long ago it was prepared     *)
(* (main.rs:457-468).                                                           *)
THEOREM SpeaksVouched == Spec => SpeaksOnlyVouched
<1>1. Inv /\ [Next]_vars => [Sends => Trusted /\ epoch /\ holdover <= MaxHoldover]_vars
  <2> SUFFICES ASSUME Inv, [Next]_vars, Sends
               PROVE  Trusted /\ epoch /\ holdover <= MaxHoldover
    OBVIOUS
  <2>1. MayServe /\ Trusted /\ epoch
    BY SendsIsHandover DEF Sends, Inv, TaskInv, Vouched
  <2>2. ~(State.holdover > MaxHoldover)
    BY <2>1 DEF MayServe, Serves, SilentReason
  <2>3. State.holdover = holdover /\ holdover \in Nat /\ MaxHoldover \in Nat
    BY ServerAssumption DEF State, Inv, TaskInv, TaskTypes
  <2> QED BY <2>1, <2>2, <2>3
<1> QED BY <1>1, InitInv, NextInv, PTL DEF Spec, SpeaksOnlyVouched

(* A packet leaves within Early before and Late after the second it names, if   *)
(* the epoch was not corrected while the task slept (main.rs:401-448).          *)
THEOREM PacketsOnTime == Spec => LeavesOnTime
<1>1. Inv /\ [Next]_vars =>
        [Sends /\ ~stepped => phase - target * Second \in -Early .. Late]_vars
  <2> SUFFICES ASSUME Inv, [Next]_vars, Sends, ~stepped
               PROVE  phase - target * Second \in -Early .. Late
    OBVIOUS
  <2>1. sleep <= 0 /\ -Late <= sleep /\ sleep \in Int /\ phase \in Int /\ target * Second \in Int
    BY SendsIsHandover, BroadcastAssumption DEF Runs, Inv, TaskInv, TaskTypes
  <2>2. phase + sleep - target * Second \in -Early .. 0
    BY DEF Inv, TaskInv, Aimed, Sends
  <2> QED BY <2>1, <2>2, BroadcastAssumption
<1> QED BY <1>1, InitInv, NextInv, PTL DEF Spec, LeavesOnTime
-----------------------------------------------------------------------------
(* The seconds announced.  A packet under way names a second after all that     *)
(* were announced, and it is the latest that was aimed at; target + off, the    *)
(* second in the right epoch, is where the sleep ends, less the error the       *)
(* packet was prepared with: so no correction takes it back as far as Oldest.   *)
Slips == Errors \union {0}

StampInv ==
  /\ off \in Slips /\ sent \in Int /\ Oldest <= sent /\ sent <= lastTarget
  /\ pc = "packet" =>
       /\ sent < target /\ target <= lastTarget
       /\ \E o \in Slips : phase + sleep - (target + off - o) * Second \in -Early .. 0

LEMMA StampTypes ==
  /\ Oldest \in Int /\ Oldest < 0 /\ Slips \subseteq Int /\ Late \in Nat
  /\ Second \in Nat \ {0} /\ Early \in Int
  /\ \A a, b \in Slips : Oldest < a - b - Late
<1>1. 0 \in Slips /\ \A a, b \in Slips : Oldest < a - b - Late
  BY StampAssumption DEF Slips
<1>2. Oldest < 0 - 0 - Late
  BY <1>1
<1> QED BY <1>1, <1>2, StampAssumption, BroadcastAssumption DEF Slips

LEMMA BeforeZero ==
  ASSUME NEW s \in Nat \ {0}, NEW t \in Int, NEW l \in Nat, -l <= t * s
  PROVE  -l <= t
<1> SUFFICES ASSUME t < -l PROVE FALSE
  OBVIOUS
<1>1. t * s <= t
  OBVIOUS
<1> QED BY <1>1

(* Wherever the sleep stands, the packet's second is after Oldest.             *)
LEMMA TargetRecent ==
  ASSUME NEW p \in Nat, NEW s \in Int, -Late <= s, NEW x \in Int,
         NEW e \in Slips, NEW o \in Slips, p + s - (x + e - o) * Second \in -Early .. 0
  PROVE  Oldest < x
<1>1. x + e - o \in Int /\ (x + e - o) * Second \in Int
  BY StampTypes
<1>2. -Late <= (x + e - o) * Second
  BY <1>1, StampTypes
<1>3. -Late <= x + e - o
  BY <1>1, <1>2, StampTypes, BeforeZero
<1>4. Oldest < o - e - Late
  BY StampTypes
<1> QED BY <1>3, <1>4, StampTypes

LEMMA StampTick == TaskInv /\ StampInv /\ Tick => StampInv'
<1> USE StampTypes
<1> SUFFICES ASSUME TaskInv, StampInv, Tick PROVE StampInv'
  OBVIOUS
<1>1. /\ sleep' = sleep - 1 /\ phase' = (phase + 1) % Second /\ UNCHANGED <<off, pc>>
      /\ TaskTypes /\ phase \in 0 .. (Second - 1) /\ sleep \in Int /\ target \in Int
      /\ lastTarget \in Nat
  BY DEF Tick, TaskInv, TaskTypes
<1>2. \/ phase + 1 < Second /\ phase' = phase + 1 /\ phase' # 0
      \/ phase + 1 = Second /\ phase' = 0
  <2>1. CASE phase + 1 < Second
    BY <1>1, <2>1
  <2>2. CASE phase + 1 = Second
    <3>1. Second % Second = 0
      OBVIOUS
    <3> QED BY <1>1, <2>2, <3>1
  <2> QED BY <1>1, <2>1, <2>2
<1>3. CASE phase' # 0
  <2>1. UNCHANGED <<lastTarget, target, sent>> /\ phase' + sleep' = phase + sleep
    BY <1>1, <1>2, <1>3 DEF Tick
  <2> QED BY <1>1, <2>1 DEF StampInv
<1>4. CASE phase' = 0
  <2>1. /\ lastTarget' = AtLeast(lastTarget - 1, 0) /\ sent' = AtLeast(sent - 1, Oldest)
        /\ pc = "packet" => target' = target - 1
        /\ phase + 1 = Second
    BY <1>2, <1>4 DEF Tick
  <2>2. sent' \in Int /\ Oldest <= sent' /\ sent' <= lastTarget'
    BY <1>1, <2>1 DEF StampInv, AtLeast
  <2>3. ASSUME pc = "packet"
        PROVE  /\ sent' < target' /\ target' <= lastTarget'
               /\ \E o \in Slips : phase' + sleep' - (target' + off' - o) * Second \in -Early .. 0
    <3>1. PICK o \in Slips : phase + sleep - (target + off - o) * Second \in -Early .. 0
      BY <2>3 DEF StampInv
    <3>2. target' = target - 1 /\ target' \in Int /\ off \in Int /\ o \in Int /\ off \in Slips
      BY <1>1, <2>1, <2>3 DEF StampInv
    <3>3. (target' + off - o) * Second = (target + off - o) * Second - Second
      BY <1>1, <3>2
    <3>4. phase' + sleep' - (target' + off' - o) * Second \in -Early .. 0
      <4>1. (target + off - o) * Second \in Int
        BY <1>1, <3>2
      <4>2. phase' + sleep' = phase + sleep - Second
        BY <1>1, <1>4, <2>1
      <4> QED BY <1>1, <3>1, <3>3, <4>1, <4>2
    <3>5. phase' \in Nat /\ sleep' \in Int /\ -Late <= sleep'
      BY TickKeeps, <1>4 DEF TaskInv, TaskTypes
    <3>6. Oldest < target'
      BY <1>1, <3>2, <3>4, <3>5, TargetRecent
    <3>7. sent < target /\ target <= lastTarget
      BY <2>3 DEF StampInv
    <3> QED BY <1>1, <2>1, <3>2, <3>4, <3>6, <3>7 DEF AtLeast, StampInv
  <2> QED BY <1>1, <2>2, <2>3 DEF StampInv
<1> QED BY <1>3, <1>4

LEMMA StampPair == TaskInv /\ StampInv /\ Pair => StampInv'
<1> USE StampTypes
<1> SUFFICES ASSUME TaskInv, StampInv, Pair PROVE StampInv'
  OBVIOUS
<1>1. PICK e \in Slips :
        /\ off' = e
        /\ IF epoch
             THEN /\ lastTarget' = AtLeast(lastTarget - (e - off), 0)
                  /\ target' = IF pc = "packet" THEN target - (e - off) ELSE 0
                  /\ sent' = AtLeast(sent - (e - off), Oldest)
             ELSE UNCHANGED <<lastTarget, target, sent>>
        /\ UNCHANGED <<phase, pc, sleep>>
  BY DEF Pair, Slips
<1>2. /\ TaskTypes /\ e \in Int /\ off \in Int /\ phase \in Nat /\ sleep \in Int /\ -Late <= sleep
      /\ target \in Int /\ lastTarget \in Nat /\ sent \in Int
  BY DEF TaskInv, TaskTypes, StampInv
<1>3. sent' \in Int /\ Oldest <= sent' /\ sent' <= lastTarget'
  BY <1>1, <1>2 DEF StampInv, AtLeast
<1>4. ASSUME pc = "packet"
      PROVE  /\ sent' < target' /\ target' <= lastTarget'
             /\ \E o \in Slips : phase' + sleep' - (target' + off' - o) * Second \in -Early .. 0
  <2>1. PICK o \in Slips : phase + sleep - (target + off - o) * Second \in -Early .. 0
    BY <1>4 DEF StampInv
  <2>2. epoch /\ target' = target - (e - off) /\ target' \in Int
    BY <1>1, <1>2, <1>4 DEF TaskInv, Vouched
  <2>3. target' + off' - o = target + off - o
    BY <1>1, <1>2, <2>2
  <2>4. phase' + sleep' - (target' + off' - o) * Second \in -Early .. 0
    BY <1>1, <2>1, <2>3
  <2>5. Oldest < target'
    BY <1>1, <1>2, <2>2, <2>4, TargetRecent
  <2>6. sent < target /\ target <= lastTarget
    BY <1>4 DEF StampInv
  <2> QED BY <1>1, <1>2, <2>2, <2>4, <2>5, <2>6 DEF AtLeast
<1> QED BY <1>1, <1>3, <1>4 DEF StampInv

LEMMA StampPrepare == TaskInv /\ StampInv /\ Prepare => StampInv'
<1> USE StampTypes
<1> SUFFICES ASSUME TaskInv, StampInv, Prepare PROVE StampInv'
  OBVIOUS
<1>1. AtHand /\ lastTarget' = NextTarget /\ UNCHANGED <<phase, off, sent>>
  BY DEF Prepare, clock
<1>2. /\ phase \in Nat /\ off \in Int /\ sent \in Int /\ lastTarget \in Nat
      /\ off \in Slips /\ Oldest <= sent /\ sent <= lastTarget
  BY DEF TaskInv, TaskTypes, StampInv
<1>3. NextTarget \in Nat /\ Wait \in Int /\ Wait = NextTarget * Second - phase
  BY NextTargetTyped DEF Wait
<1>4. sent < NextTarget
  BY <1>2 DEF NextTarget
<1>5. ASSUME pc' = "packet"
      PROVE  target' = NextTarget /\ phase' + sleep' - (target' + off' - off) * Second \in -Early .. 0
  <2>1. target' = NextTarget /\ sleep' \in Remaining
    BY <1>5 DEF Prepare, LinkPulse
  <2>2. sleep' \in Int /\ Wait - Early <= sleep' /\ sleep' <= Wait
    BY <1>3, <2>1 DEF Remaining
  <2>3. target' + off' - off = NextTarget
    BY <1>1, <1>2, <1>3, <2>1
  <2>4. NextTarget * Second \in Int
    BY <1>3
  <2>5. phase + sleep' - NextTarget * Second \in -Early .. 0
    <3> DEFINE edge == NextTarget * Second
    <3>1. edge \in Int /\ Wait = edge - phase
      BY <1>3, <2>4
    <3> HIDE DEF edge
    <3>2. phase + sleep' - edge = sleep' - Wait
      BY <1>2, <1>3, <2>2, <3>1
    <3>3. sleep' - Wait \in -Early .. 0
      BY <1>3, <2>2
    <3>4. phase + sleep' - edge \in -Early .. 0
      BY <3>2, <3>3
    <3> QED BY <3>4 DEF edge
  <2>6. phase' + sleep' - (target' + off' - off) * Second = phase + sleep' - NextTarget * Second
    BY <1>1, <2>3
  <2> QED BY <2>1, <2>5, <2>6
<1> QED BY <1>1, <1>2, <1>3, <1>4, <1>5 DEF StampInv

LEMMA StampHandover == TaskInv /\ StampInv /\ Handover => StampInv'
<1> USE StampTypes
<1> SUFFICES ASSUME TaskInv, StampInv, Handover PROVE StampInv'
  OBVIOUS
<1>1. /\ pc = "packet" /\ pc' = "pulse" /\ UNCHANGED <<off, lastTarget, target>>
      /\ sent' = target \/ sent' = sent
  BY DEF Handover, LinkPulse, clock
<1>2. target \in Int
  BY DEF TaskInv, TaskTypes
<1> QED BY <1>1, <1>2 DEF StampInv

LEMMA NextStamp == Inv /\ StampInv /\ [Next]_vars => StampInv'
<1> SUFFICES ASSUME Inv, StampInv, [Next]_vars PROVE StampInv'
  OBVIOUS
<1>0. TaskInv
  BY DEF Inv
<1>1. CASE Reboot
  BY <1>1, StampTypes DEF Reboot, StampInv, Slips
<1>2. CASE \/ (Probing \/ Switch \/ PowerUp) /\ UNCHANGED Others
           \/ Outage \/ FixLost \/ FixFound
           \/ ReadsOn \/ UNCHANGED vars
  <2>1. UNCHANGED <<phase, off, pc, sleep, lastTarget, target, sent>>
    BY <1>2 DEF Others, Outage, FixLost, FixFound, ReadsOn, vars, clock, task
  <2> QED BY <2>1 DEF StampInv
<1>3. CASE Idle
  <2>1. UNCHANGED <<off, lastTarget, sent>> /\ pc' = "pulse"
    BY <1>3 DEF Idle, clock, LinkPulse
  <2> QED BY <2>1 DEF StampInv
<1>4. CASE Tick
  BY <1>0, <1>4, StampTick
<1>5. CASE Pair
  BY <1>0, <1>5, StampPair
<1>6. CASE Prepare
  BY <1>0, <1>6, StampPrepare
<1>7. CASE Handover
  BY <1>0, <1>7, StampHandover
<1> QED BY <1>1, <1>2, <1>3, <1>4, <1>5, <1>6, <1>7 DEF Next, NtpTask

(* No second is announced twice and none after a later one, through late        *)
(* wake-ups, sleeps that fall short and corrections of the epoch either way, by *)
(* whatever wrong pairings are off (main.rs:348-351, 371-376).                  *)
THEOREM SecondsInOrder == Spec => StampsIncrease
<1>1. Init => StampInv
  BY StampTypes DEF Init, ClockInit, StampInv, Slips
<1>2. Inv /\ StampInv /\ [Next]_vars => [Sends => target > sent]_vars
  BY StampTypes DEF Inv, TaskInv, TaskTypes, StampInv, Sends
<1> QED BY <1>1, <1>2, InitInv, NextInv, NextStamp, PTL DEF Spec, StampsIncrease
=============================================================================
