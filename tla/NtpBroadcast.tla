---------------------------- MODULE NtpBroadcast ----------------------------
(***************************************************************************)
(* pico-ntp: ntp_task sends one packet per UTC second and a link pulse      *)
(* about every 16 ms in between, on the clock that the PPS and NMEA tasks   *)
(* discipline, once the boot code has established the receiver's link.      *)
(* All tasks share one cooperative executor: the clock changes only while   *)
(* ntp_task sleeps, and a sleep may end late.                              *)
(*                                                                         *)
(* Time is in ticks, Second of them to a second and Nlp to a link pulse     *)
(* interval.  Whole seconds are kept relative to the current one by the     *)
(* disciplined clock, so that a correction of the epoch shifts them.        *)
(***************************************************************************)
EXTENDS BaudLink, NtpServer

CONSTANTS
  Second,    \* ticks of a second
  Nlp,       \* ticks of NLP_INTERVAL_US
  Late,      \* bound: ticks by which a task may be run late
  Early,     \* bound: ticks by which a sleep may fall short of a second
  LockAfter, \* edges to a frequency lock
  Errors,    \* whole seconds by which a wrong pairing is off
  Oldest     \* bound: stamps before this second are not told apart

ASSUME BroadcastAssumption ==
  /\ Second \in Nat \ {0} /\ Nlp \in 1..(Second - 1) /\ Late \in Nat /\ Early \in Nat
  /\ LockAfter \in Nat /\ Errors \subseteq Int

\* no correction of the epoch takes a packet under way back to there
ASSUME StampAssumption ==
  Oldest \in Int /\ \A a, b \in Errors \union {0} : Oldest < a - b - Late

VARIABLES
  phase,    \* ticks into the clock's current second
  off,      \* error of the epoch in whole seconds
  epoch,    \* there is an epoch
  holdover, \* ticks since the edge it was set by
  edges,    \* edges that disciplined the frequency, up to LockAfter
  fix,      \* the receiver gives pulses
  pending,  \* an edge waits for its sentence
  pc,       \* what ntp_task sleeps for: a link pulse interval or the handover
  sleep,    \* ticks to the end of its sleep, negative when overdue
  lastTarget, \* last_target_ns; seconds not after this one are all 0
  target,   \* the second the prepared packet names
  stepped,  \* history: the epoch was corrected since the packet was prepared
  sent,     \* history: the latest second a packet named
  quiet     \* history: ticks since the pair last carried anything

clock == <<off, epoch, holdover, edges, fix, pending>>
task == <<pc, sleep, lastTarget, target>>
vars == <<link, phase, clock, task, stepped, sent, quiet>>

Spawned == firmware = "pico-ntp" /\ Established
Caps == MaxHoldover + 1
LongQuiet == 2 * (Nlp + Late) + 1

State ==
  [lastUpdate |-> IF epoch THEN 0 ELSE NoTime, holdover |-> holdover,
   locked |-> edges = LockAfter]
MayServe == Serves(Reference, State)
-----------------------------------------------------------------------------
(* Time, and the two tasks that feed the clock.  A sentence that can be read  *)
(* is read before the next pulse.                                            *)
Tick ==
  /\ Spawned /\ sleep > -Late
  /\ phase = Second - 1 => ~(pending /\ Framing)
  /\ sleep' = sleep - 1
  /\ holdover' = IF epoch THEN AtMost(holdover + 1, Caps) ELSE 0
  /\ quiet' = AtMost(quiet + 1, LongQuiet)
  /\ phase' = (phase + 1) % Second
  /\ IF phase' = 0
       THEN /\ lastTarget' = AtLeast(lastTarget - 1, 0)
            /\ target' = IF pc = "packet" THEN target - 1 ELSE 0
            /\ sent' = AtLeast(sent - 1, Oldest)
            /\ pending' = (fix \/ pending)
            /\ edges' = IF fix THEN AtMost(edges + 1, LockAfter) ELSE edges
       ELSE UNCHANGED <<lastTarget, target, sent, pending, edges>>
  /\ UNCHANGED <<link, off, epoch, fix, pc, stepped>>

\* feed_nmea: the sentence pairs with the pending edge; a wrong pairing is a
\* disturbance, and the next right one steps the clock back
Pair ==
  \E e \in Errors \union {0} :
    /\ Spawned /\ Framing /\ pending
    /\ pending' = FALSE
    /\ off' = e /\ epoch' = TRUE /\ holdover' = phase
    /\ IF e = 0 THEN UNCHANGED faults ELSE Fault
    /\ IF epoch
         THEN /\ lastTarget' = AtLeast(lastTarget - (e - off), 0)
              /\ target' = IF pc = "packet" THEN target - (e - off) ELSE 0
              /\ sent' = AtLeast(sent - (e - off), Oldest)
              /\ stepped' = (stepped \/ e # off)
         ELSE UNCHANGED <<lastTarget, target, sent, stepped>>
    /\ UNCHANGED <<firmware, port, receiver, stage, agreed, tidy, phase, edges, fix, pc, sleep, quiet>>

FixLost ==
  /\ fix /\ Fault /\ fix' = FALSE
  /\ UNCHANGED <<firmware, port, receiver, stage, agreed, tidy, phase, off, epoch, holdover, edges,
                 pending, task, stepped, sent, quiet>>
FixFound ==
  /\ ~fix /\ talking /\ fix' = TRUE
  /\ UNCHANGED <<link, phase, off, epoch, holdover, edges, pending, task, stepped, sent, quiet>>
-----------------------------------------------------------------------------
(* ntp_task.                                                                 *)
Runs == Spawned /\ sleep <= 0

LinkPulse == quiet' = 0 /\ pc' = "pulse" /\ sleep' = Nlp

\* mutant: the second just served is aimed at again
TargetAgain == 1

\* the next whole second that has not been aimed at
NextTarget == IF 1 <= lastTarget THEN lastTarget + 1 ELSE 1
Wait == NextTarget * Second - phase

\* mutant: a wait of exactly one interval is slept over
AtHandStrict == Trusted /\ epoch /\ Wait < Nlp
AtHand == Trusted /\ epoch /\ Wait <= Nlp

Idle ==
  /\ Runs /\ pc = "pulse" /\ ~AtHand
  /\ LinkPulse
  /\ UNCHANGED <<link, phase, clock, lastTarget, target, stepped, sent>>

\* mutant: what was left before the last link pulse
RemainingStale == {Wait + Nlp}

\* whole microseconds of what is left of the second: it may end just before it
Remaining == {w \in (Wait - Early) .. Wait : w >= 0}

Prepare ==
  /\ Runs /\ pc = "pulse" /\ AtHand
  /\ lastTarget' = NextTarget
  /\ IF MayServe
       THEN /\ pc' = "packet" /\ sleep' \in Remaining
            /\ target' = NextTarget /\ stepped' = FALSE
            /\ UNCHANGED quiet
       ELSE LinkPulse /\ UNCHANGED <<target, stepped>>
  /\ UNCHANGED <<link, phase, clock, sent>>

\* mutant: what was judged when the packet was prepared is not judged again
HandoverUnchecked ==
  /\ Runs /\ pc = "packet"
  /\ sent' = target /\ quiet' = 0 /\ pc' = "pulse" /\ sleep' = 0
  /\ UNCHANGED <<link, phase, clock, lastTarget, target, stepped>>

\* mutant: a packet withheld leaves the pair quiet
HandoverNoPulse ==
  /\ Runs /\ pc = "packet"
  /\ IF MayServe
       THEN sent' = target /\ quiet' = 0 /\ sleep' = 0
       ELSE UNCHANGED <<sent, quiet>> /\ sleep' = Nlp
  /\ pc' = "pulse"
  /\ UNCHANGED <<link, phase, clock, lastTarget, target, stepped>>

Handover ==
  /\ Runs /\ pc = "packet"
  /\ IF MayServe
       THEN sent' = target /\ quiet' = 0 /\ pc' = "pulse" /\ sleep' = 0
       ELSE LinkPulse /\ UNCHANGED sent
  /\ UNCHANGED <<link, phase, clock, lastTarget, target, stepped>>

NtpTask == Idle \/ Prepare \/ Handover
-----------------------------------------------------------------------------
ClockInit ==
  /\ phase = 0 /\ off = 0 /\ epoch = FALSE /\ holdover = 0 /\ edges = 0
  /\ fix \in {FALSE, talking} /\ pending = FALSE
  /\ pc = "pulse" /\ sleep = 0 /\ lastTarget = 0 /\ target = 0
  /\ stepped = FALSE /\ sent = Oldest /\ quiet = 0

Init == LinkInit /\ ClockInit

Others == <<phase, clock, task, stepped, sent, quiet>>

\* a restart loses everything but the receiver; what was sent before it is
\* no longer compared
Reboot ==
  /\ Restart
  /\ phase' = 0 /\ off' = 0 /\ epoch' = FALSE /\ holdover' = 0 /\ edges' = 0
  /\ pending' = FALSE /\ UNCHANGED fix
  /\ pc' = "pulse" /\ sleep' = 0 /\ lastTarget' = 0 /\ target' = 0
  /\ stepped' = FALSE /\ sent' = Oldest /\ quiet' = 0

Outage == PowerLoss /\ fix' = FALSE
          /\ UNCHANGED <<phase, off, epoch, holdover, edges, pending, task, stepped, sent, quiet>>

\* the other firmwares go on to read sentences at whatever rate it ended with
ReadsOn == firmware # "pico-ntp" /\ Established /\ UNCHANGED vars

Next ==
  \/ ReadsOn
  \/ (Probing \/ Switch \/ PowerUp) /\ UNCHANGED Others
  \/ Reboot \/ Outage
  \/ Tick \/ Pair \/ FixLost \/ FixFound
  \/ NtpTask

(* Timers run, the executor gets to every task, and the receiver's sentences  *)
(* keep coming; nothing is asked of the disturbances.  A wake-up may be late,  *)
(* and a late one can miss the second, but not at every second there is.       *)
Spec ==
  /\ Init /\ [][Next]_vars
  /\ WF_vars(Probing /\ UNCHANGED Others) /\ WF_vars(Tick) /\ WF_vars(Pair)
  /\ WF_vars(NtpTask) /\ SF_vars(Prepare)
-----------------------------------------------------------------------------
TypeOK ==
  /\ LinkTypeOK
  /\ phase \in 0..(Second - 1) /\ off \in Errors \union {0} /\ epoch \in BOOLEAN
  /\ holdover \in 0..Caps /\ edges \in 0..LockAfter /\ fix \in BOOLEAN /\ pending \in BOOLEAN
  /\ pc \in {"pulse", "packet"} /\ sleep \in -Late..Nlp
  /\ lastTarget \in 0..(MaxFaults + 2) /\ target \in Int /\ stepped \in BOOLEAN
  /\ sent \in Int /\ quiet \in 0..LongQuiet

Sends == pc = "packet" /\ pc' = "pulse" /\ sleep' = 0 /\ UNCHANGED stage

\* No second is ever announced twice and none after a later one, through late
\* wake-ups, sleeps that fall short and corrections of the epoch either way
\* (main.rs:348-351, 371-376).
StampsIncrease == [][Sends => target > sent]_vars

\* A packet leaves at the second it names: never more than Early before it or
\* Late after it.  The exception is an epoch that was corrected while the task
\* slept, which leaves the packet with the second of the old epoch
\* (main.rs:401-448).
LeavesOnTime ==
  [][Sends /\ ~stepped => phase - target * Second \in -Early..Late]_vars

\* Nothing is sent that the policy would refuse at the moment it leaves: with
\* the last pairing longer ago than the limit, the task is silent even if the
\* packet was prepared in time (main.rs:457-468).
SpeaksOnlyVouched == [][Sends => Trusted /\ epoch /\ holdover <= MaxHoldover]_vars

\* Serving or silent, the pair is never quiet for longer than two link pulse
\* intervals and the delays of two wake-ups (main.rs:353-360, 382-415, 463-468).
LinkHeld == quiet <= 2 * (Nlp + Late)

\* With the link raised, pulses and sentences coming and no more disturbances,
\* the server announces seconds again and again, even after an epoch that was
\* ahead has been put back (main.rs:352-502).
Announces ==
  <>[](Trusted /\ Framing /\ fix) => []<><<Sends>>_vars
=============================================================================
