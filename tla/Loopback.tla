------------------------------ MODULE Loopback ------------------------------
(***************************************************************************)
(* The output loop of the pico-gnss firmware: the PIO output program (SM1)  *)
(* and its TX FIFO, the two capture state machines (SM0 on the receiver,    *)
(* SM2 on the looped-back output), pps_task, which publishes the receiver's *)
(* edges in C0_GPS / C0_GEN, and gen_capture_task, which pairs each output  *)
(* edge with one of them, steers the next period, and now and then borrows  *)
(* SM2 to recalibrate (recal_k).                                            *)
(*                                                                          *)
(* Time is whole seconds.  In each the receiver's edge (unless missed) and  *)
(* the output edge happen in either order, a short lead or lag apart; ages  *)
(* count the seconds since an edge, so a pair is adjacent (raw_lag within   *)
(* 10 ms) when its ages are equal.  The two tasks share one executor: an    *)
(* action is what a task does between two awaits.  The value of the period  *)
(* word, the sub-second phase and the calibrated offset K are abstracted;   *)
(* a word is the age of the output edge it was computed at.                 *)
(***************************************************************************)
EXTENDS Integers, Sequences

CONSTANTS
  TxDepth,      \* depth of SM1's TX FIFO
  RxDepth,      \* depth of SM2's RX FIFO
  RecalSamples, \* RECAL_SAMPLES
  Patience,     \* seconds recal_k waits for an edge of the receiver
  MaxMisses,    \* bound: pulses the receiver misses
  MaxRecals,    \* bound: recalibrations
  MaxLongLeads, \* bound: output edges more than the 500 us wait ahead
  MaxStalls     \* bound: seconds in which gen_capture_task is not scheduled

ASSUME LoopbackAssumption ==
  /\ TxDepth \in Nat \ {0, 1} /\ RxDepth \in Nat \ {0}
  /\ RecalSamples \in Nat \ {0} /\ Patience \in Nat \ {0, 1}
  /\ MaxMisses \in Nat /\ MaxRecals \in Nat /\ MaxLongLeads \in Nat /\ MaxStalls \in Nat

VARIABLES
  gps,      \* this second's receiver pulse: "due", "seen" or "missed"
  out,      \* this second's output edge has happened
  steady,   \* the previous second had a pulse: PpsTracker will say Locked
  edge0,    \* SM0 has captured an edge pps_task has not taken
  c0,       \* C0_GPS: age of the last published edge, NoEdge before the first
  news,     \* C0_GEN - last_gen of gen_capture_task, saturated at 2
  pin,      \* the pin SM2 watches: "out" (GP4) or "gps" (GP2)
  fifo2,    \* SM2's RX FIFO: ages of its captures, oldest first
  tx,       \* SM1's TX FIFO: period words, oldest first
  period,   \* the word of the output period in effect
  starved,  \* SM1 has pulled from an empty FIFO
  pc,       \* where gen_capture_task waits: "wait", "coop", "poll", "publish"
  x, lastX, \* the output edge in hand, and the previous one
  word,     \* last_period
  sample,   \* how the last output edge was judged: "none", "valid", "invalid"
  recal,    \* recal_k: sample number, seconds waited, C0_GEN moved since gen_before
  budget,   \* disturbances left, by kind
  calm      \* history: undisturbed seconds in a row, saturated past TxDepth

receiver == <<gps, steady, edge0, c0>>
output == <<out, tx, period, starved>>
task == <<pc, x, lastX, word, sample, recal>>
vars == <<receiver, news, pin, fifo2, output, task, budget, calm>>

NoEdge == -1
MaxAge == TxDepth + RecalSamples * Patience
Older(age) == IF age = NoEdge \/ age = MaxAge THEN age ELSE age + 1
AllOlder(s) == [i \in DOMAIN s |-> Older(s[i])]
Spend(kind) == budget[kind] > 0 /\ budget' = [budget EXCEPT ![kind] = @ - 1]
-----------------------------------------------------------------------------
(* The pins and the state machines.                                          *)

\* a full FIFO drops the word, in both directions
Pushed(fifo, v, depth) == IF Len(fifo) < depth THEN Append(fifo, v) ELSE fifo

Captured(source) == IF pin = source THEN Pushed(fifo2, 0, RxDepth) ELSE fifo2

GpsEdge ==
  /\ gps = "due"
  /\ gps' = "seen" /\ edge0' = TRUE
  /\ fifo2' = Captured("gps")
  /\ UNCHANGED <<steady, c0, news, pin, output, task, budget, calm>>

GpsMissed ==
  /\ gps = "due" /\ Spend("miss")
  /\ gps' = "missed"
  /\ UNCHANGED <<steady, edge0, c0, news, pin, fifo2, output, task, calm>>

(* pps_output_program: pull noblock, rising edge.  An empty FIFO loads the     *)
(* spent counter, a period of half a minute: the output is lost.               *)
OutEdge ==
  /\ ~out /\ ~starved
  /\ out' = TRUE
  /\ IF tx = <<>>
       THEN starved' = TRUE /\ UNCHANGED <<tx, period>>
       ELSE period' = Head(tx) /\ tx' = Tail(tx) /\ UNCHANGED starved
  /\ fifo2' = Captured("out")
  /\ UNCHANGED <<receiver, news, pin, task, budget, calm>>

(* pps_task: only an edge PpsTracker calls Locked is published.                *)
PpsTask ==
  /\ edge0
  /\ edge0' = FALSE
  /\ IF steady
       THEN /\ c0' = 0
            /\ news' = IF news < 2 THEN news + 1 ELSE 2
            /\ recal' = [recal EXCEPT !.moved = TRUE]
       ELSE UNCHANGED <<c0, news, recal>>
  /\ UNCHANGED <<gps, steady, pin, fifo2, output, pc, x, lastX, word, sample, budget, calm>>
-----------------------------------------------------------------------------
(* gen_capture_task.                                                          *)

\* fresh, sane, a published edge, and adjacent to it
Valid(edge) == news = 1 /\ lastX # NoEdge /\ lastX = edge + 1 /\ c0 # NoEdge /\ c0 = edge

NoRecal == [i |-> 0, waited |-> 0, moved |-> FALSE]

\* mutant: the period of the iteration before is pushed
NextWordStale(edge) == word

NextWord(edge) == edge

\* mutant: last_gen is only brought up to date by a valid sample
UnreadIfInvalid(edge) == IF Valid(edge) THEN 0 ELSE news

\* last_gen = cur_gen, whatever the sample is worth
Unread(edge) == 0

(* The rest of one iteration: judge the sample, compute and push the next word *)
(* (a full FIFO drops it) and go back to waiting, or, every so many locked     *)
(* edges, enter recal_k: point SM2 at the receiver and drain it.               *)
Step(edge, unread) ==
  /\ sample' = IF Valid(edge) THEN "valid" ELSE "invalid"
  /\ word' = edge /\ tx' = Pushed(tx, NextWord(edge), TxDepth)
  /\ x' = NoEdge /\ lastX' = edge /\ news' = Unread(edge)
  /\ \/ pc' = "wait" /\ fifo2' = unread /\ UNCHANGED <<pin, recal, budget>>
     \/ /\ Spend("recal")
        /\ pc' = "poll" /\ pin' = "gps" /\ fifo2' = <<>> /\ recal' = NoRecal
  /\ UNCHANGED <<receiver, out, period, starved, calm>>

\* mutant: the output edge is judged without waiting for the receiver's
WakeNoWait == pc = "wait" /\ fifo2 # <<>> /\ Step(fifo2[Len(fifo2)], <<>>)

(* wait_pull and latest_capture: the newest output edge, the backlog dropped.  *)
(* If C0_GEN has moved since the last iteration there is no wait.              *)
Wake ==
  /\ pc = "wait" /\ fifo2 # <<>>
  /\ LET edge == fifo2[Len(fifo2)]
     IN  IF news > 0 THEN Step(edge, <<>>)
         ELSE /\ pc' = "coop" /\ x' = edge /\ fifo2' = <<>>
              /\ UNCHANGED <<receiver, news, pin, output, lastX, word, sample, recal, budget, calm>>

(* The cooperative wait runs out although the receiver's edge is still to come *)
(* in this second: the output leads by more than 500 us.                       *)
LongLead ==
  /\ pc = "coop" /\ news = 0 /\ gps = "due" /\ Spend("lead")
  /\ pc' = "expired" /\ calm' = 0
  /\ UNCHANGED <<receiver, news, pin, fifo2, output, x, lastX, word, sample, recal>>

(* It ends when C0_GEN moves; without a pulse to publish it runs out.          *)
CoopDone ==
  /\ \/ pc = "coop" /\ (news > 0 \/ gps = "missed" \/ (gps = "seen" /\ ~edge0))
     \/ pc = "expired"
  /\ Step(x, fifo2)
-----------------------------------------------------------------------------
(* recal_k, the caller included: last_x is forgotten and last_gen brought up   *)
(* to date.  The offset itself moves by less than the model resolves.          *)
RecalEnd ==
  /\ pc' = "wait" /\ pin' = "out" /\ fifo2' = <<>>
  /\ lastX' = NoEdge /\ news' = 0 /\ recal' = NoRecal /\ calm' = 0

\* mutant: waiting for an edge does not feed the output
RecalPushNothing(fifo) == fifo

\* the last period is pushed again; a full FIFO makes that a no-op
RecalPush(fifo) == Pushed(fifo, word, TxDepth)

(* One turn of the 100 ms loop.  A turn that changes nothing is not a step.    *)
RecalPoll ==
  /\ pc = "poll"
  /\ tx' = RecalPush(tx)
  /\ \/ /\ fifo2 # <<>>
        /\ fifo2' = Tail(fifo2) /\ pc' = "publish"
        /\ UNCHANGED <<pin, lastX, news, recal, calm>>
     \/ /\ fifo2 = <<>> /\ recal.waited < Patience /\ RecalPush(tx) # tx
        /\ UNCHANGED <<fifo2, pc, pin, lastX, news, recal, calm>>
     \/ fifo2 = <<>> /\ recal.waited >= Patience /\ RecalEnd
  /\ UNCHANGED <<receiver, out, period, starved, x, word, sample, budget>>

(* The sample is taken once pps_task has published the edge, or dropped when   *)
(* it does not within 150 ms; either way it is one of RecalSamples.            *)
RecalPublish ==
  /\ pc = "publish" /\ (recal.moved \/ ~edge0)
  /\ IF recal.i + 1 < RecalSamples
       THEN /\ pc' = "poll" /\ recal' = [NoRecal EXCEPT !.i = recal.i + 1]
            /\ UNCHANGED <<fifo2, pin, lastX, news, calm>>
       ELSE RecalEnd
  /\ UNCHANGED <<receiver, output, x, word, sample, budget>>
-----------------------------------------------------------------------------
Answered ==
  \/ pc = "wait" /\ fifo2 = <<>>
  \/ pc = "poll" /\ fifo2 = <<>> /\ RecalPush(tx) = tx

(* The next second.  The tasks answer an edge well within it; only a stalled   *)
(* gen_capture_task leaves its edge in the FIFO.                               *)
Tick ==
  /\ out /\ gps # "due" /\ ~edge0
  /\ \/ Answered /\ UNCHANGED budget
     \/ pc = "wait" /\ fifo2 # <<>> /\ Spend("stall")
  /\ out' = FALSE /\ gps' = "due" /\ steady' = (gps = "seen")
  /\ c0' = Older(c0) /\ x' = Older(x) /\ lastX' = Older(lastX)
  /\ fifo2' = AllOlder(fifo2)
  /\ tx' = AllOlder(tx) /\ period' = Older(period) /\ word' = Older(word)
  /\ recal' = [recal EXCEPT !.waited = IF pc = "poll" THEN @ + 1 ELSE @]
  /\ calm' = IF gps = "seen" /\ steady /\ pc = "wait" /\ fifo2 = <<>>
               THEN IF calm <= TxDepth THEN calm + 1 ELSE calm
               ELSE 0
  /\ UNCHANGED <<edge0, news, pin, starved, pc, sample>>

(* The output program is enabled with its initial word in the FIFO.            *)
Init ==
  /\ gps = "due" /\ out = FALSE /\ steady = FALSE /\ edge0 = FALSE
  /\ c0 = NoEdge /\ news = 0 /\ pin = "out" /\ fifo2 = <<>>
  /\ tx = <<0>> /\ period = 0 /\ starved = FALSE
  /\ pc = "wait" /\ x = NoEdge /\ lastX = NoEdge /\ word = 0 /\ sample = "none"
  /\ recal = NoRecal /\ calm = 0
  /\ budget = [miss |-> MaxMisses, recal |-> MaxRecals, lead |-> MaxLongLeads, stall |-> MaxStalls]

Next ==
  \/ GpsEdge \/ GpsMissed \/ OutEdge \/ PpsTask
  \/ Wake \/ LongLead \/ CoopDone
  \/ RecalPoll \/ RecalPublish
  \/ Tick

(* Oscillators and executor keep running: something always happens next, and   *)
(* no action can repeat without a Tick in between.                             *)
Spec == Init /\ [][Next]_vars /\ WF_vars(Next)
-----------------------------------------------------------------------------
Ages == -1 .. MaxAge

TypeOK ==
  /\ gps \in {"due", "seen", "missed"} /\ pin \in {"out", "gps"}
  /\ {out, steady, edge0, starved} \subseteq BOOLEAN
  /\ {c0, x, lastX, period, word} \subseteq Ages /\ news \in 0 .. 2 /\ calm \in 0 .. TxDepth + 1
  /\ \A i \in DOMAIN fifo2 : fifo2[i] \in Ages
  /\ \A i \in DOMAIN tx : tx[i] \in Ages
  /\ Len(fifo2) <= RxDepth /\ Len(tx) <= TxDepth
  /\ pc \in {"wait", "coop", "expired", "poll", "publish"}
  /\ sample \in {"none", "valid", "invalid"}
  /\ recal.i \in 0 .. RecalSamples - 1 /\ recal.waited \in 0 .. Patience
  /\ \A kind \in DOMAIN budget : budget[kind] \in Nat

\* the disturbances so far
Stalled == budget.stall < MaxStalls
Led == budget.lead < MaxLongLeads

(* "The caller must push a fresh period on every edge" (rp-pps lib.rs:241-243). *)
(* While gen_capture_task is scheduled every second the output never pulls from *)
(* an empty FIFO, also while recal_k holds SM2 (main.rs:728-731).               *)
FedWhileScheduled == Stalled \/ ~starved

(* set_next_period drops a word the FIFO has no room for.  The loop's own word *)
(* always finds room, even after recal_k has filled the FIFO.                  *)
NoWordDropped == [][ word' = 0 /\ word # 0 => tx' # <<>> /\ tx'[Len(tx')] = 0 ]_vars

(* The end of a second with a pulse to publish, after two undisturbed ones.    *)
GoodSecond == gps # "due" /\ gps' = "due" /\ gps = "seen" /\ steady /\ calm >= 2 /\ pc = "wait"

(* A pair that is uncertain costs one sample, "and from the next one on the    *)
(* pairing is right" (main.rs:935-936): the output edge makes a valid sample.  *)
(* That is so after missed pulses and recalibrations, as long as the output    *)
(* never led by more than the 500 us of the cooperative wait.                  *)
SampleResumesUnled == [][ GoodSecond /\ ~Stalled' /\ ~Led' => sample = "valid" ]_vars

(* However pulses are missed and recalibrations abandoned, the loop always     *)
(* gets valid samples again.                                                   *)
LoopRecovers == [](~Stalled /\ ~Led) => []<>(sample = "valid")

(* A long lead or a stall can put the pairing out of step for good, but only   *)
(* until the receiver misses a pulse: the gap brings C0_GEN and the loop back  *)
(* into step, unless the output has run dry before.                            *)
MissRealigns ==
  <>(gps = "missed" /\ budget.lead = 0 /\ budget.stall = 0)
    => <>starved \/ []<>(sample = "valid")
=============================================================================
