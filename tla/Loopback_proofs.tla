-------------------------- MODULE Loopback_proofs --------------------------
(***************************************************************************)
(* Proofs about Loopback for every depth of the FIFOs, every length of a    *)
(* recalibration and any number of disturbances: the output program is fed  *)
(* while its task is scheduled, no period word is ever dropped, and valid   *)
(* samples come back in the second after next.                             *)
(***************************************************************************)
EXTENDS Loopback, TLAPS

Kinds == {"miss", "recal", "lead", "stall"}

Types ==
  /\ tx \in Seq(Int) /\ fifo2 \in Seq(Int) /\ word \in Int /\ x \in Int
  /\ out \in BOOLEAN /\ starved \in BOOLEAN
  /\ budget \in [Kinds -> Nat] /\ budget.stall <= MaxStalls

Waits == {"wait", "coop", "expired"}
Coops == {"coop", "expired"}

(* SM2 watches the output while the loop runs and the receiver during recal_k. *)
PinFollows ==
  \/ pc \in Waits /\ pin = "out"
  \/ pc \in {"poll", "publish"} /\ pin = "gps"

(* Output edges the task has still to answer, backlogs counted once: each has   *)
(* taken a word out of the FIFO.                                               *)
Pending == (IF fifo2 = <<>> THEN 0 ELSE 1) + (IF pc \in Coops THEN 1 ELSE 0)
Room == Len(tx) <= TxDepth /\ (pin = "out" => Len(tx) + Pending <= TxDepth)

(* A word waits whenever the output has no edge to answer.                      *)
Words ==
  /\ ~starved
  /\ pc \in Coops => out
  /\ pc = "wait" /\ fifo2 # <<>> => out
  /\ ~out => Len(tx) >= 1
  /\ pc = "wait" /\ fifo2 = <<>> => Len(tx) >= 1
  /\ pc = "publish" => Len(tx) >= 1 /\ (~out => Len(tx) >= 2)
Fed == ~Stalled => Words

Inv == Types /\ PinFollows /\ Room /\ Fed
-----------------------------------------------------------------------------
LEMMA PushedFacts ==
  ASSUME NEW s \in Seq(Int), NEW v \in Int, NEW depth \in Nat \ {0}
  PROVE  LET t == Pushed(s, v, depth)
         IN  /\ t \in Seq(Int) /\ t # <<>> /\ Len(t) >= 1
             /\ Len(s) < depth => Len(t) = Len(s) + 1 /\ t[Len(t)] = v /\ t # s
             /\ Len(s) >= depth => t = s
<1>1. CASE Len(s) < depth
  <2>1. Pushed(s, v, depth) = Append(s, v)
    BY <1>1 DEF Pushed
  <2>2. LET t == Append(s, v)
        IN  t \in Seq(Int) /\ t # <<>> /\ Len(t) = Len(s) + 1 /\ t[Len(t)] = v /\ Len(s) \in Nat
    OBVIOUS
  <2>3. Append(s, v) # s
    BY <2>2
  <2> QED BY <1>1, <2>1, <2>2, <2>3
<1>2. CASE Len(s) >= depth
  <2>1. Pushed(s, v, depth) = s
    BY <1>2 DEF Pushed
  <2>2. s # <<>> /\ Len(s) >= 1
    BY <1>2
  <2> QED BY <1>2, <2>1, <2>2
<1>3. Len(s) \in Nat
  OBVIOUS
<1> QED BY <1>1, <1>2, <1>3

LEMMA OlderFacts ==
  ASSUME NEW s \in Seq(Int)
  PROVE  /\ AllOlder(s) \in Seq(Int) /\ Len(AllOlder(s)) = Len(s)
         /\ AllOlder(s) = <<>> <=> s = <<>>
<1>0. MaxAge \in Int /\ \A a \in Int : Older(a) \in Int
  BY LoopbackAssumption DEF MaxAge, Older, NoEdge
<1>1. DOMAIN s = 1 .. Len(s) /\ Len(s) \in Nat /\ \A i \in 1 .. Len(s) : s[i] \in Int
  OBVIOUS
<1>2. AllOlder(s) = [i \in 1 .. Len(s) |-> Older(s[i])]
  BY <1>1 DEF AllOlder
<1>3. \A i \in 1 .. Len(s) : Older(s[i]) \in Int
  BY <1>0, <1>1
<1>4. AllOlder(s) \in Seq(Int) /\ Len(AllOlder(s)) = Len(s)
  BY <1>1, <1>2, <1>3
<1> QED BY <1>4

LEMMA CapturedFacts ==
  ASSUME Types, NEW source
  PROVE  /\ Captured(source) \in Seq(Int)
         /\ pin = source => Captured(source) # <<>>
         /\ pin # source => Captured(source) = fifo2
BY PushedFacts, LoopbackAssumption DEF Captured, Types

LEMMA Spent ==
  ASSUME Types, NEW kind \in Kinds, Spend(kind)
  PROVE  /\ budget' \in [Kinds -> Nat] /\ budget'.stall <= MaxStalls
         /\ ~Stalled' => ~Stalled /\ kind # "stall"
<1>1. budget \in [Kinds -> Nat] /\ budget.stall <= MaxStalls /\ budget[kind] > 0 /\ budget' = [budget EXCEPT ![kind] = @ - 1]
  BY DEF Types, Spend
<1>2. budget' \in [Kinds -> Nat] /\ (kind # "stall" => budget'.stall = budget.stall)
  BY <1>1 DEF Kinds
<1>3. kind = "stall" => Stalled' /\ budget'.stall <= MaxStalls
  <2> SUFFICES ASSUME kind = "stall" PROVE Stalled' /\ budget'.stall <= MaxStalls
    OBVIOUS
  <2>1. budget'.stall = budget.stall - 1 /\ budget.stall \in Nat
    BY <1>1 DEF Kinds
  <2> QED BY <1>1, <2>1, LoopbackAssumption DEF Stalled
<1>4. kind # "stall" => budget'.stall <= MaxStalls /\ (Stalled => Stalled')
  BY <1>1, <1>2 DEF Stalled
<1> QED BY <1>2, <1>3, <1>4

(* One iteration of the loop, with an edge that was waiting to be answered.     *)
LEMMA StepKeeps ==
  ASSUME Inv, NEW edge \in Int, NEW unread \in Seq(Int), Step(edge, unread), pin = "out",
         Len(tx) + 1 + (IF unread = <<>> THEN 0 ELSE 1) <= TxDepth,
         ~Stalled => out, out' = out, starved' = starved
  PROVE  Inv' /\ tx' # <<>> /\ tx'[Len(tx')] = edge
<1> USE LoopbackAssumption
<1>1. Types
  BY DEF Inv
<1>2. tx' = Pushed(tx, edge, TxDepth) /\ word' = edge /\ x' = NoEdge
  BY DEF Step, NextWord
<1>3. Len(tx) \in Nat /\ Len(tx) < TxDepth /\ TxDepth \in Nat \ {0} /\ TxDepth >= 2
  BY <1>1 DEF Types
<1>4. /\ tx' \in Seq(Int) /\ tx' # <<>> /\ Len(tx') = Len(tx) + 1 /\ tx'[Len(tx')] = edge
  BY <1>1, <1>2, <1>3, PushedFacts DEF Types
<1>5. \/ pc' = "wait" /\ fifo2' = unread /\ UNCHANGED <<pin, budget>>
      \/ pc' = "poll" /\ pin' = "gps" /\ fifo2' = <<>> /\ Spend("recal")
  BY DEF Step
<1>6. Types' /\ (~Stalled' => ~Stalled)
  <2>1. /\ budget' \in [Kinds -> Nat] /\ budget'.stall <= MaxStalls
        /\ ~Stalled' => ~Stalled
    <3>1. CASE Spend("recal")
      BY <1>1, <3>1, Spent DEF Kinds
    <3>2. CASE UNCHANGED budget
      BY <1>1, <3>2 DEF Types, Stalled
    <3> QED BY <1>5, <3>1, <3>2
  <2>2. fifo2' \in Seq(Int) /\ NoEdge \in Int
    <3>1. <<>> \in Seq(Int)
      OBVIOUS
    <3>2. -1 \in Int
      OBVIOUS
    <3> QED BY <1>5, <3>1, <3>2 DEF NoEdge
  <2> QED BY <1>1, <1>2, <1>4, <2>1, <2>2 DEF Types
<1>7. PinFollows' /\ Room'
  BY <1>3, <1>4, <1>5 DEF PinFollows, Waits, Coops, Room, Pending
<1>8. Fed'
  BY <1>3, <1>4, <1>5, <1>6 DEF Inv, Fed, Words, Coops
<1> QED BY <1>4, <1>6, <1>7, <1>8 DEF Inv

(* recal_k lets SM2 go with no edge in hand.                                    *)
LEMMA RecalEndKeeps ==
  ASSUME Inv, RecalEnd, tx' \in Seq(Int), Len(tx') <= TxDepth, ~Stalled => Len(tx') >= 1,
         UNCHANGED <<word, x, out, starved, budget>>
  PROVE  Inv'
<1>1. pc' = "wait" /\ pin' = "out" /\ fifo2' = <<>>
  BY DEF RecalEnd
<1>2. Types'
  BY <1>1 DEF Inv, Types
<1>3. PinFollows' /\ Room'
  BY <1>1, <1>2 DEF PinFollows, Waits, Coops, Room, Pending, Types
<1>4. Fed'
  BY <1>1, <1>2 DEF Inv, Fed, Words, Coops, Stalled, Types
<1> QED BY <1>2, <1>3, <1>4 DEF Inv
-----------------------------------------------------------------------------
(* The two actions that run an iteration.                                      *)
Iterates(edge) == Inv' /\ word' = edge /\ tx' # <<>> /\ tx'[Len(tx')] = edge

LEMMA WakeKeeps ==
  ASSUME Inv, Wake
  PROVE  Inv' /\ (word' # word => Iterates(fifo2[Len(fifo2)]))
<1> DEFINE edge == fifo2[Len(fifo2)]
<1>1. pc = "wait" /\ pin = "out" /\ fifo2 # <<>> /\ Types /\ Room /\ Fed
  BY DEF Wake, Inv, PinFollows
<1>2. edge \in Int
  BY <1>1 DEF Types
<1>3. Len(tx) + 1 <= TxDepth /\ (~Stalled => out)
  BY <1>1 DEF Room, Pending, Coops, Fed, Words
<1>4. <<>> \in Seq(Int)
  OBVIOUS
<1>5. CASE news > 0
  <2>1. Step(edge, <<>>)
    BY <1>5 DEF Wake
  <2>2. out' = out /\ starved' = starved /\ word' = edge
    BY <2>1 DEF Step
  <2> HIDE DEF edge
  <2>3. Len(tx) + 1 + (IF <<>> = <<>> THEN 0 ELSE 1) <= TxDepth
    BY <1>1, <1>3 DEF Types
  <2>4. Inv' /\ tx' # <<>> /\ tx'[Len(tx')] = edge
    BY <1>1, <1>2, <1>3, <1>4, <2>1, <2>2, <2>3, StepKeeps
  <2> QED BY <2>2, <2>4 DEF Iterates, edge
<1>6. CASE ~(news > 0)
  <2>1. /\ pc' = "coop" /\ x' = edge /\ fifo2' = <<>>
        /\ UNCHANGED <<pin, out, tx, starved, word, budget>>
    BY <1>6 DEF Wake, output
  <2> HIDE DEF edge
  <2>2. Types'
    BY <1>1, <1>2, <1>4, <2>1 DEF Types
  <2>3. PinFollows' /\ Room'
    BY <1>1, <1>3, <2>1 DEF PinFollows, Waits, Room, Pending, Coops, Types
  <2>4. Fed'
    BY <1>1, <1>3, <2>1 DEF Fed, Words, Coops, Stalled
  <2> QED BY <2>1, <2>2, <2>3, <2>4 DEF Inv
<1> QED BY <1>5, <1>6

LEMMA CoopDoneKeeps ==
  ASSUME Inv, CoopDone
  PROVE  Inv' /\ Iterates(x)
<1>1. Step(x, fifo2) /\ pc \in Coops
  BY DEF CoopDone, Coops
<1>2. pin = "out" /\ Types /\ Room /\ Fed
  BY <1>1 DEF Inv, PinFollows, Coops
<1>3. Len(tx) + 1 + (IF fifo2 = <<>> THEN 0 ELSE 1) <= TxDepth /\ (~Stalled => out)
  BY <1>1, <1>2, LoopbackAssumption DEF Room, Pending, Fed, Words, Types
<1>4. out' = out /\ starved' = starved /\ word' = x /\ x \in Int /\ fifo2 \in Seq(Int)
  BY <1>1, <1>2 DEF Step, Types
<1>5. Inv' /\ tx' # <<>> /\ tx'[Len(tx')] = x
  BY <1>1, <1>2, <1>3, <1>4, StepKeeps
<1> QED BY <1>4, <1>5 DEF Iterates

LEMMA OutEdgeKeeps ==
  ASSUME Inv, OutEdge
  PROVE  Inv'
<1> USE LoopbackAssumption
<1>1. /\ ~out /\ ~starved /\ out' = TRUE /\ fifo2' = Captured("out")
      /\ UNCHANGED <<pin, pc, word, x, budget>> /\ Types /\ PinFollows /\ Room /\ Fed
  BY DEF OutEdge, Inv, task
<1>2. /\ fifo2' \in Seq(Int) /\ (pin = "out" => fifo2' # <<>>)
      /\ pin # "out" => fifo2' = fifo2
  BY <1>1, CapturedFacts
<1>3. CASE tx = <<>>
  <2>1. starved' = TRUE /\ tx' = tx
    BY <1>3 DEF OutEdge
  <2>2. Stalled
    BY <1>1, <1>3 DEF Fed, Words
  <2>3. Types' /\ PinFollows'
    BY <1>1, <1>2, <2>1 DEF Types, PinFollows
  <2>4. Room'
    BY <1>1, <1>3, <2>1 DEF Room, Pending
  <2>5. Fed'
    BY <1>1, <2>2 DEF Fed, Stalled
  <2> QED BY <2>3, <2>4, <2>5 DEF Inv
<1>4. CASE tx # <<>>
  <2>1. tx' = Tail(tx) /\ starved' = starved
    BY <1>4 DEF OutEdge
  <2>2. tx' \in Seq(Int) /\ Len(tx') = Len(tx) - 1 /\ Len(tx) \in Nat
    BY <1>1, <1>4, <2>1 DEF Types
  <2>3. Types' /\ PinFollows'
    BY <1>1, <1>2, <2>1, <2>2 DEF Types, PinFollows
  <2>4. Room'
    BY <1>1, <2>2 DEF Room, Pending
  <2>5. Fed'
    BY <1>1, <1>2, <2>1, <2>2 DEF Fed, Words, Stalled, PinFollows, Waits, Coops
  <2> QED BY <2>3, <2>4, <2>5 DEF Inv
<1> QED BY <1>3, <1>4

LEMMA RecalPollKeeps ==
  ASSUME Inv, RecalPoll
  PROVE  Inv'
<1> USE LoopbackAssumption
<1>1. /\ pc = "poll" /\ tx' = Pushed(tx, word, TxDepth) /\ pin = "gps"
      /\ UNCHANGED <<word, x, out, starved, budget>> /\ Types /\ Room /\ Fed
  BY DEF RecalPoll, RecalPush, Inv, PinFollows, Waits
<1>2. /\ tx' \in Seq(Int) /\ Len(tx') >= 1 /\ Len(tx') <= TxDepth
      /\ ~Stalled /\ ~out => Len(tx') >= 2
  <2>1. Len(tx) \in Nat /\ Len(tx) <= TxDepth /\ (~Stalled /\ ~out => Len(tx) >= 1)
    BY <1>1 DEF Types, Room, Fed, Words
  <2>2. /\ tx' \in Seq(Int) /\ Len(tx') >= 1
        /\ Len(tx) < TxDepth => Len(tx') = Len(tx) + 1
        /\ Len(tx) >= TxDepth => tx' = tx
    BY <1>1, PushedFacts DEF Types
  <2> QED BY <2>1, <2>2
<1>3. CASE fifo2 # <<>> /\ fifo2' = Tail(fifo2) /\ pc' = "publish" /\ UNCHANGED pin
  BY <1>1, <1>2, <1>3
     DEF Inv, Types, PinFollows, Waits, Room, Fed, Words, Coops, Stalled
<1>4. CASE UNCHANGED <<fifo2, pc, pin>>
  BY <1>1, <1>2, <1>4
     DEF Inv, Types, PinFollows, Waits, Room, Fed, Words, Coops, Stalled
<1>5. CASE RecalEnd
  BY <1>1, <1>2, <1>5, RecalEndKeeps
<1> QED BY <1>3, <1>4, <1>5 DEF RecalPoll

LEMMA RecalPublishKeeps ==
  ASSUME Inv, RecalPublish
  PROVE  Inv'
<1>1. /\ pc = "publish" /\ UNCHANGED <<tx, word, x, out, starved, budget>> /\ Types /\ Room /\ Fed
  BY DEF RecalPublish, output, Inv
<1>2. CASE pc' = "poll" /\ UNCHANGED <<fifo2, pin>>
  BY <1>1, <1>2
     DEF Inv, Types, PinFollows, Waits, Room, Fed, Words, Coops, Stalled
<1>3. CASE RecalEnd
  <2>1. tx' \in Seq(Int) /\ Len(tx') <= TxDepth /\ (~Stalled => Len(tx') >= 1)
    BY <1>1 DEF Types, Room, Fed, Words
  <2> QED BY <1>1, <1>3, <2>1, RecalEndKeeps
<1> QED BY <1>2, <1>3 DEF RecalPublish

LEMMA TickKeeps ==
  ASSUME Inv, Tick
  PROVE  Inv' /\ ~(word' = 0 /\ word # 0)
<1> USE LoopbackAssumption
<1>1. /\ out /\ out' = FALSE /\ fifo2' = AllOlder(fifo2) /\ tx' = AllOlder(tx)
      /\ x' = Older(x) /\ word' = Older(word) /\ UNCHANGED <<pin, starved, pc>>
      /\ Types /\ PinFollows /\ Room /\ Fed
  BY DEF Tick, Inv
<1>2. \/ Answered /\ UNCHANGED budget
      \/ pc = "wait" /\ Spend("stall")
  BY DEF Tick
<1>3. /\ tx' \in Seq(Int) /\ Len(tx') = Len(tx) /\ fifo2' \in Seq(Int)
      /\ fifo2' = <<>> <=> fifo2 = <<>>
  BY <1>1, OlderFacts DEF Types
<1>4. x' \in Int /\ word' \in Int /\ ~(word' = 0 /\ word # 0)
  BY <1>1 DEF Older, NoEdge, MaxAge, Types
<1>5. budget' \in [Kinds -> Nat] /\ budget'.stall <= MaxStalls
  BY <1>1, <1>2, Spent DEF Types, Kinds
<1>6. Types' /\ PinFollows' /\ Room'
  BY <1>1, <1>3, <1>4, <1>5 DEF Types, PinFollows, Room, Pending
<1>7. Fed'
  <2>1. SUFFICES ASSUME ~Stalled' PROVE Words'
    BY DEF Fed
  <2>2. Answered /\ ~Stalled
    <3>1. ~Spend("stall")
      BY <1>1, <2>1, Spent DEF Kinds
    <3> QED BY <1>2, <2>1, <3>1 DEF Stalled
  <2>3. Len(tx) \in Nat /\ Words
    BY <1>1, <2>2 DEF Types, Fed
  <2>4. CASE pc = "wait" /\ fifo2 = <<>>
    BY <1>1, <1>3, <2>3, <2>4 DEF Words, Coops
  <2>5. CASE pc = "poll" /\ RecalPush(tx) = tx
    <3>1. Len(tx) >= 1
      BY <1>1, <2>5, PushedFacts DEF RecalPush, Types
    <3> QED BY <1>1, <1>3, <2>3, <2>5, <3>1 DEF Words, Coops
  <2> QED BY <2>2, <2>4, <2>5 DEF Answered
<1> QED BY <1>4, <1>6, <1>7 DEF Inv

LEMMA QuietKeeps ==
  ASSUME Inv,
         \/ GpsEdge \/ GpsMissed \/ PpsTask \/ LongLead \/ UNCHANGED vars
  PROVE  Inv' /\ word' = word
<1>0. Types /\ PinFollows /\ Room /\ Fed
  BY DEF Inv
<1>1. CASE GpsEdge
  <2>1. fifo2' = Captured("gps") /\ UNCHANGED <<tx, word, x, out, starved, budget, pin, pc>>
    BY <1>1 DEF GpsEdge, output, task
  <2>2. fifo2' \in Seq(Int) /\ (pin = "out" => fifo2' = fifo2)
    BY <1>0, <2>1, CapturedFacts
  <2>3. Types' /\ PinFollows' /\ Room'
    BY <1>0, <2>1, <2>2 DEF Types, PinFollows, Room, Pending
  <2>4. Fed'
    BY <1>0, <2>1, <2>2 DEF Fed, Words, Stalled, PinFollows, Coops, Waits
  <2> QED BY <2>1, <2>3, <2>4 DEF Inv
<1>2. CASE GpsMissed \/ PpsTask \/ LongLead \/ UNCHANGED vars
  <2>1. UNCHANGED <<tx, word, x, out, starved, pin, fifo2>>
    BY <1>2 DEF GpsMissed, PpsTask, LongLead, vars, output, task
  <2>2. pc' = pc \/ (pc = "coop" /\ pc' = "expired")
    BY <1>2 DEF GpsMissed, PpsTask, LongLead, vars, output, task
  <2>3. UNCHANGED budget \/ Spend("miss") \/ Spend("lead")
    BY <1>2 DEF GpsMissed, PpsTask, LongLead, vars
  <2>4. budget' \in [Kinds -> Nat] /\ budget'.stall <= MaxStalls /\ (~Stalled' => ~Stalled)
    <3>1. CASE UNCHANGED budget
      BY <1>0, <3>1 DEF Types, Stalled
    <3>2. CASE Spend("miss")
      BY <1>0, <3>2, Spent DEF Kinds
    <3>3. CASE Spend("lead")
      BY <1>0, <3>3, Spent DEF Kinds
    <3> QED BY <2>3, <3>1, <3>2, <3>3
  <2>5. Types' /\ PinFollows' /\ Room'
    BY <1>0, <2>1, <2>2, <2>4 DEF Types, PinFollows, Waits, Coops, Room, Pending
  <2>6. Fed'
    BY <1>0, <2>1, <2>2, <2>4 DEF Fed, Words, Coops
  <2> QED BY <2>1, <2>5, <2>6 DEF Inv
<1> QED BY <1>1, <1>2

LEMMA InitInv == Init => Inv
<1> USE LoopbackAssumption
<1> SUFFICES ASSUME Init PROVE Inv
  OBVIOUS
<1>1. Types
  <2>1. <<0>> \in Seq(Int) /\ <<>> \in Seq(Int) /\ NoEdge \in Int
    BY DEF NoEdge
  <2>2. budget \in [Kinds -> Nat] /\ budget.stall = MaxStalls
    BY DEF Init, Kinds
  <2>3. out \in BOOLEAN /\ starved \in BOOLEAN
    BY DEF Init
  <2> QED BY <2>1, <2>2, <2>3 DEF Init, Types
<1>2. /\ pc = "wait" /\ pin = "out" /\ Len(tx) = 1 /\ fifo2 = <<>> /\ ~out /\ ~starved
  BY DEF Init
<1> QED BY <1>1, <1>2 DEF Inv, PinFollows, Waits, Coops, Room, Pending, Fed, Words

LEMMA NextInv == Inv /\ [Next]_vars => Inv'
BY QuietKeeps, OutEdgeKeeps, WakeKeeps, CoopDoneKeeps, RecalPollKeeps, RecalPublishKeeps, TickKeeps
   DEF Next

(* The output program never pulls from an empty FIFO while gen_capture_task is   *)
(* scheduled every second, through missed pulses, long leads and recalibrations  *)
(* of any length that have SM2 at their disposal (lib.rs:241-243,                *)
(* main.rs:728-731).                                                             *)
THEOREM OutputIsFed == Spec => []FedWhileScheduled
<1>1. Inv => FedWhileScheduled
  BY DEF Inv, Fed, Words, FedWhileScheduled
<1> QED BY <1>1, InitInv, NextInv, PTL DEF Spec

(* The word of every iteration finds room, also after a recalibration has filled *)
(* the FIFO and with a backlog of edges after a stall: set_next_period never     *)
(* drops one that the loop has computed (lib.rs:238-247).                        *)
THEOREM EveryWordIsKept == Spec => NoWordDropped
<1>1. Inv /\ [Next]_vars =>
        [word' = 0 /\ word # 0 => tx' # <<>> /\ tx'[Len(tx')] = 0]_vars
  <2> SUFFICES ASSUME Inv, [Next]_vars, word' = 0, word # 0
               PROVE  tx' # <<>> /\ tx'[Len(tx')] = 0
    OBVIOUS
  <2>1. CASE Wake
    BY <2>1, WakeKeeps DEF Iterates
  <2>2. CASE CoopDone
    BY <2>2, CoopDoneKeeps DEF Iterates
  <2>3. ~Tick
    BY TickKeeps
  <2>4. ~(GpsEdge \/ GpsMissed \/ PpsTask \/ LongLead \/ UNCHANGED vars)
    BY QuietKeeps
  <2>5. ~(OutEdge \/ RecalPoll \/ RecalPublish)
    BY DEF OutEdge, RecalPoll, RecalPublish, task
  <2> QED BY <2>1, <2>2, <2>3, <2>4, <2>5 DEF Next
<1> QED BY <1>1, InitInv, NextInv, PTL DEF Spec, NoWordDropped
-----------------------------------------------------------------------------
(* The pairing of output edges with the receiver's, as long as no edge of the    *)
(* output was left unanswered for a second and none led by more than 500 us.     *)
Undisturbed == ~Stalled /\ ~Led

PairTypes ==
  /\ gps \in {"due", "seen", "missed"} /\ {steady, edge0} \subseteq BOOLEAN
  /\ news \in Nat /\ calm \in Nat /\ budget.lead <= MaxLongLeads
  /\ recal \in [i : Nat, waited : Nat, moved : BOOLEAN]

\* an output edge is in hand; this second's has been dealt with
Answering == fifo2 # <<>> \/ pc \in Coops
Dealt == out /\ ~Answering

\* an edge in hand is this second's, and there is only one
Edges ==
  /\ pc \in Coops => out /\ fifo2 = <<>> /\ x = 0
  /\ pc \in Waits /\ fifo2 # <<>> => out /\ fifo2 = <<0>>
  /\ pc # "expired"
  /\ edge0 => gps = "seen"

(* A publication the loop has not read is this second's, and the output edge it  *)
(* belongs to is still to be dealt with; none comes once that one is.           *)
Published ==
  pc \in Waits =>
    /\ news > 0 => news = 1 /\ c0 = 0 /\ gps = "seen" /\ steady /\ ~edge0 /\ ~Dealt
    /\ Dealt /\ steady => gps # "due" /\ ~edge0
    /\ calm >= 1 /\ gps = "seen" /\ steady /\ ~edge0 /\ ~Dealt => news = 1

\* last_x is the output edge of the second before
Chain ==
  pc \in Waits /\ calm >= 1 =>
    /\ Dealt => lastX = 0
    /\ calm >= 2 /\ ~Dealt => lastX = 1
    /\ calm >= 2 /\ Dealt /\ gps = "seen" /\ steady => sample = "valid"

(* recal_k lets SM2 go when this second's edge has been published, or after a    *)
(* second that had none: either way no publication follows the output edge.     *)
Measuring ==
  /\ pc = "publish" => fifo2 = <<>> /\ gps = "seen" /\ (recal.moved => ~edge0)
  /\ pc = "poll" => /\ edge0 => fifo2 # <<>>
                    /\ fifo2 # <<>> => gps = "seen" /\ Len(fifo2) = 1 /\ (recal.moved => ~edge0)
                    /\ fifo2 = <<>> => ~recal.moved
                    /\ recal.waited >= 1 /\ gps = "seen" => fifo2 # <<>>
                    /\ recal.waited >= 2 => ~steady

Paired == Edges /\ Published /\ Chain /\ Measuring
PairInv == PairTypes /\ (Undisturbed => Paired)
-----------------------------------------------------------------------------
(* A disturbance is never taken back.                                            *)
LEMMA SpentLead ==
  ASSUME Types, PairTypes, NEW kind \in Kinds, Spend(kind)
  PROVE  budget'.lead <= MaxLongLeads /\ (Undisturbed' => Undisturbed /\ kind \notin {"lead", "stall"})
<1>1. budget \in [Kinds -> Nat] /\ budget.lead <= MaxLongLeads /\ budget' = [budget EXCEPT ![kind] = @ - 1]
  BY DEF Types, PairTypes, Spend
<1>2. kind # "lead" => budget'.lead = budget.lead
  BY <1>1 DEF Kinds
<1>3. kind = "lead" => Led' /\ budget'.lead <= MaxLongLeads
  <2> SUFFICES ASSUME kind = "lead" PROVE Led' /\ budget'.lead <= MaxLongLeads
    OBVIOUS
  <2>1. budget'.lead = budget.lead - 1 /\ budget.lead \in Nat
    BY <1>1 DEF Kinds
  <2> QED BY <1>1, <2>1, LoopbackAssumption DEF Led
<1>4. ~Stalled' => ~Stalled /\ kind # "stall"
  BY Spent
<1> QED BY <1>1, <1>2, <1>3, <1>4 DEF Undisturbed, Led

LEMMA UnspentLead ==
  ASSUME PairTypes, UNCHANGED budget
  PROVE  budget'.lead <= MaxLongLeads /\ (Undisturbed' => Undisturbed)
BY DEF PairTypes, Undisturbed, Led, Stalled

LEMMA PairTypesKept ==
  ASSUME Inv, PairTypes, [Next]_vars
  PROVE  PairTypes' /\ (Undisturbed' => Undisturbed)
<1>0. Types
  BY DEF Inv
<1>1. budget'.lead <= MaxLongLeads /\ (Undisturbed' => Undisturbed)
  <2>1. UNCHANGED budget \/ \E kind \in Kinds : Spend(kind)
    BY DEF Next, vars, GpsEdge, GpsMissed, OutEdge, PpsTask, Wake, LongLead, CoopDone, Step,
           RecalPoll, RecalPublish, Tick, Kinds
  <2> QED BY <1>0, <2>1, SpentLead, UnspentLead
<1>2. /\ gps' \in {"due", "seen", "missed"} /\ steady' \in BOOLEAN /\ edge0' \in BOOLEAN
  BY DEF PairTypes, Next, vars, receiver, GpsEdge, GpsMissed, OutEdge, PpsTask, Wake, LongLead,
         CoopDone, Step, RecalPoll, RecalPublish, Tick
<1>3. news' \in Nat /\ calm' \in Nat
  BY LoopbackAssumption DEF PairTypes, Next, vars, GpsEdge, GpsMissed, OutEdge, PpsTask, Wake, LongLead,
         CoopDone, Step, Unread, RecalPoll, RecalPublish, RecalEnd, Tick
<1>4. recal' \in [i : Nat, waited : Nat, moved : BOOLEAN]
  <2> DEFINE Records == [i : Nat, waited : Nat, moved : BOOLEAN]
  <2>1. recal \in Records
    BY DEF PairTypes
  <2>2. NoRecal \in Records
    BY DEF NoRecal
  <2>3. \/ recal' \in {recal, NoRecal}
        \/ recal' = [recal EXCEPT !.moved = TRUE]
        \/ recal' = [NoRecal EXCEPT !.i = recal.i + 1]
        \/ recal' = [recal EXCEPT !.waited = IF pc = "poll" THEN @ + 1 ELSE @]
    BY DEF Next, vars, task, GpsEdge, GpsMissed, OutEdge, PpsTask, Wake, LongLead,
           CoopDone, Step, RecalPoll, RecalPublish, RecalEnd, Tick
  <2>4. [recal EXCEPT !.moved = TRUE] \in Records
    BY <2>1
  <2>5. [NoRecal EXCEPT !.i = recal.i + 1] \in Records
    <3>1. recal.i + 1 \in Nat
      BY <2>1
    <3> QED BY <2>2, <3>1
  <2>6. [recal EXCEPT !.waited = IF pc = "poll" THEN @ + 1 ELSE @] \in Records
    BY <2>1
  <2> QED BY <2>1, <2>2, <2>3, <2>4, <2>5, <2>6
<1> QED BY <1>1, <1>2, <1>3, <1>4 DEF PairTypes
-----------------------------------------------------------------------------
LEMMA GpsPaired ==
  ASSUME Inv, PairTypes, Paired, GpsEdge \/ GpsMissed
  PROVE  Paired'
<1>0. Types /\ PinFollows
  BY DEF Inv
<1>1. CASE GpsEdge
  <2>1. /\ gps = "due" /\ gps' = "seen" /\ edge0' = TRUE /\ fifo2' = Captured("gps")
        /\ UNCHANGED <<steady, c0, news, pin, out, pc, x, lastX, sample, recal, calm>>
    BY <1>1 DEF GpsEdge, output, task
  <2>2. /\ pc \in Waits => fifo2' = fifo2
        /\ pc = "poll" => fifo2' # <<>> /\ Len(fifo2') = 1 /\ fifo2 = <<>>
        /\ pc # "publish"
    <3>1. pc \in Waits => fifo2' = fifo2
      BY <1>0, <2>1, CapturedFacts DEF PinFollows, Waits
    <3>2. pc # "publish" /\ (pc = "poll" => fifo2 = <<>> /\ pin = "gps")
      BY <1>0, <2>1 DEF PinFollows, Waits, Paired, Measuring
    <3>3. ASSUME pc = "poll" PROVE fifo2' = <<0>>
      BY <2>1, <3>2, <3>3, LoopbackAssumption DEF Captured, Pushed
    <3> QED BY <3>1, <3>2, <3>3
  <2>3. Edges' /\ Published'
    BY <2>1, <2>2 DEF PairTypes, Paired, Edges, Published, Waits, Coops, Answering, Dealt
  <2>4. Chain'
    BY <2>1, <2>2 DEF Paired, Edges, Published, Chain, Waits, Coops, Answering, Dealt
  <2>5. Measuring'
    BY <2>1, <2>2 DEF Paired, Measuring
  <2> QED BY <2>3, <2>4, <2>5 DEF Paired
<1>2. CASE GpsMissed
  <2>1. /\ gps = "due" /\ gps' = "missed"
        /\ UNCHANGED <<steady, edge0, c0, news, pin, fifo2, out, pc, x, lastX, sample, recal, calm>>
    BY <1>2 DEF GpsMissed, output, task
  <2>2. Edges' /\ Published' /\ Chain'
    BY <2>1 DEF PairTypes, Paired, Edges, Published, Chain, Waits, Coops, Answering, Dealt
  <2>3. Measuring'
    BY <2>1 DEF Paired, Edges, Measuring
  <2> QED BY <2>2, <2>3 DEF Paired
<1> QED BY <1>1, <1>2

LEMMA OutPaired ==
  ASSUME Inv, PairTypes, Paired, OutEdge
  PROVE  Paired'
<1>1. /\ ~out /\ out' = TRUE /\ fifo2' = Captured("out")
      /\ UNCHANGED <<gps, steady, edge0, c0, news, pin, pc, x, lastX, sample, recal, calm>>
  BY DEF OutEdge, receiver, task
<1>2. CASE pin = "out"
  <2>1. pc = "wait" /\ fifo2 = <<>>
    BY <1>1, <1>2 DEF Inv, PinFollows, Waits, Coops, Paired, Edges
  <2>2. fifo2' = <<0>>
    BY <1>1, <1>2, <2>1, LoopbackAssumption DEF Captured, Pushed
  <2>3. fifo2' # <<>>
    BY <2>2
  <2> QED BY <1>1, <2>1, <2>2, <2>3
          DEF Paired, Edges, Published, Chain, Measuring, Waits, Coops, Answering, Dealt
<1>3. CASE pin # "out"
  <2>1. pc \notin Waits /\ pc \notin Coops
    BY <1>3 DEF Inv, PinFollows, Waits, Coops
  <2>2. fifo2' = fifo2
    BY <1>1, <1>3, CapturedFacts DEF Inv
  <2> QED BY <1>1, <2>1, <2>2 DEF Paired, Edges, Published, Chain, Measuring, Waits, Coops
<1> QED BY <1>2, <1>3

LEMMA PpsTaskPaired ==
  ASSUME Inv, PairTypes, Paired, PpsTask
  PROVE  Paired'
<1>1. /\ edge0 /\ edge0' = FALSE /\ gps = "seen"
      /\ UNCHANGED <<gps, steady, pin, fifo2, out, pc, x, lastX, sample, calm>>
  BY DEF PpsTask, output, Paired, Edges
<1>2. CASE steady
  <2>1. /\ c0' = 0 /\ news' = (IF news < 2 THEN news + 1 ELSE 2)
        /\ recal'.moved = TRUE /\ recal'.waited = recal.waited
    BY <1>2 DEF PpsTask, PairTypes
  <2>2. pc \in Waits => ~(news > 0) /\ news \in Nat /\ ~Dealt
    BY <1>1, <1>2 DEF Paired, Published, PairTypes
  <2>3. Edges' /\ Published' /\ Chain'
    BY <1>1, <1>2, <2>1, <2>2 DEF Paired, Edges, Published, Chain, Waits, Coops, Answering, Dealt
  <2>4. Measuring'
    BY <1>1, <1>2, <2>1 DEF Paired, Measuring
  <2> QED BY <2>3, <2>4 DEF Paired
<1>3. CASE ~steady
  <2>1. UNCHANGED <<c0, news, recal>>
    BY <1>3 DEF PpsTask
  <2> QED BY <1>1, <1>3, <2>1
          DEF Paired, Edges, Published, Chain, Measuring, Waits, Coops, Answering, Dealt
<1> QED BY <1>2, <1>3

(* One iteration of the loop, once this second's edge of the receiver is         *)
(* published or known to be missing.                                             *)
LEMMA StepPaired ==
  ASSUME PairTypes, Paired, Step(0, <<>>), pc \in Waits, ~Dealt, out, gps # "due", ~edge0
  PROVE  Paired'
<1>1. /\ lastX' = 0 /\ news' = 0 /\ fifo2' = <<>> /\ sample' = (IF Valid(0) THEN "valid" ELSE "invalid")
      /\ pc' = "wait" \/ (pc' = "poll" /\ recal' = NoRecal)
      /\ UNCHANGED <<gps, steady, edge0, c0, out, calm>>
  BY DEF Step, Unread, receiver
<1>2. calm >= 2 /\ gps = "seen" /\ steady => sample' = "valid"
  <2>1. SUFFICES ASSUME calm >= 2, gps = "seen", steady PROVE Valid(0)
    BY <1>1
  <2>2. calm >= 1
    BY <2>1 DEF PairTypes
  <2>3. news = 1 /\ c0 = 0 /\ lastX = 1
    BY <2>1, <2>2 DEF Paired, Published, Chain
  <2> QED BY <2>3 DEF Valid, NoEdge
<1>3. Edges' /\ Published' /\ Chain'
  BY <1>1, <1>2 DEF Paired, Edges, Published, Chain, Waits, Coops, Answering, Dealt
<1>4. Measuring'
  BY <1>1 DEF Measuring, NoRecal
<1> QED BY <1>3, <1>4 DEF Paired

LEMMA WakePaired ==
  ASSUME Inv, PairTypes, Paired, Wake
  PROVE  Paired'
<1>1. pc = "wait" /\ pc \in Waits /\ fifo2 = <<0>> /\ out /\ ~Dealt
  BY DEF Wake, Waits, Paired, Edges, Answering, Dealt
<1>2. fifo2[Len(fifo2)] = 0
  BY <1>1
<1>3. CASE news > 0
  <2>1. Step(0, <<>>)
    BY <1>2, <1>3 DEF Wake
  <2>2. gps # "due" /\ ~edge0
    BY <1>1, <1>3 DEF Paired, Published
  <2> QED BY <1>1, <2>1, <2>2, StepPaired
<1>4. CASE ~(news > 0)
  <2>1. /\ pc' = "coop" /\ x' = 0 /\ fifo2' = <<>>
        /\ UNCHANGED <<gps, steady, edge0, c0, news, out, lastX, sample, calm>>
    BY <1>2, <1>4 DEF Wake, receiver, output
  <2> QED BY <1>1, <1>4, <2>1
          DEF Paired, Edges, Published, Chain, Measuring, Waits, Coops, Answering, Dealt
<1> QED BY <1>3, <1>4

LEMMA CoopDonePaired ==
  ASSUME Inv, PairTypes, Paired, CoopDone
  PROVE  Paired'
<1>1. pc = "coop" /\ pc \in Waits /\ pc \in Coops /\ out /\ fifo2 = <<>> /\ x = 0 /\ ~Dealt
  BY DEF CoopDone, Waits, Coops, Paired, Edges, Answering, Dealt
<1>2. Step(0, <<>>)
  BY <1>1 DEF CoopDone
<1>3. gps # "due" /\ ~edge0
  BY <1>1 DEF CoopDone, Paired, Edges, Published
<1> QED BY <1>1, <1>2, <1>3, StepPaired

LEMMA RecalEndPaired ==
  ASSUME RecalEnd, UNCHANGED <<gps, steady, edge0, out>>, edge0 => gps = "seen",
         steady => gps # "due" /\ ~edge0
  PROVE  Paired'
<1>1. pc' = "wait" /\ fifo2' = <<>> /\ news' = 0 /\ calm' = 0
  BY DEF RecalEnd
<1> QED BY <1>1 DEF Paired, Edges, Published, Chain, Measuring, Waits, Coops, Answering, Dealt

LEMMA RecalPaired ==
  ASSUME Inv, PairTypes, Paired, RecalPoll \/ RecalPublish
  PROVE  Paired'
<1>0. UNCHANGED <<gps, steady, edge0, c0, out>> /\ (edge0 => gps = "seen")
  BY DEF RecalPoll, RecalPublish, receiver, output, Paired, Edges
<1>1. CASE RecalPoll
  <2>1. pc = "poll"
    BY <1>1 DEF RecalPoll
  <2>2. CASE fifo2 # <<>> /\ fifo2' = Tail(fifo2) /\ pc' = "publish" /\ UNCHANGED recal
    <3>1. fifo2 \in Seq(Int) /\ Len(fifo2) = 1 /\ gps = "seen" /\ (recal.moved => ~edge0)
      BY <2>1, <2>2 DEF Inv, Types, Paired, Measuring
    <3>2. fifo2' = <<>>
      BY <2>2, <3>1
    <3> QED BY <1>0, <2>2, <3>1, <3>2 DEF Paired, Edges, Published, Chain, Measuring, Waits, Coops
  <2>3. CASE UNCHANGED <<fifo2, pc, recal>>
    BY <1>0, <2>1, <2>3 DEF Paired, Edges, Published, Chain, Measuring, Waits, Coops
  <2>4. CASE fifo2 = <<>> /\ recal.waited >= Patience /\ RecalEnd
    <3>1. ~steady
      BY <2>1, <2>4, LoopbackAssumption DEF Paired, Measuring, PairTypes
    <3> QED BY <1>0, <2>4, <3>1, RecalEndPaired
  <2> QED BY <1>1, <2>2, <2>3, <2>4 DEF RecalPoll
<1>2. CASE RecalPublish
  <2>1. pc = "publish" /\ fifo2 = <<>> /\ gps = "seen" /\ ~edge0
    BY <1>2 DEF RecalPublish, Paired, Measuring
  <2>2. CASE pc' = "poll" /\ recal' = [NoRecal EXCEPT !.i = recal.i + 1] /\ UNCHANGED fifo2
    <3>1. recal'.waited = 0 /\ recal'.moved = FALSE
      BY <2>2 DEF NoRecal
    <3> QED BY <1>0, <2>1, <2>2, <3>1 DEF Paired, Edges, Published, Chain, Measuring, Waits, Coops
  <2>3. CASE RecalEnd
    BY <1>0, <2>1, <2>3, RecalEndPaired
  <2> QED BY <1>2, <2>2, <2>3 DEF RecalPublish
<1> QED BY <1>1, <1>2

LEMMA TickPaired ==
  ASSUME Inv, PairTypes, Paired, Tick, Answered
  PROVE  Paired'
<1>1. /\ out /\ gps # "due" /\ ~edge0 /\ fifo2 = <<>>
      /\ out' = FALSE /\ gps' = "due" /\ steady' = (gps = "seen") /\ edge0' = FALSE
      /\ lastX' = Older(lastX) /\ fifo2' = AllOlder(fifo2)
      /\ recal' = [recal EXCEPT !.waited = IF pc = "poll" THEN @ + 1 ELSE @]
      /\ UNCHANGED <<news, pc, sample>>
  BY DEF Tick, Answered, PairTypes
<1>2. fifo2' = <<>>
  BY <1>1, OlderFacts DEF Inv, Types
<1>3. Older(0) = 1
  BY LoopbackAssumption DEF Older, MaxAge, NoEdge
<1>4. CASE pc = "wait"
  <2>1. pc \in Waits /\ Dealt /\ news = 0
    <3>1. pc \in Waits /\ Dealt
      BY <1>1, <1>4 DEF Waits, Coops, Answering, Dealt
    <3> QED BY <3>1 DEF Paired, Published, PairTypes
  <2>2. calm' >= 2 => lastX = 0
    <3>1. calm' >= 2 => calm >= 1
      BY LoopbackAssumption DEF Tick, PairTypes
    <3> QED BY <2>1, <3>1 DEF Paired, Chain
  <2> QED BY <1>1, <1>2, <1>3, <1>4, <2>1, <2>2
          DEF Paired, Edges, Published, Chain, Measuring, Waits, Coops, Answering, Dealt
<1>5. CASE pc = "poll"
  <2>1. ~recal.moved /\ (recal.waited >= 1 => gps # "seen")
    BY <1>1, <1>5 DEF Paired, Measuring
  <2>2. recal'.waited = recal.waited + 1 /\ recal.waited \in Nat /\ recal'.moved = recal.moved
    BY <1>1, <1>5 DEF PairTypes
  <2>3. recal'.waited >= 2 => ~steady'
    <3>1. recal'.waited >= 2 => gps # "seen"
      BY <2>1, <2>2
    <3> QED BY <1>1, <3>1, Zenon
  <2> QED BY <1>1, <1>2, <1>5, <2>1, <2>2, <2>3
          DEF Paired, Edges, Published, Chain, Measuring, Waits, Coops
<1> QED BY <1>4, <1>5 DEF Answered

LEMMA PairInvInit == Init => PairInv
<1> SUFFICES ASSUME Init PROVE PairInv
  OBVIOUS
<1>1. PairTypes
  <2>1. steady \in BOOLEAN /\ edge0 \in BOOLEAN
    BY DEF Init
  <2>2. recal \in [i : Nat, waited : Nat, moved : BOOLEAN]
    BY DEF Init, NoRecal
  <2>3. gps = "due" /\ news = 0 /\ calm = 0 /\ budget.lead = MaxLongLeads
    BY DEF Init
  <2> QED BY <2>1, <2>2, <2>3, LoopbackAssumption DEF PairTypes
<1>2. Paired
  BY DEF Init, Paired, Edges, Published, Chain, Measuring, Waits, Coops, Answering, Dealt
<1> QED BY <1>1, <1>2 DEF PairInv

LEMMA PairInvNext == Inv /\ PairInv /\ [Next]_vars => PairInv'
<1> SUFFICES ASSUME Inv, PairInv, [Next]_vars PROVE PairInv'
  OBVIOUS
<1>1. PairTypes /\ PairTypes' /\ (Undisturbed' => Undisturbed)
  BY PairTypesKept DEF PairInv
<1>2. ASSUME Undisturbed' PROVE Paired'
  <2>1. Paired /\ Types
    BY <1>1, <1>2 DEF PairInv, Inv
  <2>2. ~LongLead
    BY <1>1, <1>2, <2>1, SpentLead DEF LongLead, Kinds
  <2>3. Tick => Answered
    BY <1>1, <1>2, <2>1, SpentLead DEF Tick, Kinds
  <2>4. CASE UNCHANGED vars
    BY <2>1, <2>4 DEF vars, receiver, output, task,
                      Paired, Edges, Published, Chain, Measuring, Waits, Coops, Answering, Dealt
  <2> QED BY <1>1, <2>1, <2>2, <2>3, <2>4, GpsPaired, OutPaired, PpsTaskPaired, WakePaired,
             CoopDonePaired, RecalPaired, TickPaired DEF Next
<1> QED BY <1>1, <1>2 DEF PairInv

(* After missed pulses and recalibrations of any length, the third second with a *)
(* pulse to publish gives a valid sample, as long as the output never led by     *)
(* more than the cooperative wait (main.rs:935-936).                             *)
THEOREM SamplesResume == Spec => SampleResumesUnled
<1>1. Inv /\ PairInv /\ [Next]_vars =>
        [GoodSecond /\ ~Stalled' /\ ~Led' => sample = "valid"]_vars
  <2> SUFFICES ASSUME Inv, PairInv, [Next]_vars, GoodSecond, ~Stalled', ~Led'
               PROVE  sample = "valid"
    OBVIOUS
  <2>1. PairTypes /\ Paired /\ Types
    BY PairTypesKept DEF PairInv, Undisturbed, Inv
  <2>2. Tick
    BY DEF GoodSecond, Next, vars, receiver, GpsEdge, GpsMissed, OutEdge, PpsTask, Wake, LongLead,
           CoopDone, Step, RecalPoll, RecalPublish
  <2>3. Answered /\ out /\ pc = "wait" /\ gps = "seen" /\ steady /\ calm >= 2
    <3>1. ~Spend("stall")
      BY <2>1, SpentLead DEF Undisturbed, Kinds
    <3> QED BY <2>2, <3>1 DEF Tick, GoodSecond
  <2>4. pc \in Waits /\ Dealt /\ calm >= 1
    BY <2>1, <2>3 DEF Answered, Waits, Coops, Answering, Dealt, PairTypes
  <2> QED BY <2>1, <2>3, <2>4 DEF Paired, Chain
<1>2. Init => Inv /\ PairInv
  BY InitInv, PairInvInit
<1>3. Inv /\ PairInv /\ [Next]_vars => Inv' /\ PairInv'
  BY NextInv, PairInvNext
<1> QED BY <1>1, <1>2, <1>3, PTL DEF Spec, SampleResumesUnled
=============================================================================
