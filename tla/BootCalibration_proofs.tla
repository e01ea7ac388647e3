----------------------- MODULE BootCalibration_proofs -----------------------
(***************************************************************************)
(* Proofs about BootCalibration for every number of attempts, samples and   *)
(* races and every interval: only an edge between an attempt's own drains   *)
(* puts K off, the check of the spread notices it if the receiver's         *)
(* intervals vary, and more attempts than such edges are enough.            *)
(***************************************************************************)
EXTENDS BootCalibration, TLAPS

TypeInv ==
  /\ ticks \in Int /\ interval \in Int /\ c0 \in Int /\ attempt \in Nat
  /\ fifo0 \in Seq(Int) /\ fifo2 \in Seq(Int) /\ samples \in Seq(Int)
  /\ races \in 0 .. MaxRaces /\ timeouts \in Nat /\ raced \in BOOLEAN

LEMMA Appended ==
  ASSUME NEW s \in Seq(Int), NEW v \in Int
  PROVE  /\ Append(s, v) \in Seq(Int) /\ Append(s, v) # <<>>
         /\ Len(Append(s, v)) = Len(s) + 1 /\ Append(s, v)[Len(s) + 1] = v
         /\ \A i \in DOMAIN s : Append(s, v)[i] = s[i] /\ i \in DOMAIN Append(s, v)
OBVIOUS

LEMMA OneReading ==
  ASSUME NEW v \in Int
  PROVE  /\ <<v>> \in Seq(Int) /\ <<v>> # <<>> /\ Head(<<v>>) = v /\ Tail(<<v>>) = <<>>
         /\ Append(<<>>, v) = <<v>>
OBVIOUS

LEMMA InitType == BootInit => TypeInv
<1> SUFFICES ASSUME BootInit PROVE TypeInv
  OBVIOUS
<1>1. interval \in Int
  BY CalibrationAssumption DEF BootInit
<1>2. fifo0 \in Seq(Int) /\ fifo2 \in Seq(Int) /\ samples \in Seq(Int)
  <2>1. <<>> \in Seq(Int) /\ <<0>> \in Seq(Int)
    OBVIOUS
  <2>2. (fifo0 = <<>> \/ fifo0 = <<0>>) /\ fifo2 = <<>> /\ samples = <<>>
    BY DEF BootInit
  <2> QED BY <2>1, <2>2
<1>3. raced \in BOOLEAN
  BY Zenon DEF BootInit
<1> QED BY <1>1, <1>2, <1>3, CalibrationAssumption DEF BootInit, TypeInv

(* What the end of an attempt leaves behind.                                   *)
LEMMA Evaluated ==
  ASSUME TypeInv, NEW pairs, Evaluate(pairs)
  PROVE  /\ attempt' \in Nat /\ raced' \in BOOLEAN
         /\ bootPc' = "done" \/ (bootPc' = "drain0" /\ samples' = <<>> /\ attempt' = attempt + 1)
         /\ samples' = samples \/ samples' = <<>>
         /\ bootPc' # "done" => ~raced'
<1>1. CASE pairs = <<>>
  BY <1>1 DEF Evaluate, TypeInv
<1>2. CASE pairs # <<>>
  <2>1. raced' = FALSE
    BY <1>2 DEF Evaluate
  <2>2. raced' \in BOOLEAN
    BY <2>1, Zenon
  <2>3. IF k_clean' \/ attempt = Attempts - 1
          THEN bootPc' = "done" /\ UNCHANGED <<attempt, samples>>
          ELSE bootPc' = NextAttempt /\ attempt' = attempt + 1 /\ samples' = <<>>
    BY <1>2 DEF Evaluate
  <2> QED BY <2>1, <2>2, <2>3 DEF TypeInv, NextAttempt
<1> QED BY <1>1, <1>2

LEMMA EdgeType ==
  ASSUME TypeInv, Edge
  PROVE  /\ TypeInv' /\ interval' \in Int /\ ticks' = ticks + interval' /\ ticks' \in Int
         /\ Apart(interval', interval) >= Varies
         /\ fifo0' = Append(fifo0, ticks')
         /\ \E late \in 0 .. 1 : fifo2' = Append(fifo2, ticks' + late)
         /\ UNCHANGED <<bootPc, attempt, c0, samples, phaseK, k_n, k_clean, timeouts, tainted>>
<1>1. /\ interval' \in Intervals /\ ticks' = ticks + interval' /\ fifo0' = Append(fifo0, ticks')
      /\ Apart(interval', interval) >= Varies
      /\ \E late \in 0 .. 1 : fifo2' = Append(fifo2, ticks' + late)
      /\ UNCHANGED <<bootPc, attempt, c0, samples, phaseK, k_n, k_clean, timeouts, tainted>>
  BY DEF Edge, calibrated
<1>2. interval' \in Int /\ ticks' \in Int
  BY <1>1, CalibrationAssumption DEF TypeInv
<1>3. fifo0' \in Seq(Int) /\ fifo2' \in Seq(Int)
  <2>1. PICK late \in 0 .. 1 : fifo2' = Append(fifo2, ticks' + late)
    BY <1>1
  <2>2. ticks' + late \in Int
    BY <1>2
  <2> QED BY <1>1, <1>2, <2>1, <2>2, Appended DEF TypeInv
<1>4. races' \in 0 .. MaxRaces
  BY CalibrationAssumption DEF Edge, TypeInv
<1>5. raced' \in BOOLEAN
  <2>1. raced' = raced \/ raced' = TRUE
    BY DEF Edge
  <2> QED BY <2>1, Zenon DEF TypeInv
<1> QED BY <1>1, <1>2, <1>3, <1>4, <1>5 DEF TypeInv

LEMMA PullType ==
  ASSUME TypeInv, WaitPull
  PROVE  LET pairs == Append(samples, c0 - Head(fifo2))
         IN  /\ bootPc = "c2" /\ fifo2 # <<>> /\ fifo2' = Tail(fifo2)
             /\ Head(fifo2) \in Int /\ fifo2' \in Seq(Int)
             /\ pairs \in Seq(Int) /\ pairs # <<>>
             /\ UNCHANGED <<ticks, interval, fifo0, c0, races, timeouts>>
             /\ \/ Len(pairs) = Samples /\ Evaluate(pairs)
                \/ /\ Len(pairs) # Samples /\ samples' = pairs /\ bootPc' = "c0"
                   /\ UNCHANGED <<attempt, phaseK, k_n, k_clean, raced, tainted>>
<1>1. bootPc = "c2" /\ fifo2 # <<>> /\ fifo2' = Tail(fifo2) /\ UNCHANGED <<ticks, interval, fifo0, c0, races, timeouts>>
  BY DEF WaitPull
<1>2. Head(fifo2) \in Int /\ fifo2' \in Seq(Int) /\ c0 - Head(fifo2) \in Int
  BY <1>1 DEF TypeInv
<1>3. Append(samples, c0 - Head(fifo2)) \in Seq(Int) /\ Append(samples, c0 - Head(fifo2)) # <<>>
  BY <1>2, Appended DEF TypeInv
<1> QED BY <1>1, <1>2, <1>3 DEF WaitPull, calibrated

LEMMA NextType == TypeInv /\ [BootNext]_bootVars => TypeInv'
<1> SUFFICES ASSUME TypeInv, [BootNext]_bootVars PROVE TypeInv'
  OBVIOUS
<1>1. CASE Edge
  BY <1>1, EdgeType
<1>2. CASE Drain0
  BY <1>2 DEF Drain0, TypeInv
<1>3. CASE Drain2
  BY <1>3 DEF Drain2, TypeInv
<1>4. CASE WaitEdge
  BY <1>4 DEF WaitEdge, TypeInv
<1>5. CASE WaitPull
  <2> DEFINE pairs == Append(samples, c0 - Head(fifo2))
  <2>1. /\ fifo2' \in Seq(Int) /\ pairs \in Seq(Int)
        /\ UNCHANGED <<ticks, interval, fifo0, c0, races, timeouts>>
        /\ Evaluate(pairs) \/ (samples' = pairs /\ UNCHANGED <<attempt, raced>>)
    BY <1>5, PullType
  <2> HIDE DEF pairs
  <2>2. attempt' \in Nat /\ raced' \in BOOLEAN /\ samples' \in Seq(Int)
    <3>1. samples \in Seq(Int) /\ <<>> \in Seq(Int) /\ attempt \in Nat /\ raced \in BOOLEAN
      BY DEF TypeInv
    <3>2. CASE Evaluate(pairs)
      BY <3>1, <3>2, Evaluated, Zenon
    <3>3. CASE samples' = pairs /\ UNCHANGED <<attempt, raced>>
      BY <2>1, <3>1, <3>3, Zenon
    <3> QED BY <2>1, <3>2, <3>3
  <2> QED BY <2>1, <2>2 DEF TypeInv
<1>6. CASE TimeOut
  <2>1. /\ Evaluate(samples) /\ timeouts' = timeouts + 1
        /\ UNCHANGED <<ticks, interval, fifo0, fifo2, c0, races>>
    BY <1>6 DEF TimeOut
  <2>2. attempt' \in Nat /\ raced' \in BOOLEAN /\ (samples' = samples \/ samples' = <<>>)
    BY <2>1, Evaluated
  <2>3. samples' \in Seq(Int)
    <3>1. samples \in Seq(Int) /\ <<>> \in Seq(Int)
      BY DEF TypeInv
    <3> QED BY <2>2, <3>1
  <2> QED BY <2>1, <2>2, <2>3 DEF TypeInv
<1>7. CASE UNCHANGED bootVars
  BY <1>7 DEF bootVars, TypeInv
<1> QED BY <1>1, <1>2, <1>3, <1>4, <1>5, <1>6, <1>7 DEF BootNext
-----------------------------------------------------------------------------
(* The FIFOs during an attempt: without an edge between its drains the halves    *)
(* of a pair are one edge, with one SM0's half is always the edge before.       *)
Reading(time) == {<<time + late>> : late \in 0 .. 1}
Aligned ==
  \/ bootPc = "drain2" /\ fifo0 = <<>>
  \/ bootPc = "c0" /\ fifo0 = <<>> /\ fifo2 = <<>>
  \/ bootPc = "c0" /\ fifo0 = <<ticks>> /\ fifo2 \in Reading(ticks)
  \/ bootPc = "c2" /\ fifo0 = <<>> /\ fifo2 \in Reading(c0)
Behind == /\ c0 = ticks - interval /\ fifo0 = <<ticks>> /\ fifo2 \in Reading(ticks)
OneBehind ==
  \/ bootPc = "drain2" /\ fifo0 = <<ticks>> /\ fifo2 # <<>>
  \/ bootPc = "c0" /\ fifo0 = <<ticks>> /\ fifo2 = <<>>
  \/ bootPc = "c2" /\ c0 = ticks /\ fifo0 = <<>> /\ fifo2 = <<>>
  \/ bootPc = "c2" /\ Behind

AttemptInv ==
  /\ bootPc = "drain0" => ~raced
  /\ bootPc \in {"drain0", "drain2"} => samples = <<>>
  /\ bootPc \notin {"drain0", "done"} => IF raced THEN OneBehind ELSE Aligned
  /\ ~raced => \A i \in DOMAIN samples : samples[i] \in -1 .. 0

LEMMA Readings ==
  ASSUME NEW v \in Int, NEW s \in Reading(v)
  PROVE  /\ s # <<>> /\ Tail(s) = <<>> /\ Head(s) \in Int /\ Head(s) \in v .. (v + 1)
<1>1. PICK late \in 0 .. 1 : s = <<v + late>>
  BY DEF Reading
<1>2. v + late \in Int /\ v + late \in v .. (v + 1)
  OBVIOUS
<1> QED BY <1>1, <1>2, OneReading

LEMMA NewReading ==
  ASSUME NEW v \in Int, NEW late \in 0 .. 1, NEW s, s = Append(<<>>, v + late)
  PROVE  s \in Reading(v)
<1>1. v + late \in Int
  OBVIOUS
<1>2. s = <<v + late>>
  BY <1>1, OneReading
<1> QED BY <1>2 DEF Reading

LEMMA EdgeBefore ==
  ASSUME NEW before \in Int, NEW after \in Int, NEW step \in Int, after = before + step
  PROVE  before = after - step
OBVIOUS

LEMMA InitAttempt == BootInit => AttemptInv
BY DEF BootInit, AttemptInv

LEMMA EdgeAttempt == TypeInv /\ AttemptInv /\ Edge => AttemptInv'
<1> SUFFICES ASSUME TypeInv, AttemptInv, Edge PROVE AttemptInv'
  OBVIOUS
<1>1. /\ interval' \in Int /\ ticks' = ticks + interval' /\ ticks' \in Int
      /\ fifo0' = Append(fifo0, ticks')
      /\ UNCHANGED <<bootPc, attempt, c0, samples>>
  BY EdgeType
<1>2. PICK late \in 0 .. 1 : fifo2' = Append(fifo2, ticks' + late)
  BY EdgeType
<1>3. fifo2 = <<>> => fifo2' \in Reading(ticks')
  BY <1>1, <1>2, NewReading
<1>4. fifo0 = <<>> => fifo0' = <<ticks'>>
  BY <1>1, OneReading
<1>5. ticks = ticks' - interval'
  BY <1>1, EdgeBefore DEF TypeInv
<1>6. CASE bootPc = "c0" /\ fifo0 = <<>> /\ UNCHANGED <<races, raced>>
  <2>1. fifo0 # <<ticks>>
    BY <1>6, OneReading DEF TypeInv
  <2>2. ~raced /\ fifo2 = <<>>
    BY <1>6, <2>1 DEF AttemptInv, Aligned, OneBehind
  <2>3. Aligned'
    BY <1>1, <1>3, <1>4, <1>6, <2>2 DEF Aligned
  <2> QED BY <1>1, <1>6, <2>2, <2>3 DEF AttemptInv
<1>7. CASE bootPc = "c2" /\ fifo2 = <<>> /\ UNCHANGED <<races, raced>>
  <2>1. /\ \A v \in {ticks, c0} : fifo2 \notin Reading(v)
    BY <1>7, Readings DEF TypeInv
  <2>2. raced /\ c0 = ticks /\ fifo0 = <<>>
    BY <1>7, <2>1 DEF AttemptInv, Aligned, OneBehind, Behind
  <2>3. OneBehind'
    BY <1>1, <1>3, <1>4, <1>5, <1>7, <2>2 DEF OneBehind, Behind
  <2> QED BY <1>1, <1>7, <2>2, <2>3 DEF AttemptInv
<1>8. CASE bootPc = "drain0" /\ UNCHANGED <<races, raced>>
  BY <1>1, <1>8 DEF AttemptInv
<1>9. CASE bootPc = "drain2" /\ fifo2 = <<>> /\ raced' = TRUE
  <2>1. fifo0 = <<>> /\ samples = <<>>
    BY <1>9 DEF AttemptInv, Aligned, OneBehind
  <2>2. fifo2' # <<>>
    BY <1>1, <1>3, <1>9, Readings
  <2>3. OneBehind'
    BY <1>1, <1>4, <1>9, <2>1, <2>2 DEF OneBehind
  <2> QED BY <1>1, <1>9, <2>1, <2>3 DEF AttemptInv
<1> QED BY <1>6, <1>7, <1>8, <1>9 DEF Edge

\* the end of an attempt
LEMMA EvaluateAttempt ==
  ASSUME TypeInv, AttemptInv, NEW pairs, Evaluate(pairs)
  PROVE  bootPc' # "done" => AttemptInv'
<1> SUFFICES ASSUME bootPc' # "done" PROVE AttemptInv'
  OBVIOUS
<1>1. ~raced' /\ bootPc' = "drain0" /\ samples' = <<>>
  BY Evaluated
<1> QED BY <1>1 DEF AttemptInv

LEMMA NextAttemptInv == TypeInv /\ AttemptInv /\ bootPc # "done" /\ [BootNext]_bootVars => bootPc' = "done" \/ AttemptInv'
<1> SUFFICES ASSUME TypeInv, AttemptInv, bootPc # "done", [BootNext]_bootVars PROVE bootPc' = "done" \/ AttemptInv'
  OBVIOUS
<1>1. CASE Edge
  BY <1>1, EdgeAttempt
<1>2. CASE Drain0
  BY <1>2 DEF Drain0, AttemptInv, Aligned
<1>3. CASE Drain2
  BY <1>3 DEF Drain2, AttemptInv, Aligned, OneBehind
<1>4. CASE WaitEdge
  <2>1. /\ bootPc = "c0" /\ fifo0 # <<>> /\ c0' = Head(fifo0) /\ fifo0' = Tail(fifo0) /\ bootPc' = "c2"
        /\ UNCHANGED <<ticks, interval, fifo2, samples, raced>>
    BY <1>4 DEF WaitEdge
  <2>2. fifo0 = <<ticks>>
    BY <2>1 DEF AttemptInv, Aligned, OneBehind
  <2>3. c0' = ticks /\ fifo0' = <<>>
    BY <2>1, <2>2, OneReading DEF TypeInv
  <2>4. IF raced THEN OneBehind' ELSE Aligned'
    BY <2>1, <2>2, <2>3 DEF AttemptInv, Aligned, OneBehind
  <2> QED BY <2>1, <2>4 DEF AttemptInv
<1>5. CASE WaitPull
  <2> DEFINE pairs == Append(samples, c0 - Head(fifo2))
  <2>1. /\ bootPc = "c2" /\ fifo2 # <<>> /\ fifo2' = Tail(fifo2) /\ Head(fifo2) \in Int
        /\ UNCHANGED <<ticks, interval, fifo0, c0>>
        /\ Evaluate(pairs) \/ (samples' = pairs /\ bootPc' = "c0" /\ UNCHANGED raced)
    BY <1>5, PullType
  <2>2. CASE Evaluate(pairs)
    BY <2>2, EvaluateAttempt
  <2>3. CASE samples' = pairs /\ bootPc' = "c0" /\ UNCHANGED raced
    <3>1. CASE raced
      <4>1. Behind
        BY <2>1, <3>1 DEF AttemptInv, OneBehind
      <4>2. fifo2' = <<>> /\ fifo0' = <<ticks'>>
        BY <2>1, <4>1, Readings DEF Behind, TypeInv
      <4> QED BY <2>3, <3>1, <4>2 DEF AttemptInv, OneBehind
    <3>2. CASE ~raced
      <4>1. fifo0 = <<>> /\ fifo2 \in Reading(c0)
        BY <2>1, <3>2 DEF AttemptInv, Aligned
      <4>2. fifo2' = <<>> /\ Head(fifo2) \in c0 .. (c0 + 1)
        BY <2>1, <4>1, Readings DEF TypeInv
      <4> DEFINE v == c0 - Head(fifo2)
      <4>3. v \in -1 .. 0 /\ v \in Int
        BY <2>1, <4>2 DEF TypeInv
      <4> HIDE DEF v
      <4>4. \A i \in DOMAIN Append(samples, v) : Append(samples, v)[i] \in -1 .. 0
        <5>1. samples \in Seq(Int) /\ \A i \in DOMAIN samples : samples[i] \in -1 .. 0
          BY <3>2 DEF AttemptInv, TypeInv
        <5> QED BY <4>3, <5>1
      <4>5. \A i \in DOMAIN samples' : samples'[i] \in -1 .. 0
        BY <2>3, <4>4 DEF v
      <4> QED BY <2>1, <2>3, <3>2, <4>1, <4>2, <4>5 DEF AttemptInv, Aligned
    <3> QED BY <3>1, <3>2
  <2> QED BY <2>1, <2>2, <2>3
<1>6. CASE TimeOut
  BY <1>6, EvaluateAttempt DEF TimeOut
<1>7. CASE UNCHANGED bootVars
  BY <1>7 DEF bootVars, AttemptInv, Aligned, OneBehind, Behind
<1> QED BY <1>1, <1>2, <1>3, <1>4, <1>5, <1>6, <1>7 DEF BootNext

(* Once done, nothing moves any more.                                          *)
LEMMA DoneStays ==
  ASSUME bootPc = "done", [BootNext]_bootVars
  PROVE  bootPc' = "done" /\ UNCHANGED <<phaseK, k_n, k_clean, tainted, timeouts>>
BY DEF BootNext, Edge, Drain0, Drain2, WaitEdge, WaitPull, TimeOut, bootVars, calibrated

Calibrating == bootPc = "done" \/ AttemptInv

LEMMA NextCalibrating == TypeInv /\ Calibrating /\ [BootNext]_bootVars => Calibrating'
BY NextAttemptInv, DoneStays DEF Calibrating

\* the steps that do not end an attempt leave K alone
LEMMA KeepsK ==
  ASSUME Edge \/ Drain0 \/ Drain2 \/ WaitEdge \/ UNCHANGED bootVars
  PROVE  UNCHANGED <<phaseK, k_n, k_clean, tainted>>
BY DEF Edge, Drain0, Drain2, WaitEdge, bootVars, calibrated

\* the pair WaitPull takes is of one edge if the attempt was not raced
LEMMA PairsAligned ==
  ASSUME TypeInv, AttemptInv, ~raced, bootPc = "c2", fifo2 # <<>>
  PROVE  LET pairs == Append(samples, c0 - Head(fifo2))
         IN  \A i \in DOMAIN pairs : pairs[i] \in -1 .. 0
<1>1. fifo2 \in Reading(c0)
  BY DEF AttemptInv, Aligned
<1>2. Head(fifo2) \in c0 .. (c0 + 1) /\ Head(fifo2) \in Int
  BY <1>1, Readings DEF TypeInv
<1> DEFINE v == c0 - Head(fifo2)
<1>3. v \in -1 .. 0 /\ v \in Int
  BY <1>2 DEF TypeInv
<1>4. samples \in Seq(Int) /\ \A i \in DOMAIN samples : samples[i] \in -1 .. 0
  BY DEF AttemptInv, TypeInv
<1> HIDE DEF v
<1>5. \A i \in DOMAIN Append(samples, v) : Append(samples, v)[i] \in -1 .. 0
  BY <1>3, <1>4
<1> QED BY <1>5 DEF v

LEMMA EvaluateK ==
  ASSUME NEW pairs \in Seq(Int), pairs # <<>>, Evaluate(pairs),
         ~raced => \A i \in DOMAIN pairs : pairs[i] \in -1 .. 0
  PROVE  /\ tainted' = raced /\ k_n' = Len(pairs)
         /\ k_clean' = (Len(pairs) >= Enough /\ SmallSpread(pairs))
         /\ ~raced => SameEdge'
<1>1. PICK i, j \in DOMAIN pairs : phaseK' \in pairs[i] .. pairs[j]
  BY DEF Evaluate
<1>2. ASSUME ~raced PROVE phaseK' \in -1 .. 0
  <2>1. pairs[i] \in -1 .. 0 /\ pairs[j] \in -1 .. 0
    BY <1>2
  <2> QED BY <1>1, <2>1
<1> QED BY <1>2 DEF Evaluate, SameEdge

(* The offset is that of same-edge pairs unless an edge fell between the drains  *)
(* of the very attempt it was found in, for every receiver and however many      *)
(* waits time out (main.rs:1408-1454).                                          *)
THEOREM OffsetIsOfSameEdge == BootSpec => []OffOnlyByRace
<1>1. BootInit => OffOnlyByRace
  BY DEF BootInit, OffOnlyByRace
<1>2. TypeInv /\ Calibrating /\ OffOnlyByRace /\ [BootNext]_bootVars => OffOnlyByRace'
  <2> SUFFICES ASSUME TypeInv, Calibrating, OffOnlyByRace, [BootNext]_bootVars PROVE OffOnlyByRace'
    OBVIOUS
  <2>1. CASE Edge \/ Drain0 \/ Drain2 \/ WaitEdge \/ UNCHANGED bootVars
    BY <2>1, KeepsK DEF OffOnlyByRace, SameEdge
  <2>2. CASE bootPc = "done"
    BY <2>2, DoneStays DEF OffOnlyByRace, SameEdge
  <2>3. CASE bootPc # "done" /\ WaitPull
    <3> DEFINE pairs == Append(samples, c0 - Head(fifo2))
    <3>1. /\ pairs \in Seq(Int) /\ pairs # <<>> /\ bootPc = "c2" /\ fifo2 # <<>>
          /\ Evaluate(pairs) \/ UNCHANGED <<phaseK, k_n, tainted>>
      BY <2>3, PullType
    <3>2. ~raced => \A i \in DOMAIN pairs : pairs[i] \in -1 .. 0
      BY <2>3, <3>1, PairsAligned DEF Calibrating
    <3> HIDE DEF pairs
    <3>3. CASE Evaluate(pairs)
      BY <3>1, <3>2, <3>3, EvaluateK DEF OffOnlyByRace
    <3>4. CASE UNCHANGED <<phaseK, k_n, tainted>>
      BY <3>4 DEF OffOnlyByRace, SameEdge
    <3> QED BY <3>1, <3>3, <3>4
  <2>4. CASE bootPc # "done" /\ TimeOut
    <3>1. Evaluate(samples) /\ samples \in Seq(Int)
      BY <2>4 DEF TimeOut, TypeInv
    <3>2. ~raced => \A i \in DOMAIN samples : samples[i] \in -1 .. 0
      BY <2>4 DEF Calibrating, AttemptInv
    <3>3. CASE samples = <<>>
      BY <3>1, <3>3 DEF Evaluate, calibrated, OffOnlyByRace, SameEdge
    <3>4. CASE samples # <<>>
      BY <3>1, <3>2, <3>4, EvaluateK DEF OffOnlyByRace
    <3> QED BY <3>3, <3>4
  <2> QED BY <2>1, <2>2, <2>3, <2>4 DEF BootNext
<1>3. BootInit => Calibrating
  BY InitAttempt DEF Calibrating
<1> QED BY <1>1, <1>2, <1>3, InitType, NextType, NextCalibrating, PTL DEF BootSpec
-----------------------------------------------------------------------------
(* The pairs of a raced attempt are intervals that follow each other, so with   *)
(* intervals that vary any two of them in a row show a spread.                  *)
Wide(s) == \E i, j \in DOMAIN s : s[i] - s[j] > 1
Took(s, i) == \E late \in 0 .. 1 : s[Len(s)] = -(i + late)

SpreadInv ==
  raced =>
    /\ Len(samples) >= 2 => Wide(samples)
    /\ Len(samples) >= 1 =>
         IF bootPc = "c2" /\ fifo2 # <<>>
           THEN \E before \in Int : Took(samples, before) /\ Apart(interval, before) >= Varies
           ELSE Took(samples, interval)

LEMMA AppendWide ==
  ASSUME NEW s \in Seq(Int), NEW v \in Int,
         Wide(s) \/ (Len(s) >= 1 /\ (s[Len(s)] - v > 1 \/ v - s[Len(s)] > 1))
  PROVE  Wide(Append(s, v))
<1> DEFINE t == Append(s, v)
<1>1. /\ Len(s) \in Nat /\ Len(s) + 1 \in DOMAIN t /\ t[Len(s) + 1] = v
      /\ \A i \in DOMAIN s : i \in DOMAIN t /\ t[i] = s[i]
  OBVIOUS
<1>2. Len(s) >= 1 => Len(s) \in DOMAIN s
  OBVIOUS
<1>3. SUFFICES Wide(t)
  OBVIOUS
<1> HIDE DEF t
<1>4. CASE Wide(s)
  <2>1. PICK i, j \in DOMAIN s : s[i] - s[j] > 1
    BY <1>4 DEF Wide
  <2>2. i \in DOMAIN t /\ j \in DOMAIN t /\ t[i] - t[j] > 1
    BY <1>1, <2>1
  <2> QED BY <2>2 DEF Wide
<1>5. CASE Len(s) >= 1 /\ (s[Len(s)] - v > 1 \/ v - s[Len(s)] > 1)
  BY <1>1, <1>2, <1>5 DEF Wide
<1> QED BY <1>4, <1>5

LEMMA PairsWide ==
  ASSUME Varies >= 3, TypeInv, AttemptInv, SpreadInv, raced, bootPc = "c2", fifo2 # <<>>
  PROVE  LET pairs == Append(samples, c0 - Head(fifo2))
         IN  /\ Len(pairs) >= 2 => Wide(pairs)
             /\ Took(pairs, interval)
<1> DEFINE v == c0 - Head(fifo2)
           n == Len(samples)
<1>1. Behind
  BY DEF AttemptInv, OneBehind
<1>2. PICK late \in 0 .. 1 : v = -(interval + late) /\ v \in Int
  <2>1. Head(fifo2) \in ticks .. (ticks + 1) /\ Head(fifo2) \in Int /\ c0 = ticks - interval
    BY <1>1, Readings DEF Behind, TypeInv
  <2>2. PICK late \in 0 .. 1 : Head(fifo2) = ticks + late
    <3>1. Head(fifo2) - ticks \in 0 .. 1 /\ Head(fifo2) = ticks + (Head(fifo2) - ticks)
      BY <2>1 DEF TypeInv
    <3> QED BY <3>1
  <2>3. v = -(interval + late) /\ v \in Int
    BY <2>1, <2>2 DEF TypeInv
  <2> QED BY <2>3
<1> HIDE DEF v
<1>3. samples \in Seq(Int) /\ interval \in Int /\ Varies \in Nat
  BY CalibrationAssumption DEF TypeInv
<1>4. Len(Append(samples, v)) = n + 1 /\ Append(samples, v)[n + 1] = v /\ n \in Nat
  BY <1>2, <1>3, Appended
<1>5. n >= 1 => samples[n] - v > 1 \/ v - samples[n] > 1
  <2>1. SUFFICES ASSUME n >= 1 PROVE samples[n] - v > 1 \/ v - samples[n] > 1
    OBVIOUS
  <2>2. PICK before \in Int : Took(samples, before) /\ Apart(interval, before) >= Varies
    BY <2>1 DEF SpreadInv
  <2>3. PICK l \in 0 .. 1 : samples[n] = -(before + l)
    BY <2>2 DEF Took
  <2> DEFINE w == samples[n]
  <2>4. w = -(before + l)
    BY <2>3
  <2> HIDE DEF w, n
  <2>5. w - v > 1 \/ v - w > 1
    BY <1>2, <1>3, <2>2, <2>4 DEF Apart
  <2> QED BY <2>5 DEF w
<1>6. Took(Append(samples, v), interval)
  BY <1>2, <1>4 DEF Took
<1>7. Len(Append(samples, v)) >= 2 => Wide(Append(samples, v))
  BY <1>2, <1>3, <1>4, <1>5, AppendWide
<1> QED BY <1>6, <1>7 DEF v

LEMMA InitSpread == BootInit => SpreadInv
BY Zenon DEF BootInit, SpreadInv

LEMMA EdgeSpread == TypeInv /\ AttemptInv /\ SpreadInv /\ Edge => SpreadInv'
<1> SUFFICES ASSUME TypeInv, AttemptInv, SpreadInv, Edge, raced' PROVE SpreadInv'
  BY DEF SpreadInv
<1>1. Apart(interval', interval) >= Varies /\ UNCHANGED <<bootPc, samples>> /\ interval' \in Int
  BY EdgeType
<1>2. fifo2 = <<>> => fifo2' # <<>>
  <2>1. PICK late \in 0 .. 1 : fifo2' = Append(fifo2, ticks' + late)
    BY EdgeType
  <2>2. fifo2 = <<>> => fifo2' \in Reading(ticks')
    BY <2>1, EdgeType, NewReading
  <2> QED BY <2>2, EdgeType, Readings
<1>3. CASE bootPc = "c0" /\ fifo0 = <<>> /\ UNCHANGED <<races, raced>>
  <2>1. fifo0 # <<ticks>>
    BY <1>3, OneReading DEF TypeInv
  <2> QED BY <1>3, <2>1 DEF AttemptInv, OneBehind
<1>4. CASE bootPc = "c2" /\ fifo2 = <<>> /\ UNCHANGED <<races, raced>>
  <2>1. Len(samples) >= 1 => Took(samples, interval)
    BY <1>4 DEF SpreadInv
  <2>2. Len(samples) >= 2 => Wide(samples)
    BY <1>4 DEF SpreadInv
  <2>3. interval \in Int /\ Took(samples', interval) = Took(samples, interval)
    BY <1>1 DEF TypeInv, Took
  <2>4. Len(samples') >= 1 =>
           \E before \in Int : Took(samples', before) /\ Apart(interval', before) >= Varies
    BY <1>1, <2>1, <2>3
  <2> QED BY <1>1, <1>2, <1>4, <2>2, <2>4 DEF SpreadInv, Wide
<1>5. CASE bootPc = "drain0" /\ UNCHANGED <<races, raced>>
  BY <1>5 DEF AttemptInv
<1>6. CASE bootPc = "drain2" /\ fifo2 = <<>> /\ raced' = TRUE
  <2>1. samples' = <<>>
    BY <1>1, <1>6 DEF AttemptInv
  <2> QED BY <2>1 DEF SpreadInv
<1> QED BY <1>3, <1>4, <1>5, <1>6 DEF Edge

LEMMA NextSpread ==
  ASSUME Varies >= 3, TypeInv, AttemptInv, SpreadInv, bootPc # "done", [BootNext]_bootVars
  PROVE  bootPc' = "done" \/ SpreadInv'
<1>1. CASE Edge
  BY <1>1, EdgeSpread
<1>2. CASE Drain0
  BY <1>2 DEF Drain0, AttemptInv, SpreadInv
<1>3. CASE Drain2
  <2>1. samples' = <<>>
    BY <1>3 DEF Drain2, AttemptInv
  <2> QED BY <2>1 DEF SpreadInv
<1>4. CASE WaitEdge
  <2>1. bootPc = "c0" /\ bootPc' = "c2" /\ UNCHANGED <<interval, fifo2, samples, raced>>
    BY <1>4 DEF WaitEdge
  <2>2. raced => fifo2 = <<>>
    BY <2>1 DEF AttemptInv, OneBehind
  <2> QED BY <2>1, <2>2 DEF SpreadInv, Wide, Took
<1>5. CASE WaitPull
  <2> DEFINE pairs == Append(samples, c0 - Head(fifo2))
  <2>1. /\ bootPc = "c2" /\ fifo2 # <<>> /\ UNCHANGED interval
        /\ Evaluate(pairs) \/ (samples' = pairs /\ bootPc' = "c0" /\ UNCHANGED raced)
    BY <1>5, PullType
  <2>2. CASE Evaluate(pairs)
    BY <2>2, Evaluated DEF SpreadInv
  <2>3. CASE samples' = pairs /\ bootPc' = "c0" /\ UNCHANGED raced
    <3>1. raced => (Len(pairs) >= 2 => Wide(pairs)) /\ Took(pairs, interval)
      BY <2>1, PairsWide
    <3> HIDE DEF pairs
    <3> QED BY <2>1, <2>3, <3>1 DEF SpreadInv, Wide, Took
  <2> QED BY <2>1, <2>2, <2>3
<1>6. CASE TimeOut
  BY <1>6, Evaluated DEF TimeOut, SpreadInv
<1>7. CASE UNCHANGED bootVars
  BY <1>7 DEF bootVars, SpreadInv, Wide, Took
<1> QED BY <1>1, <1>2, <1>3, <1>4, <1>5, <1>6, <1>7 DEF BootNext

Varying == bootPc = "done" \/ (AttemptInv /\ SpreadInv)

LEMMA NextVarying ==
  ASSUME Varies >= 3
  PROVE  TypeInv /\ Varying /\ [BootNext]_bootVars => Varying'
BY NextAttemptInv, NextSpread, DoneStays DEF Varying

LEMMA InitVarying == BootInit => Varying
BY InitAttempt, InitSpread DEF Varying

\* the end of an attempt of whichever pairs: a raced one is seen to be
LEMMA EvaluateVarying ==
  ASSUME NEW pairs \in Seq(Int), pairs # <<>>, Evaluate(pairs),
         IF raced THEN Len(pairs) >= 2 => Wide(pairs)
         ELSE \A i \in DOMAIN pairs : pairs[i] \in -1 .. 0
  PROVE  /\ k_clean' => SameEdge' /\ ~raced
         /\ Len(pairs) = Samples /\ ~raced => k_clean'
<1>1. k_clean' = (Len(pairs) >= Enough /\ SmallSpread(pairs))
  BY DEF Evaluate
<1>2. Enough >= 2 /\ Enough <= Samples /\ Len(pairs) \in Nat /\ Enough \in Nat /\ Samples \in Nat
  BY CalibrationAssumption
<1>3. CASE raced
  <2>1. Wide(pairs) => ~SmallSpread(pairs)
    BY DEF Wide, SmallSpread
  <2>2. ~(Len(pairs) >= Enough /\ SmallSpread(pairs))
    BY <1>2, <1>3, <2>1
  <2>3. ~k_clean'
    BY Zenon, <1>1, <2>2
  <2> QED BY <1>3, <2>3
<1>4. CASE ~raced
  <2>1. SmallSpread(pairs)
    BY <1>4 DEF SmallSpread
  <2>2. SameEdge'
    BY <1>4, EvaluateK
  <2> QED BY <1>1, <1>2, <1>4, <2>1, <2>2
<1> QED BY <1>3, <1>4

\* the pairs an attempt may end with
LEMMA PulledVarying ==
  ASSUME Varies >= 3, TypeInv, AttemptInv, SpreadInv, WaitPull
  PROVE  LET pairs == Append(samples, c0 - Head(fifo2))
         IN  IF raced THEN Len(pairs) >= 2 => Wide(pairs)
             ELSE \A i \in DOMAIN pairs : pairs[i] \in -1 .. 0
<1>1. bootPc = "c2" /\ fifo2 # <<>>
  BY PullType
<1>2. CASE raced
  BY <1>1, <1>2, PairsWide
<1>3. CASE ~raced
  BY <1>1, <1>3, PairsAligned
<1> QED BY <1>2, <1>3

(* With a receiver whose intervals vary by more than the spread the check        *)
(* allows, a calibration declared clean is one on same-edge pairs: every pair    *)
(* of a raced attempt is an interval, and two in a row show the spread. Without   *)
(* such a receiver it is not, as a run shows (main.rs:1400-1403, 1449).          *)
THEOREM CleanIsSameEdge == ASSUME Varies >= 3 PROVE BootSpec => []CleanMeansSameEdge
<1>1. BootInit => CleanMeansSameEdge
  BY Zenon DEF BootInit, CleanMeansSameEdge
<1>2. TypeInv /\ Varying /\ CleanMeansSameEdge /\ [BootNext]_bootVars => CleanMeansSameEdge'
  <2> SUFFICES ASSUME TypeInv, Varying, CleanMeansSameEdge, [BootNext]_bootVars PROVE CleanMeansSameEdge'
    OBVIOUS
  <2>1. CASE Edge \/ Drain0 \/ Drain2 \/ WaitEdge \/ UNCHANGED bootVars
    BY <2>1, KeepsK DEF CleanMeansSameEdge, SameEdge
  <2>2. CASE bootPc = "done"
    BY <2>2, DoneStays DEF CleanMeansSameEdge, SameEdge
  <2>3. CASE bootPc # "done" /\ WaitPull
    <3> DEFINE pairs == Append(samples, c0 - Head(fifo2))
    <3>1. /\ pairs \in Seq(Int) /\ pairs # <<>>
          /\ Evaluate(pairs) \/ UNCHANGED <<phaseK, k_clean>>
      BY <2>3, PullType
    <3>2. IF raced THEN Len(pairs) >= 2 => Wide(pairs)
          ELSE \A i \in DOMAIN pairs : pairs[i] \in -1 .. 0
      BY <2>3, PulledVarying DEF Varying
    <3> HIDE DEF pairs
    <3>3. CASE Evaluate(pairs)
      BY <3>1, <3>2, <3>3, EvaluateVarying DEF CleanMeansSameEdge
    <3>4. CASE UNCHANGED <<phaseK, k_clean>>
      BY <3>4 DEF CleanMeansSameEdge, SameEdge
    <3> QED BY <3>1, <3>3, <3>4
  <2>4. CASE bootPc # "done" /\ TimeOut
    <3>1. Evaluate(samples) /\ samples \in Seq(Int)
      BY <2>4 DEF TimeOut, TypeInv
    <3>2. IF raced THEN Len(samples) >= 2 => Wide(samples)
          ELSE \A i \in DOMAIN samples : samples[i] \in -1 .. 0
      BY <2>4 DEF Varying, AttemptInv, SpreadInv
    <3>3. CASE samples = <<>>
      BY <3>1, <3>3 DEF Evaluate, calibrated, CleanMeansSameEdge, SameEdge
    <3>4. CASE samples # <<>>
      BY <3>1, <3>2, <3>4, EvaluateVarying DEF CleanMeansSameEdge
    <3> QED BY <3>3, <3>4
  <2> QED BY <2>1, <2>2, <2>3, <2>4 DEF BootNext
<1> QED BY <1>1, <1>2, InitVarying, InitType, NextType, NextVarying, PTL DEF BootSpec
-----------------------------------------------------------------------------
(* Without a time-out every attempt but the last costs a race.                  *)
Retrying ==
  timeouts = 0 =>
    \/ bootPc = "done" /\ k_clean /\ SameEdge
    \/ bootPc # "done" /\ (IF raced THEN attempt + 1 ELSE attempt) <= races

LEMMA NextRetrying ==
  ASSUME Varies >= 3, MaxRaces < Attempts
  PROVE  TypeInv /\ Varying /\ Retrying /\ [BootNext]_bootVars => Retrying'
<1> USE CalibrationAssumption
<1> SUFFICES ASSUME TypeInv, Varying, Retrying, [BootNext]_bootVars, timeouts' = 0 PROVE Retrying'
  BY DEF Retrying
<1>0. timeouts = 0 /\ ~TimeOut
  BY DEF BootNext, Edge, Drain0, Drain2, WaitEdge, WaitPull, TimeOut, bootVars, TypeInv
<1>1. CASE bootPc = "done"
  BY <1>0, <1>1, DoneStays DEF Retrying, SameEdge
<1>2. CASE bootPc # "done"
  <2>1. /\ (IF raced THEN attempt + 1 ELSE attempt) <= races /\ AttemptInv /\ SpreadInv
        /\ attempt \in Nat /\ races \in 0 .. MaxRaces
    BY <1>0, <1>2 DEF Retrying, Varying, TypeInv
  <2>2. CASE Edge
    <3>1. CASE UNCHANGED <<races, raced>>
      BY <1>2, <2>1, <2>2, <3>1, EdgeType DEF Retrying
    <3>2. CASE bootPc = "drain2" /\ fifo2 = <<>> /\ races' = races + 1 /\ raced' = TRUE
      <4>1. UNCHANGED <<bootPc, attempt>>
        BY <2>2, EdgeType
      <4>2. attempt <= races
        BY <2>1
      <4> QED BY <1>2, <2>1, <3>2, <4>1, <4>2 DEF Retrying
    <3> QED BY <2>2, <3>1, <3>2 DEF Edge
  <2>3. CASE Drain0
    BY <2>1, <2>3 DEF Drain0, Retrying
  <2>4. CASE Drain2
    BY <2>1, <2>4 DEF Drain2, Retrying
  <2>5. CASE WaitEdge
    BY <2>1, <2>5 DEF WaitEdge, Retrying
  <2>6. CASE WaitPull
    <3> DEFINE pairs == Append(samples, c0 - Head(fifo2))
    <3>1. /\ pairs \in Seq(Int) /\ pairs # <<>> /\ UNCHANGED races
          /\ \/ Len(pairs) = Samples /\ Evaluate(pairs)
             \/ bootPc' = "c0" /\ UNCHANGED <<attempt, raced>>
      BY <2>6, PullType
    <3>2. IF raced THEN Len(pairs) >= 2 => Wide(pairs)
          ELSE \A i \in DOMAIN pairs : pairs[i] \in -1 .. 0
      BY <2>1, <2>6, PulledVarying
    <3> HIDE DEF pairs
    <3>3. CASE Len(pairs) = Samples /\ Evaluate(pairs)
      <4>1. IF k_clean' \/ attempt = Attempts - 1
              THEN bootPc' = "done" /\ UNCHANGED <<attempt, samples>>
              ELSE bootPc' = NextAttempt /\ attempt' = attempt + 1 /\ samples' = <<>>
        BY <3>1, <3>3 DEF Evaluate
      <4>2. k_clean' => SameEdge' /\ ~raced
        BY <3>1, <3>2, <3>3, EvaluateVarying
      <4>3. ~raced => k_clean'
        BY <3>1, <3>2, <3>3, EvaluateVarying
      <4>4. CASE k_clean'
        BY <4>1, <4>2, <4>4 DEF Retrying
      <4>5. CASE ~k_clean'
        <5>1. raced /\ attempt + 1 <= races
          BY <2>1, <4>3, <4>5
        <5>2. attempt # Attempts - 1
          BY <2>1, <5>1
        <5>3. bootPc' = "drain0" /\ attempt' = attempt + 1
          BY <4>1, <4>5, <5>2 DEF NextAttempt
        <5>4. raced' = FALSE
          BY <3>1, <3>3 DEF Evaluate
        <5> QED BY <3>1, <5>1, <5>3, <5>4 DEF Retrying
      <4> QED BY <4>4, <4>5
    <3>4. CASE bootPc' = "c0" /\ UNCHANGED <<attempt, raced>>
      BY <2>1, <3>1, <3>4 DEF Retrying
    <3> QED BY <3>1, <3>3, <3>4
  <2>7. CASE UNCHANGED bootVars
    BY <1>2, <2>1, <2>7 DEF bootVars, Retrying
  <2> QED BY <1>0, <2>2, <2>3, <2>4, <2>5, <2>6, <2>7 DEF BootNext
<1> QED BY <1>1, <1>2

(* With more attempts than edges that fall between the drains, a calibration    *)
(* that never waits in vain ends clean and on same-edge pairs, however many     *)
(* samples an attempt takes and wherever the edges fall, for a receiver whose    *)
(* intervals vary (main.rs:1385-1463).                                         *)
THEOREM RetriesRecover ==
  ASSUME Varies >= 3, MaxRaces < Attempts PROVE BootSpec => []RetryRecovers
<1>1. BootInit => Retrying
  BY CalibrationAssumption DEF BootInit, Retrying
<1>2. Retrying => RetryRecovers
  BY DEF Retrying, RetryRecovers
<1> QED BY <1>1, <1>2, InitVarying, InitType, NextType, NextVarying, NextRetrying, PTL DEF BootSpec
=============================================================================
