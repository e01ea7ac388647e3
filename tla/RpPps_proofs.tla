---------------------------- MODULE RpPps_proofs ----------------------------
(***************************************************************************)
(* Proofs about the receiver's sentences and the output's edges in rp-pps.  *)
(* PpsPairing: while no sentence is late and no pulse is missed             *)
(* on an unpaired edge, there is at most one sentence on the line, it       *)
(* belongs to the second in progress, and so does the pending edge: what    *)
(* on_time pairs is then a matter of Stamp and Association only.  NmeaLine: *)
(* the assembler collects from the one byte where a sentence may begin.     *)
(* CivilTime: counted from March, the days before a year and those before a *)
(* month add up.  PioEdges: the output program is a known number of cycles  *)
(* from its last edge, its next word comes before it looks for one, and the *)
(* accumulator holds exactly what the words so far fall short by.  And the  *)
(* two capture counters stay as far apart in their laps as they started.    *)
(***************************************************************************)
EXTENDS PpsPairing, DataPath, SequenceTheorems, TLAPS

Kinds == {"none", "pulse", "glitch"}

Fresh ==
  /\ pending \in [age : {0}, kind : Kinds]
  /\ uart \in {<<>>, <<0>>}

IInv == punctual => Fresh /\ EpochRight

\* the configured association is the receiver's
Associated == Stamp = -Association

LEMMA InitOK == Init => IInv
BY DEF Init, IInv, Fresh, Kinds, EpochRight, NoEdge, NoEpoch

LEMMA StepOK == ASSUME Associated, IInv, [Next]_vars PROVE IInv'
<1> USE PairingAssumption DEF Associated, Fresh, Kinds, EpochRight, NoEdge
<1> SUFFICES ASSUME punctual' PROVE Fresh' /\ EpochRight'
  BY DEF IInv
<1>1. CASE NextSecond
  <2>1. PICK missed, lost \in BOOLEAN :
          /\ punctual' = (punctual /\ uart = <<>> /\ (missed => pending = NoEdge))
          /\ IF missed THEN pending' = Aged(pending) /\ UNCHANGED used ELSE OnPpsEdge("pulse")
          /\ LET inFlight == [i \in DOMAIN uart |-> Older(uart[i])]
             IN  uart' = IF lost THEN inFlight ELSE Append(inFlight, 0)
          /\ UNCHANGED epoch
    BY <1>1 DEF NextSecond
  <2>2. punctual /\ uart = <<>> /\ (missed => pending = NoEdge)
    BY <2>1
  <2>3. Fresh /\ EpochRight
    BY <2>2 DEF IInv
  <2>4. uart' \in {<<>>, <<0>>}
    <3>1. [i \in DOMAIN uart |-> Older(uart[i])] = <<>>
      BY <2>2
    <3> QED BY <2>1, <3>1
  <2>5. pending' \in [age : {0}, kind : Kinds]
    BY <2>1, <2>2 DEF Aged, OnPpsEdge
  <2> QED BY <2>1, <2>3, <2>4, <2>5
<1>2. CASE Glitch
  <2>1. Fresh /\ EpochRight
    BY <1>2 DEF Glitch, IInv
  <2> QED BY <1>2, <2>1 DEF Glitch, OnPpsEdge
<1>3. CASE FeedNmea
  <2>1. Fresh /\ EpochRight
    BY <1>3 DEF FeedNmea, IInv
  <2>2. uart = <<0>>
    BY <1>3, <2>1 DEF FeedNmea
  <2>3. OnTime(0 - Stamp) /\ uart' = <<>>
    BY <1>3, <2>2 DEF FeedNmea
  <2>4. pending.age - (0 - Stamp) + Association = 0
    BY <2>1
  <2> QED BY <2>1, <2>2, <2>3, <2>4 DEF OnTime
<1>4. CASE UNCHANGED vars
  BY <1>4 DEF vars, IInv
<1> QED BY <1>1, <1>2, <1>3, <1>4 DEF Next

(* With the receiver's association, an epoch is never labelled with the wrong  *)
(* second while sentences are in time, whatever is lost and however often.     *)
THEOREM PunctualPairing == ASSUME Associated PROVE Spec => []PunctualEpochRight
<1>1. IInv /\ [Next]_vars => IInv'
  BY StepOK
<1>2. IInv => PunctualEpochRight
  BY DEF IInv, PunctualEpochRight
<1> QED BY InitOK, <1>1, <1>2, PTL DEF Spec
-----------------------------------------------------------------------------
\* a paired edge is no longer pending
Consumed == used => pending = NoEdge

LEMMA ConsumedStep == ASSUME Consumed, [Next]_vars PROVE Consumed'
<1> USE DEF Consumed
<1>1. CASE NextSecond
  BY <1>1 DEF NextSecond, OnPpsEdge, Aged
<1>2. CASE Glitch
  BY <1>2 DEF Glitch, OnPpsEdge
<1>3. CASE FeedNmea
  BY <1>3 DEF FeedNmea, OnTime
<1>4. CASE UNCHANGED vars
  BY <1>4 DEF vars
<1> QED BY <1>1, <1>2, <1>3, <1>4 DEF Next

LEMMA PairStep ==
  ASSUME Consumed, [Next]_vars PROVE [epoch' # epoch => pending # NoEdge /\ ~used]_vars
<1>1. CASE NextSecond
  BY <1>1 DEF NextSecond
<1>2. CASE Glitch
  BY <1>2 DEF Glitch
<1>3. CASE FeedNmea
  BY <1>3 DEF FeedNmea, OnTime, Consumed
<1>4. CASE UNCHANGED vars
  BY <1>4 DEF vars
<1> QED BY <1>1, <1>2, <1>3, <1>4 DEF Next

(* No edge ever labels two epochs: on_time consumes what it pairs.             *)
THEOREM PairedOnce == Spec => EdgePairedOnce
<1>1. Init => Consumed
  BY DEF Init, Consumed
<1>2. Consumed /\ [Next]_vars => Consumed'
  BY ConsumedStep
<1>3. Consumed /\ [Next]_vars => [epoch' # epoch => pending # NoEdge /\ ~used]_vars
  BY PairStep
<1> QED BY <1>1, <1>2, <1>3, PTL DEF Spec, EdgePairedOnce
-----------------------------------------------------------------------------
(* A sentence may begin at i: a start, and neither start nor terminator after it. *)
OpenAt(w, i) == i \in 1 .. Len(w) /\ w[i] = Start /\ \A j \in (i + 1) .. Len(w) : w[j] \in Others

(* The assembler collects from the one such place, and when it collects nothing  *)
(* what began there is too long already.                                        *)
Collecting(w, b, in) ==
  /\ in => \E i \in 1 .. Len(w) : OpenAt(w, i) /\ b = SubSeq(w, i, Len(w)) /\ Len(w) - i < MaxSentence
  /\ ~in => \A i \in 1 .. Len(w) : OpenAt(w, i) => Len(w) - i >= MaxSentence

LineInv ==
  /\ wire \in Seq(Line!Bytes) /\ inSentence \in BOOLEAN
  /\ Collecting(wire, buf, inSentence)
  /\ SentencesWhole

LEMMA ByteKinds ==
  ASSUME NEW b \in Line!Bytes
  PROVE  /\ b = Start => b \notin Terminators /\ b \notin Others
         /\ b \in Terminators => b \notin Others
BY LineAssumption DEF Line!Bytes

LEMMA BytePushed ==
  ASSUME NEW w \in Seq(Line!Bytes), NEW b \in Line!Bytes
  PROVE  LET v == Append(w, b)
         IN  /\ v \in Seq(Line!Bytes) /\ v # <<>> /\ Len(v) = Len(w) + 1 /\ v[Len(v)] = b
             /\ \A i \in 1 .. Len(w) : v[i] = w[i] /\ SubSeq(v, i, Len(w)) = SubSeq(w, i, Len(w))
<1>1. Len(w) \in Nat
  OBVIOUS
<1> DEFINE v == Append(w, b)
<1>2. v \in Seq(Line!Bytes) /\ v # <<>> /\ Len(v) = Len(w) + 1 /\ v[Len(v)] = b
  OBVIOUS
<1>3. \A i \in 1 .. Len(w) : v[i] = w[i]
  OBVIOUS
<1>4. ASSUME NEW i \in 1 .. Len(w) PROVE SubSeq(v, i, Len(w)) = SubSeq(w, i, Len(w))
  BY <1>2, <1>3, <1>4
<1> QED BY <1>2, <1>3, <1>4

LEMMA SuffixPushed ==
  ASSUME NEW w \in Seq(Line!Bytes), NEW b \in Line!Bytes, NEW i \in 1 .. Len(w)
  PROVE  SubSeq(Append(w, b), i, Len(w) + 1) = Append(SubSeq(w, i, Len(w)), b)
<1> DEFINE v == Append(w, b)
           l == Len(w)
           k == (l - i) + 1
           s == SubSeq(w, i, l)
<1>1. /\ l \in Nat /\ v \in Seq(Line!Bytes) /\ Len(v) = l + 1 /\ v[l + 1] = b
      /\ \A j \in 1 .. l : v[j] = w[j]
  BY BytePushed
<1>2. k \in Nat /\ i \in Nat /\ i >= 1 /\ i <= l
  BY <1>1
<1>3. s \in Seq(Line!Bytes) /\ Len(s) = k /\ \A j \in 1 .. k : s[j] = w[(i + j) - 1]
  BY <1>1
<1> HIDE DEF v, s
<1>4. /\ SubSeq(v, i, l + 1) \in Seq(Line!Bytes) /\ Len(SubSeq(v, i, l + 1)) = k + 1
      /\ \A j \in 1 .. (k + 1) : SubSeq(v, i, l + 1)[j] = v[(i + j) - 1]
  BY <1>1, <1>2
<1>5. /\ Append(s, b) \in Seq(Line!Bytes) /\ Len(Append(s, b)) = k + 1 /\ Append(s, b)[k + 1] = b
      /\ \A j \in 1 .. k : Append(s, b)[j] = s[j]
  <2> HIDE DEF k
  <2>1. s \in Seq(Line!Bytes) /\ Len(s) = k /\ k \in Nat
    BY <1>2, <1>3
  <2> QED BY <2>1, BytePushed
<1>6. ASSUME NEW j \in 1 .. (k + 1) PROVE SubSeq(v, i, l + 1)[j] = Append(s, b)[j]
  <2>1. CASE j = k + 1
    <3>1. (i + j) - 1 = l + 1
      BY <1>1, <1>2, <2>1
    <3> QED BY <1>1, <1>4, <1>5, <2>1, <3>1
  <2>2. CASE j # k + 1
    <3>1. j \in 1 .. k /\ (i + j) - 1 \in 1 .. l
      BY <1>1, <1>2, <2>2
    <3> HIDE DEF k, l
    <3> QED BY <1>1, <1>3, <1>4, <1>5, <3>1
  <2> QED BY <2>1, <2>2
<1> DEFINE a == SubSeq(v, i, l + 1)
           c == Append(s, b)
<1>7. a \in Seq(Line!Bytes) /\ c \in Seq(Line!Bytes) /\ Len(a) = k + 1 /\ Len(c) = k + 1
      /\ \A j \in 1 .. (k + 1) : a[j] = c[j]
  BY <1>4, <1>5, <1>6
<1> HIDE DEF a, c, k
<1>8. a = c
  <2>1. a = [j \in 1 .. Len(a) |-> a[j]] /\ c = [j \in 1 .. Len(c) |-> c[j]]
    BY <1>7
  <2> QED BY <1>7, <2>1
<1> QED BY <1>8 DEF a, c, v, s

\* where a sentence may begin after one more byte
LEMMA OpenPushed ==
  ASSUME NEW w \in Seq(Line!Bytes), NEW b \in Line!Bytes, NEW i \in 1 .. Len(Append(w, b))
  PROVE  /\ b = Start => (OpenAt(Append(w, b), i) <=> i = Len(w) + 1)
         /\ b \in Terminators => ~OpenAt(Append(w, b), i)
         /\ b \in Others => (OpenAt(Append(w, b), i) <=> OpenAt(w, i))
<1> DEFINE v == Append(w, b)
<1>1. Len(w) \in Nat /\ Len(v) = Len(w) + 1 /\ v[Len(v)] = b /\ \A k \in 1 .. Len(w) : v[k] = w[k]
  BY BytePushed
<1>2. i \in 1 .. Len(w) \/ i = Len(v)
  BY <1>1
<1>3. Len(v) \in (i + 1) .. Len(v) <=> i \in 1 .. Len(w)
  BY <1>1, <1>2
<1> HIDE DEF v
<1>4. OpenAt(v, i) => i = Len(v) \/ b \in Others
  BY <1>1, <1>2, <1>3 DEF OpenAt
<1>5. OpenAt(v, Len(v)) <=> b = Start
  BY <1>1 DEF OpenAt
<1>6. ASSUME i \in 1 .. Len(w), b \in Others PROVE OpenAt(v, i) <=> OpenAt(w, i)
  BY <1>1, <1>6 DEF OpenAt
<1>7. ~OpenAt(w, Len(w) + 1)
  BY <1>1 DEF OpenAt
<1> QED BY <1>1, <1>2, <1>4, <1>5, <1>6, <1>7, ByteKinds DEF v

LEMMA OpenOnce ==
  ASSUME NEW w \in Seq(Line!Bytes), NEW i, NEW j, OpenAt(w, i), OpenAt(w, j)
  PROVE  i = j
<1>1. Len(w) \in Nat /\ i \in 1 .. Len(w) /\ j \in 1 .. Len(w) /\ w[i] = Start /\ w[j] = Start
  BY DEF OpenAt
<1>2. ~(i < j) /\ ~(j < i)
  BY <1>1, LineAssumption DEF OpenAt
<1> QED BY <1>1, <1>2

LEMMA PushCollects ==
  ASSUME LineInv, NEW b \in Line!Bytes, wire' = Append(wire, b),
         Line!StartByte(b) \/ Line!Terminator(b) \/ Line!Other(b)
  PROVE  inSentence' \in BOOLEAN /\ Collecting(wire', buf', inSentence')
<1> USE LineAssumption
<1>1. /\ wire \in Seq(Line!Bytes) /\ inSentence \in BOOLEAN /\ Collecting(wire, buf, inSentence)
      /\ Len(wire) \in Nat
  BY DEF LineInv
<1> DEFINE w == Append(wire, b)
<1>2. /\ w \in Seq(Line!Bytes) /\ Len(w) = Len(wire) + 1 /\ w[Len(w)] = b
      /\ \A i \in 1 .. Len(wire) : w[i] = wire[i]
  BY <1>1, BytePushed
<1>3. wire' = w
  OBVIOUS
<1>4. CASE Line!StartByte(b)
  <2>1. b = Start /\ buf' = <<b>> /\ inSentence' = TRUE
    BY <1>4 DEF Line!StartByte
  <2>2. Len(w) \in 1 .. Len(w) /\ OpenAt(w, Len(w))
    BY <1>1, <1>2, <2>1, OpenPushed
  <2>3. SubSeq(w, Len(w), Len(w)) = <<b>>
    <3> HIDE DEF w
    <3> DEFINE k == Len(w)
    <3>1. k \in Nat /\ k \in 1 .. Len(w) /\ w[k] = b
      BY <1>1, <1>2
    <3> HIDE DEF k
    <3>2. SubSeq(w, k, k) = [i \in 1 .. 1 |-> b]
      BY <1>2, <3>1
    <3>3. <<b>> = [i \in 1 .. 1 |-> b]
      OBVIOUS
    <3> QED BY <3>2, <3>3 DEF k
  <2>4. Len(w) - Len(w) < MaxSentence
    BY <1>1, <1>2
  <2> HIDE DEF w
  <2>5. Collecting(w, <<b>>, TRUE)
    BY <2>2, <2>3, <2>4 DEF Collecting
  <2> QED BY <1>3, <2>1, <2>5
<1>5. CASE Line!Terminator(b)
  <2>1. b \in Terminators /\ inSentence' = FALSE
    BY <1>5 DEF Line!Terminator
  <2>2. \A i \in 1 .. Len(w) : ~OpenAt(w, i)
    BY <1>1, <2>1, OpenPushed
  <2> HIDE DEF w
  <2>3. Collecting(w, buf', FALSE)
    BY <2>2 DEF Collecting
  <2> QED BY <1>3, <2>1, <2>3
<1>6. CASE Line!Other(b)
  <2>1. b \in Others
    BY <1>6 DEF Line!Other
  <2>2. \A i \in 1 .. Len(w) : OpenAt(w, i) <=> OpenAt(wire, i)
    BY <1>1, <2>1, OpenPushed
  <2>3. \A i : OpenAt(w, i) <=> OpenAt(wire, i)
    <3>1. \A i : OpenAt(wire, i) => i \in 1 .. Len(w)
      BY <1>1, <1>2 DEF OpenAt
    <3>2. \A i : OpenAt(w, i) => i \in 1 .. Len(w)
      BY DEF OpenAt
    <3> HIDE DEF w
    <3> QED BY <2>2, <3>1, <3>2
  <2>4. CASE inSentence
    <3>1. PICK i \in 1 .. Len(wire) :
            OpenAt(wire, i) /\ buf = SubSeq(wire, i, Len(wire)) /\ Len(wire) - i < MaxSentence
      BY <1>1, <2>4 DEF Collecting
    <3>2. buf \in Seq(Line!Bytes) /\ Len(buf) = Len(wire) - i + 1
      BY <1>1, <3>1
    <3>3. CASE Len(buf) = MaxSentence
      <4>1. buf' = <<>> /\ inSentence' = FALSE
        BY <1>6, <2>4, <3>3 DEF Line!Other
      <4>2. \A j \in 1 .. Len(w) : OpenAt(w, j) => j = i
        BY <1>1, <2>3, <3>1, OpenOnce
      <4>3. Len(w) - i >= MaxSentence
        BY <1>1, <1>2, <3>2, <3>3
      <4> HIDE DEF w
      <4>4. Collecting(w, buf', FALSE)
        BY <4>2, <4>3 DEF Collecting
      <4> QED BY <1>3, <4>1, <4>4
    <3>4. CASE Len(buf) # MaxSentence
      <4>1. buf' = Append(buf, b) /\ inSentence' = TRUE
        BY <1>6, <2>4, <3>4 DEF Line!Other
      <4>2. OpenAt(w, i) /\ Len(w) - i < MaxSentence /\ i \in 1 .. Len(w)
        <5> HIDE DEF w
        <5>1. OpenAt(w, i)
          BY <2>3, <3>1
        <5>2. Len(w) = Len(wire) + 1 /\ Len(wire) \in Nat /\ i \in 1 .. Len(wire)
          BY <1>1, <1>2, <3>1
        <5>3. Len(wire) - i < MaxSentence /\ Len(wire) - i + 1 # MaxSentence /\ MaxSentence \in Nat
          BY <3>1, <3>2, <3>4
        <5> QED BY <5>1, <5>2, <5>3
      <4>3. Append(buf, b) = SubSeq(w, i, Len(w))
        <5>1. SubSeq(w, i, Len(wire) + 1) = Append(SubSeq(wire, i, Len(wire)), b)
          BY <1>1, SuffixPushed
        <5> HIDE DEF w
        <5> QED BY <1>2, <3>1, <5>1
      <4> HIDE DEF w
      <4>4. Collecting(w, Append(buf, b), TRUE)
        BY <4>2, <4>3 DEF Collecting
      <4> QED BY <1>3, <4>1, <4>4
    <3> QED BY <3>3, <3>4
  <2>5. CASE ~inSentence
    <3>1. inSentence' = inSentence
      BY <1>6, <2>5 DEF Line!Other
    <3>2. \A i \in 1 .. Len(wire) : OpenAt(wire, i) => Len(wire) - i >= MaxSentence
      BY <1>1, <2>5 DEF Collecting
    <3>3. \A i \in 1 .. Len(w) : OpenAt(w, i) => Len(w) - i >= MaxSentence
      <4>1. ASSUME NEW i \in 1 .. Len(w), OpenAt(w, i) PROVE Len(w) - i >= MaxSentence
        <5>1. OpenAt(wire, i) /\ i \in 1 .. Len(wire)
          BY <2>3, <4>1 DEF OpenAt
        <5> QED BY <1>1, <1>2, <3>2, <5>1
      <4> QED BY <4>1
    <3> HIDE DEF w
    <3>4. Collecting(w, buf', inSentence)
      BY <2>5, <3>3 DEF Collecting
    <3> QED BY <1>1, <1>3, <3>1, <3>4
  <2> QED BY <2>4, <2>5
<1> QED BY <1>4, <1>5, <1>6

\* the sentences that end with a terminator that has just come
LEMMA SentencesEnded ==
  ASSUME NEW w \in Seq(Line!Bytes), NEW b \in Terminators, wire' = Append(wire, b), w = wire
  PROVE  (Line!Sentences)' =
           {SubSeq(w, i, Len(w)) : i \in {i \in 1 .. Len(w) : OpenAt(w, i) /\ Len(w) + 1 - i \in 2 .. MaxSentence}}
<1> DEFINE v == Append(w, b)
<1>1. b \in Line!Bytes
  BY DEF Line!Bytes
<1>2. /\ Len(w) \in Nat /\ Len(v) = Len(w) + 1 /\ v \in Seq(Line!Bytes)
      /\ \A i \in 1 .. Len(w) : v[i] = w[i] /\ SubSeq(v, i, Len(w)) = SubSeq(w, i, Len(w))
  BY <1>1, BytePushed
<1> HIDE DEF v
<1>3. (Line!Sentences)' =
        {SubSeq(v, i, Len(v) - 1) : i \in
           {i \in 1 .. (Len(v) - 1) :
              /\ v[i] = Start /\ Len(v) - i \in 2 .. MaxSentence
              /\ \A j \in (i + 1) .. (Len(v) - 1) : v[j] \in Others}}
  BY DEF Line!Sentences, v
<1>4. Len(v) - 1 = Len(w)
  BY <1>2
<1>5. ASSUME NEW i \in 1 .. Len(w)
      PROVE  (v[i] = Start /\ Len(v) - i \in 2 .. MaxSentence /\ \A j \in (i + 1) .. Len(w) : v[j] \in Others)
               <=> (OpenAt(w, i) /\ Len(w) + 1 - i \in 2 .. MaxSentence)
  <2>1. \A k \in 1 .. Len(w) : v[k] = w[k]
    BY <1>2
  <2>2. \A j \in (i + 1) .. Len(w) : v[j] = w[j]
    BY <1>2, <2>1
  <2>3. v[i] = w[i] /\ Len(v) - i = Len(w) + 1 - i
    BY <1>2, <2>1
  <2> QED BY <2>2, <2>3 DEF OpenAt
<1> DEFINE Old == {i \in 1 .. Len(w) : OpenAt(w, i) /\ Len(w) + 1 - i \in 2 .. MaxSentence}
           New == {i \in 1 .. Len(w) :
                     /\ v[i] = Start /\ Len(v) - i \in 2 .. MaxSentence
                     /\ \A j \in (i + 1) .. Len(w) : v[j] \in Others}
<1>6. New = Old
  BY <1>5, Zenon
<1>7. (Line!Sentences)' = {SubSeq(v, i, Len(w)) : i \in New}
  BY <1>3, <1>4
<1>8. \A i \in Old : SubSeq(v, i, Len(w)) = SubSeq(w, i, Len(w))
  BY <1>2
<1> HIDE DEF Old, New
<1>9. (Line!Sentences)' = {SubSeq(w, i, Len(w)) : i \in Old}
  BY <1>6, <1>7, <1>8
<1> QED BY <1>9 DEF Old

LEMMA PushWhole ==
  ASSUME LineInv, NEW b \in Line!Bytes, wire' = Append(wire, b),
         Line!StartByte(b) \/ Line!Terminator(b) \/ Line!Other(b)
  PROVE  SentencesWhole'
<1>1. wire \in Seq(Line!Bytes) /\ inSentence \in BOOLEAN /\ Collecting(wire, buf, inSentence)
  BY DEF LineInv
<1>2. wire' # <<>> /\ Line!Last(wire') = b
  BY <1>1, BytePushed DEF Line!Last
<1>3. CASE b \notin Terminators
  <2>1. emitted' = <<>>
    BY <1>3 DEF Line!StartByte, Line!Terminator, Line!Other
  <2> QED BY <1>2, <1>3, <2>1 DEF SentencesWhole, Line!SentencesWhole
<1>4. CASE b \in Terminators
  <2>1. emitted' = IF inSentence /\ Len(buf) > 1 THEN buf ELSE <<>>
    BY <1>4, ByteKinds DEF Line!StartByte, Line!Terminator, Line!Other
  <2> DEFINE w == wire
             Whole == {i \in 1 .. Len(w) : OpenAt(w, i) /\ Len(w) + 1 - i \in 2 .. MaxSentence}
  <2>2. (Line!Sentences)' = {SubSeq(w, i, Len(w)) : i \in Whole} /\ Len(w) \in Nat
    BY <1>1, <1>4, SentencesEnded
  <2>3. CASE inSentence
    <3>1. PICK i \in 1 .. Len(w) : OpenAt(w, i) /\ buf = SubSeq(w, i, Len(w)) /\ Len(w) - i < MaxSentence
      BY <1>1, <2>3 DEF Collecting
    <3>2. Len(buf) = Len(w) + 1 - i
      BY <1>1, <3>1
    <3>3. Whole = IF Len(buf) > 1 THEN {i} ELSE {}
      <4>1. \A j \in Whole : j = i
        BY <1>1, <3>1, OpenOnce
      <4>2. i \in Whole <=> Len(buf) > 1
        BY <2>2, <3>1, <3>2, LineAssumption
      <4> HIDE DEF Whole
      <4> QED BY <4>1, <4>2
    <3> HIDE DEF Whole
    <3>4. (Line!Sentences)' = IF Len(buf) > 1 THEN {buf} ELSE {}
      BY <2>2, <3>1, <3>3
    <3> QED BY <1>2, <1>4, <2>1, <2>3, <3>4 DEF SentencesWhole, Line!SentencesWhole
  <2>4. CASE ~inSentence
    <3>1. \A i \in 1 .. Len(w) : OpenAt(w, i) => Len(w) - i >= MaxSentence
      BY <1>1, <2>4 DEF Collecting
    <3>2. Whole = {}
      BY <2>2, <3>1, LineAssumption
    <3> HIDE DEF Whole
    <3>3. (Line!Sentences)' = {}
      BY <2>2, <3>2
    <3> QED BY <1>2, <2>1, <2>4, <3>3 DEF SentencesWhole, Line!SentencesWhole
  <2> QED BY <1>1, <2>3, <2>4
<1> QED BY <1>3, <1>4

LEMMA LineInit == Line!Init => LineInv
<1> SUFFICES ASSUME Line!Init PROVE LineInv
  OBVIOUS
<1>1. buf = <<>> /\ inSentence = FALSE /\ emitted = <<>> /\ wire = <<>>
  BY DEF Line!Init
<1>2. wire \in Seq(Line!Bytes) /\ inSentence \in BOOLEAN /\ Len(wire) = 0
  <2>1. inSentence \in BOOLEAN
    BY <1>1, Zenon
  <2> QED BY <1>1, <2>1
<1>3. Collecting(wire, buf, inSentence)
  BY <1>1, <1>2 DEF Collecting
<1>4. SentencesWhole
  BY <1>1 DEF SentencesWhole, Line!SentencesWhole
<1> QED BY <1>2, <1>3, <1>4 DEF LineInv

LEMMA LineNext == LineInv /\ Line!Next => LineInv'
<1> SUFFICES ASSUME LineInv, Line!Next PROVE LineInv'
  OBVIOUS
<1>1. PICK b \in Line!Bytes : Line!Push(b)
  BY DEF Line!Next
<1>2. wire' = Append(wire, b) /\ (Line!StartByte(b) \/ Line!Terminator(b) \/ Line!Other(b))
  BY <1>1 DEF Line!Push
<1>3. wire' \in Seq(Line!Bytes)
  BY <1>2 DEF LineInv
<1> QED BY <1>2, <1>3, PushCollects, PushWhole DEF LineInv

(* Whatever the stream of bytes and however long the sentences may get, a        *)
(* sentence that arrives whole is passed on, once and at its terminator, and     *)
(* nothing else is (assembler.rs:29-62).                                         *)
THEOREM SentencesPassWhole == DataSpec => []SentencesWhole
<1>1. DataInit => LineInv
  BY LineInit DEF DataInit
<1>2. LineInv /\ [DataNext]_dataVars => LineInv'
  <2> SUFFICES ASSUME LineInv, [DataNext]_dataVars PROVE LineInv'
    OBVIOUS
  <2>1. CASE Line!Next
    BY <2>1, LineNext
  <2>2. CASE UNCHANGED line
    <3>1. UNCHANGED <<buf, inSentence, emitted, wire>>
      BY <2>2 DEF line
    <3> QED BY <3>1 DEF LineInv, SentencesWhole, Line!SentencesWhole, Line!Sentences
  <2> QED BY <2>1, <2>2 DEF DataNext, dataVars
<1>3. LineInv => SentencesWhole
  BY DEF LineInv
<1> QED BY <1>1, <1>2, <1>3, PTL DEF DataSpec
-----------------------------------------------------------------------------
(* Days before a year, by the Gregorian count. *)
DaysBefore(y) == 365 * y + ((y \div 4) - (y \div 100)) + (y \div 400)

(* A year counted from March, the days of it before a month, and the day of the  *)
(* count on which the epoch begins.                                             *)
MarchYear(y, m) == IF m <= 2 THEN y - 1 ELSE y
MarchDays(m) == (153 * (IF m > 2 THEN m - 3 ELSE m + 9) + 2) \div 5
EpochDay == 719469

LEMMA CivilDays ==
  ASSUME NEW y0 \in Nat \ {0}, NEW m \in 1 .. 12, NEW d \in Int
  PROVE  Calendar!DaysFromCivil(y0, m, d) =
           (DaysBefore(MarchYear(y0, m)) + MarchDays(m)) + (d - EpochDay)
<1> DEFINE y == MarchYear(y0, m)
           mp == MarchDays(m)
           era == y \div 400
           yoe == y - era * 400
<1>1. y \in Nat /\ mp \in Int
  BY DEF MarchYear, MarchDays
<1>2. Calendar!DaysFromCivil(y0, m, d) =
        era * 146097 + yoe * 365 + yoe \div 4 - yoe \div 100 + (mp + d - 1) - 719468
  BY <1>1, SMT DEF Calendar!DaysFromCivil, Calendar!Quot, MarchYear, MarchDays
<1> HIDE DEF y, mp
<1>3. era \in Nat /\ yoe \in 0 .. 399
  BY <1>1
<1>4. y \div 4 = 100 * era + (yoe \div 4) /\ y \div 100 = 4 * era + (yoe \div 100)
  BY <1>1
<1>5. Calendar!DaysFromCivil(y0, m, d) = (DaysBefore(y) + mp) + (d - EpochDay)
  BY <1>1, <1>2, <1>3, <1>4, SMT DEF DaysBefore, EpochDay
<1> QED BY <1>5 DEF y, mp

LEMMA YearDays ==
  ASSUME NEW y \in Nat \ {0}
  PROVE  /\ DaysBefore(y) \in Int /\ DaysBefore(y - 1) \in Int
         /\ DaysBefore(y) = DaysBefore(y - 1) + Calendar!YearLength(y)
BY DEF DaysBefore, Calendar!YearLength

LEMMA LeapYear ==
  ASSUME NEW y \in Nat \ {0}
  PROVE  /\ Calendar!YearLength(y) \in {365, 366}
         /\ Calendar!YearLength(y) = 366 <=> (y % 4 = 0 /\ y % 100 # 0) \/ y % 400 = 0
<1> DEFINE a == (y \div 4) - ((y - 1) \div 4)
           b == (y \div 100) - ((y - 1) \div 100)
           c == (y \div 400) - ((y - 1) \div 400)
<1>1. a = (IF y % 4 = 0 THEN 1 ELSE 0)
  OBVIOUS
<1>2. b = (IF y % 100 = 0 THEN 1 ELSE 0)
  OBVIOUS
<1>3. c = (IF y % 400 = 0 THEN 1 ELSE 0)
  OBVIOUS
<1>4. (y % 400 = 0 => y % 100 = 0) /\ (y % 100 = 0 => y % 4 = 0)
  OBVIOUS
<1>5. Calendar!YearLength(y) = 365 + ((a - b) + c)
  BY DEF Calendar!YearLength
<1> HIDE DEF a, b, c
<1> QED BY <1>1, <1>2, <1>3, <1>4, <1>5

LEMMA MonthLength ==
  ASSUME NEW y \in Nat \ {0}, NEW m \in 1 .. 12
  PROVE  /\ Calendar!Lengths(y)[m] \in 28 .. 31
         /\ Calendar!Lengths(y)[m] = Calendar!DaysInMonth(m, y)
<1>1. Calendar!Lengths(y)[m] =
        IF m = 2 THEN Calendar!YearLength(y) - 337 ELSE IF m \in {4, 6, 9, 11} THEN 30 ELSE 31
  BY DEF Calendar!Lengths
<1>2. Calendar!DaysInMonth(m, y) =
        IF m = 2 THEN (IF (y % 4 = 0 /\ y % 100 # 0) \/ y % 400 = 0 THEN 29 ELSE 28)
        ELSE IF m \in {4, 6, 9, 11} THEN 30 ELSE 31
  BY DEF Calendar!DaysInMonth
<1> QED BY <1>1, <1>2, LeapYear

CalendarInv ==
  /\ year \in Nat /\ year >= 1970 /\ month \in 1 .. 12 /\ n \in Nat
  /\ day \in 1 .. Calendar!Lengths(year)[month]
  /\ Calendar!DaysFromCivil(year, month, day) = n

LEMMA CalendarInit == Calendar!Init => CalendarInv
<1> SUFFICES ASSUME Calendar!Init PROVE CalendarInv
  OBVIOUS
<1>1. year = 1970 /\ month = 1 /\ day = 1 /\ n = 0
  BY DEF Calendar!Init
<1>2. day \in 1 .. Calendar!Lengths(year)[month]
  BY <1>1, MonthLength
<1>3. Calendar!DaysFromCivil(1970, 1, 1) = 0
  BY CivilDays, SMT DEF DaysBefore, MarchYear, MarchDays, EpochDay
<1> QED BY <1>1, <1>2, <1>3 DEF CalendarInv

(* A day, a month and a year further count one more. *)
LEMMA DayAfter ==
  ASSUME NEW y \in Nat \ {0}, NEW m \in 1 .. 12, NEW d \in Int
  PROVE  Calendar!DaysFromCivil(y, m, d + 1) = Calendar!DaysFromCivil(y, m, d) + 1
<1> DEFINE a == DaysBefore(MarchYear(y, m)) + MarchDays(m)
<1>1. a \in Int /\ EpochDay \in Int
  BY YearDays DEF MarchYear, MarchDays, EpochDay
<1>2. /\ Calendar!DaysFromCivil(y, m, d + 1) = a + ((d + 1) - EpochDay)
      /\ Calendar!DaysFromCivil(y, m, d) = a + (d - EpochDay)
  BY CivilDays
<1> HIDE DEF a
<1> QED BY <1>1, <1>2

LEMMA MonthAfter ==
  ASSUME NEW y \in Nat \ {0}, NEW m \in 1 .. 11
  PROVE  Calendar!DaysFromCivil(y, m + 1, 1)
           = Calendar!DaysFromCivil(y, m, Calendar!Lengths(y)[m]) + 1
<1> DEFINE l == Calendar!Lengths(y)[m]
           Y == DaysBefore(y)
           Y0 == DaysBefore(y - 1)
           L == Calendar!YearLength(y)
<1>1. l = IF m = 2 THEN L - 337 ELSE IF m \in {4, 6, 9, 11} THEN 30 ELSE 31
  BY DEF Calendar!Lengths
<1>2. Y \in Int /\ Y0 \in Int /\ Y = Y0 + L /\ L \in Int /\ l \in Int
  BY <1>1, YearDays, LeapYear
<1>3. Calendar!DaysFromCivil(y, m, l) =
        ((IF m <= 2 THEN Y0 ELSE Y) + MarchDays(m)) + (l - EpochDay)
  <2>1. DaysBefore(MarchYear(y, m)) = IF m <= 2 THEN Y0 ELSE Y
    BY DEF MarchYear
  <2> HIDE DEF l, Y, Y0
  <2> QED BY <1>2, <2>1, CivilDays
<1>4. Calendar!DaysFromCivil(y, m + 1, 1) =
        ((IF m <= 1 THEN Y0 ELSE Y) + MarchDays(m + 1)) + (1 - EpochDay)
  <2>1. m + 1 \in 1 .. 12
    OBVIOUS
  <2>2. DaysBefore(MarchYear(y, m + 1)) = IF m <= 1 THEN Y0 ELSE Y
    BY DEF MarchYear
  <2> HIDE DEF Y, Y0
  <2> QED BY <2>1, <2>2, CivilDays
<1> HIDE DEF l, Y, Y0, L
<1>5. Calendar!DaysFromCivil(y, m + 1, 1) = Calendar!DaysFromCivil(y, m, l) + 1
  BY <1>1, <1>2, <1>3, <1>4, SMT DEF MarchDays, EpochDay
<1> QED BY <1>5 DEF l

LEMMA YearAfter ==
  ASSUME NEW y \in Nat \ {0}
  PROVE  Calendar!DaysFromCivil(y + 1, 1, 1) = Calendar!DaysFromCivil(y, 12, 31) + 1
<1>1. DaysBefore(y) \in Int
  BY YearDays
<1>2. Calendar!DaysFromCivil(y + 1, 1, 1) = (DaysBefore(y) + MarchDays(1)) + (1 - EpochDay)
  <2>1. y + 1 \in Nat \ {0} /\ MarchYear(y + 1, 1) = y
    BY DEF MarchYear
  <2> QED BY <2>1, CivilDays
<1>3. Calendar!DaysFromCivil(y, 12, 31) = (DaysBefore(y) + MarchDays(12)) + (31 - EpochDay)
  <2>1. MarchYear(y, 12) = y
    BY DEF MarchYear
  <2> QED BY <2>1, CivilDays
<1> QED BY <1>1, <1>2, <1>3, SMT DEF MarchDays, EpochDay

LEMMA CalendarNext == CalendarInv /\ Calendar!Next => CalendarInv'
<1> SUFFICES ASSUME CalendarInv, Calendar!Next PROVE CalendarInv'
  OBVIOUS
<1> DEFINE l == Calendar!Lengths(year)[month]
<1>1. year \in Nat \ {0} /\ year >= 1970 /\ month \in 1 .. 12 /\ n \in Nat /\ day \in 1 .. l /\ l \in 28 .. 31
  BY MonthLength DEF CalendarInv
<1>2. Calendar!DaysFromCivil(year, month, day) = n /\ n' = n + 1
  BY DEF CalendarInv, Calendar!Next, Calendar!NextDay
<1>3. CASE day < l
  <2>1. day' = day + 1 /\ month' = month /\ year' = year
    BY <1>3 DEF Calendar!Next, Calendar!NextDay
  <2>2. Calendar!DaysFromCivil(year', month', day') = n'
    BY <1>1, <1>2, <2>1, DayAfter
  <2> QED BY <1>1, <1>2, <1>3, <2>1, <2>2 DEF CalendarInv
<1>4. CASE ~(day < l) /\ month < 12
  <2>1. day' = 1 /\ month' = month + 1 /\ year' = year
    BY <1>4 DEF Calendar!Next, Calendar!NextDay
  <2>2. day = l /\ month \in 1 .. 11 /\ month + 1 \in 1 .. 12
    BY <1>1, <1>4
  <2>3. Calendar!DaysFromCivil(year', month', day') = n'
    BY <1>1, <1>2, <2>1, <2>2, MonthAfter
  <2>4. Calendar!Lengths(year')[month'] \in 28 .. 31
    BY <1>1, <2>1, <2>2, MonthLength
  <2> QED BY <1>1, <1>2, <2>1, <2>2, <2>3, <2>4 DEF CalendarInv
<1>5. CASE ~(day < l) /\ ~(month < 12)
  <2>1. day' = 1 /\ month' = 1 /\ year' = year + 1
    BY <1>5 DEF Calendar!Next, Calendar!NextDay
  <2>2. month = 12 /\ day = 31
    <3>1. month = 12 /\ day = l
      BY <1>1, <1>5
    <3> QED BY <3>1 DEF Calendar!Lengths
  <2>3. Calendar!DaysFromCivil(year', month', day') = n'
    BY <1>1, <1>2, <2>1, <2>2, YearAfter
  <2>4. Calendar!Lengths(year')[month'] \in 28 .. 31 /\ year' \in Nat /\ year' >= 1970
    BY <1>1, <2>1, MonthLength
  <2> QED BY <1>1, <1>2, <2>1, <2>3, <2>4 DEF CalendarInv
<1> QED BY <1>3, <1>4, <1>5

LEMMA CalendarCounts == CalendarInv => DaysCounted
<1> SUFFICES ASSUME CalendarInv PROVE DaysCounted
  OBVIOUS
<1>1. /\ year \in Nat \ {0} /\ year >= 1970 /\ month \in 1 .. 12 /\ n \in Nat
      /\ day \in 1 .. Calendar!Lengths(year)[month] /\ Calendar!Lengths(year)[month] \in 28 .. 31
      /\ Calendar!DaysFromCivil(year, month, day) = n
  BY MonthLength DEF CalendarInv
<1>2. /\ Calendar!CivilToUnix(year, month, day, 23, 59, 59) = [day |-> n, second |-> Calendar!DaySeconds - 1]
      /\ Calendar!CivilToUnix(year, month, day, 23, 59, 60) = [day |-> n + 1, second |-> 0]
  BY <1>1 DEF Calendar!CivilToUnix, Calendar!DaySeconds
<1>3. \A d \in 0 .. 32 : Calendar!ZdaAccepts(year, month, d)
                           <=> year >= 1980 /\ d \in 1 .. Calendar!Lengths(year)[month]
  BY <1>1, MonthLength DEF Calendar!ZdaAccepts
<1>4. year \in 2000 .. 2099 => Calendar!RmcAccepts(month, day) /\ Calendar!RmcYear(year % 100) = year
  BY <1>1 DEF Calendar!RmcAccepts, Calendar!RmcYear
<1> QED BY <1>2, <1>3, <1>4 DEF DaysCounted, Calendar!DaysCounted, Calendar!TimeAccepted

(* Every date from 1970 on counts one day more than the one before it, however   *)
(* far the walk goes, and the dates ZDA accepts are those that exist            *)
(* (timesync.rs:15-65, 107-143).                                                *)
THEOREM DatesCount == DataSpec => []DaysCounted
<1>1. DataInit => CalendarInv
  BY CalendarInit DEF DataInit
<1>2. CalendarInv /\ [DataNext]_dataVars => CalendarInv'
  <2> SUFFICES ASSUME CalendarInv, [DataNext]_dataVars PROVE CalendarInv'
    OBVIOUS
  <2>1. CASE Calendar!Next
    BY <2>1, CalendarNext
  <2>2. CASE UNCHANGED calendar
    BY <2>2 DEF CalendarInv, calendar
  <2> QED BY <2>1, <2>2 DEF DataNext, dataVars
<1> QED BY <1>1, <1>2, CalendarCounts, PTL DEF DataSpec
-----------------------------------------------------------------------------
(* EdgesOnSchedule.  A machine of the program, and a word that lasts until the   *)
(* task has handled the edge and that a register holds.                         *)
Machines == [pc : Nat, x : Int, y : Int, isr : Int, osr : Int, pin : BOOLEAN,
             tx : Seq(Int), rx : Seq(Int)]

Fits(word, w) == word \in 0 .. (Word - 1) /\ Prompt < w + word + 3

(* What a period of `word` cycles, the pulse of w and the overhead of the        *)
(* program are over what was wanted.                                            *)
Over(word, w, want) == (word + Edges!OutputOverhead + w) * Unit - want

\* words ahead of the period in progress
AtMostOne == {<<>>} \union {<<word>> : word \in Int}

(* The accumulator holds what all the words so far will have fallen short by:     *)
(* cur is the word of the period in progress, ahead the one for the next, if the *)
(* task has computed it.                                                        *)
Ledger(cur, ahead, w, wanted, lag, carry) ==
  /\ carry \in 0 .. (Unit - 1) /\ lag \in (1 - Unit) .. 0 /\ Fits(cur, w)
  /\ \/ /\ ahead = <<>>
        /\ \E want \in Int : wanted = <<want>> /\ lag + Over(cur, w, want) = -carry
     \/ \E word, want, next \in Int :
          /\ ahead = <<word>> /\ Fits(word, w) /\ wanted = <<want, next>>
          /\ lag + Over(cur, w, want) \in (1 - Unit) .. 0
          /\ (lag + Over(cur, w, want)) + Over(word, w, next) = -carry

(* The output program r cycles after its last edge, with the pulse's width in isr. *)
OutputAt(m, r, w, cur, ahead) ==
  /\ m.isr = w
  /\ \/ m.pc = 8 /\ m.pin /\ m.x \in 0 .. w /\ r = w - m.x /\ m.y = cur /\ m.tx = ahead
     \/ m.pc = 9 /\ m.pin /\ r = w + 1 /\ m.y = cur /\ m.tx = ahead
     \/ m.pc = 10 /\ ~m.pin /\ m.y \in 0 .. cur /\ r = ((w + 2) + cur) - m.y /\ m.tx = ahead
     \/ m.pc = 4 /\ ~m.pin /\ r = (w + cur) + 3 /\ m.tx = ahead
     \/ /\ m.pc \in 5 .. 7 /\ ~m.pin /\ r = ((w + cur) + m.pc) - 1 /\ m.tx = <<>> /\ ahead # <<>>
        /\ m.pc = 5 => m.osr = ahead[1]
        /\ m.pc # 5 => m.y = ahead[1]
        /\ m.pc = 7 => m.x = w

(* Before its first edge: the width and the first word are still to be taken.    *)
OutputStarts(m, w, cur) ==
  /\ ~m.pin
  /\ \/ m.pc = 1 /\ m.tx = <<w, cur>>
     \/ m.pc = 2 /\ m.osr = w /\ m.tx = <<cur>>
     \/ m.pc \in 3 .. 4 /\ m.isr = w /\ m.tx = <<cur>>
     \/ /\ m.pc \in 5 .. 7 /\ m.isr = w /\ m.tx = <<>>
        /\ m.pc = 5 => m.osr = cur
        /\ m.pc # 5 => m.y = cur
        /\ m.pc = 7 => m.x = w

(* The capture of the output: it waits for an edge, is on its way to one, and     *)
(* then waits for the pulse to end.                                             *)
Awaits(o) == o.pc \in 1 .. 3 /\ o.rx = <<>>
Captures(o, r) ==
  /\ o.rx = <<>>
  /\ \/ r = 0 /\ o.pc \in 1 .. 3
     \/ r = 1 /\ o.pc \in {1, 3, 4}
     \/ r = 2 /\ o.pc \in {1, 4, 5}
     \/ r = 3 /\ o.pc \in {4, 5}
     \/ r = 4 /\ o.pc = 5
Captured(o, r, w) ==
  /\ o.pc \in 6 .. 8 \/ (o.pc \in 1 .. 3 /\ r >= w + 2)
  /\ r >= w + 3 => o.pc # 6
  /\ r >= w + 4 => o.pc # 7
  /\ r >= w + 5 => o.pc # 8

(* The task hears of every edge in time for the program to find the next word.   *)
EdgeHeard(o, r, w, age, ahead) ==
  \/ Captures(o, r) /\ ahead = <<>>
  \/ /\ Captured(o, r, w)
     /\ o.rx # <<>> => ahead = <<>> /\ age = r /\ (r <= Prompt \/ r <= 5)
     /\ o.rx = <<>> => ahead # <<>>

FirstWord == Edges!OutputPeriodCycles(width.out)

Starting ==
  /\ rose = Edges!Unset /\ OutputStarts(sm.gen, width.out, FirstWord) /\ Awaits(sm.out)
  /\ Ledger(FirstWord, <<>>, width.out, wants, late, acc)

Running(cur, ahead) ==
  /\ rose \in Nat /\ OutputAt(sm.gen, rose, width.out, cur, ahead)
  /\ EdgeHeard(sm.out, rose, width.out, seen.out, ahead)
  /\ Ledger(cur, ahead, width.out, wants, late, acc)

ScheduleInv ==
  /\ {"gps", "out", "gen"} = DOMAIN sm /\ sm.out \in Machines /\ sm.gen \in Machines
  /\ width.out \in Widths /\ freq \in Freqs
  /\ Starting \/ \E cur \in Nat, ahead \in AtMostOne : Running(cur, ahead)
-----------------------------------------------------------------------------
(* The two programs, an instruction at a time.                                  *)
LEMMA ScheduleSizes ==
  /\ Word \in Nat \ {0} /\ Depth \in Nat \ {0} /\ Clk \in Nat \ {0} /\ Unit \in Nat \ {0}
  /\ Prompt \in Nat /\ Prompt <= 2 * Clk /\ Edges!OutputOverhead = 7 /\ Edges!Unset = -1
  /\ \A w \in Widths : w \in Nat /\ w >= 3
  /\ Freqs \subseteq Int /\ Corrs \subseteq Int
BY PioAssumption, ScheduleAssumption DEF Edges!OutputOverhead, Edges!Unset

LEMMA Lowers ==
  ASSUME NEW v \in Int
  PROVE  /\ Edges!Lowered(v) \in Int
         /\ v \in 1 .. (Word - 1) => Edges!Lowered(v) = v - 1
<1>1. Word \in Nat \ {0}
  BY ScheduleSizes
<1>2. (v - 1) % Word \in Int
  BY <1>1
<1>3. v \in 1 .. (Word - 1) => (v - 1) % Word = v - 1
  BY <1>1
<1> QED BY <1>2, <1>3 DEF Edges!Lowered

LEMMA OutputOps ==
  LET p == Edges!OutputProgram IN
  /\ Len(p) = 10 /\ p # Edges!CaptureProgram /\ Edges!WrapTarget(p) = 4
  /\ p[1] = [op |-> "pull", arg |-> "block", to |-> 0]
  /\ p[2] = [op |-> "mov_isr", arg |-> "osr", to |-> 0]
  /\ p[3] = [op |-> "set_pindirs", arg |-> "1", to |-> 0]
  /\ p[4] = [op |-> "pull", arg |-> "noblock", to |-> 0]
  /\ p[5] = [op |-> "mov_y", arg |-> "osr", to |-> 0]
  /\ p[6] = [op |-> "mov_x", arg |-> "isr", to |-> 0]
  /\ p[7] = [op |-> "set_pins", arg |-> "1", to |-> 0]
  /\ p[8] = [op |-> "jmp", arg |-> "x--", to |-> 8]
  /\ p[9] = [op |-> "set_pins", arg |-> "0", to |-> 0]
  /\ p[10] = [op |-> "jmp", arg |-> "y--", to |-> 10]
<1>1. Len(Edges!OutputProgram) = 10 /\ Len(Edges!CaptureProgram) = 8
  BY DEF Edges!OutputProgram, Edges!CaptureProgram
<1>2. Edges!OutputProgram # Edges!CaptureProgram
  BY <1>1
<1>3. Edges!WrapTarget(Edges!OutputProgram) = 4
  BY DEF Edges!WrapTarget
<1> QED BY <1>1, <1>2, <1>3 DEF Edges!OutputProgram, Edges!Ins

LEMMA CaptureOps ==
  LET p == Edges!CaptureProgram IN
  /\ Len(p) = 8 /\ Edges!WrapTarget(p) = 1
  /\ p[1] = [op |-> "jmp", arg |-> "pin", to |-> 4]
  /\ p[2] = [op |-> "jmp", arg |-> "x--", to |-> 1]
  /\ p[3] = [op |-> "jmp", arg |-> "always", to |-> 1]
  /\ p[4] = [op |-> "in", arg |-> "x", to |-> 0]
  /\ p[5] = [op |-> "push", arg |-> "noblock", to |-> 0]
  /\ p[6] = [op |-> "jmp", arg |-> "x--", to |-> 8]
  /\ p[7] = [op |-> "jmp", arg |-> "always", to |-> 8]
  /\ p[8] = [op |-> "jmp", arg |-> "pin", to |-> 6]
<1>1. Len(Edges!CaptureProgram) = 8 /\ Edges!OutputProgram # Edges!CaptureProgram
  BY OutputOps DEF Edges!CaptureProgram
<1> QED BY <1>1 DEF Edges!CaptureProgram, Edges!WrapTarget, Edges!Ins

(* What an instruction does, by its operation.                                   *)
Moves(m, ins, level, program, then) ==
  /\ then.pc = Edges!NextPc(program, m, ins, level)
  /\ then.x = (CASE Edges!Counts(ins, "x--") -> Edges!Lowered(m.x)
                [] ins.op = "mov_x" -> m.isr [] OTHER -> m.x)
  /\ then.y = (CASE Edges!Counts(ins, "y--") -> Edges!Lowered(m.y)
                [] ins.op = "mov_y" -> m.osr [] OTHER -> m.y)
  /\ then.isr = (CASE ins.op = "in" -> m.x [] ins.op = "mov_isr" -> m.osr
                  [] ins.op = "push" -> 0 [] OTHER -> m.isr)
  /\ then.osr = IF ins.op = "pull" THEN Edges!Pulled(m) ELSE m.osr
  /\ then.tx = IF ins.op = "pull" /\ m.tx # <<>> THEN Tail(m.tx) ELSE m.tx
  /\ then.rx = IF ins.op = "push" /\ Len(m.rx) < Depth THEN Append(m.rx, m.isr) ELSE m.rx
  /\ then.pin = IF ins.op = "set_pins" THEN ins.arg = "1" ELSE m.pin

LEMMA Cycled ==
  ASSUME NEW m \in Machines, NEW program, NEW level
  PROVE  Moves(m, program[m.pc], level, program, Edges!Cycle(program, m, level))
BY DEF Edges!Cycle, Machines, Moves

NextIns(m, program) == IF m.pc = Len(program) THEN Edges!WrapTarget(program) ELSE m.pc + 1

LEMMA Jumping ==
  ASSUME NEW m, NEW ins, NEW level, NEW program, NEW then, Moves(m, ins, level, program, then),
         ins.op = "jmp"
  PROVE  /\ Edges!Jumps(m, ins, level) => then.pc = ins.to
         /\ ~Edges!Jumps(m, ins, level) => then.pc = NextIns(m, program)
         /\ ins.arg = "pin" => (Edges!Jumps(m, ins, level) <=> level)
         /\ ins.arg = "x--" => (Edges!Jumps(m, ins, level) <=> m.x # 0)
         /\ ins.arg = "y--" => (Edges!Jumps(m, ins, level) <=> m.y # 0)
         /\ ins.arg = "always" => Edges!Jumps(m, ins, level)
         /\ then.x = IF ins.arg = "x--" THEN Edges!Lowered(m.x) ELSE m.x
         /\ then.y = IF ins.arg = "y--" THEN Edges!Lowered(m.y) ELSE m.y
         /\ then.isr = m.isr /\ then.osr = m.osr /\ then.tx = m.tx /\ then.rx = m.rx
         /\ then.pin = m.pin
<1>1. ~Edges!Blocked(m, ins)
  BY DEF Edges!Blocked
<1>2. then.pc = Edges!NextPc(program, m, ins, level)
  BY DEF Moves
<1>3. Edges!Jumps(m, ins, level) => then.pc = ins.to
  BY <1>1, <1>2 DEF Edges!NextPc
<1>4. ~Edges!Jumps(m, ins, level) => then.pc = NextIns(m, program)
  BY <1>1, <1>2 DEF Edges!NextPc, NextIns
<1>5. ins.arg = "pin" => (Edges!Jumps(m, ins, level) <=> level)
  BY DEF Edges!Jumps
<1>6. ins.arg = "x--" => (Edges!Jumps(m, ins, level) <=> m.x # 0)
  BY DEF Edges!Jumps
<1>7. ins.arg = "y--" => (Edges!Jumps(m, ins, level) <=> m.y # 0)
  BY DEF Edges!Jumps
<1>8. ins.arg = "always" => Edges!Jumps(m, ins, level)
  BY DEF Edges!Jumps
<1>9. /\ then.x = IF ins.arg = "x--" THEN Edges!Lowered(m.x) ELSE m.x
      /\ then.y = IF ins.arg = "y--" THEN Edges!Lowered(m.y) ELSE m.y
      /\ then.isr = m.isr /\ then.osr = m.osr /\ then.tx = m.tx /\ then.rx = m.rx
  BY DEF Moves, Edges!Counts
<1>10. then.pin = m.pin
  BY Zenon DEF Moves
<1> QED BY <1>3, <1>4, <1>5, <1>6, <1>7, <1>8, <1>9, <1>10

Continues(m, ins, program, then) ==
  /\ then.pc = NextIns(m, program)
  /\ then.x = IF ins.op = "mov_x" THEN m.isr ELSE m.x
  /\ then.y = IF ins.op = "mov_y" THEN m.osr ELSE m.y
  /\ ins.op # "in" /\ ins.op # "mov_isr" /\ ins.op # "push" => then.isr = m.isr
  /\ ins.op = "mov_isr" => then.isr = m.osr
  /\ ins.op = "in" => then.isr = m.x
  /\ then.osr = m.osr /\ then.tx = m.tx
  /\ ins.op # "push" => then.rx = m.rx
  /\ ins.op = "push" => then.rx = IF Len(m.rx) < Depth THEN Append(m.rx, m.isr) ELSE m.rx

LEMMA Straight ==
  ASSUME NEW m, NEW ins, NEW level, NEW program, NEW then, Moves(m, ins, level, program, then),
         ins.op # "jmp", ins.op # "pull"
  PROVE  Continues(m, ins, program, then)
<1>1. ~Edges!Blocked(m, ins)
  BY DEF Edges!Blocked
<1>2. then.pc = Edges!NextPc(program, m, ins, level)
  BY DEF Moves
<1>3. then.pc = NextIns(m, program)
  BY <1>1, <1>2 DEF Edges!NextPc, NextIns
<1>4. /\ then.x = IF ins.op = "mov_x" THEN m.isr ELSE m.x
      /\ then.y = IF ins.op = "mov_y" THEN m.osr ELSE m.y
  BY DEF Moves, Edges!Counts
<1>5. /\ ins.op # "in" /\ ins.op # "mov_isr" /\ ins.op # "push" => then.isr = m.isr
      /\ ins.op = "mov_isr" => then.isr = m.osr
      /\ ins.op = "in" => then.isr = m.x
      /\ then.osr = m.osr /\ then.tx = m.tx
  BY DEF Moves
<1>6. /\ ins.op # "push" => then.rx = m.rx
      /\ ins.op = "push" => then.rx = IF Len(m.rx) < Depth THEN Append(m.rx, m.isr) ELSE m.rx
  BY DEF Moves
<1> QED BY <1>3, <1>4, <1>5, <1>6 DEF Continues

LEMMA Pulling ==
  ASSUME NEW m, NEW ins, NEW level, NEW program, NEW then, Moves(m, ins, level, program, then),
         ins.op = "pull", m.tx # <<>>
  PROVE  /\ then.pc = NextIns(m, program) /\ then.isr = m.isr
         /\ then.osr = Head(m.tx) /\ then.tx = Tail(m.tx)
<1>1. ~Edges!Blocked(m, ins)
  BY DEF Edges!Blocked
<1>2. then.pc = Edges!NextPc(program, m, ins, level)
  BY DEF Moves
<1>3. then.pc = NextIns(m, program)
  BY <1>1, <1>2 DEF Edges!NextPc, NextIns
<1>4. then.isr = m.isr /\ then.osr = Head(m.tx) /\ then.tx = Tail(m.tx)
  BY DEF Moves, Edges!Pulled
<1> QED BY <1>3, <1>4

LEMMA PinKept ==
  ASSUME NEW m, NEW ins, NEW level, NEW program, NEW then, Moves(m, ins, level, program, then),
         ins.op # "set_pins"
  PROVE  then.pin = m.pin
BY Zenon DEF Moves

LEMMA PinSet ==
  ASSUME NEW m, NEW ins, NEW level, NEW program, NEW then, Moves(m, ins, level, program, then),
         ins.op = "set_pins"
  PROVE  then.pin <=> ins.arg = "1"
BY Zenon DEF Moves

OutputMoves(m, then) ==
  /\ m.pc = 1 /\ m.tx # <<>> =>
       /\ then.pc = 2 /\ then.osr = Head(m.tx) /\ then.tx = Tail(m.tx) /\ then.pin = m.pin
  /\ m.pc = 2 => then.pc = 3 /\ then.isr = m.osr /\ then.tx = m.tx /\ then.pin = m.pin
  /\ m.pc = 3 => then.pc = 4 /\ then.isr = m.isr /\ then.tx = m.tx /\ then.pin = m.pin
  /\ m.pc = 4 /\ m.tx # <<>> =>
       /\ then.pc = 5 /\ then.osr = Head(m.tx) /\ then.tx = Tail(m.tx) /\ then.isr = m.isr
       /\ then.pin = m.pin
  /\ m.pc = 5 => /\ then.pc = 6 /\ then.y = m.osr /\ then.isr = m.isr /\ then.tx = m.tx
                        /\ then.pin = m.pin
  /\ m.pc = 6 => /\ then.pc = 7 /\ then.x = m.isr /\ then.y = m.y /\ then.isr = m.isr
                        /\ then.tx = m.tx /\ then.pin = m.pin
  /\ m.pc = 7 => /\ then.pc = 8 /\ then.x = m.x /\ then.y = m.y /\ then.isr = m.isr
                        /\ then.tx = m.tx /\ then.pin
  /\ m.pc = 8 => /\ then.pc = (IF m.x # 0 THEN 8 ELSE 9) /\ then.x = Edges!Lowered(m.x)
                        /\ then.y = m.y /\ then.isr = m.isr /\ then.tx = m.tx /\ then.pin = m.pin
  /\ m.pc = 9 => /\ then.pc = 10 /\ then.y = m.y /\ then.isr = m.isr
                        /\ then.tx = m.tx /\ ~then.pin
  /\ m.pc = 10 => /\ then.pc = (IF m.y # 0 THEN 10 ELSE 4) /\ then.y = Edges!Lowered(m.y)
                         /\ then.isr = m.isr /\ then.tx = m.tx /\ then.pin = m.pin

LEMMA OutputCycle ==
  ASSUME NEW m \in Machines, m.pc \in 1 .. 10, NEW then, NEW level,
         Moves(m, Edges!OutputProgram[m.pc], level, Edges!OutputProgram, then)
  PROVE  OutputMoves(m, then)
<1> DEFINE p == Edges!OutputProgram
           ins == p[m.pc]
<1>1. /\ Len(p) = 10 /\ Edges!WrapTarget(p) = 4 /\ NextIns(m, p) = IF m.pc = 10 THEN 4 ELSE m.pc + 1
  BY OutputOps DEF NextIns
<1>2. m.pc \in 1 .. 10
  OBVIOUS
<1>3. Moves(m, ins, level, p, then)
  OBVIOUS
<1> HIDE DEF p, ins
<1>a. CASE m.pc = 1
  <2>0. ins = [op |-> "pull", arg |-> "block", to |-> 0]
    BY <1>a, OutputOps DEF ins, p
  <2>1. ins.op = "pull" /\ ins.arg = "block" /\ ins.to = 0
    BY <2>0
  <2> QED BY <1>1, <1>3, <1>a, <2>1, Pulling, PinKept DEF Continues, OutputMoves
<1>b. CASE m.pc = 2
  <2>0. ins = [op |-> "mov_isr", arg |-> "osr", to |-> 0]
    BY <1>b, OutputOps DEF ins, p
  <2>1. ins.op = "mov_isr" /\ ins.arg = "osr" /\ ins.to = 0
    BY <2>0
  <2> QED BY <1>1, <1>3, <1>b, <2>1, Straight, PinKept DEF Continues, OutputMoves
<1>c. CASE m.pc = 3
  <2>0. ins = [op |-> "set_pindirs", arg |-> "1", to |-> 0]
    BY <1>c, OutputOps DEF ins, p
  <2>1. ins.op = "set_pindirs" /\ ins.arg = "1" /\ ins.to = 0
    BY <2>0
  <2> QED BY <1>1, <1>3, <1>c, <2>1, Straight, PinKept DEF Continues, OutputMoves
<1>d. CASE m.pc = 4
  <2>0. ins = [op |-> "pull", arg |-> "noblock", to |-> 0]
    BY <1>d, OutputOps DEF ins, p
  <2>1. ins.op = "pull" /\ ins.arg = "noblock" /\ ins.to = 0
    BY <2>0
  <2> QED BY <1>1, <1>3, <1>d, <2>1, Pulling, PinKept DEF Continues, OutputMoves
<1>e. CASE m.pc = 5
  <2>0. ins = [op |-> "mov_y", arg |-> "osr", to |-> 0]
    BY <1>e, OutputOps DEF ins, p
  <2>1. ins.op = "mov_y" /\ ins.arg = "osr" /\ ins.to = 0
    BY <2>0
  <2> QED BY <1>1, <1>3, <1>e, <2>1, Straight, PinKept DEF Continues, OutputMoves
<1>f. CASE m.pc = 6
  <2>0. ins = [op |-> "mov_x", arg |-> "isr", to |-> 0]
    BY <1>f, OutputOps DEF ins, p
  <2>1. ins.op = "mov_x" /\ ins.arg = "isr" /\ ins.to = 0
    BY <2>0
  <2> QED BY <1>1, <1>3, <1>f, <2>1, Straight, PinKept DEF Continues, OutputMoves
<1>g. CASE m.pc = 7
  <2>0. ins = [op |-> "set_pins", arg |-> "1", to |-> 0]
    BY <1>g, OutputOps DEF ins, p
  <2>1. ins.op = "set_pins" /\ ins.arg = "1" /\ ins.to = 0
    BY <2>0
  <2> QED BY <1>1, <1>3, <1>g, <2>1, Straight, PinSet DEF Continues, OutputMoves
<1>h. CASE m.pc = 8
  <2>0. ins = [op |-> "jmp", arg |-> "x--", to |-> 8]
    BY <1>h, OutputOps DEF ins, p
  <2>1. ins.op = "jmp" /\ ins.arg = "x--" /\ ins.to = 8
    BY <2>0
  <2> QED BY <1>1, <1>3, <1>h, <2>1, Jumping DEF OutputMoves
<1>i. CASE m.pc = 9
  <2>0. ins = [op |-> "set_pins", arg |-> "0", to |-> 0]
    BY <1>i, OutputOps DEF ins, p
  <2>1. ins.op = "set_pins" /\ ins.arg = "0" /\ ins.to = 0
    BY <2>0
  <2> QED BY <1>1, <1>3, <1>i, <2>1, Straight, PinSet DEF Continues, OutputMoves
<1>j. CASE m.pc = 10
  <2>0. ins = [op |-> "jmp", arg |-> "y--", to |-> 10]
    BY <1>j, OutputOps DEF ins, p
  <2>1. ins.op = "jmp" /\ ins.arg = "y--" /\ ins.to = 10
    BY <2>0
  <2> QED BY <1>1, <1>3, <1>j, <2>1, Jumping DEF OutputMoves
<1> QED BY <1>2, <1>a, <1>b, <1>c, <1>d, <1>e, <1>f, <1>g, <1>h, <1>i, <1>j

(* The capture program: it counts down in 2 and 6, and takes the count in 4.        *)
CaptureMoves(m, level, then) ==
  /\ m.pc # 5 => then.rx = m.rx
  /\ then.x = IF m.pc \in {2, 6} THEN Edges!Lowered(m.x) ELSE m.x
  /\ m.pc = 1 => then.pc = IF level THEN 4 ELSE 2
  /\ m.pc = 2 => then.pc = IF m.x # 0 THEN 1 ELSE 3
  /\ m.pc = 3 => then.pc = 1
  /\ m.pc = 4 => then.pc = 5 /\ then.isr = m.x
  /\ m.pc = 5 => /\ then.pc = 6 /\ then.rx = IF Len(m.rx) < Depth THEN Append(m.rx, m.isr) ELSE m.rx
  /\ m.pc = 6 => then.pc = IF m.x # 0 THEN 8 ELSE 7
  /\ m.pc = 7 => then.pc = 8
  /\ m.pc = 8 => then.pc = IF level THEN 6 ELSE 1

LEMMA CaptureCycle ==
  ASSUME NEW m \in Machines, m.pc \in 1 .. 8, NEW then, NEW level,
         Moves(m, Edges!CaptureProgram[m.pc], level, Edges!CaptureProgram, then)
  PROVE  CaptureMoves(m, level, then)
<1> DEFINE p == Edges!CaptureProgram
           ins == p[m.pc]
<1>1. /\ Len(p) = 8 /\ Edges!WrapTarget(p) = 1 /\ NextIns(m, p) = IF m.pc = 8 THEN 1 ELSE m.pc + 1
  BY CaptureOps DEF NextIns
<1>2. m.pc \in 1 .. 8
  OBVIOUS
<1>3. Moves(m, ins, level, p, then)
  OBVIOUS
<1> HIDE DEF p, ins
<1>a. CASE m.pc = 1
  <2>1. ins = [op |-> "jmp", arg |-> "pin", to |-> 4]
    BY <1>a, CaptureOps DEF ins, p
  <2>2. ins.op = "jmp" /\ ins.arg = "pin" /\ ins.to = 4
    BY <2>1
  <2> QED BY <1>1, <1>3, <1>a, <2>2, Jumping DEF CaptureMoves
<1>b. CASE m.pc = 2
  <2>1. ins = [op |-> "jmp", arg |-> "x--", to |-> 1]
    BY <1>b, CaptureOps DEF ins, p
  <2>2. ins.op = "jmp" /\ ins.arg = "x--" /\ ins.to = 1
    BY <2>1
  <2> QED BY <1>1, <1>3, <1>b, <2>2, Jumping DEF CaptureMoves
<1>c. CASE m.pc = 3
  <2>1. ins = [op |-> "jmp", arg |-> "always", to |-> 1]
    BY <1>c, CaptureOps DEF ins, p
  <2>2. ins.op = "jmp" /\ ins.arg = "always" /\ ins.to = 1
    BY <2>1
  <2> QED BY <1>1, <1>3, <1>c, <2>2, Jumping DEF CaptureMoves
<1>d. CASE m.pc = 4
  <2>1. ins = [op |-> "in", arg |-> "x", to |-> 0]
    BY <1>d, CaptureOps DEF ins, p
  <2>2. ins.op = "in" /\ ins.arg = "x" /\ ins.to = 0
    BY <2>1
  <2> QED BY <1>1, <1>3, <1>d, <2>2, Straight DEF Continues, CaptureMoves
<1>e. CASE m.pc = 5
  <2>1. ins = [op |-> "push", arg |-> "noblock", to |-> 0]
    BY <1>e, CaptureOps DEF ins, p
  <2>2. ins.op = "push" /\ ins.arg = "noblock" /\ ins.to = 0
    BY <2>1
  <2> QED BY <1>1, <1>3, <1>e, <2>2, Straight DEF Continues, CaptureMoves
<1>f. CASE m.pc = 6
  <2>1. ins = [op |-> "jmp", arg |-> "x--", to |-> 8]
    BY <1>f, CaptureOps DEF ins, p
  <2>2. ins.op = "jmp" /\ ins.arg = "x--" /\ ins.to = 8
    BY <2>1
  <2> QED BY <1>1, <1>3, <1>f, <2>2, Jumping DEF CaptureMoves
<1>g. CASE m.pc = 7
  <2>1. ins = [op |-> "jmp", arg |-> "always", to |-> 8]
    BY <1>g, CaptureOps DEF ins, p
  <2>2. ins.op = "jmp" /\ ins.arg = "always" /\ ins.to = 8
    BY <2>1
  <2> QED BY <1>1, <1>3, <1>g, <2>2, Jumping DEF CaptureMoves
<1>h. CASE m.pc = 8
  <2>1. ins = [op |-> "jmp", arg |-> "pin", to |-> 6]
    BY <1>h, CaptureOps DEF ins, p
  <2>2. ins.op = "jmp" /\ ins.arg = "pin" /\ ins.to = 6
    BY <2>1
  <2> QED BY <1>1, <1>3, <1>h, <2>2, Jumping DEF CaptureMoves
<1> QED BY <1>2, <1>a, <1>b, <1>c, <1>d, <1>e, <1>f, <1>g, <1>h

LEMMA Refilled ==
  ASSUME NEW m \in Machines, NEW program, NEW level,
         LET then == Edges!Cycle(program, m, level)
         IN  /\ then.pc \in Nat /\ then.x \in Int /\ then.y \in Int /\ then.isr \in Int
             /\ then.osr \in Int /\ then.pin \in BOOLEAN /\ then.tx \in Seq(Int)
             /\ then.rx \in Seq(Int)
  PROVE  Edges!Cycle(program, m, level) \in Machines
<1> DEFINE then == Edges!Cycle(program, m, level)
<1>1. then = [m EXCEPT !.pc = then.pc, !.x = then.x, !.y = then.y, !.isr = then.isr,
                       !.osr = then.osr, !.tx = then.tx, !.rx = then.rx, !.pin = then.pin]
  BY DEF Edges!Cycle, Machines
<1>2. /\ then.pc \in Nat /\ then.x \in Int /\ then.y \in Int /\ then.isr \in Int
      /\ then.osr \in Int /\ then.tx \in Seq(Int) /\ then.rx \in Seq(Int)
  OBVIOUS
<1>3. then.pin \in BOOLEAN
  OBVIOUS
<1> HIDE DEF then
<1>4. [m EXCEPT !.pc = then.pc, !.x = then.x, !.y = then.y, !.isr = then.isr,
                !.osr = then.osr, !.tx = then.tx, !.rx = then.rx, !.pin = then.pin] \in Machines
  BY <1>2, <1>3 DEF Machines
<1> QED BY <1>1, <1>4, Zenon DEF then

LEMMA CycleTyped ==
  ASSUME NEW m \in Machines, NEW level \in BOOLEAN,
         NEW program \in {Edges!OutputProgram, Edges!CaptureProgram}, m.pc \in 1 .. Len(program)
  PROVE  Edges!Cycle(program, m, level) \in Machines
<1> DEFINE then == Edges!Cycle(program, m, level)
           ins == program[m.pc]
<1>1. ins.to \in Nat /\ Len(program) \in Nat /\ Edges!WrapTarget(program) \in Nat /\ m.pc \in 1 .. 10
  <2>1. /\ \A k \in 1 .. 10 : Edges!OutputProgram[k].to \in Nat
        /\ \A k \in 1 .. 8 : Edges!CaptureProgram[k].to \in Nat
    BY OutputOps, CaptureOps
  <2>2. CASE program = Edges!OutputProgram
    BY <2>1, <2>2, OutputOps
  <2>3. CASE program = Edges!CaptureProgram
    BY <2>1, <2>3, CaptureOps
  <2> QED BY <2>2, <2>3
<1>2. Moves(m, ins, level, program, then)
  BY Cycled
<1>3. /\ m.pc \in Nat /\ m.x \in Int /\ m.y \in Int /\ m.isr \in Int /\ m.osr \in Int
      /\ m.tx \in Seq(Int) /\ m.rx \in Seq(Int) /\ m.pin \in BOOLEAN
  BY DEF Machines
<1>4. Edges!Lowered(m.x) \in Int /\ Edges!Lowered(m.y) \in Int /\ Edges!Pulled(m) \in Int
  <2>1. Edges!Pulled(m) \in Int
    BY <1>3 DEF Edges!Pulled
  <2> QED BY <1>3, <2>1, Lowers
<1>5. /\ m.tx # <<>> => Tail(m.tx) \in Seq(Int)
      /\ Append(m.rx, m.isr) \in Seq(Int)
  BY <1>3
<1> HIDE DEF then, ins
<1>6. then.pc \in Nat
  BY <1>1, <1>2, <1>3 DEF Moves, Edges!NextPc
<1>7. then.x \in Int /\ then.y \in Int /\ then.isr \in Int /\ then.osr \in Int
  BY <1>2, <1>3, <1>4 DEF Moves
<1>8. then.tx \in Seq(Int) /\ then.rx \in Seq(Int)
  BY <1>2, <1>3, <1>5 DEF Moves
<1>9. then.pin \in BOOLEAN
  BY <1>2, <1>3, Zenon DEF Moves
<1> QED BY <1>6, <1>7, <1>8, <1>9, Refilled DEF then
-----------------------------------------------------------------------------
(* The output program keeps its distance from its last edge: a cycle later it is *)
(* a cycle further, and after width, word and overhead it rises.                *)
LEMMA OneWord ==
  ASSUME NEW ahead \in AtMostOne, ahead # <<>>
  PROVE  /\ ahead[1] \in Int /\ ahead = <<ahead[1]>>
         /\ Head(ahead) = ahead[1] /\ Tail(ahead) = <<>>
<1>1. PICK word \in Int : ahead = <<word>>
  BY DEF AtMostOne
<1> QED BY <1>1

LEMMA TwoWords ==
  ASSUME NEW word \in Int, NEW next \in Int
  PROVE  /\ Head(<<word, next>>) = word /\ Tail(<<word, next>>) = <<next>>
         /\ <<word, next>> # <<>> /\ Head(<<word>>) = word /\ Tail(<<word>>) = <<>> /\ <<word>> # <<>>
<1>1. <<word, next>> # <<>>
  <2>1. <<word, next>> \in Seq(Int) /\ Len(<<word, next>>) = 2 /\ Len(<<>>) = 0
    OBVIOUS
  <2> QED BY <2>1
<1>2. <<word>> # <<>>
  <2>1. Len(<<word>>) = 1 /\ Len(<<>>) = 0
    OBVIOUS
  <2> QED BY <2>1
<1> QED BY <1>1, <1>2

LEMMA OutputStep ==
  ASSUME NEW m \in Machines, NEW r \in Int, NEW w \in Nat, w < Word, NEW cur \in 0 .. (Word - 1),
         NEW ahead \in AtMostOne, OutputAt(m, r, w, cur, ahead), m.pc # 7,
         m.pc = 4 => ahead # <<>>, NEW then, NEW level,
         Moves(m, Edges!OutputProgram[m.pc], level, Edges!OutputProgram, then)
  PROVE  OutputAt(then, r + 1, w, cur, ahead)
<1>1. /\ m.pc \in {4, 5, 6, 8, 9, 10} /\ m.isr = w /\ m.x \in Int /\ m.y \in Int /\ m.pin \in BOOLEAN
      /\ Word \in Nat
  BY ScheduleSizes DEF OutputAt, Machines
<1>2. OutputMoves(m, then)
  <2>1. m.pc \in 1 .. 10
    BY <1>1
  <2> QED BY <2>1, OutputCycle, ZenonT(60)
<1>4. CASE m.pc = 4
  <2>1. /\ ~m.pin /\ r = (w + cur) + 3 /\ m.tx = ahead
    BY <1>4 DEF OutputAt
  <2>2. Head(m.tx) = ahead[1] /\ Tail(m.tx) = <<>> /\ m.tx # <<>>
    BY <1>4, <2>1, OneWord
  <2>3. then.pc = 5 /\ then.osr = ahead[1] /\ then.tx = <<>> /\ then.isr = w /\ then.pin = m.pin
    BY <1>1, <1>4, <2>2, <1>2 DEF OutputMoves
  <2> QED BY <1>4, <2>1, <2>3 DEF OutputAt
<1>5. CASE m.pc = 5
  <2>1. /\ then.pc = 6 /\ then.y = m.osr /\ then.isr = m.isr /\ then.tx = m.tx /\ then.pin = m.pin
    BY <1>5, <1>2 DEF OutputMoves
  <2>2. ~m.pin /\ r = ((w + cur) + 5) - 1 /\ m.tx = <<>> /\ ahead # <<>> /\ m.osr = ahead[1]
    BY <1>5 DEF OutputAt
  <2> QED BY <1>1, <2>1, <2>2 DEF OutputAt
<1>6. CASE m.pc = 6
  <2>1. /\ then.pc = 7 /\ then.x = m.isr /\ then.y = m.y /\ then.isr = m.isr /\ then.tx = m.tx
        /\ then.pin = m.pin
    BY <1>6, <1>2 DEF OutputMoves
  <2>2. ~m.pin /\ r = ((w + cur) + 6) - 1 /\ m.tx = <<>> /\ ahead # <<>> /\ m.y = ahead[1]
    BY <1>6 DEF OutputAt
  <2> QED BY <1>1, <2>1, <2>2 DEF OutputAt
<1>8. CASE m.pc = 8
  <2>1. /\ then.pc = (IF m.x # 0 THEN 8 ELSE 9) /\ then.x = Edges!Lowered(m.x)
        /\ then.y = m.y /\ then.isr = m.isr /\ then.tx = m.tx /\ then.pin = m.pin
    BY <1>8, <1>2 DEF OutputMoves
  <2>2. m.pin /\ m.x \in 0 .. w /\ r = w - m.x /\ m.y = cur /\ m.tx = ahead
    BY <1>8 DEF OutputAt
  <2>3. m.x # 0 => Edges!Lowered(m.x) = m.x - 1
    <3>1. m.x # 0 => m.x \in 1 .. (Word - 1)
      BY <1>1, <2>2
    <3> QED BY <1>1, <3>1, Lowers
  <2> QED BY <1>1, <2>1, <2>2, <2>3 DEF OutputAt
<1>9. CASE m.pc = 9
  <2>1. then.pc = 10 /\ then.y = m.y /\ then.isr = m.isr /\ then.tx = m.tx /\ ~then.pin
    BY <1>9, <1>2 DEF OutputMoves
  <2>2. r = w + 1 /\ m.y = cur /\ m.tx = ahead
    BY <1>9 DEF OutputAt
  <2> QED BY <1>1, <2>1, <2>2 DEF OutputAt
<1>10. CASE m.pc = 10
  <2>1. /\ then.pc = (IF m.y # 0 THEN 10 ELSE 4) /\ then.y = Edges!Lowered(m.y)
        /\ then.isr = m.isr /\ then.tx = m.tx /\ then.pin = m.pin
    BY <1>10, <1>2 DEF OutputMoves
  <2>2. ~m.pin /\ m.y \in 0 .. cur /\ r = ((w + 2) + cur) - m.y /\ m.tx = ahead
    BY <1>10 DEF OutputAt
  <2>3. m.y # 0 => Edges!Lowered(m.y) = m.y - 1
    <3>1. m.y # 0 => m.y \in 1 .. (Word - 1)
      BY <1>1, <2>2
    <3> QED BY <1>1, <3>1, Lowers
  <2> QED BY <1>1, <2>1, <2>2, <2>3 DEF OutputAt
<1> QED BY <1>1, <1>4, <1>5, <1>6, <1>8, <1>9, <1>10

LEMMA OutputRises ==
  ASSUME NEW m \in Machines, NEW r \in Int, NEW w \in Nat, NEW cur \in 0 .. (Word - 1),
         NEW ahead \in AtMostOne, OutputAt(m, r, w, cur, ahead), m.pc = 7, NEW then, NEW level,
         Moves(m, Edges!OutputProgram[m.pc], level, Edges!OutputProgram, then)
  PROVE  /\ r + 1 = (cur + 7) + w /\ ahead # <<>>
         /\ OutputAt(then, 0, w, ahead[1], <<>>)
<1>0. m.pc \in 1 .. 10
  OBVIOUS
<1>1. /\ then.pc = 8 /\ then.x = m.x /\ then.y = m.y /\ then.isr = m.isr /\ then.tx = m.tx /\ then.pin
  <2>1. OutputMoves(m, then)
    BY <1>0, OutputCycle, ZenonT(60)
  <2> QED BY <2>1 DEF OutputMoves
<1>2. /\ ~m.pin /\ r = ((w + cur) + 7) - 1 /\ m.tx = <<>> /\ ahead # <<>> /\ m.y = ahead[1] /\ m.x = w
      /\ m.isr = w
  BY DEF OutputAt
<1> QED BY <1>1, <1>2 DEF OutputAt

LEMMA OutputBoots ==
  ASSUME NEW m \in Machines, NEW w \in Nat, NEW cur \in 0 .. (Word - 1), OutputStarts(m, w, cur),
         NEW then, NEW level,
         Moves(m, Edges!OutputProgram[m.pc], level, Edges!OutputProgram, then)
  PROVE  /\ m.pc \in 1 .. 7 /\ ~m.pin
         /\ m.pc # 7 => OutputStarts(then, w, cur) /\ then.pc = m.pc + 1
         /\ m.pc = 7 => OutputAt(then, 0, w, cur, <<>>)
<1>1. m.pc \in 1 .. 7 /\ m.pc \in 1 .. 10 /\ ~m.pin /\ m.pin \in BOOLEAN /\ m.tx \in Seq(Int)
  BY DEF OutputStarts, Machines
<1>0. OutputMoves(m, then)
  <2>1. m.pc \in 1 .. 10
    BY <1>1
  <2> QED BY <2>1, OutputCycle, ZenonT(60)
<1>2. CASE m.pc = 1
  <2>1. m.tx = <<w, cur>> /\ m.tx # <<>> /\ Head(m.tx) = w /\ Tail(m.tx) = <<cur>>
    <3>1. m.tx = <<w, cur>> /\ w \in Int /\ cur \in Int
      BY <1>2 DEF OutputStarts
    <3> QED BY <3>1, TwoWords
  <2> QED BY <1>1, <1>2, <2>1, <1>0 DEF OutputMoves, OutputStarts
<1>3. CASE m.pc \in {2, 3}
  BY <1>1, <1>3, <1>0 DEF OutputMoves, OutputStarts
<1>4. CASE m.pc = 4
  <2>1. m.tx = <<cur>> /\ m.tx # <<>> /\ Head(m.tx) = cur /\ Tail(m.tx) = <<>>
    <3>1. m.tx = <<cur>> /\ cur \in Int
      BY <1>4 DEF OutputStarts
    <3> QED BY <3>1, TwoWords
  <2> QED BY <1>1, <1>4, <2>1, <1>0 DEF OutputMoves, OutputStarts
<1>5. CASE m.pc \in {5, 6}
  BY <1>1, <1>5, <1>0 DEF OutputMoves, OutputStarts
<1>6. CASE m.pc = 7
  BY <1>1, <1>6, <1>0 DEF OutputMoves, OutputStarts, OutputAt
<1> QED BY <1>1, <1>2, <1>3, <1>4, <1>5, <1>6
-----------------------------------------------------------------------------
(* The capture of the output sees every edge of it, once.                        *)
LEMMA HighAt ==
  ASSUME NEW m \in Machines, NEW r \in Int, NEW w \in Nat, NEW cur \in Nat, NEW ahead,
         OutputAt(m, r, w, cur, ahead)
  PROVE  /\ m.pin <=> r <= w + 1
         /\ r >= 0 /\ r <= (w + cur) + 6
         /\ (m.pc = 7 => r >= w + 6) /\ (m.pc = 4 => r = (w + cur) + 3)
<1>1. m.pin \in BOOLEAN /\ m.pc \in {4, 5, 6, 7, 8, 9, 10}
  BY DEF OutputAt, Machines
<1>2. CASE m.pc = 8
  BY <1>1, <1>2 DEF OutputAt
<1>3. CASE m.pc = 9
  BY <1>1, <1>3 DEF OutputAt
<1>4. CASE m.pc = 10
  BY <1>1, <1>4 DEF OutputAt
<1>5. CASE m.pc \in {4, 5, 6, 7}
  BY <1>1, <1>5 DEF OutputAt
<1> QED BY <1>1, <1>2, <1>3, <1>4, <1>5

LEMMA CaptureRests ==
  ASSUME NEW o \in Machines, o.pc \in 1 .. 3, o.rx = <<>>, NEW level, ~level, NEW then,
         Moves(o, Edges!CaptureProgram[o.pc], level, Edges!CaptureProgram, then)
  PROVE  then.pc \in 1 .. 3 /\ then.rx = <<>>
<1>1. o.pc \in 1 .. 8
  OBVIOUS
<1>2. CaptureMoves(o, level, then)
  BY <1>1, CaptureCycle
<1> QED BY <1>2 DEF CaptureMoves

LEMMA CaptureStep ==
  ASSUME NEW o \in Machines, NEW r \in Nat, NEW w \in Nat, w >= 3, NEW ahead, NEW age,
         NEW level, level <=> r <= w + 1,
         EdgeHeard(o, r, w, age, ahead), o.rx # <<>> => age < Prompt, NEW then,
         Moves(o, Edges!CaptureProgram[o.pc], level, Edges!CaptureProgram, then),
         NEW ageNext, o.pc = 5 => ageNext = r + 1, o.rx # <<>> => ageNext = age + 1
  PROVE  EdgeHeard(then, r + 1, w, ageNext, ahead)
<1>1. o.pc \in 1 .. 8 /\ Prompt \in Nat /\ Depth \in Nat \ {0} /\ o.rx \in Seq(Int) /\ o.isr \in Int
  BY ScheduleSizes DEF EdgeHeard, Captures, Captured, Machines
<1>2. CaptureMoves(o, level, then)
  BY <1>1, CaptureCycle
<1>3. CASE Captures(o, r) /\ ahead = <<>>
  <2>1. r <= 4 /\ r <= w + 1 /\ level /\ o.rx = <<>>
    BY <1>3 DEF Captures
  <2>2. CASE o.pc # 5
    <3>1. then.rx = <<>> /\ o.pc \in 1 .. 4
      BY <1>2, <1>3, <2>1, <2>2 DEF CaptureMoves, Captures
    <3>2. Captures(then, r + 1)
      BY <1>2, <1>3, <2>1, <2>2, <3>1 DEF CaptureMoves, Captures
    <3> QED BY <1>3, <3>2 DEF EdgeHeard
  <2>3. CASE o.pc = 5
    <3>1. Append(o.rx, o.isr) # <<>>
      <4>1. Append(o.rx, o.isr) = <<o.isr>>
        BY <2>1
      <4>2. <<o.isr>> # <<>>
        BY <1>1, TwoWords
      <4> QED BY <4>1, <4>2
    <3>2. Len(o.rx) < Depth
      BY <1>1, <2>1
    <3>3. then.pc = 6 /\ then.rx # <<>>
      BY <1>2, <2>3, <3>1, <3>2 DEF CaptureMoves
    <3>4. Captured(then, r + 1, w)
      BY <2>1, <3>3 DEF Captured
    <3> QED BY <1>3, <2>1, <2>3, <3>3, <3>4 DEF EdgeHeard
  <2> QED BY <2>2, <2>3
<1>4. CASE Captured(o, r, w)
  <2>1. o.pc # 5 /\ then.rx = o.rx
    BY <1>2, <1>4 DEF CaptureMoves, Captured
  <2>2. Captured(then, r + 1, w)
    BY <1>2, <1>4 DEF CaptureMoves, Captured
  <2>3. ~Captures(o, r)
    BY <1>4 DEF Captured, Captures
  <2>4. /\ o.rx # <<>> => ahead = <<>> /\ age = r /\ (r <= Prompt \/ r <= 5)
        /\ o.rx = <<>> => ahead # <<>>
    BY <2>3 DEF EdgeHeard
  <2>5. o.rx # <<>> => ageNext = r + 1 /\ r + 1 <= Prompt
    BY <1>1, <2>4
  <2> QED BY <2>1, <2>2, <2>4, <2>5 DEF EdgeHeard
<1> QED BY <1>3, <1>4 DEF EdgeHeard
-----------------------------------------------------------------------------
(* The account of the words: an edge takes what its period was over, and the word *)
(* computed for the period after is over by what the accumulator gives up.       *)
LEMMA OverTyped ==
  ASSUME NEW word \in Int, NEW w \in Int, NEW want \in Int
  PROVE  Over(word, w, want) \in Int
BY ScheduleSizes DEF Over

LEMMA LedgerRises ==
  ASSUME NEW cur \in Int, NEW ahead \in AtMostOne, ahead # <<>>, NEW w \in Nat, NEW wanted,
         NEW lag, NEW carry, Ledger(cur, ahead, w, wanted, lag, carry),
         NEW r \in Int, r + 1 = (cur + 7) + w
  PROVE  Ledger(ahead[1], <<>>, w, Tail(wanted), lag + ((r + 1) * Unit - wanted[1]), carry)
<1>1. PICK word, want, next \in Int :
        /\ ahead = <<word>> /\ Fits(word, w) /\ wanted = <<want, next>>
        /\ lag + Over(cur, w, want) \in (1 - Unit) .. 0
        /\ (lag + Over(cur, w, want)) + Over(word, w, next) = -carry
  BY DEF Ledger
<1>2. ahead[1] = word /\ wanted[1] = want /\ Tail(wanted) = <<next>>
  BY <1>1, TwoWords
<1>3. /\ Unit \in Nat \ {0} /\ carry \in 0 .. (Unit - 1) /\ lag \in (1 - Unit) .. 0 /\ lag \in Int
      /\ Edges!OutputOverhead = 7
  BY ScheduleSizes DEF Ledger
<1>4. lag + ((r + 1) * Unit - wanted[1]) = lag + Over(cur, w, want)
  <2> DEFINE whole == (r + 1) * Unit
  <2>1. whole \in Int /\ Over(cur, w, want) = whole - want
    BY <1>3 DEF Over
  <2> HIDE DEF whole
  <2> QED BY <1>2, <2>1 DEF whole
<1> QED BY <1>1, <1>2, <1>3, <1>4 DEF Ledger

LEMMA WordFits ==
  ASSUME NEW w \in Widths, NEW f \in Freqs, NEW c \in Corrs, NEW carry \in 0 .. (Unit - 1)
  PROVE  LET next == Edges!NextPeriod(carry, f, c, w) IN
         /\ next.word \in Int /\ Fits(next.word, w) /\ next.acc \in 0 .. (Unit - 1)
         /\ Over(next.word, w, (Clk - c) * Unit + f) = carry - next.acc
         /\ (Clk - c) * Unit + f \in Int
<1> DEFINE q == (carry + f) \div Unit
           rest == (carry + f) % Unit
           base == f \div Unit
           low == f % Unit
           space == Edges!OutputPeriodCycles(w)
           word == space + (q - c)
<1>1. /\ Unit \in Nat \ {0} /\ carry \in Int /\ f \in Int /\ c \in Int /\ w \in Int /\ Clk \in Int
      /\ Word \in Nat /\ Prompt \in Nat
  BY ScheduleSizes
<1>2. q \in Int /\ rest \in 0 .. (Unit - 1) /\ carry + f = Unit * q + rest
  BY <1>1
<1>3. base \in Int /\ low \in 0 .. (Unit - 1) /\ f = Unit * base + low
  BY <1>1
<1>4. space = (Clk - 7) - w /\ space \in Int
  BY <1>1, ScheduleSizes DEF Edges!OutputPeriodCycles
<1>5. /\ (space + (base - c)) \in 0 .. (Word - 2)
      /\ Prompt < (w + (space + (base - c))) + 3
  <2>1. w \in Widths /\ f \in Freqs \union {0} /\ c \in Corrs \union {0}
    OBVIOUS
  <2> QED BY <2>1, ScheduleAssumption
<1> HIDE DEF q, rest, base, low, space
<1>6. q \in {base, base + 1}
  <2>1. Unit * (q - base) = (carry + low) - rest
    <3>1. Unit * (q - base) = Unit * q - Unit * base
      BY <1>1, <1>2, <1>3
    <3> QED BY <3>1, <1>1, <1>2, <1>3
  <2> DEFINE k == q - base
  <2>2. k \in Int /\ Unit * k > -Unit /\ Unit * k < 2 * Unit
    BY <2>1, <1>1, <1>2, <1>3
  <2> HIDE DEF k
  <2>3. k > -1
    <3> SUFFICES ASSUME k <= -1 PROVE FALSE
      BY <2>2
    <3>1. Unit * (-1 - k) >= 0
      BY <1>1, <2>2
    <3>2. Unit * (-1 - k) = -Unit - Unit * k
      BY <1>1, <2>2
    <3> QED BY <3>1, <3>2, <2>2, <1>1
  <2>4. k < 2
    <3> SUFFICES ASSUME k >= 2 PROVE FALSE
      BY <2>2
    <3>1. Unit * (k - 2) >= 0
      BY <1>1, <2>2
    <3>2. Unit * (k - 2) = Unit * k - 2 * Unit
      BY <1>1, <2>2
    <3> QED BY <3>1, <3>2, <2>2, <1>1
  <2>5. k \in {0, 1}
    BY <2>2, <2>3, <2>4
  <2> QED BY <2>5, <1>2, <1>3 DEF k
<1>7. word \in Int /\ Fits(word, w)
  <2>1. word = space + (base - c) \/ word = (space + (base - c)) + 1
    BY <1>1, <1>3, <1>4, <1>6
  <2> QED BY <1>1, <1>3, <1>4, <1>5, <2>1 DEF Fits
<1>8. Over(word, w, (Clk - c) * Unit + f) = carry - rest /\ (Clk - c) * Unit + f \in Int
  <2> DEFINE whole == Clk - c
  <2>1. whole \in Int /\ (word + 7) + w = whole + q
    BY <1>1, <1>2, <1>4
  <2> HIDE DEF whole
  <2>2. (whole + q) * Unit = whole * Unit + Unit * q /\ whole * Unit \in Int /\ Unit * q \in Int
    BY <1>1, <1>2, <2>1
  <2>3. ((word + 7) + w) * Unit - (whole * Unit + f) = carry - rest
    BY <1>1, <1>2, <2>1, <2>2
  <2> QED BY <1>1, <2>2, <2>3, ScheduleSizes DEF Over, whole
<1>9. /\ Edges!NextPeriod(carry, f, c, w).word = word
      /\ Edges!NextPeriod(carry, f, c, w).acc = rest
  BY DEF Edges!NextPeriod, q, rest, space
<1> QED BY <1>2, <1>7, <1>8, <1>9

LEMMA SecondWord ==
  ASSUME NEW word \in Int, NEW next \in Int
  PROVE  Append(<<word>>, next) = <<word, next>>
<1> DEFINE a == Append(<<word>>, next)
           b == <<word, next>>
<1>1. a \in Seq(Int) /\ Len(a) = 2 /\ a[1] = word /\ a[2] = next
  OBVIOUS
<1>2. b \in Seq(Int) /\ Len(b) = 2 /\ b[1] = word /\ b[2] = next
  OBVIOUS
<1> HIDE DEF a, b
<1>3. Len(a) = Len(b) /\ \A i \in 1 .. Len(a) : a[i] = b[i]
  BY <1>1, <1>2
<1>4. a = b
  BY <1>1, <1>2, <1>3, SeqEqual, Zenon
<1> QED BY <1>4 DEF a, b

LEMMA LedgerFeeds ==
  ASSUME NEW cur \in Int, NEW w \in Widths, NEW wanted, NEW lag, NEW carry,
         Ledger(cur, <<>>, w, wanted, lag, carry), NEW f \in Freqs, NEW c \in Corrs
  PROVE  LET next == Edges!NextPeriod(carry, f, c, w) IN
         Ledger(cur, <<next.word>>, w, Append(wanted, (Clk - c) * Unit + f), lag, next.acc)
<1> DEFINE next == Edges!NextPeriod(carry, f, c, w)
           want == (Clk - c) * Unit + f
<1>1. /\ Unit \in Nat \ {0} /\ carry \in 0 .. (Unit - 1) /\ lag \in (1 - Unit) .. 0 /\ Fits(cur, w)
      /\ w \in Nat
  BY ScheduleSizes DEF Ledger
<1>2. PICK last \in Int : wanted = <<last>> /\ lag + Over(cur, w, last) = -carry
  <2>1. \A word \in Int : <<>> # <<word>>
    BY TwoWords
  <2> QED BY <2>1 DEF Ledger
<1>3. /\ next.word \in Int /\ Fits(next.word, w) /\ next.acc \in 0 .. (Unit - 1)
      /\ Over(next.word, w, want) = carry - next.acc /\ want \in Int
  BY <1>1, WordFits
<1> HIDE DEF next, want
<1>4. Append(wanted, want) = <<last, want>>
  BY <1>2, <1>3, SecondWord
<1>5. /\ lag + Over(cur, w, last) \in (1 - Unit) .. 0
      /\ (lag + Over(cur, w, last)) + Over(next.word, w, want) = -next.acc
  BY <1>1, <1>2, <1>3
<1>6. Ledger(cur, <<next.word>>, w, <<last, want>>, lag, next.acc)
  BY <1>1, <1>3, <1>5 DEF Ledger
<1> QED BY <1>4, <1>6 DEF next, want
-----------------------------------------------------------------------------
(* The machines' moves in a cycle of the clock.                                 *)
LEMMA MachinesMove ==
  ASSUME ScheduleInv, Edges!Clock
  PROVE  LET m == sm.gen
             o == sm.out
         IN  /\ {"gps", "out", "gen"} = DOMAIN sm' /\ sm'.gen \in Machines /\ sm'.out \in Machines
             /\ m.pc \in 1 .. 10 /\ o.pc \in 1 .. 8
             /\ \E level \in BOOLEAN :
                  Moves(m, Edges!OutputProgram[m.pc], level, Edges!OutputProgram, sm'.gen)
             /\ \E level \in BOOLEAN :
                  /\ level <=> m.pin
                  /\ Moves(o, Edges!CaptureProgram[o.pc], level, Edges!CaptureProgram, sm'.out)
<1> DEFINE m == sm.gen
           o == sm.out
           outLevel == "out" # "gen" /\ Edges!Level("out")
           genLevel == "gen" # "gen" /\ Edges!Level("gen")
<1>1. {"gps", "out", "gen"} = DOMAIN sm /\ o \in Machines /\ m \in Machines /\ m.pin \in BOOLEAN
  BY DEF ScheduleInv, Machines
<1>2. m.pc \in 1 .. 10
  BY DEF ScheduleInv, Starting, Running, OutputStarts, OutputAt
<1>3. o.pc \in 1 .. 8
  BY DEF ScheduleInv, Starting, Running, Awaits, EdgeHeard, Captures, Captured
<1>4. sm' = [s \in DOMAIN sm |-> Edges!Cycle(Edges!Program(s), sm[s], s # "gen" /\ Edges!Level(s))]
  BY DEF Edges!Clock
<1>5. Edges!Program("gen") = Edges!OutputProgram /\ Edges!Program("out") = Edges!CaptureProgram
  BY DEF Edges!Program
<1>6. /\ {"gps", "out", "gen"} = DOMAIN sm'
      /\ sm'.gen = Edges!Cycle(Edges!OutputProgram, m, genLevel)
      /\ sm'.out = Edges!Cycle(Edges!CaptureProgram, o, outLevel)
  BY <1>1, <1>4, <1>5
<1>7. genLevel \in BOOLEAN /\ outLevel \in BOOLEAN
  BY Zenon
<1>8. outLevel <=> m.pin
  BY DEF Edges!Level
<1> HIDE DEF m, o, outLevel, genLevel
<1>9. sm'.gen \in Machines /\ sm'.out \in Machines
  <2>1. Len(Edges!OutputProgram) = 10 /\ Len(Edges!CaptureProgram) = 8
    BY OutputOps, CaptureOps
  <2> QED BY <1>1, <1>2, <1>3, <1>6, <1>7, <2>1, CycleTyped
<1>10. Moves(m, Edges!OutputProgram[m.pc], genLevel, Edges!OutputProgram, sm'.gen)
  BY <1>1, <1>6, Cycled
<1>11. Moves(o, Edges!CaptureProgram[o.pc], outLevel, Edges!CaptureProgram, sm'.out)
  BY <1>1, <1>6, Cycled
<1> QED BY <1>2, <1>3, <1>6, <1>7, <1>8, <1>9, <1>10, <1>11, Zenon DEF m, o

LEMMA Ages ==
  ASSUME Edges!Clock, sm.out.pc \in 1 .. 8
  PROVE  /\ sm.out.pc = 5 => seen'.out = rose + 1
         /\ sm.out.pc # 5 =>
              seen'.out = IF seen.out = Edges!Unset THEN Edges!Unset
                          ELSE Edges!AtMost(seen.out + 1, 2 * Clk)
<1>1. "out" \in Edges!Captures /\ Edges!Program("out") = Edges!CaptureProgram
  BY DEF Edges!Captures, Edges!Program
<1>2. Edges!Pushes(Edges!CaptureProgram, sm.out) <=> sm.out.pc = 5
  BY CaptureOps DEF Edges!Pushes
<1>3. seen'.out = IF Edges!Pushes(Edges!CaptureProgram, sm.out) THEN rose + 1
                  ELSE IF seen.out = Edges!Unset THEN Edges!Unset
                       ELSE Edges!AtMost(seen.out + 1, 2 * Clk)
  BY <1>1 DEF Edges!Clock
<1> QED BY <1>2, <1>3

LEMMA WidthSizes ==
  ASSUME ScheduleInv
  PROVE  width.out \in Widths /\ width.out \in Nat /\ width.out >= 3 /\ width.out < Word
<1>1. width.out \in Widths
  BY DEF ScheduleInv
<1>2. width.out \in 5 .. (Clk - 9) /\ Word > Clk
  BY <1>1, PioAssumption
<1> QED BY <1>1, <1>2, ScheduleSizes

LEMMA FirstWordFits ==
  ASSUME NEW w \in Widths
  PROVE  Fits(Edges!OutputPeriodCycles(w), w) /\ Edges!OutputPeriodCycles(w) \in 0 .. (Word - 1)
<1> DEFINE space == Edges!OutputPeriodCycles(w)
<1>1. /\ space + ((0 \div Unit) - 0) \in 0 .. (Word - 2)
      /\ Prompt < (w + (space + ((0 \div Unit) - 0))) + 3
  BY ScheduleAssumption
<1>2. 0 \div Unit = 0 /\ Word \in Nat /\ w \in Nat /\ Prompt \in Nat /\ space \in Int
  BY ScheduleSizes DEF Edges!OutputPeriodCycles
<1> HIDE DEF space
<1>3. space + ((0 \div Unit) - 0) = space
  BY <1>2
<1> QED BY <1>1, <1>2, <1>3 DEF Fits, space

LEMMA ScheduleInit == Edges!Init => ScheduleInv
<1> SUFFICES ASSUME Edges!Init PROVE ScheduleInv
  OBVIOUS
<1> DEFINE w == width.out
<1>1. /\ width \in [gps : Widths, out : Widths] /\ freq \in Freqs /\ rose = Edges!Unset
      /\ sm = [gps |-> Edges!Machine(0, <<>>), out |-> Edges!Machine((0 - offset) % Word, <<>>),
               gen |-> Edges!Machine(0, <<w, FirstWord>>)]
      /\ acc = 0 /\ wants = <<Clk * Unit>> /\ late = 0 /\ offset \in Offsets
  BY DEF Edges!Init, FirstWord
<1>2. w \in Widths /\ w \in Nat /\ Fits(FirstWord, w) /\ FirstWord \in 0 .. (Word - 1)
  BY <1>1, FirstWordFits, ScheduleSizes DEF FirstWord
<1>3. /\ Unit \in Nat \ {0} /\ Clk \in Nat /\ Word \in Nat \ {0} /\ offset \in Int
      /\ (0 - offset) % Word \in Int
  BY <1>1, ScheduleSizes, PioAssumption
<1>4. sm.gen \in Machines /\ sm.out \in Machines
  <2>1. FALSE \in BOOLEAN
    BY Zenon
  <2>2. Edges!Machine((0 - offset) % Word, <<>>) \in Machines
    BY <1>3, <2>1 DEF Edges!Machine, Machines
  <2>3. Edges!Machine(0, <<w, FirstWord>>) \in Machines
    BY <1>2, <2>1 DEF Edges!Machine, Machines
  <2> QED BY <1>1, <2>2, <2>3
<1>5. Ledger(FirstWord, <<>>, w, wants, late, acc)
  <2>1. (FirstWord + 7) + w = Clk
    BY <1>2, <1>3, ScheduleSizes DEF FirstWord, Edges!OutputPeriodCycles
  <2>2. Over(FirstWord, w, Clk * Unit) = 0
    BY <1>3, <2>1, ScheduleSizes DEF Over
  <2> DEFINE want == Clk * Unit
  <2>3. want \in Int /\ 0 + Over(FirstWord, w, want) = -0 /\ wants = <<want>>
    BY <1>1, <1>3, <2>2
  <2> HIDE DEF want
  <2> QED BY <1>1, <1>2, <1>3, <2>3 DEF Ledger
<1>6. Starting
  <2>1. /\ sm.gen.pc = 1 /\ ~sm.gen.pin /\ sm.gen.tx = <<w, FirstWord>>
        /\ sm.out.pc = 1 /\ sm.out.rx = <<>>
    BY <1>1 DEF Edges!Machine
  <2> QED BY <1>1, <1>5, <2>1 DEF Starting, OutputStarts, Awaits
<1> QED BY <1>1, <1>2, <1>4, <1>6 DEF ScheduleInv

LEMMA ScheduleStarts ==
  ASSUME ScheduleInv, Edges!Clock, Starting
  PROVE  /\ ScheduleInv' /\ sm.gen.pc \in 1 .. 7 /\ ~sm.gen.pin
         /\ sm.gen.pc # 7 => Starting' /\ sm'.gen.pc = sm.gen.pc + 1
         /\ sm.gen.pc = 7 => Running(FirstWord, <<>>)' /\ rose' = 0
<1> DEFINE m == sm.gen
           o == sm.out
           w == width.out
<1>1. /\ {"gps", "out", "gen"} = DOMAIN sm' /\ sm'.gen \in Machines /\ sm'.out \in Machines
      /\ m \in Machines /\ o \in Machines /\ w \in Nat /\ freq \in Freqs /\ w \in Widths
  BY MachinesMove, WidthSizes DEF ScheduleInv
<1>2. PICK genLevel \in BOOLEAN :
        Moves(m, Edges!OutputProgram[m.pc], genLevel, Edges!OutputProgram, sm'.gen)
  BY MachinesMove
<1>3. PICK level \in BOOLEAN :
        /\ level <=> m.pin
        /\ Moves(o, Edges!CaptureProgram[o.pc], level, Edges!CaptureProgram, sm'.out)
  BY MachinesMove
<1>4. /\ rose = Edges!Unset /\ OutputStarts(m, w, FirstWord) /\ Awaits(o)
      /\ Ledger(FirstWord, <<>>, w, wants, late, acc) /\ FirstWord \in 0 .. (Word - 1)
  BY <1>1, FirstWordFits DEF Starting, FirstWord
<1>5. /\ m.pc \in 1 .. 7 /\ ~m.pin
      /\ m.pc # 7 => OutputStarts(sm'.gen, w, FirstWord) /\ sm'.gen.pc = m.pc + 1
      /\ m.pc = 7 => OutputAt(sm'.gen, 0, w, FirstWord, <<>>)
  BY <1>1, <1>2, <1>4, OutputBoots
<1>6. sm'.out.pc \in 1 .. 3 /\ sm'.out.rx = <<>>
  BY <1>1, <1>3, <1>4, <1>5, CaptureRests DEF Awaits
<1>7. /\ UNCHANGED <<width, freq, acc>> /\ late' = late /\ wants' = wants /\ FirstWord' = FirstWord
      /\ rose' = IF Edges!Rises THEN 0 ELSE Edges!Unset
  BY <1>4 DEF Edges!Clock, FirstWord
<1>8. Edges!Rises <=> m.pc = 7
  BY <1>5 DEF Edges!Rises
<1>9. CASE m.pc # 7
  <2>1. Starting'
    BY <1>1, <1>4, <1>5, <1>6, <1>7, <1>8, <1>9 DEF Starting, Awaits
  <2> QED BY <1>1, <1>5, <1>7, <1>9, <2>1 DEF ScheduleInv
<1>10. CASE m.pc = 7
  <2>1. rose' = 0 /\ rose' \in Nat
    BY <1>7, <1>8, <1>10
  <2>2. EdgeHeard(sm'.out, 0, w, seen'.out, <<>>)
    BY <1>6 DEF EdgeHeard, Captures
  <2>3. <<>> \in AtMostOne /\ FirstWord \in Nat
    BY <1>4 DEF AtMostOne
  <2>4. Running(FirstWord, <<>>)'
    BY <1>4, <1>5, <1>7, <1>10, <2>1, <2>2 DEF Running
  <2>5. ScheduleInv'
    BY <1>1, <1>7, <2>3, <2>4 DEF ScheduleInv
  <2> QED BY <1>5, <1>10, <2>1, <2>4, <2>5
<1> QED BY <1>9, <1>10

LEMMA ScheduleClock ==
  ASSUME ScheduleInv, Edges!Clock, NEW cur \in Nat, NEW ahead \in AtMostOne, Running(cur, ahead)
  PROVE  /\ ScheduleInv'
         /\ sm.gen.pc = 7 => /\ rose + 1 = (cur + 7) + width.out /\ ahead # <<>> /\ rose' = 0
                             /\ ahead[1] \in Nat /\ Running(ahead[1], <<>>)'
         /\ sm.gen.pc # 7 => rose' = rose + 1 /\ Running(cur, ahead)'
<1> DEFINE m == sm.gen
           o == sm.out
           w == width.out
<1>1. /\ {"gps", "out", "gen"} = DOMAIN sm' /\ sm'.gen \in Machines /\ sm'.out \in Machines
      /\ m \in Machines /\ o \in Machines /\ freq \in Freqs /\ w \in Widths
      /\ w \in Nat /\ w >= 3 /\ w < Word /\ m.pc \in 1 .. 10 /\ o.pc \in 1 .. 8
  BY MachinesMove, WidthSizes DEF ScheduleInv
<1>2. PICK genLevel \in BOOLEAN :
        Moves(m, Edges!OutputProgram[m.pc], genLevel, Edges!OutputProgram, sm'.gen)
  BY MachinesMove
<1>3. PICK level \in BOOLEAN :
        /\ level <=> m.pin
        /\ Moves(o, Edges!CaptureProgram[o.pc], level, Edges!CaptureProgram, sm'.out)
  BY MachinesMove
<1>4. /\ rose \in Nat /\ rose \in Int /\ OutputAt(m, rose, w, cur, ahead)
      /\ EdgeHeard(o, rose, w, seen.out, ahead)
      /\ Ledger(cur, ahead, w, wants, late, acc) /\ Fits(cur, w) /\ cur \in 0 .. (Word - 1)
  BY DEF Running, Ledger, Fits
<1>5. /\ m.pin <=> rose <= w + 1
      /\ (m.pc = 7 => rose >= w + 6) /\ (m.pc = 4 => rose = (w + cur) + 3)
  BY <1>1, <1>4, HighAt
<1>6. /\ Prompt \in Nat /\ Prompt <= 2 * Clk /\ Clk \in Nat /\ Edges!Unset = -1
      /\ o.rx # <<>> => seen.out < Prompt
  BY ScheduleSizes DEF Edges!Clock, Edges!Captures
<1>7. /\ UNCHANGED <<width, freq, acc>>
      /\ rose' = IF Edges!Rises THEN 0 ELSE rose + 1
      /\ late' = IF Edges!Rises THEN late + ((rose + 1) * Unit - wants[1]) ELSE late
      /\ wants' = IF Edges!Rises THEN Tail(wants) ELSE wants
  <2>1. rose # Edges!Unset
    BY <1>4, <1>6
  <2> QED BY <2>1 DEF Edges!Clock
<1>8. Edges!Rises <=> m.pc = 7
  BY <1>1, <1>4, <1>5 DEF Edges!Rises
<1>9. CASE m.pc = 7
  <2>1. /\ rose + 1 = (cur + 7) + w /\ ahead # <<>> /\ OutputAt(sm'.gen, 0, w, ahead[1], <<>>)
    BY <1>1, <1>2, <1>4, <1>9, OutputRises
  <2>2. Ledger(ahead[1], <<>>, w, wants', late', acc)
    BY <1>1, <1>4, <1>7, <1>8, <1>9, <2>1, LedgerRises
  <2>3. ~Captures(o, rose) /\ o.rx = <<>> /\ o.pc \in 1 .. 3 /\ ~m.pin
    <3>1. rose \in Nat /\ w \in Nat /\ w >= 3 /\ rose >= w + 6 /\ ~m.pin
      BY <1>1, <1>4, <1>5, <1>9
    <3>2. ~Captures(o, rose)
      BY <3>1 DEF Captures
    <3>3. Captured(o, rose, w) /\ o.rx = <<>>
      BY <1>4, <2>1, <3>2 DEF EdgeHeard
    <3>4. o.pc \in 1 .. 3
      BY <1>1, <3>1, <3>3 DEF Captured
    <3> QED BY <3>1, <3>2, <3>3, <3>4
  <2>4. sm'.out.pc \in 1 .. 3 /\ sm'.out.rx = <<>>
    BY <1>1, <1>3, <2>3, CaptureRests
  <2>5. EdgeHeard(sm'.out, 0, w, seen'.out, <<>>)
    BY <2>4 DEF EdgeHeard, Captures
  <2>6. <<>> \in AtMostOne /\ ahead[1] \in Nat
    BY <2>2 DEF AtMostOne, Ledger, Fits
  <2>7. Running(ahead[1], <<>>)'
    BY <1>7, <1>8, <1>9, <2>1, <2>2, <2>5 DEF Running
  <2>8. \E c \in Nat, a \in AtMostOne : Running(c, a)'
    BY <2>6, <2>7
  <2>9. ScheduleInv'
    BY <1>1, <1>7, <2>8 DEF ScheduleInv
  <2> QED BY <1>7, <1>8, <1>9, <2>1, <2>6, <2>7, <2>9
<1>10. CASE m.pc # 7
  <2>1. m.pc = 4 => ahead # <<>>
    <3> SUFFICES ASSUME m.pc = 4, ahead = <<>> PROVE FALSE
      OBVIOUS
    <3>1. rose = (w + cur) + 3 /\ Prompt < (w + cur) + 3 /\ rose >= 6
      BY <1>1, <1>4, <1>5, <1>6 DEF Fits
    <3>2. ~Captures(o, rose)
      BY <3>1 DEF Captures
    <3>3. o.rx # <<>> /\ (rose <= Prompt \/ rose <= 5)
      BY <1>4, <3>2 DEF EdgeHeard
    <3>4. /\ rose \in Nat /\ Prompt \in Nat /\ w \in Nat /\ cur \in Nat
      BY <1>1, <1>4, <1>6
    <3> QED BY <3>1, <3>3, <3>4
  <2>2. OutputAt(sm'.gen, rose + 1, w, cur, ahead)
    BY <1>1, <1>2, <1>4, <1>10, <2>1, OutputStep
  <2>3. level <=> rose <= w + 1
    BY <1>3, <1>5
  <2>4. o.rx # <<>> => seen.out \in Int /\ seen.out >= 0
    BY <1>4 DEF EdgeHeard, Captures
  <2>5. /\ o.pc = 5 => seen'.out = rose + 1
        /\ o.rx # <<>> => seen'.out = seen.out + 1
    <3>1. o.rx # <<>> => o.pc # 5
      BY <1>4 DEF EdgeHeard, Captures, Captured
    <3> QED BY <1>1, <1>6, <2>4, <3>1, Ages DEF Edges!AtMost
  <2>6. EdgeHeard(sm'.out, rose + 1, w, seen'.out, ahead)
    BY <1>1, <1>3, <1>4, <1>5, <1>6, <2>3, <2>5, CaptureStep
  <2>7. Running(cur, ahead)'
    BY <1>4, <1>7, <1>8, <1>10, <2>2, <2>6 DEF Running
  <2>8. \E c \in Nat, a \in AtMostOne : Running(c, a)'
    BY <2>7
  <2>9. ScheduleInv'
    BY <1>1, <1>7, <2>8 DEF ScheduleInv
  <2> QED BY <1>7, <1>8, <1>10, <2>7, <2>9
<1> QED BY <1>9, <1>10

LEMMA ScheduleReadGps ==
  ASSUME ScheduleInv, Edges!ReadGps
  PROVE  /\ ScheduleInv' /\ (Starting => Starting')
         /\ \A cur \in Nat, ahead \in AtMostOne : Running(cur, ahead) => Running(cur, ahead)'
<1>1. /\ sm' = [sm EXCEPT !.gps.rx = <<>>]
      /\ UNCHANGED <<width, freq, acc, seen, rose, wants, late>>
  BY DEF Edges!ReadGps
<1>2. {"gps", "out", "gen"} = DOMAIN sm
  BY DEF ScheduleInv
<1>3. {"gps", "out", "gen"} = DOMAIN sm' /\ sm'.out = sm.out /\ sm'.gen = sm.gen
  BY <1>1, <1>2
<1>4. Starting => Starting'
  BY <1>1, <1>3 DEF Starting, FirstWord
<1>5. \A cur \in Nat, ahead \in AtMostOne : Running(cur, ahead) => Running(cur, ahead)'
  BY <1>1, <1>3 DEF Running
<1> QED BY <1>1, <1>3, <1>4, <1>5 DEF ScheduleInv

(* The task hears of an edge and pushes the word for the period after this one.  *)
LEMMA ScheduleReadOut ==
  ASSUME ScheduleInv, Edges!ReadOut, NEW cur \in Nat, NEW ahead \in AtMostOne,
         Running(cur, ahead)
  PROVE  /\ ScheduleInv'
         /\ acc \in 0 .. (Unit - 1) /\ sm'.gps = sm.gps /\ sm'.out = [sm.out EXCEPT !.rx = <<>>]
         /\ \E c \in Corrs, word \in Int :
              /\ Edges!Turns(c, Edges!LatestCapture(sm.out.rx))
              /\ word = Edges!NextPeriod(acc, freq, c, width.out).word
              /\ Running(cur, <<word>>)'
<1> DEFINE m == sm.gen
           o == sm.out
           w == width.out
<1>1. PICK c \in Corrs : LET next == Edges!NextPeriod(acc, freq, c, w) IN
        /\ o.rx # <<>> /\ Edges!Turns(c, Edges!LatestCapture(o.rx))
        /\ sm' = [sm EXCEPT !.out.rx = <<>>, !.gen.tx = Edges!TryPush(@, next.word)]
        /\ wants' = Append(wants, (Clk - c) * Unit + freq)
        /\ acc' = next.acc
        /\ UNCHANGED <<width, freq, seen, rose, late>>
  BY DEF Edges!ReadOut
<1> DEFINE word == Edges!NextPeriod(acc, freq, c, w).word
<1>4. /\ rose \in Nat /\ OutputAt(m, rose, w, cur, ahead) /\ Captured(o, rose, w) /\ ahead = <<>>
      /\ Ledger(cur, <<>>, w, wants, late, acc)
  BY <1>1 DEF Running, EdgeHeard, Captures
<1>5. m.tx = <<>> /\ m.pc \in {4, 8, 9, 10}
  BY <1>4 DEF OutputAt
<1>6. /\ {"gps", "out", "gen"} = DOMAIN sm /\ o \in Machines /\ m \in Machines
      /\ w \in Widths /\ freq \in Freqs /\ cur \in Int
  BY DEF ScheduleInv
<1>7. /\ Ledger(cur, <<word>>, w, wants', late, acc')
      /\ word \in Int
  <2>1. Ledger(cur, <<word>>, w, wants', late, acc')
    BY <1>1, <1>4, <1>6, LedgerFeeds
  <2>2. acc \in 0 .. (Unit - 1)
    BY <1>4 DEF Ledger
  <2>3. word \in Int
    BY <1>6, <2>2, WordFits
  <2> QED BY <2>1, <2>3
<1>8. sm' = [sm EXCEPT !.out.rx = <<>>, !.gen.tx = Edges!TryPush(@, word)]
  BY <1>1
<1>3. acc \in 0 .. (Unit - 1) /\ Edges!Turns(c, Edges!LatestCapture(o.rx))
  BY <1>1, <1>4 DEF Ledger
<1> HIDE DEF word
<1>9. Edges!TryPush(<<>>, word) = <<word>>
  <2>1. Depth \in Nat \ {0} /\ Len(<<>>) = 0 /\ Append(<<>>, word) = <<word>>
    BY <1>7, ScheduleSizes
  <2> QED BY <2>1 DEF Edges!TryPush
<1>10. /\ {"gps", "out", "gen"} = DOMAIN sm'
       /\ sm'.out = [o EXCEPT !.rx = <<>>] /\ sm'.gen = [m EXCEPT !.tx = <<word>>]
       /\ sm'.gps = sm.gps
  BY <1>5, <1>6, <1>8, <1>9
<1>11. sm'.out \in Machines /\ sm'.gen \in Machines
  <2>1. <<>> \in Seq(Int) /\ <<word>> \in Seq(Int)
    BY <1>7
  <2> QED BY <1>6, <1>10, <2>1 DEF Machines
<1>12. /\ sm'.out.pc = o.pc /\ sm'.out.rx = <<>>
       /\ sm'.gen.pc = m.pc /\ sm'.gen.x = m.x /\ sm'.gen.y = m.y /\ sm'.gen.isr = m.isr
       /\ sm'.gen.tx = <<word>>
  BY <1>6, <1>10 DEF Machines
<1>13. sm'.gen.pin = m.pin
  BY <1>6, <1>10, Zenon DEF Machines
<1>14. <<word>> # <<>> /\ <<word>> \in AtMostOne
  BY <1>7, TwoWords DEF AtMostOne
<1>15. OutputAt(sm'.gen, rose, w, cur, <<word>>)
  BY <1>4, <1>5, <1>12, <1>13 DEF OutputAt
<1>16. EdgeHeard(sm'.out, rose, w, seen.out, <<word>>)
  BY <1>4, <1>12, <1>14 DEF EdgeHeard, Captured
<1>17. width' = width /\ freq' = freq /\ seen' = seen /\ rose' = rose /\ late' = late
  BY <1>1
<1>18. PICK added \in AtMostOne : added = <<word>>
  BY <1>14
<1>19. OutputAt(sm'.gen, rose, w, cur, added) /\ EdgeHeard(sm'.out, rose, w, seen.out, added)
  BY <1>15, <1>16, <1>18
<1>20. Ledger(cur, added, w, wants', late, acc')
  BY <1>7, <1>18
<1>21. Running(cur, added)'
  BY <1>4, <1>17, <1>19, <1>20 DEF Running
<1>22. \E k \in Nat, a \in AtMostOne : Running(k, a)'
  BY <1>21
<1>23. ScheduleInv'
  BY <1>6, <1>10, <1>11, <1>17, <1>22 DEF ScheduleInv
<1>24. PICK pushed \in Int : pushed = word
  BY <1>7
<1>25. Running(cur, <<pushed>>)'
  BY <1>18, <1>21, <1>24
<1>26. pushed = Edges!NextPeriod(acc, freq, c, w).word
  BY <1>24 DEF word
<1> QED BY <1>3, <1>10, <1>23, <1>25, <1>26

LEMMA ScheduleNext == ScheduleInv /\ [DataNext]_dataVars => ScheduleInv'
<1> SUFFICES ASSUME ScheduleInv, [DataNext]_dataVars PROVE ScheduleInv'
  OBVIOUS
<1>1. CASE Edges!Next
  <2>1. CASE Edges!Clock
    <3>1. CASE Starting
      BY <2>1, <3>1, ScheduleStarts
    <3>2. CASE ~Starting
      <4>1. \E cur \in Nat, ahead \in AtMostOne : Running(cur, ahead)
        BY <3>2 DEF ScheduleInv
      <4> QED BY <2>1, <4>1, ScheduleClock
    <3> QED BY <3>1, <3>2
  <2>2. CASE Edges!ReadGps
    BY <2>2, ScheduleReadGps
  <2>3. CASE Edges!ReadOut
    <3>1. ~Starting
      BY <2>3 DEF Edges!ReadOut, Starting, Awaits
    <3>2. \E cur \in Nat, ahead \in AtMostOne : Running(cur, ahead)
      BY <3>1 DEF ScheduleInv
    <3> QED BY <2>3, <3>2, ScheduleReadOut
  <2> QED BY <1>1, <2>1, <2>2, <2>3 DEF Edges!Next
<1>2. CASE UNCHANGED edges
  <2>1. UNCHANGED <<sm, width, freq, acc, seen, rose, wants, late>>
    BY <1>2 DEF edges
  <2>2. Starting => Starting'
    BY <2>1 DEF Starting, FirstWord
  <2>3. \A cur \in Nat, ahead \in AtMostOne : Running(cur, ahead) => Running(cur, ahead)'
    BY <2>1 DEF Running
  <2> QED BY <2>1, <2>2, <2>3 DEF ScheduleInv
<1> QED BY <1>1, <1>2 DEF DataNext, dataVars

LEMMA OnSchedule == ScheduleInv => EdgesOnSchedule
BY DEF ScheduleInv, Starting, Running, Ledger, EdgesOnSchedule, Edges!EdgesOnSchedule

(* Whatever the width, the frequency and the corrections, and for however long  *)
(* it runs, the output's edges come within a cycle of their ideal times, and    *)
(* the error of a dithered period never adds up (lib.rs:66-71, 521-567).        *)
THEOREM EdgesKeepSchedule == DataSpec => []EdgesOnSchedule
<1>1. DataInit => ScheduleInv
  BY ScheduleInit DEF DataInit
<1> QED BY <1>1, ScheduleNext, OnSchedule, PTL DEF DataSpec
-----------------------------------------------------------------------------
(* PhaseFaithful.  A capture counter goes round in a lap of two cycles a count    *)
(* and one for the wrap, with three more for every pulse it has seen end.        *)
Lap == 2 * Word + 1
Laps == {Lap * k : k \in Int}

(* Where in its lap a capture machine is, modulo a lap.                          *)
Place(m) ==
  (CASE m.pc = 1 -> 0 [] m.pc \in {2, 4, 7} -> 1 [] m.pc = 3 -> -1 [] m.pc \in {5, 8} -> 2
     [] m.pc = 6 -> 3) - 2 * m.x

\* whether the pulse is over whose edge was r cycles ago
Toll(m, r) == IF m.pc \in 4 .. 8 \/ r \in 0 .. 2 THEN 0 ELSE 3
Where(m, r) == Place(m) + Toll(m, r)

\* the wrap is behind an instruction of its own, and the count in hand is not yet pushed
Counter(m) ==
  /\ m.pc \in 1 .. 8 /\ m.x \in 0 .. (Word - 1)
  /\ m.pc \in {3, 7} => m.x = Word - 1
  /\ m.pc = 5 => m.isr = m.x

(* An edge is tested for within two cycles, and after two only behind a wrap.    *)
Catches(m, r) ==
  /\ Captures(m, r)
  /\ (r = 2 /\ m.pc = 1) \/ (r = 3 /\ m.pc = 4) \/ r = 4 => m.x = Word - 1

(* The count v was taken for an edge `age` cycles back, `later` edges ago.        *)
Stamps(m, r, v, age, later) ==
  /\ v \in 0 .. (Word - 1)
  /\ \E l \in Laps, d \in 0 .. 2 :
       /\ age = (((Where(m, r) + 3 * later) + l) + 2 * v) + d
       /\ d = 2 => v = Word - 1

(* What a capture and its reader know of the last edge, r cycles ago and high for *)
(* w + 2, and of the edge before, a `period` earlier: the value read last is v,   *)
(* and `age` says how old the edge is that was pushed last.                      *)
Catching(m, r, v, age, period) ==
  /\ Catches(m, r)
  /\ \/ v = Edges!Unset /\ age = Edges!Unset
     \/ age = r + period /\ Stamps(m, r, v, age, 1)
Unread(m, r, w, v, age, period) ==
  /\ Captured(m, r, w) /\ age = r /\ (r <= Prompt \/ r <= 5)
  /\ \E x \in Int : m.rx = <<x>> /\ Stamps(m, r, x, r, 0)
  /\ v # Edges!Unset => Stamps(m, r, v, r + period, 1)
Reads(m, r, w, v, age) ==
  /\ Captured(m, r, w) /\ age = r /\ m.rx = <<>> /\ Stamps(m, r, v, r, 0)
Watches(m, r, w, v, age, period) ==
  \/ Catching(m, r, v, age, period)
  \/ Unread(m, r, w, v, age, period)
  \/ Reads(m, r, w, v, age)

(* The receiver's edges, of which there may have been none yet.                  *)
GpsWatched ==
  \/ /\ Awaits(sm.gps) /\ seen.gps = Edges!Unset /\ cap.gps = Edges!Unset
     /\ t \in (Clk - 9) .. (Clk - 1)
  \/ Watches(sm.gps, t, width.gps - 2, cap.gps, seen.gps, Clk)

\* the machines started together, one `offset` counts ahead, and the output has had
\* `apart` edges more
InStep(apart) ==
  \E l \in Laps :
    (Where(sm.out, rose) + 3 * apart) + l = Where(sm.gps, t) - 2 * ((0 - offset) % Word)

\* cycles by which the period of a word is over a second
Slip(word) == ((word + Edges!OutputOverhead) + width.out) - Clk
Gentle(word) == 2 * Slip(word) <= Stray - (2 * Near + 6) /\ -(2 * Slip(word)) <= Stray - (2 * Near + 6)
Strays == (-Stray) .. Stray
Seconds(k) == IF k = 1 THEN Clk ELSE IF k = -1 THEN -Clk ELSE 0

(* The output's last edge is within Stray of the receiver's second, and so were   *)
(* the edge before and will be the ends of the periods its words make.           *)
NearSecond(cur, ahead, phase, apart, period) ==
  /\ t - rose = phase + Seconds(apart)
  /\ phase - (period - Clk) \in Strays
  /\ Gentle(cur) /\ phase + Slip(cur) \in Strays
  /\ ahead # <<>> => Gentle(ahead[1]) /\ (phase + Slip(cur)) + Slip(ahead[1]) \in Strays

(* No edge of the receiver has been read: there has been one at most.            *)
Unpaired(phase, apart) ==
  cap.gps = Edges!Unset =>
    phase \in -2 .. 3 /\ apart \in 0 .. 1 /\ (seen.gps = Edges!Unset /\ t >= 5 => apart = 1)

Boots ==
  /\ Starting /\ seen.gps = Edges!Unset /\ seen.out = Edges!Unset
  /\ cap.gps = Edges!Unset /\ cap.out = Edges!Unset
  /\ \/ t = (sm.gen.pc + Clk) - 10 /\ InStep(0)
     \/ sm.gen.pc <= 4 /\ t = (sm.gen.pc + Clk) - 5 /\ InStep(0)
     \/ sm.gen.pc >= 5 /\ t = sm.gen.pc - 5 /\ InStep(-1)

Runs(cur, ahead, phase, apart, period) ==
  /\ Running(cur, ahead) /\ NearSecond(cur, ahead, phase, apart, period) /\ Unpaired(phase, apart)
  /\ Watches(sm.out, rose, width.out, cap.out, seen.out, period)
  /\ InStep(apart)

GpsInv ==
  /\ sm.gps \in Machines /\ Counter(sm.gps) /\ width.gps \in Widths /\ t \in 0 .. (Clk - 1)
  /\ DOMAIN cap = Edges!Captures /\ GpsWatched

PhaseTypes ==
  /\ ScheduleInv /\ GpsInv /\ Counter(sm.out) /\ offset \in Offsets

PhaseInv ==
  /\ PhaseTypes
  /\ \/ Boots
     \/ \E cur \in Nat, ahead \in AtMostOne, phase \in Strays, apart \in -1 .. 1, period \in Nat :
          Runs(cur, ahead, phase, apart, period)
-----------------------------------------------------------------------------
LEMMA PhaseSizes ==
  /\ Word \in Nat \ {0} /\ Clk \in Nat \ {0} /\ Word > Clk /\ Near \in Nat /\ Stray \in Nat
  /\ MaxLag \in Nat /\ 4 * MaxLag < Clk /\ Prompt \in Nat /\ Depth \in Nat \ {0}
  /\ 2 * Stray + 12 < Clk /\ Prompt + Stray < Clk /\ (Clk + Stray) + 6 < Word
  /\ Edges!Unset = -1 /\ Edges!OutputOverhead = 7 /\ Edges!CyclesPerTick = 2 /\ Clk % 2 = 0
  /\ \A w \in Widths : w \in 5 .. (Clk - 9)
  /\ \A v \in Offsets : v \in 0 .. (Word - 1)
  /\ Lap \in Nat /\ Lap = 2 * Word + 1
<1>1. /\ Clk % Edges!CyclesPerTick = 0 /\ Edges!CyclesPerTick = 2
  BY StrayAssumption DEF Edges!CyclesPerTick
<1> QED BY <1>1, ScheduleSizes, PioAssumption, StrayAssumption DEF Lap

LEMMA LapsClosed ==
  /\ 0 \in Laps /\ Lap \in Laps /\ -Lap \in Laps
  /\ \A a \in Laps : a \in Int /\ (-Lap < a /\ a < Lap => a = 0)
  /\ \A a, b \in Laps : a + b \in Laps /\ a - b \in Laps
<1>1. Lap \in Nat /\ Lap > 0
  BY PhaseSizes
<1>2. 0 \in Laps /\ Lap \in Laps /\ -Lap \in Laps
  <2>1. Lap * 0 = 0 /\ Lap * 1 = Lap /\ Lap * (-1) = -Lap
    BY <1>1
  <2> QED BY <2>1 DEF Laps
<1>3. ASSUME NEW a \in Laps PROVE a \in Int /\ (-Lap < a /\ a < Lap => a = 0)
  <2>1. PICK k \in Int : a = Lap * k
    BY DEF Laps
  <2>2. a \in Int
    BY <1>1, <2>1
  <2>3. k >= 1 => a >= Lap
    <3>1. k >= 1 => Lap * (k - 1) >= 0
      BY <1>1, <2>1
    <3>2. Lap * (k - 1) = Lap * k - Lap
      BY <1>1, <2>1
    <3> QED BY <1>1, <2>1, <2>2, <3>1, <3>2
  <2>4. k <= -1 => a <= -Lap
    <3>1. k <= -1 => Lap * (-1 - k) >= 0
      BY <1>1, <2>1
    <3>2. Lap * (-1 - k) = -Lap - Lap * k
      BY <1>1, <2>1
    <3> QED BY <1>1, <2>1, <2>2, <3>1, <3>2
  <2>5. k = 0 => a = 0
    BY <1>1, <2>1
  <2> QED BY <1>1, <2>1, <2>2, <2>3, <2>4, <2>5
<1>4. ASSUME NEW a \in Laps, NEW b \in Laps PROVE a + b \in Laps /\ a - b \in Laps
  <2>1. PICK i \in Int : a = Lap * i
    BY DEF Laps
  <2>2. PICK j \in Int : b = Lap * j
    BY DEF Laps
  <2>3. a + b = Lap * (i + j) /\ a - b = Lap * (i - j)
    BY <1>1, <2>1, <2>2
  <2> QED BY <2>1, <2>2, <2>3 DEF Laps
<1> QED BY <1>2, <1>3, <1>4

LEMMA Places ==
  ASSUME NEW m
  PROVE  /\ m.pc = 1 => Place(m) = 0 - 2 * m.x
         /\ m.pc \in {2, 4, 7} => Place(m) = 1 - 2 * m.x
         /\ m.pc = 3 => Place(m) = (-1) - 2 * m.x
         /\ m.pc \in {5, 8} => Place(m) = 2 - 2 * m.x
         /\ m.pc = 6 => Place(m) = 3 - 2 * m.x
<1>1. m.pc = 1 => Place(m) = 0 - 2 * m.x
  BY DEF Place
<1>2. m.pc \in {2, 4, 7} => Place(m) = 1 - 2 * m.x
  BY DEF Place
<1>3. m.pc = 3 => Place(m) = (-1) - 2 * m.x
  BY DEF Place
<1>4. m.pc \in {5, 8} => Place(m) = 2 - 2 * m.x
  BY DEF Place
<1>5. m.pc = 6 => Place(m) = 3 - 2 * m.x
  BY DEF Place
<1> QED BY <1>1, <1>2, <1>3, <1>4, <1>5

(* A capture counter goes one cycle round its lap, three less where a pulse ends. *)
LEMMA PlaceStep ==
  ASSUME NEW m \in Machines, Counter(m), NEW level, NEW then \in Machines,
         Moves(m, Edges!CaptureProgram[m.pc], level, Edges!CaptureProgram, then)
  PROVE  /\ CaptureMoves(m, level, then) /\ Counter(then) /\ Place(m) \in Int /\ Place(then) \in Int
         /\ \E l \in Laps : Place(then) = ((Place(m) + 1) - (IF m.pc = 8 /\ ~level THEN 3 ELSE 0)) + l
<1>1. m.pc \in 1 .. 8 /\ m.x \in 0 .. (Word - 1) /\ Word \in Nat \ {0} /\ Lap = 2 * Word + 1
  BY PhaseSizes DEF Counter
<1>2. CaptureMoves(m, level, then)
  BY <1>1, CaptureCycle
<1>3. Edges!Lowered(m.x) = IF m.x # 0 THEN m.x - 1 ELSE Word - 1
  <2>1. CASE m.x = 0
    <3>1. (0 - 1) % Word = Word - 1
      BY <1>1
    <3> QED BY <2>1, <3>1 DEF Edges!Lowered
  <2>2. CASE m.x # 0
    BY <1>1, <2>2, Lowers
  <2> QED BY <2>1, <2>2
<1>4. then.x \in 0 .. (Word - 1) /\ then.pc \in 1 .. 8
  BY <1>1, <1>2, <1>3 DEF CaptureMoves
<1>5. Counter(then)
  BY <1>1, <1>2, <1>3, <1>4 DEF CaptureMoves, Counter
<1>6. Place(m) \in Int /\ Place(then) \in Int
  BY <1>1, <1>4, Places
<1> DEFINE toll == IF m.pc = 8 /\ ~level THEN 3 ELSE 0
<1>7. toll \in Int /\ (m.pc # 8 => toll = 0)
  OBVIOUS
<1>8. Place(then) = (Place(m) + 1) - toll \/ Place(then) = ((Place(m) + 1) - toll) + (-Lap)
  <2>1. CASE m.pc = 1
    <3>1. then.pc \in {2, 4} /\ then.x = m.x
      BY <1>2, <2>1 DEF CaptureMoves
    <3>2. Place(m) = 0 - 2 * m.x /\ Place(then) = 1 - 2 * m.x
      BY <2>1, <3>1, Places
    <3> HIDE DEF toll
    <3> QED BY <1>1, <1>7, <2>1, <3>2
  <2>2. CASE m.pc = 2
    <3>1. then.pc = (IF m.x # 0 THEN 1 ELSE 3) /\ then.x = Edges!Lowered(m.x)
      BY <1>2, <2>2 DEF CaptureMoves
    <3>2. /\ Place(m) = 1 - 2 * m.x
          /\ Place(then) = IF m.x # 0 THEN 0 - 2 * then.x ELSE (-1) - 2 * then.x
      BY <2>2, <3>1, Places
    <3> HIDE DEF toll
    <3> QED BY <1>1, <1>3, <1>7, <2>2, <3>1, <3>2
  <2>3. CASE m.pc = 3
    <3>1. then.pc = 1 /\ then.x = m.x
      BY <1>2, <2>3 DEF CaptureMoves
    <3>2. Place(m) = (-1) - 2 * m.x /\ Place(then) = 0 - 2 * m.x
      BY <2>3, <3>1, Places
    <3> HIDE DEF toll
    <3> QED BY <1>1, <1>7, <2>3, <3>2
  <2>4. CASE m.pc \in {4, 5}
    <3>1. then.pc = m.pc + 1 /\ then.x = m.x
      BY <1>2, <2>4 DEF CaptureMoves
    <3>2. Place(m) = (m.pc - 3) - 2 * m.x /\ Place(then) = (m.pc - 2) - 2 * m.x
      BY <2>4, <3>1, Places
    <3> HIDE DEF toll
    <3> QED BY <1>1, <1>7, <2>4, <3>2
  <2>5. CASE m.pc = 6
    <3>1. then.pc = (IF m.x # 0 THEN 8 ELSE 7) /\ then.x = Edges!Lowered(m.x)
      BY <1>2, <2>5 DEF CaptureMoves
    <3>2. /\ Place(m) = 3 - 2 * m.x
          /\ Place(then) = IF m.x # 0 THEN 2 - 2 * then.x ELSE 1 - 2 * then.x
      BY <2>5, <3>1, Places
    <3> HIDE DEF toll
    <3> QED BY <1>1, <1>3, <1>7, <2>5, <3>1, <3>2
  <2>6. CASE m.pc = 7
    <3>1. then.pc = 8 /\ then.x = m.x
      BY <1>2, <2>6 DEF CaptureMoves
    <3>2. Place(m) = 1 - 2 * m.x /\ Place(then) = 2 - 2 * m.x
      BY <2>6, <3>1, Places
    <3> HIDE DEF toll
    <3> QED BY <1>1, <1>7, <2>6, <3>2
  <2>7. CASE m.pc = 8
    <3>1. then.pc = (IF level THEN 6 ELSE 1) /\ then.x = m.x
      BY <1>2, <2>7 DEF CaptureMoves
    <3>2. Place(m) = 2 - 2 * m.x /\ Place(then) = IF level THEN 3 - 2 * m.x ELSE 0 - 2 * m.x
      BY <2>7, <3>1, Places
    <3> QED BY <1>1, <2>7, <3>2
  <2> QED BY <1>1, <2>1, <2>2, <2>3, <2>4, <2>5, <2>6, <2>7
<1> HIDE DEF toll
<1>9. \E l \in Laps : Place(then) = ((Place(m) + 1) - toll) + l
  <2>1. CASE Place(then) = (Place(m) + 1) - toll
    <3>1. Place(then) = ((Place(m) + 1) - toll) + 0
      BY <1>6, <1>7, <2>1
    <3> QED BY <3>1, LapsClosed
  <2>2. CASE Place(then) = ((Place(m) + 1) - toll) + (-Lap)
    BY <2>2, LapsClosed
  <2> QED BY <1>8, <2>1, <2>2
<1> QED BY <1>2, <1>5, <1>6, <1>9 DEF toll

LEMMA WhereTyped ==
  ASSUME NEW m \in Machines, Counter(m), NEW r
  PROVE  Toll(m, r) \in {0, 3} /\ Place(m) \in Int /\ Where(m, r) \in Int
<1>1. Place(m) \in Int
  <2>1. m.pc \in 1 .. 8 /\ m.x \in Int
    BY DEF Counter, Machines
  <2> QED BY <2>1, Places
<1>2. Toll(m, r) \in {0, 3}
  BY DEF Toll
<1> QED BY <1>1, <1>2 DEF Where

(* A cycle on, over `edge` edges.                                                *)
Moved(m, r, then, s, edge) ==
  \E l \in Laps : Where(then, s) = ((Where(m, r) + 1) - 3 * edge) + l

(* Between two edges the counter goes on a cycle a cycle, the pulse counted once. *)
LEMMA WhereStep ==
  ASSUME NEW m \in Machines, Counter(m), NEW r \in Nat, NEW w \in Nat, w >= 3,
         Catches(m, r) \/ Captured(m, r, w), NEW level, level <=> r <= w + 1,
         NEW then \in Machines,
         Moves(m, Edges!CaptureProgram[m.pc], level, Edges!CaptureProgram, then)
  PROVE  CaptureMoves(m, level, then) /\ Counter(then) /\ Moved(m, r, then, r + 1, 0)
<1>1. /\ CaptureMoves(m, level, then) /\ Counter(then) /\ Place(m) \in Int /\ Place(then) \in Int
  BY PlaceStep
<1>2. PICK l \in Laps : Place(then) = ((Place(m) + 1) - (IF m.pc = 8 /\ ~level THEN 3 ELSE 0)) + l
  BY PlaceStep
<1>3. m.pc \in 1 .. 8 /\ m.pc \in Nat
  BY DEF Counter
<1>4. Toll(then, r + 1) = Toll(m, r) + (IF m.pc = 8 /\ ~level THEN 3 ELSE 0)
  <2>1. CASE Catches(m, r)
    <3>1. Captures(m, r) /\ r \in 0 .. 4 /\ level
      BY <2>1 DEF Catches, Captures
    <3>2. m.pc \in 1 .. 5 /\ (r \in 0 .. 2 \/ m.pc \in 4 .. 5) /\ (r = 2 => m.pc \in {1, 4, 5})
      BY <3>1 DEF Captures
    <3>3. then.pc \in 4 .. 8 \/ r + 1 \in 0 .. 2
      BY <1>1, <3>1, <3>2 DEF CaptureMoves
    <3> QED BY <3>1, <3>2, <3>3 DEF Toll
  <2>2. CASE Captured(m, r, w)
    <3>1. m.pc \in 6 .. 8 \/ (m.pc \in 1 .. 3 /\ r >= w + 2)
      BY <2>2 DEF Captured
    <3>2. CASE m.pc \in {6, 7}
      <4>1. then.pc \in 7 .. 8
        BY <1>1, <3>2 DEF CaptureMoves
      <4> QED BY <3>2, <4>1 DEF Toll
    <3>3. CASE m.pc = 8 /\ level
      <4>1. then.pc = 6
        BY <1>1, <3>3 DEF CaptureMoves
      <4> QED BY <3>3, <4>1 DEF Toll
    <3>4. CASE m.pc = 8 /\ ~level
      <4>1. then.pc = 1 /\ r + 1 > 2
        BY <1>1, <3>4 DEF CaptureMoves
      <4> QED BY <3>4, <4>1 DEF Toll
    <3>5. CASE m.pc \in 1 .. 3 /\ r >= w + 2
      <4>1. then.pc \in 1 .. 3 /\ r > 2 /\ r + 1 > 2
        BY <1>1, <3>5 DEF CaptureMoves
      <4> QED BY <3>5, <4>1 DEF Toll
    <3> QED BY <3>1, <3>2, <3>3, <3>4, <3>5
  <2> QED BY <2>1, <2>2
<1>5. Toll(m, r) \in Int /\ l \in Int
  BY WhereTyped, LapsClosed
<1>6. Where(then, r + 1) = ((Where(m, r) + 1) - 3 * 0) + l
  <2> DEFINE toll == IF m.pc = 8 /\ ~level THEN 3 ELSE 0
  <2>1. toll \in Int /\ Toll(then, r + 1) = Toll(m, r) + toll /\ Place(then) = ((Place(m) + 1) - toll) + l
    BY <1>2, <1>4
  <2> HIDE DEF toll
  <2> QED BY <1>1, <1>5, <2>1 DEF Where
<1> QED BY <1>1, <1>6 DEF Moved

(* At an edge the pulse before it is over, and the machine is in the low loop.   *)
LEMMA WhereEdge ==
  ASSUME NEW m \in Machines, Counter(m), NEW r \in Int, r \notin 0 .. 2, m.pc \in 1 .. 3,
         m.rx = <<>>, NEW level, ~level, NEW then \in Machines, NEW s \in Int,
         Moves(m, Edges!CaptureProgram[m.pc], level, Edges!CaptureProgram, then)
  PROVE  /\ CaptureMoves(m, level, then) /\ Counter(then) /\ Awaits(then)
         /\ s = 0 => Moved(m, r, then, s, 1)
         /\ s \notin 0 .. 2 => Moved(m, r, then, s, 0)
<1>1. /\ CaptureMoves(m, level, then) /\ Counter(then) /\ Place(m) \in Int /\ Place(then) \in Int
  BY PlaceStep
<1>2. PICK l \in Laps : Place(then) = ((Place(m) + 1) - (IF m.pc = 8 /\ ~level THEN 3 ELSE 0)) + l
  BY PlaceStep
<1>3. Awaits(then)
  BY <1>1 DEF CaptureMoves, Awaits
<1>4. Place(then) = (Place(m) + 1) + l /\ l \in Int
  BY <1>1, <1>2, LapsClosed
<1>5. Toll(m, r) = 3 /\ Toll(then, s) \in Int
  BY WhereTyped DEF Toll
<1>6. s = 0 => Moved(m, r, then, s, 1)
  <2> SUFFICES ASSUME s = 0 PROVE Where(then, s) = ((Where(m, r) + 1) - 3 * 1) + l
    BY DEF Moved
  <2>1. Toll(then, s) = 0
    BY DEF Toll
  <2> QED BY <1>1, <1>4, <1>5, <2>1 DEF Where
<1>7. s \notin 0 .. 2 => Moved(m, r, then, s, 0)
  <2> SUFFICES ASSUME s \notin 0 .. 2 PROVE Where(then, s) = ((Where(m, r) + 1) - 3 * 0) + l
    BY DEF Moved
  <2>1. Toll(then, s) = 3
    BY <1>3 DEF Toll, Awaits
  <2> QED BY <1>1, <1>4, <1>5, <2>1 DEF Where
<1> QED BY <1>1, <1>3, <1>6, <1>7

LEMMA StampsOn ==
  ASSUME NEW m \in Machines, Counter(m), NEW r \in Int, NEW then \in Machines, Counter(then),
         NEW s \in Int, NEW edge \in Int, NEW later \in Int,
         Moved(m, r, then, s, edge), NEW v, NEW age, Stamps(m, r, v, age, later)
  PROVE  Stamps(then, s, v, age + 1, later + edge) /\ age \in Int /\ v \in 0 .. (Word - 1)
<1>1. PICK k \in Laps : Where(then, s) = ((Where(m, r) + 1) - 3 * edge) + k
  BY DEF Moved
<1>2. v \in 0 .. (Word - 1)
  BY DEF Stamps
<1>3. PICK l \in Laps, d \in 0 .. 2 :
        /\ age = (((Where(m, r) + 3 * later) + l) + 2 * v) + d
        /\ d = 2 => v = Word - 1
  BY DEF Stamps
<1>4. Where(m, r) \in Int /\ Where(then, s) \in Int /\ k \in Int /\ l \in Int /\ l - k \in Laps /\ v \in Int
  <2>1. Where(m, r) \in Int /\ Where(then, s) \in Int
    BY WhereTyped
  <2>2. k \in Int /\ l \in Int /\ l - k \in Laps
    BY LapsClosed
  <2> QED BY <1>2, <2>1, <2>2, PhaseSizes
<1>5. age + 1 = (((Where(then, s) + 3 * (later + edge)) + (l - k)) + 2 * v) + d /\ age \in Int
  BY <1>1, <1>3, <1>4
<1> QED BY <1>2, <1>3, <1>4, <1>5 DEF Stamps

(* The count pushed is that of two to four cycles ago.                          *)
LEMMA StampTaken ==
  ASSUME NEW m \in Machines, Counter(m), NEW r \in Nat, Catches(m, r), m.pc = 5,
         NEW then \in Machines, NEW level, CaptureMoves(m, level, then)
  PROVE  Stamps(then, r + 1, m.isr, r + 1, 0)
<1>1. r \in 2 .. 4 /\ (r = 4 => m.x = Word - 1)
  BY DEF Catches, Captures
<1>2. m.isr = m.x /\ m.x \in 0 .. (Word - 1) /\ Word \in Nat
  BY PhaseSizes DEF Counter
<1>3. then.pc = 6 /\ then.x = m.x
  BY DEF CaptureMoves
<1>4. Place(then) = 3 - 2 * m.x /\ Toll(then, r + 1) = 0
  BY <1>3, Places DEF Toll
<1>5. Where(then, r + 1) = 3 - 2 * m.x
  BY <1>2, <1>4 DEF Where
<1>6. r + 1 = (((Where(then, r + 1) + 3 * 0) + 0) + 2 * m.isr) + (r - 2)
  BY <1>1, <1>2, <1>5
<1>7. r - 2 \in 0 .. 2 /\ (r - 2 = 2 => m.isr = Word - 1)
  BY <1>1, <1>2
<1> QED BY <1>2, <1>6, <1>7, LapsClosed DEF Stamps

LEMMA CatchesOn ==
  ASSUME NEW m \in Machines, Counter(m), NEW r \in Nat, Catches(m, r), m.pc # 5,
         NEW level, level, NEW then, CaptureMoves(m, level, then), Counter(then)
  PROVE  Catches(then, r + 1)
<1>1. Captures(m, r) /\ r \in 0 .. 4 /\ m.pc \in 1 .. 4 /\ m.rx = <<>>
  BY DEF Catches, Captures, Counter
<1>2. then.rx = <<>> /\ (m.pc # 2 => then.x = m.x)
  BY <1>1 DEF CaptureMoves
<1>3. Captures(then, r + 1)
  BY <1>1, <1>2 DEF CaptureMoves, Captures
<1>4. r + 1 = 2 /\ then.pc = 1 => then.x = Word - 1
  BY <1>1, <1>2 DEF CaptureMoves, Captures, Counter
<1>5. r + 1 = 3 /\ then.pc = 4 => then.x = Word - 1
  BY <1>1, <1>2 DEF CaptureMoves, Captures, Catches
<1>6. r + 1 = 4 => then.x = Word - 1
  BY <1>1, <1>2 DEF CaptureMoves, Captures, Catches
<1> QED BY <1>3, <1>4, <1>5, <1>6 DEF Catches

LEMMA WatchStep ==
  ASSUME NEW m \in Machines, Counter(m), NEW r \in Nat, NEW w \in Nat, w >= 3,
         NEW v, NEW age, NEW period \in Nat, Watches(m, r, w, v, age, period),
         m.rx # <<>> => age < Prompt, NEW level, level <=> r <= w + 1, NEW then \in Machines,
         Moves(m, Edges!CaptureProgram[m.pc], level, Edges!CaptureProgram, then),
         NEW ageNext, m.pc = 5 => ageNext = r + 1,
         m.pc # 5 => ageNext = IF age = Edges!Unset THEN Edges!Unset ELSE age + 1
  PROVE  /\ Counter(then) /\ Watches(then, r + 1, w, v, ageNext, period)
         /\ Moved(m, r, then, r + 1, 0)
<1>1. Catches(m, r) \/ Captured(m, r, w)
  BY DEF Watches, Catching, Unread, Reads
<1>2. CaptureMoves(m, level, then) /\ Counter(then) /\ Moved(m, r, then, r + 1, 0)
  BY <1>1, WhereStep
<1>4. /\ Edges!Unset = -1 /\ Prompt \in Nat /\ Depth \in Nat \ {0} /\ r \in Int /\ r + 1 \in Int
      /\ m.isr \in Int
  BY PhaseSizes DEF Machines
<1>5. ASSUME NEW x, NEW a, NEW later \in {0, 1}, Stamps(m, r, x, a, later)
      PROVE  Stamps(then, r + 1, x, a + 1, later)
  <2>1. later \in Int /\ 0 \in Int /\ later + 0 = later
    OBVIOUS
  <2>2. Stamps(then, r + 1, x, a + 1, later + 0)
    BY <1>2, <1>4, <1>5, <2>1, StampsOn
  <2> QED BY <2>1, <2>2
<1>6. CASE Catching(m, r, v, age, period) /\ m.pc # 5
  <2>1. Catches(m, r) /\ level
    BY <1>6 DEF Catching, Catches, Captures
  <2>2. Catches(then, r + 1)
    BY <1>2, <1>6, <2>1, CatchesOn
  <2>3. CASE v = Edges!Unset /\ age = Edges!Unset
    <3>1. ageNext = Edges!Unset
      BY <1>6, <2>3
    <3>2. Catching(then, r + 1, v, ageNext, period)
      BY <2>2, <2>3, <3>1 DEF Catching
    <3> QED BY <1>2, <3>2 DEF Watches
  <2>4. CASE age = r + period /\ Stamps(m, r, v, age, 1)
    <3>1. Stamps(then, r + 1, v, age + 1, 1)
      BY <1>5, <2>4
    <3>2. ageNext = age + 1 /\ age + 1 = (r + 1) + period
      BY <1>4, <1>6, <2>4
    <3>3. Catching(then, r + 1, v, ageNext, period)
      BY <2>2, <3>1, <3>2 DEF Catching
    <3> QED BY <1>2, <3>3 DEF Watches
  <2> QED BY <1>6, <2>3, <2>4 DEF Catching
<1>7. CASE Catching(m, r, v, age, period) /\ m.pc = 5
  <2>1. Catches(m, r) /\ r \in 2 .. 4 /\ m.rx = <<>>
    BY <1>7 DEF Catching, Catches, Captures
  <2>2. then.pc = 6 /\ then.rx = <<m.isr>>
    <3>1. Len(<<>>) = 0 /\ Append(<<>>, m.isr) = <<m.isr>>
      BY <1>4
    <3> QED BY <1>2, <1>4, <1>7, <2>1, <3>1 DEF CaptureMoves
  <2>3. Captured(then, r + 1, w)
    BY <2>1, <2>2 DEF Captured
  <2>4. Stamps(then, r + 1, m.isr, r + 1, 0)
    BY <1>2, <1>7, <2>1, StampTaken
  <2>5. v # Edges!Unset => Stamps(then, r + 1, v, (r + 1) + period, 1)
    <3>1. v # Edges!Unset => age = r + period /\ Stamps(m, r, v, age, 1)
      BY <1>7 DEF Catching
    <3>2. (r + period) + 1 = (r + 1) + period
      OBVIOUS
    <3> QED BY <1>5, <3>1, <3>2
  <2>6. ageNext = r + 1 /\ r + 1 <= 5
    BY <1>7, <2>1
  <2>7. Unread(then, r + 1, w, v, ageNext, period)
    BY <1>4, <2>2, <2>3, <2>4, <2>5, <2>6 DEF Unread
  <2> QED BY <1>2, <2>7 DEF Watches
<1>8. ASSUME Captured(m, r, w), age = r
      PROVE  then.rx = m.rx /\ Captured(then, r + 1, w) /\ ageNext = r + 1
  <2>1. m.pc # 5
    BY <1>8 DEF Captured
  <2>2. Captured(then, r + 1, w)
    <3>1. CASE m.pc = 6
      BY <1>2, <1>8, <3>1 DEF CaptureMoves, Captured
    <3>2. CASE m.pc = 7
      BY <1>2, <1>8, <3>2 DEF CaptureMoves, Captured
    <3>3. CASE m.pc = 8
      BY <1>2, <1>8, <3>3 DEF CaptureMoves, Captured
    <3>4. CASE m.pc \in 1 .. 3 /\ r >= w + 2
      <4>1. ~level /\ then.pc \in 1 .. 3
        BY <1>2, <3>4 DEF CaptureMoves
      <4> QED BY <3>4, <4>1 DEF Captured
    <3> QED BY <1>8, <3>1, <3>2, <3>3, <3>4 DEF Captured
  <2> QED BY <1>2, <1>4, <1>8, <2>1, <2>2 DEF CaptureMoves
<1>9. CASE Unread(m, r, w, v, age, period)
  <2>1. PICK x \in Int : m.rx = <<x>> /\ Stamps(m, r, x, r, 0)
    BY <1>9 DEF Unread
  <2>2. then.rx = <<x>> /\ Captured(then, r + 1, w) /\ ageNext = r + 1 /\ age = r
    BY <1>8, <1>9, <2>1 DEF Unread
  <2>3. r + 1 <= Prompt
    BY <1>4, <2>1, <2>2, TwoWords
  <2>4. Stamps(then, r + 1, x, r + 1, 0)
    BY <1>5, <2>1
  <2>5. v # Edges!Unset => Stamps(then, r + 1, v, (r + 1) + period, 1)
    <3>1. v # Edges!Unset => Stamps(m, r, v, r + period, 1)
      BY <1>9 DEF Unread
    <3>2. (r + period) + 1 = (r + 1) + period
      OBVIOUS
    <3> QED BY <1>5, <3>1, <3>2
  <2>6. Unread(then, r + 1, w, v, ageNext, period)
    BY <2>2, <2>3, <2>4, <2>5 DEF Unread
  <2> QED BY <1>2, <2>6 DEF Watches
<1>10. CASE Reads(m, r, w, v, age)
  <2>1. then.rx = <<>> /\ Captured(then, r + 1, w) /\ ageNext = r + 1
    BY <1>8, <1>10 DEF Reads
  <2>2. Stamps(then, r + 1, v, r + 1, 0)
    BY <1>5, <1>10 DEF Reads
  <2>3. Reads(then, r + 1, w, v, ageNext)
    BY <2>1, <2>2 DEF Reads
  <2> QED BY <1>2, <2>3 DEF Watches
<1> QED BY <1>2, <1>6, <1>7, <1>9, <1>10 DEF Watches

(* The next edge finds it waiting, the last one read in time.                   *)
LEMMA WatchEdge ==
  ASSUME NEW m \in Machines, Counter(m), NEW r \in Nat, NEW w \in Nat, w >= 3, r >= w + 5,
         r >= Prompt, NEW v, NEW age, NEW period, Watches(m, r, w, v, age, period),
         m.rx # <<>> => age < Prompt,
         NEW level, level <=> r <= w + 1, NEW then \in Machines,
         Moves(m, Edges!CaptureProgram[m.pc], level, Edges!CaptureProgram, then),
         NEW ageNext, m.pc # 5 => ageNext = IF age = Edges!Unset THEN Edges!Unset ELSE age + 1
  PROVE  /\ Counter(then) /\ Watches(then, 0, w, v, ageNext, r + 1) /\ Reads(m, r, w, v, age)
         /\ Awaits(then)
         /\ Moved(m, r, then, 0, 1)
<1>1. ~Catching(m, r, v, age, period) /\ ~Unread(m, r, w, v, age, period) /\ ~level
  <2>1. ~Catching(m, r, v, age, period) /\ ~level
    BY DEF Catching, Catches, Captures
  <2>2. Unread(m, r, w, v, age, period) => m.rx # <<>> /\ age = r
    BY TwoWords DEF Unread
  <2> QED BY <2>1, <2>2, PhaseSizes
<1>2. Captured(m, r, w) /\ age = r /\ m.rx = <<>> /\ Stamps(m, r, v, r, 0)
  BY <1>1 DEF Watches, Reads
<1>3. m.pc \in 1 .. 3
  BY <1>2 DEF Captured, Counter
<1>4. r \notin 0 .. 2 /\ r \in Int /\ 0 \in Int /\ Edges!Unset = -1
  BY PhaseSizes
<1>5. /\ CaptureMoves(m, level, then) /\ Counter(then) /\ Awaits(then)
      /\ Moved(m, r, then, 0, 1)
  BY <1>1, <1>2, <1>3, <1>4, WhereEdge
<1>9. Stamps(then, 0, v, r + 1, 0 + 1)
  BY <1>2, <1>4, <1>5, StampsOn
<1>10. Catches(then, 0)
  BY <1>5 DEF Catches, Captures, Awaits
<1>11. ageNext = r + 1 /\ r + 1 = 0 + (r + 1) /\ 0 + 1 = 1
  BY <1>2, <1>3, <1>4
<1>12. Watches(then, 0, w, v, ageNext, r + 1)
  BY <1>9, <1>10, <1>11 DEF Watches, Catching
<1> QED BY <1>2, <1>5, <1>12 DEF Reads
-----------------------------------------------------------------------------
(* What two counts say of the distance of their edges.                          *)
LEMMA Wrapped ==
  ASSUME NEW gap \in Int, gap < Word, gap > -(2 * Word)
  PROVE  /\ gap % Word \in 0 .. (Word - 1)
         /\ gap % Word = gap \/ gap % Word = gap + Word \/ gap % Word = gap + 2 * Word
<1>1. Word \in Nat \ {0}
  BY PhaseSizes
<1>2. CASE gap >= 0
  BY <1>1, <1>2
<1>3. CASE gap < 0 /\ gap >= -Word
  BY <1>1, <1>3
<1>4. CASE gap < -Word
  BY <1>1, <1>4
<1> QED BY <1>1, <1>2, <1>3, <1>4

LEMMA LagOf ==
  ASSUME NEW vg \in 0 .. (Word - 1), NEW vo \in 0 .. (Word - 1), NEW o \in 0 .. (Word - 1)
  PROVE  LET lag == Edges!RawLag(vg, vo, o) IN
         /\ lag \in Int /\ -Word <= 2 * lag /\ 2 * lag < Word
         /\ \E k \in -1 .. 2 : lag = ((vg - vo) - o) + k * Word
<1> DEFINE gap == (vg - vo) - o
<1>1. Word \in Nat \ {0} /\ gap \in Int /\ gap < Word /\ gap > -(2 * Word)
  BY PhaseSizes
<1>2. \/ gap % Word = gap \/ gap % Word = gap + Word \/ gap % Word = gap + 2 * Word
  BY <1>1, Wrapped
<1>3. gap % Word \in 0 .. (Word - 1)
  BY <1>1, Wrapped
<1>4. Edges!RawLag(vg, vo, o) = IF 2 * (gap % Word) >= Word THEN (gap % Word) - Word ELSE gap % Word
  BY DEF Edges!RawLag, Edges!Signed
<1> HIDE DEF gap
<1> DEFINE lag == Edges!RawLag(vg, vo, o)
<1>5. /\ lag \in Int /\ -Word <= 2 * lag /\ 2 * lag < Word
      /\ lag \in {gap - Word, gap, gap + Word, gap + 2 * Word}
  BY <1>1, <1>2, <1>3, <1>4
<1> HIDE DEF lag
<1>6. \E k \in -1 .. 2 : lag = gap + k * Word
  <2>1. lag = gap + (-1) * Word \/ lag = gap + 0 * Word \/ lag = gap + 1 * Word \/ lag = gap + 2 * Word
    BY <1>1, <1>5
  <2>2. -1 \in -1 .. 2 /\ 0 \in -1 .. 2 /\ 1 \in -1 .. 2 /\ 2 \in -1 .. 2
    OBVIOUS
  <2> QED BY <2>1, <2>2
<1> QED BY <1>5, <1>6 DEF lag, gap

(* The distance read, in half cycles of the counters, is the true one to three     *)
(* cycles and the pulse that one of the machines has seen end alone.             *)
LEMMA ReadPhase ==
  ASSUME NEW vg \in 0 .. (Word - 1), NEW vo \in 0 .. (Word - 1), NEW o \in 0 .. (Word - 1),
         NEW dg \in 0 .. 2, dg = 2 => vg = Word - 1, NEW do \in 0 .. 2, do = 2 => vo = Word - 1,
         NEW j \in -1 .. 1, NEW apart \in (-(Clk + Stray)) .. (Clk + Stray), NEW l \in Laps,
         apart = ((3 * j + l) + 2 * ((0 - o) % Word)) + ((2 * vg - 2 * vo) + (dg - do))
  PROVE  (apart - 3 * j) - 2 * Edges!RawLag(vg, vo, o) \in -3 .. 3
<1> DEFINE lag == Edges!RawLag(vg, vo, o)
<1>1. /\ Word \in Nat \ {0} /\ Lap = 2 * Word + 1 /\ (Clk + Stray) + 6 < Word
      /\ Clk \in Nat /\ Stray \in Nat /\ l \in Int
  BY PhaseSizes, LapsClosed
<1>2. lag \in Int /\ -Word <= 2 * lag /\ 2 * lag < Word
  BY LagOf
<1>3. PICK k \in -1 .. 2 : lag = ((vg - vo) - o) + k * Word
  BY LagOf
<1> HIDE DEF lag
<1>4. PICK z \in 0 .. 1 : (0 - o) % Word = z * Word - o /\ (z = 0 <=> o = 0)
  <2>1. CASE o = 0
    <3>1. (0 - o) % Word = 0 * Word - o
      BY <1>1, <2>1
    <3> QED BY <2>1, <3>1
  <2>2. CASE o # 0
    <3> DEFINE neg == 0 - o
    <3>a. neg \in Int /\ neg < 0 /\ neg >= -Word /\ neg < Word /\ neg > -(2 * Word)
      BY <1>1, <2>2
    <3> HIDE DEF neg
    <3>b. /\ neg % Word \in 0 .. (Word - 1)
          /\ neg % Word = neg \/ neg % Word = neg + Word \/ neg % Word = neg + 2 * Word
      BY <3>a, Wrapped
    <3>c. neg % Word = neg + Word
      BY <1>1, <3>a, <3>b DEF neg
    <3>1. (0 - o) % Word = 1 * Word - o
      BY <1>1, <3>c DEF neg
    <3> QED BY <2>2, <3>1
  <2> QED BY <2>1, <2>2
<1>5. k * Word \in Int /\ z * Word \in Int /\ k \in {-1, 0, 1, 2} /\ z \in {0, 1}
  BY <1>1
<1>6. (apart - 3 * j) - 2 * lag = ((l + 2 * (z * Word)) - 2 * (k * Word)) + (dg - do)
  BY <1>1, <1>2, <1>3, <1>4, <1>5
<1> DEFINE turns == (l + z * Lap) - k * Lap
<1>7. turns \in Laps
  <2>1. z * Lap \in Laps
    <3>1. 0 * Lap = 0 /\ 1 * Lap = Lap
      BY <1>1
    <3> QED BY <1>5, <3>1, LapsClosed
  <2>2. k * Lap \in Laps
    <3>1. (-1) * Lap = -Lap /\ 0 * Lap = 0 /\ 1 * Lap = Lap /\ 2 * Lap = Lap + Lap
      BY <1>1
    <3>2. Lap + Lap \in Laps
      BY LapsClosed
    <3> QED BY <1>5, <3>1, <3>2, LapsClosed
  <2>3. l + z * Lap \in Laps
    BY <2>1, LapsClosed
  <2> QED BY <2>2, <2>3, LapsClosed
<1>8. (apart - 3 * j) - 2 * lag = turns + ((k - z) + (dg - do))
  BY <1>1, <1>5, <1>6
<1>9. turns = 0
  <2>1. turns \in Int
    BY <1>7, LapsClosed
  <2> HIDE DEF turns
  <2>2. -Lap < turns /\ turns < Lap
    BY <1>1, <1>2, <1>5, <1>8, <2>1
  <2> QED BY <1>7, <2>2, LapsClosed
<1>10. (k - z) + (dg - do) \in -3 .. 3
  <2>1. k = -1 /\ z = 1 => do # 2
    <3> SUFFICES ASSUME k = -1, z = 1, do = 2 PROVE FALSE
      OBVIOUS
    <3>1. vo = Word - 1 /\ o >= 1 /\ lag = ((vg - vo) - o) - Word
      BY <1>1, <1>3, <1>4
    <3> QED BY <1>1, <1>2, <3>1
  <2>2. k = 2 => z = 1
    <3> SUFFICES ASSUME k = 2, o = 0 PROVE FALSE
      BY <1>4, <1>5
    <3> QED BY <1>1, <1>2, <1>3
  <2> QED BY <1>5, <2>1, <2>2
<1> QED BY <1>8, <1>9, <1>10 DEF lag

LEMMA Folds ==
  ASSUME NEW vg \in 0 .. (Word - 1), NEW vo \in 0 .. (Word - 1), NEW o \in 0 .. (Word - 1)
  PROVE  LET lag == Edges!RawLag(vg, vo, o)
             second == Clk \div 2
             phase == Edges!LoopbackPhaseTicks(vg, vo, o)
         IN  /\ second \in Nat \ {0} /\ Clk = 2 * second /\ lag \in Int
             /\ (-(second \div 2)) <= lag /\ lag <= second \div 2 => phase = lag
             /\ second \div 2 < lag /\ 2 * lag < 3 * second => phase = lag - second
<1> DEFINE lag == Edges!RawLag(vg, vo, o)
           second == Clk \div 2
           half == second \div 2
           rest == lag - second * Edges!Quot(lag, second)
<1>1. Clk \in Nat \ {0} /\ Clk % 2 = 0 /\ Clk > 12
  BY PhaseSizes
<1>2. second \in Nat \ {0} /\ Clk = 2 * second /\ second > 6
  BY <1>1
<1>3. lag \in Int
  BY LagOf
<1>4. Edges!LoopbackPhaseTicks(vg, vo, o) =
        IF rest > half THEN rest - second ELSE IF rest < -half THEN rest + second ELSE rest
  BY PhaseSizes DEF Edges!LoopbackPhaseTicks
<1>5. Edges!Quot(lag, second) = IF lag < 0 THEN -((-lag) \div second) ELSE lag \div second
  BY DEF Edges!Quot
<1>6. half \in Nat /\ half < second /\ 2 * half <= second /\ second <= 2 * half + 1
  <2> HIDE DEF second
  <2> QED BY <1>2
<1> HIDE DEF lag, second, half
<1>7. CASE -half <= lag /\ lag <= half
  <2>1. Edges!Quot(lag, second) = 0
    <3>1. ASSUME NEW x \in 0 .. half PROVE x \div second = 0
      BY <1>2, <1>6
    <3>2. CASE lag >= 0
      BY <1>3, <1>5, <1>6, <1>7, <3>1, <3>2
    <3>3. CASE lag < 0
      <4>1. -lag \in 0 .. half
        BY <1>3, <1>6, <1>7, <3>3
      <4>2. (-lag) \div second = 0
        BY <3>1, <4>1
      <4> QED BY <1>5, <3>3, <4>2
    <3> QED BY <1>3, <3>2, <3>3
  <2>2. rest = lag
    BY <1>2, <1>3, <2>1
  <2>3. Edges!LoopbackPhaseTicks(vg, vo, o) = lag
    BY <1>3, <1>4, <1>6, <1>7, <2>2
  <2> QED BY <1>2, <1>3, <1>6, <1>7, <2>3 DEF lag, second, half
<1>8. CASE half < lag /\ 2 * lag < 3 * second
  <2>1. Edges!Quot(lag, second) = IF lag < second THEN 0 ELSE 1
    <3>1. lag < second => lag \div second = 0
      BY <1>2, <1>3, <1>6, <1>8
    <3>2. lag >= second => lag \div second = 1
      BY <1>2, <1>3, <1>6, <1>8
    <3>3. Edges!Quot(lag, second) = lag \div second
      BY <1>3, <1>5, <1>6, <1>8
    <3> DEFINE quot == lag \div second
    <3> HIDE DEF quot
    <3>4. (lag < second => quot = 0) /\ (lag >= second => quot = 1) /\ Edges!Quot(lag, second) = quot
      BY <3>1, <3>2, <3>3 DEF quot
    <3> QED BY <1>2, <1>3, <3>4
  <2>2. rest = IF lag < second THEN lag ELSE lag - second
    BY <1>2, <1>3, <2>1
  <2>3. Edges!LoopbackPhaseTicks(vg, vo, o) = lag - second
    BY <1>2, <1>3, <1>4, <1>6, <1>8, <2>2
  <2> QED BY <1>2, <1>3, <1>6, <1>8, <2>3 DEF lag, second, half
<1>9. CASE ~(-half <= lag /\ lag <= half) /\ ~(half < lag /\ 2 * lag < 3 * second)
  BY <1>2, <1>3, <1>9 DEF lag, second, half
<1> QED BY <1>7, <1>8, <1>9

(* Counts of one edge each, of the same second: the phase is read to three cycles. *)
LEMMA PairRead ==
  ASSUME NEW vg \in 0 .. (Word - 1), NEW vo \in 0 .. (Word - 1), NEW o \in 0 .. (Word - 1),
         NEW j \in -1 .. 1, NEW phase \in Strays,
         NEW apart, apart = phase + Seconds(j),
         (apart - 3 * j) - 2 * Edges!RawLag(vg, vo, o) \in -3 .. 3,
         Edges!Abs(Edges!RawLag(vg, vo, o)) <= MaxLag
  PROVE  Edges!Abs(2 * Edges!LoopbackPhaseTicks(vg, vo, o) - apart) <= 3
<1> DEFINE lag == Edges!RawLag(vg, vo, o)
           second == Clk \div 2
           half == second \div 2
<1>1. /\ Clk \in Nat \ {0} /\ Clk % 2 = 0 /\ 2 * Stray + 12 < Clk /\ Stray \in Nat
      /\ MaxLag \in Nat /\ 4 * MaxLag < Clk
  BY PhaseSizes
<1>2. second \in Nat \ {0} /\ Clk = 2 * second /\ lag \in Int
  BY Folds
<1>3. half \in Nat /\ 2 * half <= second /\ second <= 2 * half + 1
  <2> HIDE DEF second
  <2> QED BY <1>2
<1>4. (-half) <= lag /\ lag <= half => Edges!LoopbackPhaseTicks(vg, vo, o) = lag
  BY Folds
<1> HIDE DEF second, half, lag
<1>5. -MaxLag <= lag /\ lag <= MaxLag
  BY <1>1, <1>2 DEF Edges!Abs, lag
<1>6. (apart - 3 * j) - 2 * lag \in -3 .. 3 /\ phase \in Int /\ -Stray <= phase /\ phase <= Stray
  BY <1>1 DEF lag, Strays
<1>7. j = 0
  <2>1. j # 1
    <3> SUFFICES ASSUME j = 1 PROVE FALSE
      OBVIOUS
    <3>1. apart = phase + Clk
      BY DEF Seconds
    <3> QED BY <1>1, <1>2, <1>5, <1>6, <3>1
  <2>2. j # -1
    <3> SUFFICES ASSUME j = -1 PROVE FALSE
      OBVIOUS
    <3>1. apart = phase + (-Clk)
      BY DEF Seconds
    <3> QED BY <1>1, <1>2, <1>5, <1>6, <3>1
  <2> QED BY <2>1, <2>2
<1>8. Edges!LoopbackPhaseTicks(vg, vo, o) = lag /\ apart = phase
  <2>1. Edges!LoopbackPhaseTicks(vg, vo, o) = lag
    BY <1>1, <1>2, <1>3, <1>4, <1>5
  <2>2. apart = phase + 0
    BY <1>7 DEF Seconds
  <2> QED BY <1>6, <2>1, <2>2
<1>9. 2 * lag - apart \in -3 .. 3
  BY <1>2, <1>6, <1>7, <1>8
<1> QED BY <1>2, <1>6, <1>8, <1>9 DEF Edges!Abs

(* Counts of one edge each, the receiver's of this second or of the one before.   *)
LEMMA PhaseRead ==
  ASSUME NEW vg \in 0 .. (Word - 1), NEW vo \in 0 .. (Word - 1), NEW o \in 0 .. (Word - 1),
         NEW j \in 0 .. 1, NEW phase \in Strays,
         NEW apart, apart = phase + Seconds(j),
         (apart - 3 * j) - 2 * Edges!RawLag(vg, vo, o) \in -3 .. 3
  PROVE  /\ Edges!LoopbackPhaseTicks(vg, vo, o) \in Int
         /\ 2 * Edges!LoopbackPhaseTicks(vg, vo, o) - phase \in -6 .. 3
<1> DEFINE lag == Edges!RawLag(vg, vo, o)
           second == Clk \div 2
           half == second \div 2
<1>1. /\ Clk \in Nat \ {0} /\ 2 * Stray + 12 < Clk /\ Stray \in Nat
  BY PhaseSizes
<1>2. second \in Nat \ {0} /\ Clk = 2 * second /\ lag \in Int
  BY Folds
<1>3. half \in Nat /\ 2 * half <= second /\ second <= 2 * half + 1
  <2> HIDE DEF second
  <2> QED BY <1>2
<1>4. /\ (-half) <= lag /\ lag <= half => Edges!LoopbackPhaseTicks(vg, vo, o) = lag
      /\ half < lag /\ 2 * lag < 3 * second => Edges!LoopbackPhaseTicks(vg, vo, o) = lag - second
  BY Folds
<1>5. (apart - 3 * j) - 2 * lag \in -3 .. 3 /\ phase \in Int /\ -Stray <= phase /\ phase <= Stray
  BY <1>1 DEF Strays
<1> HIDE DEF second, half, lag
<1>6. CASE j = 0
  <2>1. apart = phase
    <3>1. apart = phase + 0
      BY <1>6 DEF Seconds
    <3> QED BY <1>5, <3>1
  <2>2. 2 * lag - phase \in -3 .. 3
    BY <1>2, <1>5, <1>6, <2>1
  <2>3. (-half) <= lag /\ lag <= half
    BY <1>1, <1>2, <1>3, <1>5, <2>2
  <2> QED BY <1>2, <1>4, <1>5, <2>2, <2>3
<1>7. CASE j = 1
  <2>1. apart = phase + Clk
    BY <1>7 DEF Seconds
  <2>2. (2 * lag - phase) - Clk \in -6 .. 0
    BY <1>1, <1>2, <1>5, <1>7, <2>1
  <2>3. half < lag /\ 2 * lag < 3 * second
    BY <1>1, <1>2, <1>3, <1>5, <2>2
  <2>4. 2 * (lag - second) - phase \in -6 .. 0
    BY <1>2, <1>5, <2>2
  <2> QED BY <1>2, <1>4, <2>3, <2>4
<1> QED BY <1>6, <1>7

(* The next word, and how the loop chooses it.                                   *)
LEMMA GentleWord ==
  ASSUME width.out \in Widths, NEW f \in Freqs, NEW c \in Corrs, NEW carry \in 0 .. (Unit - 1)
  PROVE  LET word == Edges!NextPeriod(carry, f, c, width.out).word IN
         /\ Slip(word) = (carry + f) \div Unit - c /\ Slip(word) \in Int /\ Gentle(word)
         /\ (\A d \in Corrs : c >= d) => Slip(word) <= 0
         /\ (\A d \in Corrs : c <= d) => Slip(word) >= 0
<1> DEFINE q == (carry + f) \div Unit
           rest == (carry + f) % Unit
           base == f \div Unit
           low == f % Unit
           w == width.out
           word == Edges!NextPeriod(carry, f, c, w).word
<1>1. /\ Unit \in Nat \ {0} /\ carry \in Int /\ f \in Int /\ c \in Int /\ w \in Int /\ Clk \in Int
      /\ Stray \in Nat /\ Near \in Nat
  BY ScheduleSizes, PhaseSizes
<1>2. q \in Int /\ rest \in 0 .. (Unit - 1) /\ carry + f = Unit * q + rest
  BY <1>1
<1>3. base \in Int /\ low \in 0 .. (Unit - 1) /\ f = Unit * base + low
  BY <1>1
<1>4. word = (((Clk - 7) - w) + q) - c
  BY <1>1, <1>2, ScheduleSizes DEF Edges!NextPeriod, Edges!OutputPeriodCycles
<1> HIDE DEF q, rest, base, low, word
<1>5. Slip(word) = q - c
  BY <1>1, <1>2, <1>4, ScheduleSizes DEF Slip
<1>6. q \in {base, base + 1}
  <2> DEFINE k == q - base
  <2>1. k \in Int /\ Unit * k = (carry + low) - rest
    <3>1. Unit * (q - base) = Unit * q - Unit * base
      BY <1>1, <1>2, <1>3
    <3> QED BY <3>1, <1>1, <1>2, <1>3
  <2>2. Unit * k > -Unit /\ Unit * k < 2 * Unit
    BY <2>1, <1>1, <1>2, <1>3
  <2> HIDE DEF k
  <2>3. k > -1
    <3> SUFFICES ASSUME k <= -1 PROVE FALSE
      BY <2>1
    <3>1. Unit * (-1 - k) >= 0
      BY <1>1, <2>1
    <3>2. Unit * (-1 - k) = -Unit - Unit * k
      BY <1>1, <2>1
    <3> QED BY <3>1, <3>2, <2>1, <2>2, <1>1
  <2>4. k < 2
    <3> SUFFICES ASSUME k >= 2 PROVE FALSE
      BY <2>1
    <3>1. Unit * (k - 2) >= 0
      BY <1>1, <2>1
    <3>2. Unit * (k - 2) = Unit * k - 2 * Unit
      BY <1>1, <2>1
    <3> QED BY <3>1, <3>2, <2>1, <2>2, <1>1
  <2>5. k \in {0, 1}
    BY <2>1, <2>3, <2>4
  <2> QED BY <2>5, <1>2, <1>3 DEF k
<1>7. /\ ((2 * Near + 6) + 2 * (base - c)) + 2 <= Stray
      /\ (2 * Near + 6) - 2 * (base - c) <= Stray
  <2>1. f \div Unit = base
    BY DEF base
  <2> QED BY <1>1, <1>3, <2>1, StrayAssumption
<1>8. Gentle(word)
  BY <1>1, <1>3, <1>5, <1>6, <1>7 DEF Gentle
<1>9. ASSUME \A d \in Corrs : c >= d PROVE q <= c
  <2>1. PICK d \in Corrs : d * Unit >= f
    BY StrayAssumption
  <2>2. d \in Int /\ c >= d
    BY <1>9, <2>1, ScheduleSizes
  <2>3. c * Unit >= f
    <3>1. (c - d) * Unit >= 0
      BY <1>1, <2>2
    <3>2. (c - d) * Unit = c * Unit - d * Unit
      BY <1>1, <2>2
    <3> QED BY <1>1, <2>1, <2>2, <3>1, <3>2
  <2> SUFFICES ASSUME q >= c + 1 PROVE FALSE
    BY <1>1, <1>2
  <2>4. Unit * (q - (c + 1)) >= 0
    BY <1>1, <1>2
  <2>5. Unit * (q - (c + 1)) = (Unit * q - c * Unit) - Unit
    BY <1>1, <1>2
  <2> QED BY <1>1, <1>2, <2>3, <2>4, <2>5
<1>10. ASSUME \A d \in Corrs : c <= d PROVE q >= c
  <2>1. PICK d \in Corrs : d * Unit <= f
    BY StrayAssumption
  <2>2. d \in Int /\ c <= d
    BY <1>10, <2>1, ScheduleSizes
  <2>3. c * Unit <= f
    <3>1. (d - c) * Unit >= 0
      BY <1>1, <2>2
    <3>2. (d - c) * Unit = d * Unit - c * Unit
      BY <1>1, <2>2
    <3> QED BY <1>1, <2>1, <2>2, <3>1, <3>2
  <2> SUFFICES ASSUME q <= c - 1 PROVE FALSE
    BY <1>1, <1>2
  <2>4. Unit * ((c - 1) - q) >= 0
    BY <1>1, <1>2
  <2>5. Unit * ((c - 1) - q) = (c * Unit - Unit) - Unit * q
    BY <1>1, <1>2
  <2> QED BY <1>1, <1>2, <2>3, <2>4, <2>5
<1> QED BY <1>1, <1>2, <1>5, <1>8, <1>9, <1>10 DEF q, word
-----------------------------------------------------------------------------
(* The two captures in a cycle of the clock.                                    *)
LEMMA GpsMoves ==
  ASSUME {"gps", "out", "gen"} = DOMAIN sm, sm.gps \in Machines, Counter(sm.gps), Edges!Clock
  PROVE  /\ sm'.gps \in Machines
         /\ \E level \in BOOLEAN :
              /\ level <=> t < width.gps
              /\ Moves(sm.gps, Edges!CaptureProgram[sm.gps.pc], level, Edges!CaptureProgram, sm'.gps)
         /\ sm.gps.rx # <<>> => seen.gps < Prompt
         /\ sm.gps.pc = 5 => seen'.gps = t + 1
         /\ sm.gps.pc # 5 => seen'.gps = IF seen.gps = Edges!Unset THEN Edges!Unset
                                         ELSE Edges!AtMost(seen.gps + 1, 2 * Clk)
<1> DEFINE m == sm.gps
           level == "gps" # "gen" /\ Edges!Level("gps")
<1>1. m.pc \in 1 .. 8 /\ "gps" \in Edges!Captures
  BY DEF Counter, Edges!Captures
<1>2. Edges!Program("gps") = Edges!CaptureProgram /\ Len(Edges!CaptureProgram) = 8
  BY CaptureOps DEF Edges!Program
<1>3. sm' = [s \in DOMAIN sm |-> Edges!Cycle(Edges!Program(s), sm[s], s # "gen" /\ Edges!Level(s))]
  BY DEF Edges!Clock
<1>4. sm'.gps = Edges!Cycle(Edges!CaptureProgram, m, level)
  BY <1>2, <1>3
<1>5. level \in BOOLEAN
  BY Zenon
<1>6. level <=> t < width.gps
  BY DEF Edges!Level, Edges!Gps
<1> HIDE DEF m, level
<1>7. sm'.gps \in Machines
  BY <1>1, <1>2, <1>4, <1>5, CycleTyped DEF m
<1>8. Moves(m, Edges!CaptureProgram[m.pc], level, Edges!CaptureProgram, sm'.gps)
  BY <1>4, Cycled DEF m
<1>9. Edges!Pushes(Edges!CaptureProgram, m) <=> m.pc = 5
  BY <1>1, CaptureOps DEF Edges!Pushes
<1>10. seen'.gps = IF Edges!Pushes(Edges!CaptureProgram, m) THEN t + 1
                   ELSE IF seen.gps = Edges!Unset THEN Edges!Unset
                        ELSE Edges!AtMost(seen.gps + 1, 2 * Clk)
  BY <1>1, <1>2 DEF Edges!Clock, m
<1>11. sm.gps.rx # <<>> => seen.gps < Prompt
  BY <1>1 DEF Edges!Clock
<1> QED BY <1>5, <1>6, <1>7, <1>8, <1>9, <1>10, <1>11 DEF m

LEMMA GpsClock ==
  ASSUME {"gps", "out", "gen"} = DOMAIN sm, GpsInv, Edges!Clock
  PROVE  /\ GpsInv' /\ cap' = cap
         /\ t # Clk - 1 => t' = t + 1 /\ Moved(sm.gps, t, sm'.gps, t', 0)
         /\ t = Clk - 1 => /\ t' = 0 /\ Moved(sm.gps, t, sm'.gps, t', 1)
                           /\ cap.gps = Edges!Unset => seen.gps = Edges!Unset
         /\ cap.gps = Edges!Unset /\ seen'.gps = Edges!Unset /\ t' >= 5 =>
              seen.gps = Edges!Unset /\ t >= 5
         /\ cap.gps = Edges!Unset =>
              (seen.gps = Edges!Unset /\ t >= 5) \/ t <= 4 \/ t < Prompt
<1> DEFINE m == sm.gps
           w == width.gps - 2
<1>1. /\ Clk \in Nat \ {0} /\ Prompt \in Nat /\ Edges!Unset = -1 /\ Prompt < Clk /\ Stray \in Nat
      /\ width.gps \in 5 .. (Clk - 9) /\ t \in 0 .. (Clk - 1) /\ t \in Nat /\ 0 \in Int
      /\ m \in Machines /\ Counter(m) /\ Prompt + Stray < Clk
  BY PhaseSizes DEF GpsInv
<1>2. w \in Nat /\ w >= 3 /\ w + 11 <= Clk
  BY <1>1
<1>3. PICK level \in BOOLEAN :
        /\ level <=> t < width.gps
        /\ Moves(m, Edges!CaptureProgram[m.pc], level, Edges!CaptureProgram, sm'.gps)
  BY <1>1, GpsMoves
<1>4. /\ sm'.gps \in Machines /\ (m.rx # <<>> => seen.gps < Prompt)
      /\ m.pc = 5 => seen'.gps = t + 1
      /\ m.pc # 5 => seen'.gps = IF seen.gps = Edges!Unset THEN Edges!Unset
                                 ELSE Edges!AtMost(seen.gps + 1, 2 * Clk)
  BY <1>1, GpsMoves
<1>5. level <=> t <= w + 1
  BY <1>1, <1>3
<1>6. /\ t' = IF t = Clk - 1 THEN 0 ELSE t + 1
      /\ cap' = cap /\ width' = width
  <2>1. t' = (t + 1) % Clk /\ cap' = cap /\ width' = width
    BY DEF Edges!Clock
  <2>2. t = Clk - 1 => (t + 1) % Clk = 0
    BY <1>1
  <2>3. t # Clk - 1 => (t + 1) % Clk = t + 1
    BY <1>1
  <2> QED BY <2>1, <2>2, <2>3
<1>7. CASE Awaits(m) /\ seen.gps = Edges!Unset /\ cap.gps = Edges!Unset /\ t \in (Clk - 9) .. (Clk - 1)
  <2>1. t \notin 0 .. 2 /\ t >= 5 /\ ~level /\ t \in Int /\ m.pc \in 1 .. 3 /\ m.rx = <<>>
    BY <1>1, <1>3, <1>7 DEF Awaits
  <2>2. t' \in Int /\ (t = Clk - 1 => t' = 0) /\ (t # Clk - 1 => t' \notin 0 .. 2 /\ t' = t + 1)
    BY <1>1, <1>6, <1>7
  <2>3. ASSUME NEW s \in Int
        PROVE  /\ Counter(sm'.gps) /\ Awaits(sm'.gps)
               /\ s = 0 => Moved(m, t, sm'.gps, s, 1)
               /\ s \notin 0 .. 2 => Moved(m, t, sm'.gps, s, 0)
    BY <1>1, <1>3, <1>4, <2>1, WhereEdge
  <2>4. PICK s \in Int : s = t'
    BY <2>2
  <2>5. /\ Counter(sm'.gps) /\ Awaits(sm'.gps)
        /\ t = Clk - 1 => Moved(m, t, sm'.gps, t', 1)
        /\ t # Clk - 1 => Moved(m, t, sm'.gps, t', 0)
    BY <2>2, <2>3, <2>4
  <2>6. seen'.gps = Edges!Unset
    BY <1>4, <1>7, <2>1
  <2>7. GpsWatched'
    <3>1. CASE t # Clk - 1
      BY <1>1, <1>6, <1>7, <2>2, <2>5, <2>6, <3>1 DEF GpsWatched
    <3>2. CASE t = Clk - 1
      <4>1. Catches(sm'.gps, 0)
        BY <2>5 DEF Catches, Captures, Awaits
      <4>2. Catching(sm'.gps, 0, cap.gps, seen'.gps, Clk)
        BY <1>7, <2>6, <4>1 DEF Catching
      <4>3. Watches(sm'.gps, 0, width.gps - 2, cap.gps, seen'.gps, Clk)
        BY <4>2 DEF Watches
      <4> QED BY <1>6, <3>2, <4>3 DEF GpsWatched
    <3> QED BY <3>1, <3>2
  <2> QED BY <1>1, <1>4, <1>6, <1>7, <2>1, <2>2, <2>5, <2>7 DEF GpsInv
<1>8. CASE Watches(m, t, w, cap.gps, seen.gps, Clk)
  <2>1. cap.gps = Edges!Unset => (t <= 4 /\ seen.gps = Edges!Unset) \/ (t < Prompt /\ seen.gps = t)
    <3>1. Catching(m, t, cap.gps, seen.gps, Clk) /\ cap.gps = Edges!Unset => t <= 4 /\ seen.gps = Edges!Unset
      BY <1>1 DEF Catching, Catches, Captures, Stamps
    <3>2. Unread(m, t, w, cap.gps, seen.gps, Clk) => t < Prompt /\ seen.gps = t
      BY <1>4, TwoWords DEF Unread
    <3>3. Reads(m, t, w, cap.gps, seen.gps) => cap.gps # Edges!Unset
      BY <1>1 DEF Reads, Stamps
    <3> QED BY <1>8, <3>1, <3>2, <3>3 DEF Watches
  <2>2. seen.gps # Edges!Unset => seen.gps \in Int /\ seen.gps + 1 <= 2 * Clk
    <3>1. Catching(m, t, cap.gps, seen.gps, Clk) /\ seen.gps # Edges!Unset =>
            seen.gps \in Int /\ seen.gps + 1 <= 2 * Clk
      <4> SUFFICES ASSUME Catching(m, t, cap.gps, seen.gps, Clk), seen.gps # Edges!Unset
                   PROVE  seen.gps \in Int /\ seen.gps + 1 <= 2 * Clk
        OBVIOUS
      <4>1. t <= 4 /\ seen.gps = t + Clk
        BY <1>1 DEF Catching, Catches, Captures
      <4> QED BY <1>1, <1>2, <4>1
    <3>2. Unread(m, t, w, cap.gps, seen.gps, Clk) => seen.gps \in Int /\ seen.gps + 1 <= 2 * Clk
      BY <1>1 DEF Unread
    <3>3. Reads(m, t, w, cap.gps, seen.gps) => seen.gps \in Int /\ seen.gps + 1 <= 2 * Clk
      BY <1>1 DEF Reads
    <3> QED BY <1>8, <3>1, <3>2, <3>3 DEF Watches
  <2>3. m.pc # 5 => seen'.gps = IF seen.gps = Edges!Unset THEN Edges!Unset ELSE seen.gps + 1
    BY <1>1, <1>4, <2>2 DEF Edges!AtMost
  <2>4. CASE t # Clk - 1
    <3>1. /\ Counter(sm'.gps) /\ Watches(sm'.gps, t + 1, w, cap.gps, seen'.gps, Clk)
          /\ Moved(m, t, sm'.gps, t + 1, 0)
      BY <1>1, <1>2, <1>3, <1>4, <1>5, <1>8, <2>3, WatchStep
    <3>2. GpsWatched'
      BY <1>6, <2>4, <3>1 DEF GpsWatched
    <3>3. cap.gps = Edges!Unset /\ seen'.gps = Edges!Unset /\ t' >= 5 => FALSE
      <4> SUFFICES ASSUME cap.gps = Edges!Unset, seen'.gps = Edges!Unset, t' >= 5 PROVE FALSE
        OBVIOUS
      <4>1. m.pc # 5
        BY <1>1, <1>4
      <4>2. seen.gps = Edges!Unset
        BY <1>1, <2>2, <2>3, <4>1, <2>1
      <4>3. t = 4
        BY <1>1, <1>6, <2>1, <2>4, <4>2
      <4>4. Catching(m, t, cap.gps, seen.gps, Clk)
        BY <1>1, <1>8, <4>2 DEF Watches, Unread, Reads
      <4> QED BY <4>1, <4>3, <4>4 DEF Catching, Catches, Captures
    <3> QED BY <1>1, <1>4, <1>6, <2>1, <2>4, <3>1, <3>2, <3>3 DEF GpsInv
  <2>5. CASE t = Clk - 1
    <3>1. t >= w + 5 /\ t > 4 /\ (cap.gps = Edges!Unset => t >= Prompt)
      BY <1>1, <1>2, <2>5
    <3>2. cap.gps # Edges!Unset
      BY <1>1, <2>1, <3>1
    <3>4. t >= Prompt
      BY <1>1, <2>5
    <3>5. /\ Counter(sm'.gps) /\ Watches(sm'.gps, 0, w, cap.gps, seen'.gps, t + 1)
          /\ Moved(m, t, sm'.gps, 0, 1)
      BY <1>1, <1>2, <1>3, <1>4, <1>5, <1>8, <2>3, <3>1, <3>4, WatchEdge
    <3>6. t + 1 = Clk
      BY <1>1, <2>5
    <3>7. GpsWatched'
      BY <1>6, <2>5, <3>5, <3>6 DEF GpsWatched
    <3> QED BY <1>1, <1>4, <1>6, <2>5, <3>2, <3>5, <3>7 DEF GpsInv
  <2> QED BY <2>4, <2>5
<1> QED BY <1>7, <1>8 DEF GpsInv, GpsWatched

LEMMA InStepOn ==
  ASSUME sm.gps \in Machines, Counter(sm.gps), sm'.gps \in Machines, Counter(sm'.gps),
         sm.out \in Machines, Counter(sm.out), sm'.out \in Machines, Counter(sm'.out),
         offset \in 0 .. (Word - 1), offset' = offset, NEW eg \in 0 .. 1, NEW eo \in 0 .. 1,
         Moved(sm.gps, t, sm'.gps, t', eg), Moved(sm.out, rose, sm'.out, rose', eo),
         NEW apart \in Int, InStep(apart), NEW then \in Int, then = (apart + eo) - eg
  PROVE  InStep(then)'
<1>1. PICK l \in Laps :
        (Where(sm.out, rose) + 3 * apart) + l = Where(sm.gps, t) - 2 * ((0 - offset) % Word)
  BY DEF InStep
<1>2. PICK lg \in Laps : Where(sm'.gps, t') = ((Where(sm.gps, t) + 1) - 3 * eg) + lg
  BY DEF Moved
<1>3. PICK lo \in Laps : Where(sm'.out, rose') = ((Where(sm.out, rose) + 1) - 3 * eo) + lo
  BY DEF Moved
<1>4. /\ Where(sm.gps, t) \in Int /\ Where(sm'.gps, t') \in Int /\ Where(sm.out, rose) \in Int
      /\ Where(sm'.out, rose') \in Int /\ l \in Int /\ lg \in Int /\ lo \in Int
  BY WhereTyped, LapsClosed
<1> DEFINE turn == (0 - offset) % Word
<1>5. turn \in Int
  BY PhaseSizes
<1>6. (l + lg) - lo \in Laps
  BY LapsClosed
<1>7. (Where(sm.out, rose) + 3 * apart) + l = Where(sm.gps, t) - 2 * turn
  BY <1>1
<1> HIDE DEF turn
<1>8. (Where(sm'.out, rose') + 3 * then) + ((l + lg) - lo) = Where(sm'.gps, t') - 2 * turn
  BY <1>2, <1>3, <1>4, <1>5, <1>7
<1>9. (Where(sm'.out, rose') + 3 * then) + ((l + lg) - lo) =
        Where(sm'.gps, t') - 2 * ((0 - offset') % Word)
  BY <1>8 DEF turn
<1> QED BY <1>6, <1>9 DEF InStep

LEMMA OutClock ==
  ASSUME ScheduleInv, Edges!Clock, NEW cur \in Nat, NEW ahead \in AtMostOne, Running(cur, ahead),
         Counter(sm.out), NEW period \in Nat, period + 5 <= 2 * Clk, Slip(cur) <= Clk,
         Watches(sm.out, rose, width.out, cap.out, seen.out, period)
  PROVE  /\ rose <= (Clk + Slip(cur)) - 1 /\ Slip(cur) \in Int /\ rose \in Nat
         /\ sm.gen.pc = 7 => rose = (Clk + Slip(cur)) - 1
         /\ Counter(sm'.out)
         /\ sm.gen.pc # 7 => /\ Watches(sm'.out, rose + 1, width.out, cap.out, seen'.out, period)
                             /\ Moved(sm.out, rose, sm'.out, rose + 1, 0)
         /\ sm.gen.pc = 7 => /\ Watches(sm'.out, 0, width.out, cap.out, seen'.out, rose + 1)
                             /\ Moved(sm.out, rose, sm'.out, 0, 1)
<1> DEFINE m == sm.gen
           o == sm.out
           w == width.out
<1>1. /\ sm'.out \in Machines /\ m \in Machines /\ o \in Machines /\ w \in Nat /\ w >= 3
      /\ Clk \in Nat /\ Edges!Unset = -1 /\ Prompt \in Nat /\ o.pc \in 1 .. 8
  BY MachinesMove, WidthSizes, PhaseSizes DEF ScheduleInv
<1>2. PICK level \in BOOLEAN :
        /\ level <=> m.pin
        /\ Moves(o, Edges!CaptureProgram[o.pc], level, Edges!CaptureProgram, sm'.out)
  BY MachinesMove
<1>3. rose \in Nat /\ OutputAt(m, rose, w, cur, ahead) /\ Fits(cur, w)
  BY DEF Running, Ledger
<1>4. /\ m.pin <=> rose <= w + 1
      /\ rose <= (w + cur) + 6
      /\ m.pc = 7 => rose >= w + 6
  BY <1>1, <1>3, HighAt
<1>5. level <=> rose <= w + 1
  BY <1>2, <1>4
<1>6. Slip(cur) = ((cur + 7) + w) - Clk /\ Slip(cur) \in Int
  BY <1>1, PhaseSizes DEF Slip
<1>7. rose <= (Clk + Slip(cur)) - 1 /\ rose + 1 <= 2 * Clk
  BY <1>1, <1>3, <1>4, <1>6
<1>8. m.pc = 7 => rose = (Clk + Slip(cur)) - 1 /\ rose >= Prompt
  <2> SUFFICES ASSUME m.pc = 7 PROVE rose = (Clk + Slip(cur)) - 1 /\ rose >= Prompt
    OBVIOUS
  <2>1. rose + 1 = (cur + 7) + w
    BY ScheduleClock
  <2>2. Prompt < (w + cur) + 3
    BY <1>3 DEF Fits
  <2>3. rose \in Int /\ w \in Int /\ Prompt \in Int /\ cur \in Int /\ Clk \in Int
    BY <1>1, <1>3
  <2> HIDE DEF w
  <2>4. rose >= Prompt
    BY <2>1, <2>2, <2>3
  <2>5. rose = (Clk + Slip(cur)) - 1
    BY <1>6, <2>1, <2>3
  <2> QED BY <2>4, <2>5
<1>9. o.rx # <<>> => seen.out < Prompt
  BY DEF Edges!Clock, Edges!Captures
<1>10. seen.out # Edges!Unset => seen.out \in Int /\ seen.out + 1 <= 2 * Clk
  <2>1. ASSUME Catching(o, rose, cap.out, seen.out, period), seen.out # Edges!Unset
        PROVE  seen.out \in Int /\ seen.out + 1 <= 2 * Clk
    <3>1. rose <= 4 /\ seen.out = rose + period
      BY <2>1 DEF Catching, Catches, Captures
    <3> QED BY <1>1, <1>3, <3>1
  <2>2. Unread(o, rose, w, cap.out, seen.out, period) => seen.out = rose
    BY DEF Unread
  <2>3. Reads(o, rose, w, cap.out, seen.out) => seen.out = rose
    BY DEF Reads
  <2> QED BY <1>3, <1>7, <2>1, <2>2, <2>3 DEF Watches
<1>11. /\ o.pc = 5 => seen'.out = rose + 1
       /\ o.pc # 5 => seen'.out = IF seen.out = Edges!Unset THEN Edges!Unset ELSE seen.out + 1
  <2>1. /\ o.pc = 5 => seen'.out = rose + 1
        /\ o.pc # 5 => seen'.out = IF seen.out = Edges!Unset THEN Edges!Unset
                                   ELSE Edges!AtMost(seen.out + 1, 2 * Clk)
    BY <1>1, Ages
  <2> QED BY <1>1, <1>10, <2>1 DEF Edges!AtMost
<1>12. CASE m.pc # 7
  <2>1. /\ Counter(sm'.out) /\ Watches(sm'.out, rose + 1, w, cap.out, seen'.out, period)
        /\ Moved(o, rose, sm'.out, rose + 1, 0)
    BY <1>1, <1>2, <1>3, <1>5, <1>9, <1>11, WatchStep
  <2> QED BY <1>3, <1>6, <1>7, <1>12, <2>1
<1>13. CASE m.pc = 7
  <2>1. rose >= w + 5 /\ rose >= Prompt
    BY <1>1, <1>3, <1>4, <1>8, <1>13
  <2>2. /\ Counter(sm'.out) /\ Watches(sm'.out, 0, w, cap.out, seen'.out, rose + 1)
        /\ Moved(o, rose, sm'.out, 0, 1)
    BY <1>1, <1>2, <1>3, <1>5, <1>9, <1>11, <2>1, WatchEdge
  <2> QED BY <1>3, <1>6, <1>7, <1>8, <1>13, <2>2
<1> QED BY <1>12, <1>13

LEMMA SecondsAre ==
  /\ Seconds(1) = Clk /\ Seconds(0) = 0 /\ Seconds(-1) = -Clk /\ Clk \in Nat
  /\ \A j \in -1 .. 1 : j = 1 \/ j = 0 \/ j = -1
<1>1. Seconds(1) = Clk /\ Seconds(0) = 0
  BY DEF Seconds
<1>2. -1 # 1
  OBVIOUS
<1>3. Seconds(-1) = -Clk
  BY <1>2 DEF Seconds
<1> QED BY <1>1, <1>3, PhaseSizes

(* The output rises or not, the receiver's second turns or not.                  *)
LEMMA PhaseClock ==
  ASSUME PhaseTypes, Edges!Clock, NEW cur \in Nat, NEW ahead \in AtMostOne, NEW phase \in Strays,
         NEW apart \in -1 .. 1, NEW period \in Nat, Runs(cur, ahead, phase, apart, period)
  PROVE  PhaseInv'
<1> DEFINE w == width.out
           eg == IF t = Clk - 1 THEN 1 ELSE 0
           eo == IF sm.gen.pc = 7 THEN 1 ELSE 0
<1>1. /\ Running(cur, ahead) /\ NearSecond(cur, ahead, phase, apart, period)
      /\ Unpaired(phase, apart) /\ Watches(sm.out, rose, w, cap.out, seen.out, period)
      /\ InStep(apart) /\ ScheduleInv /\ GpsInv /\ Counter(sm.out) /\ offset \in Offsets
      /\ {"gps", "out", "gen"} = DOMAIN sm
  BY DEF Runs, PhaseTypes, ScheduleInv
<1>2. /\ Clk \in Nat /\ Stray \in Nat /\ Near \in Nat /\ 2 * Stray + 12 < Clk /\ Prompt + Stray < Clk
      /\ Prompt \in Nat /\ phase \in Int /\ -Stray <= phase /\ phase <= Stray
  BY PhaseSizes DEF Strays
<1>3. Slip(cur) \in Int /\ w \in Nat
  BY <1>1, <1>2, WidthSizes, PhaseSizes DEF Slip
<1>4. /\ t - rose = phase + Seconds(apart) /\ phase - (period - Clk) \in Strays
      /\ Gentle(cur) /\ phase + Slip(cur) \in Strays
      /\ ahead # <<>> => Gentle(ahead[1]) /\ (phase + Slip(cur)) + Slip(ahead[1]) \in Strays
  BY <1>1 DEF NearSecond
<1>5. 2 * Slip(cur) <= Stray /\ period + 5 <= 2 * Clk
  BY <1>2, <1>3, <1>4 DEF Gentle, Strays
<1>6. /\ rose <= (Clk + Slip(cur)) - 1 /\ rose \in Nat
      /\ sm.gen.pc = 7 => rose = (Clk + Slip(cur)) - 1
      /\ Counter(sm'.out)
      /\ sm.gen.pc # 7 => /\ Watches(sm'.out, rose + 1, w, cap.out, seen'.out, period)
                          /\ Moved(sm.out, rose, sm'.out, rose + 1, 0)
      /\ sm.gen.pc = 7 => /\ Watches(sm'.out, 0, w, cap.out, seen'.out, rose + 1)
                          /\ Moved(sm.out, rose, sm'.out, 0, 1)
  <2>1. Slip(cur) <= Clk
    BY <1>2, <1>3, <1>5
  <2> QED BY <1>1, <1>5, <2>1, OutClock
<1>7. /\ ScheduleInv'
      /\ sm.gen.pc = 7 => /\ ahead # <<>> /\ rose' = 0
                          /\ ahead[1] \in Nat /\ Running(ahead[1], <<>>)'
      /\ sm.gen.pc # 7 => rose' = rose + 1 /\ Running(cur, ahead)'
  BY <1>1, ScheduleClock
<1>8. /\ GpsInv' /\ cap' = cap
      /\ t # Clk - 1 => t' = t + 1 /\ Moved(sm.gps, t, sm'.gps, t', 0)
      /\ t = Clk - 1 => /\ t' = 0 /\ Moved(sm.gps, t, sm'.gps, t', 1)
                        /\ cap.gps = Edges!Unset => seen.gps = Edges!Unset
      /\ cap.gps = Edges!Unset /\ seen'.gps = Edges!Unset /\ t' >= 5 =>
           seen.gps = Edges!Unset /\ t >= 5
      /\ cap.gps = Edges!Unset =>
           (seen.gps = Edges!Unset /\ t >= 5) \/ t <= 4 \/ t < Prompt
  BY <1>1, GpsClock
<1>9. /\ width' = width /\ offset' = offset /\ offset \in 0 .. (Word - 1) /\ t \in 0 .. (Clk - 1)
      /\ sm'.out \in Machines /\ sm.out \in Machines /\ sm.gps \in Machines /\ sm'.gps \in Machines
      /\ Counter(sm.gps) /\ Counter(sm'.gps)
  BY <1>1, <1>7, <1>8, PhaseSizes DEF Edges!Clock, GpsInv, ScheduleInv
<1>10. /\ apart = 1 => t = (rose + phase) + Clk
       /\ apart = 0 => t = rose + phase
       /\ apart = -1 => t = (rose + phase) - Clk
  <2>1. t \in Int /\ rose \in Int /\ phase \in Int /\ t - rose = phase + Seconds(apart)
    BY <1>2, <1>4, <1>6, <1>9
  <2>2. apart = 1 => t = (rose + phase) + Clk
    BY <2>1, SecondsAre
  <2>3. apart = 0 => t = rose + phase
    BY <2>1, SecondsAre
  <2>4. apart = -1 => t = (rose + phase) - Clk
    BY <2>1, SecondsAre
  <2> QED BY <2>2, <2>3, <2>4
<1>11. /\ t = Clk - 1 => apart # -1
       /\ sm.gen.pc = 7 => apart # 1
       /\ sm.gen.pc = 7 /\ t = Clk - 1 => apart = 0
  BY <1>2, <1>3, <1>4, <1>5, <1>6, <1>9, <1>10 DEF Strays
<1>12. PICK then \in -1 .. 1 : then = (apart + eo) - eg
  BY <1>11
<1>13. InStep(then)'
  <2>1. Moved(sm.gps, t, sm'.gps, t', eg) /\ eg \in 0 .. 1
    BY <1>8
  <2>2. Moved(sm.out, rose, sm'.out, rose', eo) /\ eo \in 0 .. 1
    BY <1>6, <1>7
  <2>3. apart \in Int /\ then \in Int
    OBVIOUS
  <2> HIDE DEF eg, eo
  <2> QED BY <1>1, <1>6, <1>9, <1>12, <2>1, <2>2, <2>3, InStepOn
<1>14. \A word : Slip(word)' = Slip(word)
  BY <1>9 DEF Slip
<1>15. CASE sm.gen.pc # 7
  <2>1. t' - rose' = phase + Seconds(then)
    <3>1. CASE t # Clk - 1
      <4>1. then = apart
        BY <1>12, <1>15, <3>1
      <4>2. t' = t + 1 /\ rose' = rose + 1 /\ t \in Int /\ rose \in Int
        BY <1>6, <1>7, <1>8, <1>9, <1>15, <3>1
      <4> QED BY <1>4, <4>1, <4>2
    <3>2. CASE t = Clk - 1
      <4>1. then = apart - 1 /\ apart \in {0, 1}
        BY <1>11, <1>12, <1>15, <3>2
      <4>2. t' = 0 /\ rose' = rose + 1 /\ rose \in Int /\ t = Clk - 1
        BY <1>6, <1>7, <1>8, <1>15, <3>2
      <4>3. CASE apart = 1
        <5>1. then = 0 /\ t = (rose + phase) + Clk
          BY <1>10, <4>1, <4>3
        <5> QED BY <1>2, <4>2, <5>1, SecondsAre
      <4>4. CASE apart = 0
        <5>1. then = -1 /\ t = rose + phase
          BY <1>10, <4>1, <4>4
        <5> QED BY <1>2, <4>2, <5>1, SecondsAre
      <4> QED BY <4>1, <4>3, <4>4
    <3> QED BY <3>1, <3>2
  <2>2. NearSecond(cur, ahead, phase, then, period)'
    BY <1>4, <1>14, <2>1 DEF NearSecond, Gentle
  <2>3. Unpaired(phase, then)'
    <3> SUFFICES ASSUME cap.gps = Edges!Unset
                 PROVE  /\ phase \in -2 .. 3 /\ then \in 0 .. 1
                        /\ seen'.gps = Edges!Unset /\ t' >= 5 => then = 1
      BY <1>8 DEF Unpaired
    <3>1. phase \in -2 .. 3 /\ apart \in 0 .. 1 /\ (seen.gps = Edges!Unset /\ t >= 5 => apart = 1)
      BY <1>1 DEF Unpaired
    <3>2. CASE t # Clk - 1
      <4>1. then = apart
        BY <1>12, <1>15, <3>2
      <4> QED BY <1>8, <3>1, <4>1
    <3>3. CASE t = Clk - 1
      <4>1. seen.gps = Edges!Unset /\ t >= 5 /\ t' = 0
        BY <1>2, <1>8, <3>3
      <4>2. then = 0
        BY <1>12, <1>15, <3>1, <3>3, <4>1
      <4> QED BY <3>1, <4>1, <4>2
    <3> QED BY <3>2, <3>3
  <2>4. Watches(sm.out, rose, width.out, cap.out, seen.out, period)'
    BY <1>6, <1>7, <1>8, <1>9, <1>15
  <2>5. Runs(cur, ahead, phase, then, period)'
    BY <1>7, <1>13, <1>15, <2>2, <2>3, <2>4 DEF Runs
  <2> QED BY <1>6, <1>7, <1>8, <1>9, <1>1, <2>5 DEF PhaseInv, PhaseTypes, GpsInv
<1>16. CASE sm.gen.pc = 7
  <2>1. PICK p \in Strays : p = phase + Slip(cur)
    BY <1>4
  <2>2. PICK q \in Nat : q = rose + 1
    BY <1>6
  <2>3. PICK word \in Nat : word = ahead[1]
    BY <1>7, <1>16
  <2>4. t' - rose' = p + Seconds(then)
    <3>1. CASE t # Clk - 1
      <4>1. then = apart + 1 /\ apart \in {-1, 0}
        BY <1>11, <1>12, <1>16, <3>1
      <4>2. t' = t + 1 /\ rose' = 0 /\ rose = (Clk + Slip(cur)) - 1 /\ t \in Int
        BY <1>6, <1>7, <1>8, <1>9, <1>16, <3>1
      <4>3. CASE apart = 0
        <5>1. then = 1 /\ t = rose + phase
          BY <1>10, <4>1, <4>3
        <5> QED BY <1>2, <1>3, <2>1, <4>2, <5>1, SecondsAre
      <4>4. CASE apart = -1
        <5>1. then = 0 /\ t = (rose + phase) - Clk
          BY <1>10, <4>1, <4>4
        <5> QED BY <1>2, <1>3, <2>1, <4>2, <5>1, SecondsAre
      <4> QED BY <4>1, <4>3, <4>4
    <3>2. CASE t = Clk - 1
      <4>1. then = 0 /\ apart = 0
        BY <1>11, <1>12, <1>16, <3>2
      <4>2. t' = 0 /\ rose' = 0 /\ rose = (Clk + Slip(cur)) - 1 /\ t = Clk - 1 /\ t = rose + phase
        BY <1>6, <1>7, <1>8, <1>10, <1>16, <3>2, <4>1
      <4> QED BY <1>2, <1>3, <2>1, <4>1, <4>2, SecondsAre
    <3> QED BY <3>1, <3>2
  <2>5. p - (q - Clk) = phase
    BY <1>2, <1>3, <1>6, <1>16, <2>1, <2>2
  <2>6. NearSecond(word, <<>>, p, then, q)'
    <3>1. Gentle(word)' /\ p - (q - Clk) \in Strays /\ p + Slip(word)' \in Strays
      BY <1>4, <1>7, <1>14, <1>16, <2>1, <2>3, <2>5 DEF Gentle
    <3> QED BY <2>4, <3>1 DEF NearSecond
  <2>7. cap'.gps # Edges!Unset
    <3> SUFFICES ASSUME cap.gps = Edges!Unset PROVE FALSE
      BY <1>8
    <3>1. apart \in 0 .. 1 /\ (seen.gps = Edges!Unset /\ t >= 5 => apart = 1)
      BY <1>1 DEF Unpaired
    <3>2. apart = 0
      BY <1>11, <1>16, <3>1
    <3>3. t = ((Clk - 1) + phase) + Slip(cur) /\ t >= (Clk - 1) - Stray
      <4>1. t = rose + phase /\ rose = (Clk + Slip(cur)) - 1
        BY <1>6, <1>10, <1>16, <3>2
      <4>2. phase + Slip(cur) >= -Stray
        BY <1>2, <1>4 DEF Strays
      <4> QED BY <1>2, <1>3, <4>1, <4>2
    <3> QED BY <1>2, <1>8, <1>9, <3>1, <3>2, <3>3
  <2>8. Unpaired(p, then)'
    BY <2>7 DEF Unpaired
  <2>9. Watches(sm.out, rose, width.out, cap.out, seen.out, q)'
    BY <1>6, <1>7, <1>8, <1>9, <1>16, <2>2
  <2>10. Running(word, <<>>)' /\ <<>> \in AtMostOne
    BY <1>7, <1>16, <2>3 DEF AtMostOne
  <2>11. Runs(word, <<>>, p, then, q)'
    BY <1>13, <2>6, <2>8, <2>9, <2>10 DEF Runs
  <2> QED BY <1>6, <1>7, <1>8, <1>9, <1>1, <2>10, <2>11 DEF PhaseInv, PhaseTypes, GpsInv
<1> QED BY <1>15, <1>16
-----------------------------------------------------------------------------
LEMMA StrayRoom ==
  ASSUME freq \in Freqs
  PROVE  Stray >= 2 * Near + 7
<1>1. PICK c \in Corrs : c * Unit <= freq
  BY StrayAssumption
<1> DEFINE slip == freq \div Unit - c
<1>2. 2 * Near + 6 + 2 * slip + 2 <= Stray /\ 2 * Near + 6 - 2 * slip <= Stray
  BY <1>1, StrayAssumption
<1>3. slip \in Int /\ Near \in Int /\ Stray \in Int
  <2>1. freq \in Int /\ c \in Int /\ Unit \in Nat \ {0} /\ Near \in Int /\ Stray \in Int
    BY ScheduleSizes, PhaseSizes
  <2> QED BY <2>1
<1> HIDE DEF slip
<1> QED BY <1>2, <1>3

LEMMA PhaseInit == Edges!Init => PhaseInv
<1> SUFFICES ASSUME Edges!Init PROVE PhaseInv
  OBVIOUS
<1> DEFINE turn == (0 - offset) % Word
<1>1. /\ width \in [gps : Widths, out : Widths] /\ offset \in Offsets /\ t \in {Clk - 4, Clk - 9}
      /\ rose = Edges!Unset /\ cap = [s \in Edges!Captures |-> Edges!Unset]
      /\ seen = [s \in Edges!Captures |-> Edges!Unset]
      /\ sm.gps = Edges!Machine(0, <<>>) /\ sm.out = Edges!Machine(turn, <<>>)
      /\ sm.gen.pc = 1
  BY DEF Edges!Init, Edges!Machine
<1>2. /\ Word \in Nat \ {0} /\ offset \in 0 .. (Word - 1) /\ width.gps \in Widths
      /\ width.gps \in 5 .. (Clk - 9) /\ Clk \in Nat /\ Edges!Unset = -1
  BY <1>1, PhaseSizes
<1>3. turn \in 0 .. (Word - 1)
  BY <1>2, Wrapped
<1>4. /\ sm.gps.pc = 1 /\ sm.gps.x = 0 /\ sm.gps.rx = <<>>
      /\ sm.out.pc = 1 /\ sm.out.x = turn /\ sm.out.rx = <<>>
  BY <1>1 DEF Edges!Machine
<1>5. sm.gps \in Machines
  <2>1. FALSE \in BOOLEAN
    BY Zenon
  <2>2. Edges!Machine(0, <<>>) \in Machines
    BY <2>1 DEF Edges!Machine, Machines
  <2> QED BY <1>1, <2>2
<1> HIDE DEF turn
<1>6. Counter(sm.gps) /\ Counter(sm.out)
  BY <1>2, <1>3, <1>4 DEF Counter
<1>7. t \in 0 .. (Clk - 1) /\ t \notin 0 .. 2 /\ t \in (Clk - 9) .. (Clk - 1)
  BY <1>1, <1>2
<1>8. seen.out = Edges!Unset /\ cap.out = Edges!Unset /\ seen.gps = Edges!Unset /\ cap.gps = Edges!Unset
  BY <1>1 DEF Edges!Captures
<1>9. GpsWatched
  BY <1>4, <1>7, <1>8 DEF GpsWatched, Awaits
<1>10. ScheduleInv
  BY ScheduleInit
<1>11. Starting
  <2>1. rose \notin Nat
    BY <1>1, <1>2
  <2> QED BY <1>10, <2>1 DEF ScheduleInv, Running
<1>12. InStep(0)
  <2>1. Place(sm.gps) = 0 - 2 * 0 /\ Place(sm.out) = 0 - 2 * turn
    BY <1>4, Places
  <2>2. Toll(sm.gps, t) = 3 /\ Toll(sm.out, rose) = 3
    <3>1. rose \notin 0 .. 2
      BY <1>1, <1>2
    <3> QED BY <1>4, <1>7, <3>1 DEF Toll
  <2>3. (Where(sm.out, rose) + 3 * 0) + 0 = Where(sm.gps, t) - 2 * turn
    BY <1>2, <1>3, <2>1, <2>2 DEF Where
  <2> QED BY <2>3, LapsClosed DEF InStep, turn
<1>13. t = (sm.gen.pc + Clk) - 10 \/ (sm.gen.pc <= 4 /\ t = (sm.gen.pc + Clk) - 5)
  BY <1>1, <1>2
<1>14. Boots
  BY <1>8, <1>11, <1>12, <1>13 DEF Boots
<1>15. DOMAIN cap = Edges!Captures
  BY <1>1
<1> QED BY <1>1, <1>2, <1>5, <1>6, <1>7, <1>9, <1>10, <1>14, <1>15 DEF PhaseInv, PhaseTypes, GpsInv

(* The first edge comes two cycles before the receiver's second or three after.  *)
LEMMA PhaseStarts ==
  ASSUME PhaseTypes, Edges!Clock, Boots
  PROVE  PhaseInv'
<1> DEFINE w == width.out
           pc == sm.gen.pc
           eg == IF t = Clk - 1 THEN 1 ELSE 0
           eo == IF pc = 7 THEN 1 ELSE 0
<1>1. /\ ScheduleInv /\ GpsInv /\ Counter(sm.out) /\ offset \in Offsets /\ Starting
      /\ seen.out = Edges!Unset /\ cap.out = Edges!Unset
      /\ seen.gps = Edges!Unset /\ cap.gps = Edges!Unset
      /\ {"gps", "out", "gen"} = DOMAIN sm
  BY DEF PhaseTypes, Boots, ScheduleInv
<1>2. /\ Clk \in Nat /\ Stray \in Nat /\ Near \in Nat /\ 2 * Stray + 12 < Clk
      /\ Stray >= 2 * Near + 7 /\ Edges!Unset = -1 /\ t \in 0 .. (Clk - 1)
      /\ width.out \in Nat
  BY <1>1, PhaseSizes, StrayRoom DEF GpsInv, ScheduleInv
<1>3. /\ ScheduleInv' /\ pc \in 1 .. 7 /\ ~sm.gen.pin
      /\ pc # 7 => Starting' /\ sm'.gen.pc = pc + 1
      /\ pc = 7 => Running(FirstWord, <<>>)' /\ rose' = 0
  BY <1>1, ScheduleStarts
<1>4. /\ GpsInv' /\ cap' = cap
      /\ t # Clk - 1 => t' = t + 1 /\ Moved(sm.gps, t, sm'.gps, t', 0)
      /\ t = Clk - 1 => t' = 0 /\ Moved(sm.gps, t, sm'.gps, t', 1)
  BY <1>1, GpsClock
<1>5. /\ width' = width /\ offset' = offset /\ offset \in 0 .. (Word - 1)
      /\ sm'.out \in Machines /\ sm.out \in Machines /\ sm.gps \in Machines /\ sm'.gps \in Machines
      /\ Counter(sm.gps) /\ Counter(sm'.gps)
  BY <1>1, <1>3, <1>4, PhaseSizes DEF Edges!Clock, GpsInv, ScheduleInv
<1>6. rose = -1 /\ rose \in Int /\ rose \notin 0 .. 2 /\ sm.out.pc \in 1 .. 3 /\ sm.out.rx = <<>>
  BY <1>1, <1>2 DEF Starting, Awaits
<1>7. PICK level \in BOOLEAN :
        /\ level <=> sm.gen.pin
        /\ Moves(sm.out, Edges!CaptureProgram[sm.out.pc], level, Edges!CaptureProgram, sm'.out)
  BY <1>1, MachinesMove
<1>8. PICK s \in Int : s = rose' /\ (pc = 7 => s = 0) /\ (pc # 7 => s = -1)
  <2>1. pc # 7 => rose' = -1
    BY <1>2, <1>3 DEF Starting, Edges!Unset
  <2> QED BY <1>3, <2>1
<1>9. /\ Counter(sm'.out) /\ Awaits(sm'.out)
      /\ s = 0 => Moved(sm.out, rose, sm'.out, s, 1)
      /\ s \notin 0 .. 2 => Moved(sm.out, rose, sm'.out, s, 0)
  BY <1>1, <1>3, <1>5, <1>6, <1>7, WhereEdge
<1>10. Moved(sm.out, rose, sm'.out, rose', eo) /\ eo \in 0 .. 1
  BY <1>8, <1>9
<1>11. Moved(sm.gps, t, sm'.gps, t', eg) /\ eg \in 0 .. 1
  BY <1>4
<1>12. seen'.out = Edges!Unset
  BY <1>1, <1>6, Ages
<1>13. ASSUME NEW apart \in Int, InStep(apart), NEW then \in Int, then = (apart + eo) - eg
       PROVE  InStep(then)'
  <2> HIDE DEF eg, eo
  <2> QED BY <1>1, <1>5, <1>9, <1>10, <1>11, <1>13, InStepOn
<1>14. \/ t = (pc + Clk) - 10 /\ InStep(0)
       \/ pc <= 4 /\ t = (pc + Clk) - 5 /\ InStep(0)
       \/ pc >= 5 /\ t = pc - 5 /\ InStep(-1)
  BY DEF Boots
<1>15. CASE pc # 7
  <2>1. Starting' /\ sm'.gen.pc = pc + 1
    BY <1>3, <1>15
  <2>2. ASSUME t = (pc + Clk) - 10, InStep(0)
        PROVE  t' = (sm'.gen.pc + Clk) - 10 /\ InStep(0)'
    <3>1. t # Clk - 1
      BY <1>2, <1>3, <1>15, <2>2
    <3>2. 0 = (0 + eo) - eg
      BY <1>15, <3>1
    <3>3. InStep(0)'
      BY <1>13, <2>2, <3>2
    <3>4. t' = t + 1
      BY <1>4, <3>1
    <3>5. t' = ((pc + 1) + Clk) - 10
      <4>1. pc \in Int
        BY <1>3
      <4> HIDE DEF pc
      <4> QED BY <1>2, <2>2, <3>4, <4>1
    <3> QED BY <2>1, <3>3, <3>5
  <2>3. ASSUME pc <= 3, t = (pc + Clk) - 5, InStep(0)
        PROVE  sm'.gen.pc <= 4 /\ t' = (sm'.gen.pc + Clk) - 5 /\ InStep(0)'
    <3>1. t # Clk - 1
      BY <1>2, <1>3, <2>3
    <3>2. 0 = (0 + eo) - eg
      BY <1>15, <3>1
    <3>3. InStep(0)'
      BY <1>13, <2>3, <3>2
    <3>4. t' = t + 1
      BY <1>4, <3>1
    <3> QED BY <1>2, <1>3, <2>1, <2>3, <3>3, <3>4
  <2>4. ASSUME pc = 4, t = (pc + Clk) - 5, InStep(0)
        PROVE  sm'.gen.pc >= 5 /\ t' = sm'.gen.pc - 5 /\ InStep(-1)'
    <3>1. t = Clk - 1
      BY <1>2, <2>4
    <3>2. -1 = (0 + eo) - eg
      BY <1>15, <3>1
    <3>3. InStep(-1)'
      BY <1>13, <2>4, <3>2
    <3>4. t' = 0
      BY <1>4, <3>1
    <3> QED BY <1>3, <2>1, <2>4, <3>3, <3>4
  <2>5. ASSUME pc >= 5, t = pc - 5, InStep(-1)
        PROVE  sm'.gen.pc >= 5 /\ t' = sm'.gen.pc - 5 /\ InStep(-1)'
    <3>1. t # Clk - 1
      BY <1>2, <1>3, <2>5
    <3>2. -1 = (-1 + eo) - eg
      BY <1>15, <3>1
    <3>3. InStep(-1)'
      BY <1>13, <2>5, <3>2
    <3>4. t' = t + 1
      BY <1>4, <3>1
    <3> QED BY <1>2, <1>3, <2>1, <2>5, <3>3, <3>4
  <2>6. \/ t' = (sm'.gen.pc + Clk) - 10 /\ InStep(0)'
        \/ sm'.gen.pc <= 4 /\ t' = (sm'.gen.pc + Clk) - 5 /\ InStep(0)'
        \/ sm'.gen.pc >= 5 /\ t' = sm'.gen.pc - 5 /\ InStep(-1)'
    <3>1. pc <= 4 => pc <= 3 \/ pc = 4
      BY <1>3
    <3> QED BY <1>14, <2>2, <2>3, <2>4, <2>5, <3>1
  <2>a. sm.gps.pc # 5
    <3>1. t < 2 \/ t > 4
      <4>1. pc \in 1 .. 6
        BY <1>3, <1>15
      <4>2. /\ Clk > 26 /\ Clk \in Nat /\ t \in Int
        BY <1>2
      <4>3. t = (pc + Clk) - 10 \/ t = (pc + Clk) - 5 \/ (pc >= 5 /\ t = pc - 5)
        BY <1>14
      <4> HIDE DEF pc
      <4> QED BY <4>1, <4>2, <4>3
    <3>2. Awaits(sm.gps) => sm.gps.pc # 5
      BY DEF Awaits
    <3>3. Watches(sm.gps, t, width.gps - 2, cap.gps, seen.gps, Clk) => sm.gps.pc # 5
      BY <1>1, <1>2, <3>1 DEF Watches, Catching, Unread, Reads, Catches, Captures
    <3> QED BY <1>1, <3>2, <3>3 DEF GpsInv, GpsWatched
  <2>b. seen'.gps = Edges!Unset
    BY <1>1, <1>5, <2>a, GpsMoves
  <2>7. Boots'
    BY <1>1, <1>4, <1>12, <2>1, <2>6, <2>b DEF Boots, Edges!Unset
  <2> QED BY <1>1, <1>3, <1>4, <1>5, <1>9, <2>7 DEF PhaseInv, PhaseTypes, GpsInv
<1>16. CASE pc = 7
  <2>1. rose' = 0 /\ Running(FirstWord, <<>>)' /\ eo = 1
    BY <1>3, <1>16
  <2>2. PICK phase \in -2 .. 3, apart \in 0 .. 1 :
          /\ t' = phase + Seconds(apart) /\ InStep(apart)'
          /\ t' >= 5 => apart = 1
    <3>1. CASE t = (pc + Clk) - 10 /\ InStep(0)
      <4>1. t = Clk - 3 /\ t # Clk - 1
        BY <1>2, <1>16, <3>1
      <4>2. 1 = (0 + eo) - eg
        BY <2>1, <4>1
      <4>3. InStep(1)'
        BY <1>13, <3>1, <4>2
      <4>4. t' = -2 + Seconds(1)
        BY <1>2, <1>4, <4>1, SecondsAre
      <4> QED BY <4>3, <4>4
    <3>2. CASE pc <= 4 /\ t = (pc + Clk) - 5 /\ InStep(0)
      BY <1>16, <3>2
    <3>3. CASE pc >= 5 /\ t = pc - 5 /\ InStep(-1)
      <4>1. t = 2 /\ t # Clk - 1
        BY <1>2, <1>16, <3>3
      <4>2. 0 = (-1 + eo) - eg
        BY <2>1, <4>1
      <4>3. InStep(0)'
        BY <1>13, <3>3, <4>2
      <4>4. t' = 3 /\ t' = 3 + Seconds(0)
        BY <1>4, <4>1, SecondsAre
      <4> QED BY <4>3, <4>4
    <3> QED BY <1>14, <3>1, <3>2, <3>3
  <2>3. PICK first \in Nat : first = FirstWord
    <3>1. FirstWord \in 0 .. (Word - 1)
      BY <1>1, FirstWordFits DEF FirstWord, ScheduleInv
    <3> QED BY <3>1, PhaseSizes
  <2>4. Running(first, <<>>)'
    <3>1. FirstWord' = FirstWord
      BY <1>5 DEF FirstWord
    <3> QED BY <2>1, <2>3, <3>1
  <2>5. Slip(first)' = 0
    BY <1>2, <1>5, <2>3, PhaseSizes DEF Slip, FirstWord, Edges!OutputPeriodCycles
  <2>6. NearSecond(first, <<>>, phase, apart, Clk)'
    <3>1. phase \in Strays /\ phase - (Clk - Clk) \in Strays /\ phase + 0 \in Strays
      BY <1>2 DEF Strays
    <3>2. Gentle(first)'
      BY <1>2, <2>5 DEF Gentle
    <3>3. t' - rose' = phase + Seconds(apart)
      <4>1. t' \in Int
        BY <1>4 DEF GpsInv
      <4> QED BY <2>1, <2>2, <4>1
    <3> QED BY <2>5, <3>1, <3>2, <3>3 DEF NearSecond
  <2>7. Unpaired(phase, apart)'
    BY <2>2 DEF Unpaired
  <2>8. Watches(sm.out, rose, width.out, cap.out, seen.out, Clk)'
    <3>1. Catches(sm'.out, 0)
      BY <1>9 DEF Catches, Captures, Awaits
    <3>2. Catching(sm'.out, 0, cap.out, seen'.out, Clk)
      BY <1>1, <1>12, <3>1 DEF Catching
    <3>3. Watches(sm'.out, 0, width.out, cap.out, seen'.out, Clk)
      BY <3>2 DEF Watches
    <3> QED BY <1>4, <1>5, <2>1, <3>3
  <2>9. Runs(first, <<>>, phase, apart, Clk)'
    BY <2>2, <2>4, <2>6, <2>7, <2>8 DEF Runs
  <2>10. <<>> \in AtMostOne /\ phase \in Strays /\ apart \in -1 .. 1
    BY <1>2 DEF AtMostOne, Strays
  <2> QED BY <1>1, <1>2, <1>3, <1>4, <1>5, <1>9, <2>3, <2>9, <2>10 DEF PhaseInv, PhaseTypes, GpsInv
<1> QED BY <1>15, <1>16

(* The task reads a capture of the receiver's edge.                             *)
LEMMA PhaseReadGps ==
  ASSUME PhaseInv, Edges!ReadGps
  PROVE  PhaseInv'
<1> DEFINE m == sm.gps
           w == width.gps - 2
<1>1. /\ ScheduleInv /\ m \in Machines /\ Counter(m) /\ Counter(sm.out)
      /\ width.gps \in Widths /\ offset \in Offsets /\ t \in 0 .. (Clk - 1) /\ GpsWatched
      /\ {"gps", "out", "gen"} = DOMAIN sm /\ DOMAIN cap = Edges!Captures
  BY DEF PhaseInv, PhaseTypes, GpsInv, ScheduleInv
<1>2. /\ m.rx # <<>> /\ sm' = [sm EXCEPT !.gps.rx = <<>>]
      /\ cap' = [cap EXCEPT !.gps = Edges!LatestCapture(m.rx)]
      /\ UNCHANGED <<t, width, offset, freq, acc, seen, rose, wants, late>>
  BY DEF Edges!ReadGps
<1>3. Unread(m, t, w, cap.gps, seen.gps, Clk)
  <2>1. ~Awaits(m) /\ ~Catching(m, t, cap.gps, seen.gps, Clk) /\ ~Reads(m, t, w, cap.gps, seen.gps)
    BY <1>2 DEF Awaits, Catching, Catches, Captures, Reads
  <2> QED BY <1>1, <2>1 DEF GpsWatched, Watches
<1>4. PICK x \in Int : m.rx = <<x>> /\ Stamps(m, t, x, t, 0)
  BY <1>3 DEF Unread
<1>5. Edges!LatestCapture(m.rx) = x
  BY <1>4 DEF Edges!LatestCapture, Edges!Last
<1>6. /\ sm'.gps = [m EXCEPT !.rx = <<>>] /\ sm'.out = sm.out /\ sm'.gen = sm.gen
      /\ cap'.gps = x /\ cap'.out = cap.out /\ DOMAIN cap' = Edges!Captures
  BY <1>1, <1>2, <1>5 DEF Edges!Captures
<1>7. sm'.gps \in Machines
  <2>1. <<>> \in Seq(Int)
    OBVIOUS
  <2> QED BY <1>1, <1>6, <2>1 DEF Machines
<1>8. sm'.gps.pc = m.pc /\ sm'.gps.x = m.x /\ sm'.gps.isr = m.isr /\ sm'.gps.rx = <<>>
  BY <1>1, <1>6 DEF Machines
<1>9. Counter(sm'.gps) /\ Where(sm'.gps, t) = Where(m, t)
  BY <1>1, <1>8 DEF Counter, Where, Place, Toll
<1>10. Reads(sm'.gps, t, w, x, seen.gps)
  <2>1. Captured(sm'.gps, t, w) /\ seen.gps = t
    BY <1>3, <1>8 DEF Unread, Captured
  <2>2. Stamps(sm'.gps, t, x, t, 0)
    BY <1>4, <1>9 DEF Stamps
  <2> QED BY <1>8, <2>1, <2>2 DEF Reads
<1>11. GpsWatched'
  BY <1>2, <1>6, <1>10 DEF GpsWatched, Watches
<1>12. PhaseTypes'
  <2>1. ScheduleInv'
    BY <1>1, ScheduleReadGps
  <2> QED BY <1>1, <1>2, <1>6, <1>7, <1>9, <1>11, <2>1 DEF PhaseTypes, GpsInv
<1>13. ~Boots
  <2>1. seen.gps = t /\ Edges!Unset = -1
    BY <1>3, PhaseSizes DEF Unread
  <2> QED BY <1>1, <2>1 DEF Boots
<1>14. PICK cur \in Nat, ahead \in AtMostOne, phase \in Strays, apart \in -1 .. 1, period \in Nat :
         Runs(cur, ahead, phase, apart, period)
  BY <1>13 DEF PhaseInv
<1>15. Running(cur, ahead)'
  BY <1>1, <1>14, ScheduleReadGps DEF Runs
<1>16. NearSecond(cur, ahead, phase, apart, period)'
  BY <1>2, <1>14 DEF Runs, NearSecond, Gentle, Slip
<1>17. cap'.gps # Edges!Unset
  BY <1>4, <1>6, PhaseSizes DEF Stamps
<1>18. Watches(sm.out, rose, width.out, cap.out, seen.out, period)'
  BY <1>2, <1>6, <1>14 DEF Runs
<1>19. InStep(apart)'
  BY <1>2, <1>6, <1>9, <1>14 DEF Runs, InStep
<1>20. Runs(cur, ahead, phase, apart, period)'
  BY <1>15, <1>16, <1>17, <1>18, <1>19 DEF Runs, Unpaired
<1> QED BY <1>12, <1>20 DEF PhaseInv
-----------------------------------------------------------------------------
(* What the last count of the receiver's edge is a count of: this second's edge,  *)
(* or with the next one captured and not yet read, the one before.               *)
GpsStamped(later) ==
  /\ Stamps(sm.gps, t, cap.gps, t + Seconds(later), later)
  /\ later = 1 => t <= Prompt \/ t <= 5
  /\ sm.gps.rx = <<>> => seen.gps = t + Seconds(later)

LEMMA GpsCount ==
  ASSUME GpsInv, cap.gps # Edges!Unset
  PROVE  \E later \in 0 .. 1 : GpsStamped(later)
<1> DEFINE w == width.gps - 2
<1>1. t \in Int /\ Clk \in Int
  BY PhaseSizes DEF GpsInv
<1>2. Watches(sm.gps, t, w, cap.gps, seen.gps, Clk)
  BY DEF GpsInv, GpsWatched
<1>3. Seconds(1) = Clk /\ Seconds(0) = 0 /\ t + 0 = t
  BY <1>1, SecondsAre
<1>4. CASE Catching(sm.gps, t, cap.gps, seen.gps, Clk)
  <2>1. t <= 5
    BY <1>1, <1>4 DEF Catching, Catches, Captures
  <2>2. GpsStamped(1)
    BY <1>3, <1>4, <2>1 DEF Catching, GpsStamped
  <2> QED BY <2>2
<1>5. CASE Unread(sm.gps, t, w, cap.gps, seen.gps, Clk)
  <2>1. sm.gps.rx # <<>>
    BY <1>5, TwoWords DEF Unread
  <2>2. GpsStamped(1)
    BY <1>3, <1>5, <2>1 DEF Unread, GpsStamped
  <2> QED BY <2>2
<1>6. CASE Reads(sm.gps, t, w, cap.gps, seen.gps)
  <2>1. GpsStamped(0)
    BY <1>3, <1>6 DEF Reads, GpsStamped
  <2> QED BY <2>1
<1> QED BY <1>2, <1>4, <1>5, <1>6 DEF Watches

(* Two counts read, and how far apart the edges are that they count.              *)
LEMMA LagRead ==
  ASSUME sm.gps \in Machines, Counter(sm.gps), sm.out \in Machines, Counter(sm.out),
         offset \in 0 .. (Word - 1), NEW apart \in Int, InStep(apart),
         NEW vg, NEW ag \in Int, NEW lg \in Int, Stamps(sm.gps, t, vg, ag, lg),
         NEW vo, NEW ao \in Int, NEW lo \in Int, Stamps(sm.out, rose, vo, ao, lo),
         NEW j \in -1 .. 1, j = (apart + lg) - lo,
         ag - ao \in (-(Clk + Stray)) .. (Clk + Stray)
  PROVE  ((ag - ao) - 3 * j) - 2 * Edges!RawLag(vg, vo, offset) \in -3 .. 3
<1> DEFINE turn == (0 - offset) % Word
<1>1. turn \in Int
  BY PhaseSizes
<1>2. PICK l \in Laps : (Where(sm.out, rose) + 3 * apart) + l = Where(sm.gps, t) - 2 * turn
  BY DEF InStep
<1>3. /\ vg \in 0 .. (Word - 1) /\ vo \in 0 .. (Word - 1)
  BY DEF Stamps
<1>4. PICK kg \in Laps, dg \in 0 .. 2 :
        /\ ag = (((Where(sm.gps, t) + 3 * lg) + kg) + 2 * vg) + dg
        /\ dg = 2 => vg = Word - 1
  BY DEF Stamps
<1>5. PICK ko \in Laps, do \in 0 .. 2 :
        /\ ao = (((Where(sm.out, rose) + 3 * lo) + ko) + 2 * vo) + do
        /\ do = 2 => vo = Word - 1
  BY DEF Stamps
<1>6. /\ Where(sm.gps, t) \in Int /\ Where(sm.out, rose) \in Int
      /\ l \in Int /\ kg \in Int /\ ko \in Int /\ vg \in Int /\ vo \in Int
  <2>1. Where(sm.gps, t) \in Int /\ Where(sm.out, rose) \in Int
    BY WhereTyped
  <2>2. l \in Int /\ kg \in Int /\ ko \in Int
    BY LapsClosed
  <2> QED BY <1>3, <2>1, <2>2, PhaseSizes
<1>7. (l + kg) - ko \in Laps
  BY LapsClosed
<1> HIDE DEF turn
<1>8. ag - ao = ((3 * j + ((l + kg) - ko)) + 2 * turn) + ((2 * vg - 2 * vo) + (dg - do))
  BY <1>1, <1>2, <1>4, <1>5, <1>6
<1>9. PICK lap \in Laps : lap = (l + kg) - ko
  BY <1>7
<1>10. PICK gap \in (-(Clk + Stray)) .. (Clk + Stray) : gap = ag - ao
  OBVIOUS
<1>11. gap = ((3 * j + lap) + 2 * ((0 - offset) % Word)) + ((2 * vg - 2 * vo) + (dg - do))
  BY <1>8, <1>9, <1>10 DEF turn
<1>12. (gap - 3 * j) - 2 * Edges!RawLag(vg, vo, offset) \in -3 .. 3
  BY <1>3, <1>4, <1>5, <1>11, ReadPhase
<1> QED BY <1>10, <1>12

(* The word it answers an output edge with leaves the output near its second.     *)
LEMMA TurnedBack ==
  ASSUME NEW pt \in Int, NEW phase \in Int, 2 * pt - phase \in -6 .. 3,
         NEW slip \in Int, NEW next \in Int, phase + slip \in Strays,
         2 * slip <= Stray - (2 * Near + 6), -(2 * slip) <= Stray - (2 * Near + 6),
         2 * next <= Stray - (2 * Near + 6), -(2 * next) <= Stray - (2 * Near + 6),
         pt > Near => next <= 0, pt < -Near => next >= 0
  PROVE  (phase + slip) + next \in Strays
<1>1. Stray \in Nat /\ Near \in Nat
  BY PhaseSizes
<1>2. /\ -Stray <= phase + slip /\ phase + slip <= Stray
      /\ 2 * pt <= phase + 3 /\ phase <= 2 * pt + 6
  BY <1>1 DEF Strays
<1>3. (phase + slip) + next <= Stray
  <2>1. CASE pt > Near
    BY <1>1, <1>2, <2>1
  <2>2. CASE pt <= Near
    BY <1>1, <1>2, <2>2
  <2> QED BY <1>1, <2>1, <2>2
<1>4. -Stray <= (phase + slip) + next
  <2>1. CASE pt < -Near
    BY <1>1, <1>2, <2>1
  <2>2. CASE pt >= -Near
    BY <1>1, <1>2, <2>2
  <2> QED BY <1>1, <2>1, <2>2
<1> QED BY <1>1, <1>3, <1>4 DEF Strays

LEMMA PhaseReadOut ==
  ASSUME PhaseInv, Edges!ReadOut
  PROVE  PhaseInv'
<1> DEFINE o == sm.out
           w == width.out
<1>1. /\ ScheduleInv /\ GpsInv /\ o \in Machines /\ Counter(o) /\ sm.gps \in Machines
      /\ Counter(sm.gps) /\ offset \in Offsets /\ offset \in 0 .. (Word - 1) /\ freq \in Freqs
      /\ w \in Widths /\ DOMAIN cap = Edges!Captures /\ t \in 0 .. (Clk - 1)
  BY PhaseSizes DEF PhaseInv, PhaseTypes, GpsInv, ScheduleInv
<1>2. /\ o.rx # <<>> /\ cap' = [cap EXCEPT !.out = Edges!LatestCapture(o.rx)]
      /\ UNCHANGED <<t, width, offset, freq, seen, rose, late>>
  BY DEF Edges!ReadOut
<1>3. ~Boots
  BY <1>2 DEF Boots, Starting, Awaits
<1>4. PICK cur \in Nat, ahead \in AtMostOne, phase \in Strays, apart \in -1 .. 1, period \in Nat :
         Runs(cur, ahead, phase, apart, period)
  BY <1>3 DEF PhaseInv
<1>5. /\ Running(cur, ahead) /\ NearSecond(cur, ahead, phase, apart, period)
      /\ Unpaired(phase, apart) /\ Watches(o, rose, w, cap.out, seen.out, period) /\ InStep(apart)
  BY <1>4 DEF Runs
<1>6. Unread(o, rose, w, cap.out, seen.out, period)
  <2>1. ~Catching(o, rose, cap.out, seen.out, period) /\ ~Reads(o, rose, w, cap.out, seen.out)
    BY <1>2 DEF Catching, Catches, Captures, Reads
  <2> QED BY <1>5, <2>1 DEF Watches
<1>7. PICK x \in Int : o.rx = <<x>> /\ Stamps(o, rose, x, rose, 0)
  BY <1>6 DEF Unread
<1>8. Edges!LatestCapture(o.rx) = x /\ x \in 0 .. (Word - 1)
  <2>1. Edges!LatestCapture(o.rx) = x
    BY <1>7 DEF Edges!LatestCapture, Edges!Last
  <2> QED BY <1>7, <2>1 DEF Stamps
<1>9. /\ ScheduleInv' /\ acc \in 0 .. (Unit - 1) /\ sm'.gps = sm.gps /\ sm'.out = [o EXCEPT !.rx = <<>>]
      /\ \E c \in Corrs, word \in Int :
           /\ Edges!Turns(c, Edges!LatestCapture(o.rx))
           /\ word = Edges!NextPeriod(acc, freq, c, w).word
           /\ Running(cur, <<word>>)'
  BY <1>1, <1>5, ScheduleReadOut
<1>10. PICK c \in Corrs, word \in Int :
         /\ Edges!Turns(c, x)
         /\ word = Edges!NextPeriod(acc, freq, c, w).word
         /\ Running(cur, <<word>>)'
  BY <1>8, <1>9
<1>11. /\ Slip(word) \in Int /\ Gentle(word)
       /\ (\A d \in Corrs : c >= d) => Slip(word) <= 0
       /\ (\A d \in Corrs : c <= d) => Slip(word) >= 0
  BY <1>1, <1>9, <1>10, GentleWord
<1>12. /\ Clk \in Nat /\ Stray \in Nat /\ Near \in Nat /\ 2 * Stray + 12 < Clk /\ Prompt + Stray < Clk
       /\ Prompt \in Nat /\ phase \in Int /\ -Stray <= phase /\ phase <= Stray
       /\ Stray >= 2 * Near + 7 /\ rose \in Nat /\ t \in Int /\ t >= 0
  BY <1>1, <1>5, PhaseSizes, StrayRoom DEF Strays, Running
<1>13. Slip(cur) \in Int
  <2>1. w \in Nat
    BY <1>1, WidthSizes
  <2> QED BY <1>12, <2>1, PhaseSizes DEF Slip
<1>14. /\ t - rose = phase + Seconds(apart) /\ phase - (period - Clk) \in Strays
       /\ Gentle(cur) /\ phase + Slip(cur) \in Strays
  BY <1>5 DEF NearSecond
<1>15. /\ 2 * Slip(cur) <= Stray - (2 * Near + 6) /\ -(2 * Slip(cur)) <= Stray - (2 * Near + 6)
       /\ 2 * Slip(word) <= Stray - (2 * Near + 6) /\ -(2 * Slip(word)) <= Stray - (2 * Near + 6)
  BY <1>11, <1>14 DEF Gentle
<1>16. (phase + Slip(cur)) + Slip(word) \in Strays
  <2>1. CASE cap.gps = Edges!Unset
    <3>1. phase \in -2 .. 3
      BY <1>5, <2>1 DEF Unpaired
    <3>2. (phase + Slip(cur)) + Slip(word) \in (-Stray) .. Stray
      BY <1>11, <1>12, <1>13, <1>15, <3>1
    <3> QED BY <3>2 DEF Strays
  <2>2. CASE cap.gps # Edges!Unset
    <3>1. PICK later \in 0 .. 1 : GpsStamped(later)
      BY <1>1, <2>2, GpsCount
    <3>2. /\ Stamps(sm.gps, t, cap.gps, t + Seconds(later), later)
          /\ later = 1 => t <= Prompt \/ t <= 5
      BY <3>1 DEF GpsStamped
    <3>3. rose <= Prompt \/ rose <= 5
      BY <1>6 DEF Unread
    <3>4. apart # -1
      BY <1>12, <1>14, <3>3, SecondsAre
    <3>5. ~(apart = 1 /\ later = 1)
      BY <1>12, <1>14, <3>2, SecondsAre
    <3>6. PICK j \in 0 .. 1 : j = (apart + later) - 0
      BY <3>4, <3>5
    <3>7. (t + Seconds(later)) - rose = phase + Seconds(j)
      <4>1. CASE later = 0
        <5>1. j = apart
          BY <3>6, <4>1
        <5>2. Seconds(apart) \in Int /\ Seconds(later) = 0
          BY <4>1, SecondsAre
        <5> QED BY <1>12, <1>14, <5>1, <5>2
      <4>2. CASE later = 1
        <5>1. apart = 0 /\ j = 1
          BY <3>4, <3>5, <3>6, <4>2
        <5> QED BY <1>12, <1>14, <4>2, <5>1, SecondsAre
      <4> QED BY <4>1, <4>2
    <3>8. PICK age \in Int : age = t + Seconds(later)
      BY <1>12, SecondsAre
    <3>9. age - rose \in (-(Clk + Stray)) .. (Clk + Stray)
      <4>1. j = 0 \/ j = 1
        OBVIOUS
      <4> QED BY <1>12, <3>7, <3>8, <4>1, SecondsAre
    <3>10. ((age - rose) - 3 * j) - 2 * Edges!RawLag(cap.gps, x, offset) \in -3 .. 3
      <4>1. apart \in Int /\ later \in Int /\ rose \in Int /\ 0 \in Int /\ j \in -1 .. 1
        BY <1>12
      <4>2. Stamps(sm.gps, t, cap.gps, age, later)
        BY <3>2, <3>8
      <4> QED BY <1>1, <1>5, <1>7, <3>6, <3>9, <4>1, <4>2, LagRead
    <3> DEFINE pt == Edges!LoopbackPhaseTicks(cap.gps, x, offset)
    <3>11. pt \in Int /\ 2 * pt - phase \in -6 .. 3
      <4>1. cap.gps \in 0 .. (Word - 1)
        BY <3>2 DEF Stamps
      <4>2. age - rose = phase + Seconds(j)
        BY <3>7, <3>8
      <4> QED BY <1>1, <1>8, <3>10, <4>1, <4>2, PhaseRead
    <3>12. /\ pt > Near => \A d \in Corrs : c >= d
           /\ pt < -Near => \A d \in Corrs : c <= d
      BY <1>10, <2>2 DEF Edges!Turns
    <3>13. (pt > Near => Slip(word) <= 0) /\ (pt < -Near => Slip(word) >= 0)
      BY <1>11, <3>12
    <3> HIDE DEF pt
    <3> QED BY <1>11, <1>12, <1>13, <1>14, <1>15, <3>11, <3>13, TurnedBack
  <2> QED BY <2>1, <2>2
<1>17. PICK ahead1 \in AtMostOne : ahead1 = <<word>>
  BY DEF AtMostOne
<1>18. NearSecond(cur, ahead1, phase, apart, period)'
  <2>1. ahead1[1] = word
    BY <1>17
  <2>2. Slip(cur)' = Slip(cur) /\ Slip(word)' = Slip(word) /\ Gentle(cur)' /\ Gentle(word)'
    BY <1>2, <1>11, <1>14 DEF Slip, Gentle
  <2> QED BY <1>2, <1>14, <1>16, <2>1, <2>2 DEF NearSecond
<1>19. cap'.out = x /\ cap'.gps = cap.gps /\ DOMAIN cap' = Edges!Captures
  BY <1>1, <1>2, <1>8 DEF Edges!Captures
<1>20. sm'.out.pc = o.pc /\ sm'.out.x = o.x /\ sm'.out.isr = o.isr /\ sm'.out.rx = <<>>
  BY <1>1, <1>9 DEF Machines
<1>21. Counter(sm'.out) /\ Where(sm'.out, rose) = Where(o, rose)
  BY <1>1, <1>20 DEF Counter, Where, Place, Toll
<1>22. Watches(sm.out, rose, width.out, cap.out, seen.out, period)'
  <2>1. Captured(sm'.out, rose, w) /\ seen.out = rose
    BY <1>6, <1>20 DEF Unread, Captured
  <2>2. Stamps(sm'.out, rose, x, rose, 0)
    BY <1>7, <1>21 DEF Stamps
  <2>3. Reads(sm'.out, rose, w, x, seen.out)
    BY <1>20, <2>1, <2>2 DEF Reads
  <2> QED BY <1>2, <1>19, <2>3 DEF Watches
<1>23. InStep(apart)'
  BY <1>2, <1>5, <1>9, <1>21 DEF InStep
<1>24. Unpaired(phase, apart)'
  BY <1>2, <1>5, <1>19 DEF Unpaired
<1>25. Runs(cur, ahead1, phase, apart, period)'
  BY <1>10, <1>17, <1>18, <1>22, <1>23, <1>24 DEF Runs
<1>26. GpsInv'
  BY <1>1, <1>2, <1>9, <1>19 DEF GpsInv, GpsWatched
<1>27. PhaseTypes'
  BY <1>1, <1>2, <1>9, <1>21, <1>26 DEF PhaseTypes
<1> QED BY <1>25, <1>27 DEF PhaseInv

(* The two counts read say how far apart the two edges are.                      *)
LEMMA PhaseHolds == PhaseInv => PhaseFaithful
<1> DEFINE pt == Edges!LoopbackPhaseTicks(cap.gps, cap.out, offset)
<1> SUFFICES ASSUME PhaseInv, Edges!Both, Edges!Abs(Edges!Lag) <= MaxLag
             PROVE  Edges!Abs(2 * pt - (seen.gps - seen.out)) <= 3
  BY PhaseSizes DEF PhaseFaithful, Edges!PhaseFaithful
<1>1. /\ ScheduleInv /\ GpsInv /\ sm.out \in Machines /\ Counter(sm.out) /\ sm.gps \in Machines
      /\ Counter(sm.gps) /\ offset \in 0 .. (Word - 1) /\ t \in 0 .. (Clk - 1)
  BY PhaseSizes DEF PhaseInv, PhaseTypes, GpsInv, ScheduleInv
<1>2. /\ cap.gps # Edges!Unset /\ sm.gps.rx = <<>> /\ cap.out # Edges!Unset /\ sm.out.rx = <<>>
  BY DEF Edges!Both, Edges!Captures
<1>3. ~Boots
  BY <1>2 DEF Boots
<1>4. PICK cur \in Nat, ahead \in AtMostOne, phase \in Strays, apart \in -1 .. 1, period \in Nat :
         Runs(cur, ahead, phase, apart, period)
  BY <1>3 DEF PhaseInv
<1>5. /\ Watches(sm.out, rose, width.out, cap.out, seen.out, period) /\ InStep(apart)
      /\ t - rose = phase + Seconds(apart) /\ phase - (period - Clk) \in Strays /\ rose \in Nat
  BY <1>4 DEF Runs, NearSecond, Running
<1>6. /\ Clk \in Nat /\ Stray \in Nat /\ 2 * Stray + 12 < Clk /\ Prompt + Stray < Clk
      /\ Prompt \in Nat /\ phase \in Int /\ -Stray <= phase /\ phase <= Stray
      /\ t \in Int /\ t >= 0 /\ period \in Int
  BY <1>1, PhaseSizes DEF Strays
<1>7. PICK lg \in 0 .. 1 : GpsStamped(lg)
  BY <1>1, <1>2, GpsCount
<1>8. /\ Stamps(sm.gps, t, cap.gps, seen.gps, lg) /\ seen.gps = t + Seconds(lg)
      /\ lg = 1 => t <= Prompt \/ t <= 5
  BY <1>2, <1>7 DEF GpsStamped
<1>9. PICK lo \in 0 .. 1 :
        /\ Stamps(sm.out, rose, cap.out, seen.out, lo)
        /\ lo = 1 => seen.out = rose + period /\ rose <= 4
        /\ lo = 0 => seen.out = rose
  <2>1. CASE Catching(sm.out, rose, cap.out, seen.out, period)
    <3>1. rose <= 4
      BY <2>1 DEF Catching, Catches, Captures
    <3>2. seen.out = rose + period /\ Stamps(sm.out, rose, cap.out, seen.out, 1)
      BY <1>2, <2>1 DEF Catching
    <3> QED BY <3>1, <3>2
  <2>2. ~Unread(sm.out, rose, width.out, cap.out, seen.out, period)
    BY <1>2, TwoWords DEF Unread
  <2>3. CASE Reads(sm.out, rose, width.out, cap.out, seen.out)
    <3>1. seen.out = rose /\ Stamps(sm.out, rose, cap.out, seen.out, 0)
      BY <2>3 DEF Reads
    <3> QED BY <3>1
  <2> QED BY <1>5, <2>1, <2>2, <2>3 DEF Watches
<1>10. ~(apart = 1 /\ lg = 1)
  BY <1>5, <1>6, <1>8, SecondsAre
<1>11. ~(apart = -1 /\ lo = 1)
  BY <1>5, <1>6, <1>9, SecondsAre
<1>12. PICK j \in -1 .. 1 : j = (apart + lg) - lo
  BY <1>10, <1>11
<1>13. PICK ag \in Int : ag = seen.gps
  BY <1>6, <1>8, SecondsAre
<1>14. PICK ao \in Int : ao = seen.out
  BY <1>5, <1>6, <1>9
<1>15. PICK from \in Strays : ag - ao = from + Seconds(j)
  <2>1. CASE lo = 0
    <3>1. ag - ao = (phase + Seconds(apart)) + Seconds(lg)
      BY <1>5, <1>6, <1>8, <1>9, <1>13, <1>14, <2>1, SecondsAre
    <3>2. (Seconds(apart) + Seconds(lg)) = Seconds(j)
      BY <1>10, <1>12, <2>1, SecondsAre
    <3>3. Seconds(apart) \in Int /\ Seconds(lg) \in Int
      BY SecondsAre
    <3>4. ag - ao = phase + Seconds(j)
      BY <1>6, <3>1, <3>2, <3>3
    <3> QED BY <3>4
  <2>2. CASE lo = 1
    <3>1. ag - ao = ((phase + Seconds(apart)) + Seconds(lg)) - period
      BY <1>5, <1>6, <1>8, <1>9, <1>13, <1>14, <2>2, SecondsAre
    <3>2. (Seconds(apart) + Seconds(lg)) - Clk = Seconds(j)
      BY <1>10, <1>11, <1>12, <2>2, SecondsAre
    <3>3. Seconds(apart) \in Int /\ Seconds(lg) \in Int
      BY SecondsAre
    <3>4. ag - ao = (phase - (period - Clk)) + Seconds(j)
      BY <1>6, <3>1, <3>2, <3>3
    <3> QED BY <1>5, <3>4
  <2> QED BY <2>1, <2>2
<1>16. ag - ao \in (-(Clk + Stray)) .. (Clk + Stray)
  <2>1. from \in Int /\ -Stray <= from /\ from <= Stray
    BY <1>6 DEF Strays
  <2>2. j = -1 \/ j = 0 \/ j = 1
    OBVIOUS
  <2> QED BY <1>6, <1>15, <2>1, <2>2, SecondsAre
<1>17. ((ag - ao) - 3 * j) - 2 * Edges!RawLag(cap.gps, cap.out, offset) \in -3 .. 3
  <2>1. apart \in Int /\ lg \in Int /\ lo \in Int
    OBVIOUS
  <2> QED BY <1>1, <1>5, <1>8, <1>9, <1>12, <1>13, <1>14, <1>16, <2>1, LagRead
<1>18. cap.gps \in 0 .. (Word - 1) /\ cap.out \in 0 .. (Word - 1)
  BY <1>8, <1>9 DEF Stamps
<1>19. Edges!Abs(Edges!RawLag(cap.gps, cap.out, offset)) <= MaxLag
  BY DEF Edges!Lag
<1>20. Edges!Abs(2 * pt - (ag - ao)) <= 3
  BY <1>1, <1>15, <1>17, <1>18, <1>19, PairRead
<1> QED BY <1>13, <1>14, <1>20

LEMMA PhaseNext == PhaseInv /\ [DataNext]_dataVars => PhaseInv'
<1> SUFFICES ASSUME PhaseInv, [DataNext]_dataVars PROVE PhaseInv'
  OBVIOUS
<1>1. CASE Edges!Next
  <2>1. CASE Edges!Clock
    <3>1. CASE Boots
      BY <2>1, <3>1, PhaseStarts DEF PhaseInv
    <3>2. CASE ~Boots
      BY <2>1, <3>2, PhaseClock DEF PhaseInv
    <3> QED BY <3>1, <3>2
  <2>2. CASE Edges!ReadGps
    BY <2>2, PhaseReadGps
  <2>3. CASE Edges!ReadOut
    BY <2>3, PhaseReadOut
  <2> QED BY <1>1, <2>1, <2>2, <2>3 DEF Edges!Next
<1>2. CASE UNCHANGED edges
  <2>1. UNCHANGED <<t, sm, width, offset, freq, acc, cap, seen, rose, wants, late>>
    BY <1>2 DEF edges
  <2>2. PhaseTypes'
    <3>1. ScheduleInv'
      BY <1>2, ScheduleNext DEF PhaseInv, PhaseTypes
    <3>2. GpsInv'
      BY <2>1 DEF PhaseInv, PhaseTypes, GpsInv, GpsWatched
    <3> QED BY <2>1, <3>1, <3>2 DEF PhaseInv, PhaseTypes
  <2>3. CASE Boots
    <3>1. Boots'
      BY <2>1, <2>3 DEF Boots, Starting, FirstWord, InStep
    <3> QED BY <2>2, <3>1 DEF PhaseInv
  <2>4. CASE ~Boots
    <3>1. PICK cur \in Nat, ahead \in AtMostOne, phase \in Strays, apart \in -1 .. 1, period \in Nat :
             Runs(cur, ahead, phase, apart, period)
      BY <2>4 DEF PhaseInv
    <3>2. Runs(cur, ahead, phase, apart, period)'
      BY <2>1, <3>1 DEF Runs, Running, NearSecond, Gentle, Slip, Unpaired, InStep
    <3> QED BY <2>2, <3>2 DEF PhaseInv
  <2> QED BY <2>3, <2>4
<1> QED BY <1>1, <1>2 DEF DataNext, dataVars

(* However long the counters have run, wherever each of them wrapped, whatever   *)
(* the duty cycles of the two pulses and however they were offset, the phase      *)
(* that is read from a pair of counts is the true distance of the two edges, to   *)
(* a tick and a half (lib.rs:189-205, 358-385).                                 *)
THEOREM PhaseReadsTrue == DataSpec => []PhaseFaithful
<1>1. DataInit => PhaseInv
  BY PhaseInit DEF DataInit
<1> QED BY <1>1, PhaseNext, PhaseHolds, PTL DEF DataSpec
=============================================================================
