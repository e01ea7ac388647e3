----------------------------- MODULE EtherLine ------------------------------
(***************************************************************************)
(* Tx10BaseT: one task hands frames to the DMA and link pulses to the       *)
(* FIFO, the DMA fills the FIFO and the state machine plays it.  The DMA    *)
(* is assumed to keep the FIFO from running dry inside a frame.  A receiver *)
(* that knows only the standards reads what is on the line.                 *)
(***************************************************************************)
EXTENDS EtherFrame

CONSTANTS
  Frames, \* what may be sent: records of the fields of UdpFrameSpec
  TxDepth, \* FIFO, joined: eight words
  MaxSent \* bound on frames and pulses handed over

VARIABLES
  symbols, \* words the DMA has not moved yet
  fifo,    \* TX FIFO
  heard,   \* words played since the line was last idle
  due,     \* history: what was handed over and is not yet heard to its end
  sent     \* frames and pulses handed over

vars == <<symbols, fifo, heard, due, sent>>

Pulse == [pulse |-> TRUE]
-----------------------------------------------------------------------------
\* the task is not waiting for the DMA
Free == symbols = <<>> /\ sent < MaxSent

Send(frame) ==
  /\ Free
  /\ symbols' = EncodeFrame(BuildUdpFrame(frame))
  /\ due' = Append(due, frame) /\ sent' = sent + 1
  /\ UNCHANGED <<fifo, heard>>

LinkPulse ==
  /\ Free
  /\ IF Len(fifo) < TxDepth
       THEN fifo' = Append(fifo, NlpWord) /\ due' = Append(due, Pulse)
       ELSE UNCHANGED <<fifo, due>>
  /\ sent' = sent + 1 /\ UNCHANGED <<symbols, heard>>

Dma ==
  /\ symbols # <<>> /\ Len(fifo) < TxDepth
  /\ fifo' = Append(fifo, Head(symbols)) /\ symbols' = Tail(symbols)
  /\ UNCHANGED <<heard, due, sent>>

Ended == heard # <<>> /\ Last(heard)[16] = Idle

Play ==
  /\ fifo # <<>>
  /\ heard' = IF Ended THEN <<Head(fifo)>> ELSE Append(heard, Head(fifo))
  /\ due' = IF Ended THEN Tail(due) ELSE due
  /\ fifo' = Tail(fifo)
  /\ UNCHANGED <<symbols, sent>>

Init == symbols = <<>> /\ fifo = <<>> /\ heard = <<>> /\ due = <<>> /\ sent = 0
Next == (\E frame \in Frames : Send(frame)) \/ LinkPulse \/ Dma \/ Play
Spec == Init /\ [][Next]_vars
-----------------------------------------------------------------------------
(* The receiver: IEEE 802.3 clauses 3, 4 and 14, RFC 791, 768 and 1071.        *)
Symbol(n) == heard[1 + ((n - 1) \div 16)][1 + ((n - 1) % 16)]
HalfBits == 16 * Len(heard)

\* a bit is the second half of its cell; the last word is the end of the burst
RawBits == [k \in 1..(8 * (Len(heard) - 1)) |-> IF Symbol(2 * k) = High THEN 1 ELSE 0]
Clocked == \A k \in DOMAIN RawBits : {Symbol(2 * k - 1), Symbol(2 * k)} = {Low, High}

\* the start-frame delimiter is the first pair of ones
DataBits ==
  LET sfd == CHOOSE k \in DOMAIN RawBits :
               /\ RawBits[k] = 1 /\ RawBits[k + 1] = 1
               /\ \A j \in 1..(k - 1) : RawBits[j] # RawBits[j + 1]
  IN  SubSeq(RawBits, sfd + 2, Len(RawBits))
Received(bits) ==
  [i \in 1..(Len(bits) \div 8) |->
     FoldLeft(LAMBDA n, k : n + bits[8 * (i - 1) + k] * 2^(k - 1), 0, [k \in 1..8 |-> k])]

\* the check sequence as the standard's shift register, a bit at a time
Generator == {26, 23, 22, 16, 12, 11, 10, 8, 7, 5, 4, 2, 1, 0}
GoodResidue == {31, 30, 26, 25, 24, 18, 15, 14, 12, 11, 10, 8, 6, 5, 4, 3, 1, 0}
Shifted(r, bit) ==
  LET up == {i + 1 : i \in r \ {31}}
  IN  IF (31 \in r) <=> (bit = 1) THEN up ELSE SymDiff(up, Generator)
Residue(bits) ==
  LET r[k \in 0..Len(bits)] ==
        IF k = 0 THEN 0..31 ELSE UNION {Shifted(s, bits[k]) : s \in {r[k - 1]}}
  IN  r[Len(bits)]

\* a block that holds its own checksum adds up to all ones
Sound(sum) == sum > 0 /\ sum % 65535 = 0
Field(bytes, at, n) == SubSeq(bytes, at + 1, at + n)
Word16(bytes, at) == 256 * bytes[at + 1] + bytes[at + 2]

ReadsAs(bytes, f) ==
  LET udpLen == Word16(bytes, Udp + 4)
      datagram == Field(bytes, Udp, udpLen)
  IN  /\ Len(bytes) \in 64..1518
      /\ Field(bytes, 0, 6) = f.dstMac /\ Field(bytes, 6, 6) = f.srcMac
      /\ Word16(bytes, 12) = 2048
      /\ bytes[Ip + 1] = 69 /\ Sound(WordSum(Field(bytes, Ip, Ipv4HeaderLen)))
      /\ Word16(bytes, Ip + 2) = Ipv4HeaderLen + udpLen
      /\ bytes[Ip + 9] = f.ttl /\ bytes[Ip + 10] = IpProtoUdp
      /\ Field(bytes, Ip + 12, 4) = f.srcIp /\ Field(bytes, Ip + 16, 4) = f.dstIp
      /\ Word16(bytes, Udp) = f.srcPort /\ Word16(bytes, Udp + 2) = f.dstPort
      /\ Word16(bytes, Udp + 6) # 0
      /\ Sound(WordSum(datagram) + WordSum(f.srcIp) + WordSum(f.dstIp) + IpProtoUdp + udpLen)
      /\ Field(datagram, UdpHeaderLen, udpLen - UdpHeaderLen) = f.payload

\* Whatever the task hands over while the FIFO drains, the line carries it in
\* order, and a receiver reads each frame as what was to be sent: clock, start,
\* check sequence, checksums, padding and end are the standards' own, for empty,
\* odd and padded payloads and for a checksum that comes out zero
\* (frame.rs:91-225, phy.rs:94-187, embassy.rs:90-105).
FrameReadBack ==
  Ended =>
    IF Head(due) = Pulse
      THEN \A n \in 1..HalfBits : Symbol(n) = IF n <= 2 THEN High ELSE Idle
      ELSE /\ Len(heard) > Len(PreambleSfd) /\ Clocked
           /\ \A n \in 1..16 : Last(heard)[n] = IF n <= 6 THEN High ELSE Idle
           /\ Residue(DataBits) = GoodResidue
           /\ ReadsAs(Received(DataBits), Head(due))
=============================================================================
