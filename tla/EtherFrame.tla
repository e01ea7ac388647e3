----------------------------- MODULE EtherFrame -----------------------------
(***************************************************************************)
(* What the 10BASE-T transmitter puts on the wire: the UDP frame of         *)
(* frame.rs and its line symbols of phy.rs.  A byte is a number; the CRC's  *)
(* 32-bit register is the set of its one bits, and a symbol word is the     *)
(* sequence of the sixteen symbols it holds, first on the wire first.       *)
(***************************************************************************)
EXTENDS Naturals, Sequences, SequencesExt

EthernetHeaderLen == 14
Ipv4HeaderLen == 20
UdpHeaderLen == 8
FcsLen == 4
MinEthernetPayload == 46
Ip == EthernetHeaderLen
Udp == EthernetHeaderLen + Ipv4HeaderLen
IpProtoUdp == 17
-----------------------------------------------------------------------------
Bits(byte) == {i \in 0..7 : (byte \div 2^i) % 2 = 1}
Number(bits) == LET bit(i) == IF i \in bits THEN 2^i ELSE 0
                IN  bit(0) + bit(1) + bit(2) + bit(3) + bit(4) + bit(5) + bit(6) + bit(7)
\* bits from..from+7 of a register, and the register shifted right
ByteAt(bits, from) == Number({i - from : i \in {i \in bits : i \in from..(from + 7)}})
ShiftedRight(bits, k) == {i - k : i \in {i \in bits : i >= k}}

ReflectedPoly == {31, 30, 29, 27, 26, 24, 23, 21, 20, 19, 15, 9, 8, 5} \* 0xEDB8_8320

CrcBit(c) == IF 0 \in c THEN SymDiff(ShiftedRight(c, 1), ReflectedPoly) ELSE ShiftedRight(c, 1)
Crc32Table ==
  [byte \in 0..255 |-> FoldLeft(LAMBDA c, bit : CrcBit(c), Bits(byte), [bit \in 1..8 |-> bit])]

CrcStep(c, byte) ==
  SymDiff(Crc32Table[ByteAt(SymDiff(c, Bits(byte)), 0)], ShiftedRight(c, 8))
Crc32(data) ==
  LET crc[i \in 0..Len(data)] ==
        IF i = 0 THEN 0..31 ELSE UNION {CrcStep(c, data[i]) : c \in {crc[i - 1]}}
  IN  0..31 \ crc[Len(data)]

Be16(n) == <<n \div 256, n % 256>>

\* the 16-bit words of a block, an odd last byte the high half of one
WordSum(data) ==
  FoldLeft(LAMBDA sum, i : sum + data[i] * (IF i % 2 = 1 THEN 256 ELSE 1), 0,
           [i \in 1..Len(data) |-> i])
EndAroundCarry(sum) == IF sum = 0 THEN 0 ELSE 1 + ((sum - 1) % 65535)
OnesComplementChecksum(data, initial) == 65535 - EndAroundCarry(WordSum(data) + initial)

FrameLen(payload) ==
  LET ipTotal == Ipv4HeaderLen + UdpHeaderLen + Len(payload)
  IN  EthernetHeaderLen + FcsLen
        + (IF ipTotal < MinEthernetPayload THEN MinEthernetPayload ELSE ipTotal)

IpHeader(spec, checksum) ==
  <<69, 0>> \o Be16(Ipv4HeaderLen + UdpHeaderLen + Len(spec.payload)) \o Be16(spec.ipId)
    \o <<0, 0, spec.ttl, IpProtoUdp>> \o Be16(checksum) \o spec.srcIp \o spec.dstIp

UdpDatagram(spec, checksum) ==
  Be16(spec.srcPort) \o Be16(spec.dstPort) \o Be16(UdpHeaderLen + Len(spec.payload))
    \o Be16(checksum) \o spec.payload

Pseudo(spec) ==
  WordSum(spec.srcIp) + WordSum(spec.dstIp) + IpProtoUdp + UdpHeaderLen + Len(spec.payload)

\* mutant: a computed zero is sent as it is
SentChecksumZero(checksum) == checksum
SentChecksum(checksum) == IF checksum = 0 THEN 65535 ELSE checksum

(* build_udp_frame, into a buffer that is large enough.                       *)
BuildUdpFrame(spec) ==
  LET ipCk  == OnesComplementChecksum(IpHeader(spec, 0), 0)
      udpCk == SentChecksum(OnesComplementChecksum(UdpDatagram(spec, 0), Pseudo(spec)))
      head  == spec.dstMac \o spec.srcMac \o <<8, 0>>
                 \o IpHeader(spec, ipCk) \o UdpDatagram(spec, udpCk)
      body  == head \o [i \in 1..(FrameLen(spec.payload) - FcsLen - Len(head)) |-> 0]
      fcs   == Crc32(body)
  IN  body \o [i \in 1..FcsLen |-> ByteAt(fcs, 8 * (i - 1))]
-----------------------------------------------------------------------------
Idle == "idle"
Low == "low"
High == "high"

\* a zero is high then low, a one low then high, the least significant bit first
ManchesterWord(byte) ==
  [n \in 1..16 |-> IF ((n - 1) \div 2 \in Bits(byte)) <=> n % 2 = 0 THEN High ELSE Low]
ManchesterTable == [byte \in 0..255 |-> ManchesterWord(byte)]

Burst(halfBits) == [n \in 1..16 |-> IF n <= halfBits THEN High ELSE Idle]
TpIdlWord == Burst(6)
NlpWord == Burst(2)

PreambleSfd == <<85, 85, 85, 85, 85, 85, 85, 213>>

\* encode_frame, into a buffer that is large enough
EncodeFrame(frame) ==
  [i \in 1..(Len(PreambleSfd) + Len(frame)) |-> ManchesterTable[(PreambleSfd \o frame)[i]]]
    \o <<TpIdlWord>>
=============================================================================
