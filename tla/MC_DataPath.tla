---------------------------- MODULE MC_DataPath -----------------------------
EXTENDS DataPath
PulseWidths == {5, 15}
CounterOffsets == {1}
FreqOffsets == {1}
Corrections == {-1, 1}
\* one pair an attempt more than a clean one needs, and as many races as leave one
\* of the four attempts undisturbed
Unsteady == {8, 11}
FrameWith(payload) ==
  [dstMac |-> <<255, 255, 255, 255, 255, 255>>, srcMac |-> <<2, 0, 0, 192, 255, 238>>,
   dstIp |-> <<255, 255, 255, 255>>, srcIp |-> <<192, 168, 0, 200>>,
   srcPort |-> 123, dstPort |-> 123, ipId |-> 4660, ttl |-> 1, payload |-> payload]
\* empty, a checksum that comes out zero, odd, and odd with nothing to pad
SomeFrames == {FrameWith(<<>>), FrameWith(<<61, 116>>), FrameWith(<<171, 61, 7>>),
               FrameWith([i \in 1..19 |-> 7 * i])}
=============================================================================
