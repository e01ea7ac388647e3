---------------------------- MODULE NtpTimestamp ----------------------------
(***************************************************************************)
(* The two time formats on the wire.  A timestamp is seconds and a binary   *)
(* fraction of the current era, and the era itself is not sent; the short   *)
(* format holds delays and dispersions and saturates.  Sizes are constants: *)
(* the code's are 10^9, 2^32, 2^32, 2208988800, 2^16, 2^16 and 2^63.        *)
(***************************************************************************)
EXTENDS FixedPoint

CONSTANTS
  Nanos,      \* ticks of a second (NANOS_PER_SEC)
  Frac,       \* steps of a timestamp's fraction
  EraSecs,    \* seconds of an era (ERA_SECS)
  UnixOffset, \* NTP_UNIX_OFFSET_SECS
  ShortSecs,  \* seconds a short value can hold
  ShortFrac,  \* steps of a short value's fraction
  Widest      \* the largest time of the program's integers

ASSUME TimestampAssumption ==
  /\ {Nanos, Frac, EraSecs, ShortSecs, ShortFrac, Widest} \subseteq Nat \ {0}
  /\ UnixOffset \in Nat /\ Frac > Nanos

Timestamp == [secs : 0..(EraSecs - 1), frac : 0..(Frac - 1)]
ZeroTime == [secs |-> 0, frac |-> 0]

Rounded(x, from, to) == (x * to + from \div 2) \div from

FullSeconds(ns) == ns \div Nanos + UnixOffset
EraOfUnixNs(ns) == FullSeconds(ns) \div EraSecs

FromUnixNs(ns) ==
  [secs |-> FullSeconds(ns) % EraSecs, frac |-> Rounded(ns % Nanos, Nanos, Frac) % Frac]

ToUnixNsInEra(t, era) ==
  LET total == (era * EraSecs + t.secs - UnixOffset) * Nanos + Rounded(t.frac, Frac, Nanos)
  IN  AtLeast(AtMost(total, Widest), -Widest - 1)

\* mutant: the reference's own era
ToUnixNsSameEra(t, ref) == ToUnixNsInEra(t, EraOfUnixNs(ref))

\* the era next to the reference's that is nearest, compared in whole seconds;
\* of two at the same distance, the earlier
ToUnixNsNear(t, ref) ==
  LET Eras == (EraOfUnixNs(ref) - 1) .. (EraOfUnixNs(ref) + 1)
      Away(era) == Abs(era * EraSecs + t.secs - FullSeconds(ref))
      best == CHOOSE e \in Eras : \A f \in Eras :
                Away(e) < Away(f) \/ (Away(e) = Away(f) /\ e <= f)
  IN  ToUnixNsInEra(t, best)

ShortMax == ShortSecs * ShortFrac - 1

\* mutant: the seconds are cut to the bits the format has
ShortFromNanosWraps(ns) ==
  ((ns \div Nanos) * ShortFrac + Rounded(ns % Nanos, Nanos, ShortFrac)) % (ShortMax + 1)

ShortFromNanos(ns) ==
  IF ns \div Nanos > ShortSecs - 1 THEN ShortMax
  ELSE AtMost((ns \div Nanos) * ShortFrac + Rounded(ns % Nanos, Nanos, ShortFrac), ShortMax)

ShortToNanos(s) == (s \div ShortFrac) * Nanos + Rounded(s % ShortFrac, ShortFrac, Nanos)
=============================================================================
