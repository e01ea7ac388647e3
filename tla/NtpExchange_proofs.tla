------------------------- MODULE NtpExchange_proofs -------------------------
(***************************************************************************)
(* Proofs about NtpExchange for every value of its constants: what a client *)
(* takes from a packet is right, and neither the primary nor the client     *)
(* that serves in turn claims a better clock than it has.                   *)
(***************************************************************************)
EXTENDS NtpExchange, TLAPS

(* Division and rounding.                                                      *)
LEMMA Sizes ==
  /\ Nanos \in Nat \ {0} /\ Frac \in Nat \ {0} /\ EraSecs \in Nat \ {0}
  /\ ShortSecs \in Nat \ {0} /\ ShortFrac \in Nat \ {0} /\ Widest \in Nat \ {0}
  /\ UnixOffset \in Nat /\ Nanos < Frac
BY TimestampAssumption

LEMMA Divides ==
  ASSUME NEW a \in Int, NEW b \in Nat \ {0}
  PROVE  /\ a \div b \in Int /\ a % b \in 0 .. (b - 1)
         /\ b * (a \div b) \in Int /\ a = b * (a \div b) + (a % b)
<1>1. a \div b \in Int /\ a % b \in 0 .. (b - 1) /\ a = b * (a \div b) + (a % b)
  OBVIOUS
<1>2. b * (a \div b) \in Int
  BY <1>1
<1> QED BY <1>1, <1>2

LEMMA MulMono ==
  ASSUME NEW k \in Nat, NEW x \in Int, NEW y \in Int, x <= y
  PROVE  k * x <= k * y
OBVIOUS

LEMMA Product ==
  ASSUME NEW x \in Int, NEW y \in Int
  PROVE  x * y \in Int /\ y * x = x * y
OBVIOUS

\* the quotient is the one multiple of b within b below a
LEMMA QuotientIs ==
  ASSUME NEW a \in Int, NEW b \in Nat \ {0}, NEW q \in Int, b * q <= a, a < b * q + b
  PROVE  a \div b = q /\ a % b = a - b * q
<1> DEFINE d == a \div b
<1>1. d \in Int /\ b * d \in Int /\ b * d <= a /\ a < b * d + b /\ a % b = a - b * d
  BY Divides
<1> HIDE DEF d
<1>2. ~(q + 1 <= d)
  <2>1. SUFFICES ASSUME q + 1 <= d PROVE FALSE
    OBVIOUS
  <2>2. b * (q + 1) <= b * d
    BY <1>1, <2>1, MulMono
  <2>3. b * (q + 1) = b * q + b
    OBVIOUS
  <2> QED BY <1>1, <2>2, <2>3, Product
<1>3. ~(d + 1 <= q)
  <2>1. SUFFICES ASSUME d + 1 <= q PROVE FALSE
    OBVIOUS
  <2>2. b * (d + 1) <= b * q
    BY <1>1, <2>1, MulMono
  <2>3. b * (d + 1) = b * d + b
    BY <1>1
  <2> QED BY <1>1, <2>2, <2>3, Product
<1>4. d = q
  BY <1>1, <1>2, <1>3
<1> QED BY <1>1, <1>4 DEF d

LEMMA QuotientOrder ==
  ASSUME NEW b \in Nat \ {0}, NEW x \in Int, NEW y \in Int, x <= y
  PROVE  x \div b <= y \div b
<1> DEFINE p == x \div b
           q == y \div b
<1>1. p \in Int /\ q \in Int /\ b * p \in Int /\ b * q \in Int /\ b * p <= x /\ y < b * q + b
  BY Divides
<1> HIDE DEF p, q
<1>2. ~(q + 1 <= p)
  <2>1. SUFFICES ASSUME q + 1 <= p PROVE FALSE
    OBVIOUS
  <2>2. b * (q + 1) <= b * p
    BY <1>1, <2>1, MulMono
  <2>3. b * (q + 1) = b * q + b
    BY <1>1
  <2> QED BY <1>1, <2>2, <2>3
<1>3. p <= q
  BY <1>1, <1>2
<1> QED BY <1>3 DEF p, q

LEMMA QuotientPositive ==
  ASSUME NEW a \in Nat, NEW b \in Nat \ {0}
  PROVE  a \div b \in Nat /\ a \div b <= a
<1>1. 0 \div b = 0
  <2>1. b * 0 = 0
    OBVIOUS
  <2> QED BY <2>1, QuotientIs
<1>2. 0 <= a \div b
  BY <1>1, QuotientOrder
<1> DEFINE d == a \div b
<1>3. d \in Nat /\ b * d <= a
  BY <1>2, Divides
<1> HIDE DEF d
<1>4. d * 1 <= d * b
  BY <1>3, MulMono
<1>5. d <= a
  BY <1>3, <1>4, Product
<1> QED BY <1>3, <1>5 DEF d

LEMMA RoundedIs ==
  ASSUME NEW x \in Int, NEW from \in Nat \ {0}, NEW to \in Nat \ {0}
  PROVE  /\ Rounded(x, from, to) \in Int /\ x * to \in Int /\ Rounded(x, from, to) * from \in Int
         /\ Rounded(x, from, to) * from <= x * to + from \div 2
         /\ x * to + from \div 2 < Rounded(x, from, to) * from + from
<1> DEFINE a == x * to + from \div 2
<1>1. a \in Int /\ x * to \in Int
  OBVIOUS
<1> HIDE DEF a
<1>2. a \div from \in Int /\ (a \div from) * from <= a /\ a < (a \div from) * from + from /\ (a \div from) * from \in Int
  BY <1>1, Divides, Product
<1>3. Rounded(x, from, to) = a \div from
  BY DEF Rounded, a
<1> QED BY <1>1, <1>2, <1>3 DEF a

LEMMA Halves ==
  ASSUME NEW x \in Nat
  PROVE  x \div 2 \in Nat /\ 2 * (x \div 2) <= x /\ x <= 2 * (x \div 2) + 1
OBVIOUS
-----------------------------------------------------------------------------
(* Timestamps: a whole tick comes back exactly from its fraction, a time from   *)
(* its timestamp and era, and the era from any time near enough.               *)
LEMMA FractionBack ==
  ASSUME NEW y \in 0 .. (Nanos - 1)
  PROVE  /\ Rounded(y, Nanos, Frac) % Frac = Rounded(y, Nanos, Frac)
         /\ Rounded(Rounded(y, Nanos, Frac), Frac, Nanos) = y
<1> USE Sizes
<1> DEFINE r == Rounded(y, Nanos, Frac)
           yf == y * Frac
           rn == r * Nanos
           nf == Nanos * Frac
           hn == Nanos \div 2
           hf == Frac \div 2
<1>1. /\ r \in Int /\ yf \in Int /\ rn \in Int /\ rn <= yf + hn /\ yf + hn < rn + Nanos
  <2>1. y \in Int
    OBVIOUS
  <2> HIDE DEF r
  <2>2. /\ r \in Int /\ y * Frac \in Int /\ r * Nanos \in Int
        /\ r * Nanos <= y * Frac + Nanos \div 2
        /\ y * Frac + Nanos \div 2 < r * Nanos + Nanos
    BY <2>1, RoundedIs, Zenon DEF r
  <2> QED BY <2>2
<1>2. /\ hn \in Nat /\ 2 * hn <= Nanos /\ Nanos <= 2 * hn + 1
      /\ hf \in Nat /\ 2 * hf <= Frac /\ Frac <= 2 * hf + 1
  BY Halves
<1>3. yf <= nf - Frac /\ nf \in Int
  <2>1. Frac * y <= Frac * (Nanos - 1)
    BY MulMono
  <2>2. Frac * (Nanos - 1) = Frac * Nanos - Frac /\ Frac * Nanos \in Int
    OBVIOUS
  <2> QED BY <2>1, <2>2, Product
<1>4. 0 <= yf
  <2>1. Frac * 0 <= Frac * y
    BY MulMono
  <2>2. Frac * 0 = 0
    OBVIOUS
  <2> QED BY <2>1, <2>2, Product
<1> HIDE DEF r, yf, rn, nf, hn, hf
<1>5. 0 <= r
  <2>1. SUFFICES ASSUME r <= -1 PROVE FALSE
    BY <1>1
  <2>2. Nanos * r <= Nanos * (-1)
    BY <1>1, <2>1, MulMono
  <2>3. Nanos * (-1) = -Nanos /\ Nanos * r = rn
    BY <1>1, Product DEF rn
  <2> QED BY <1>1, <1>2, <1>4, <2>2, <2>3
<1>6. r < Frac
  <2>1. SUFFICES ASSUME Frac <= r PROVE FALSE
    BY <1>1
  <2>2. Nanos * Frac <= Nanos * r
    BY <1>1, <2>1, MulMono
  <2>3. nf <= rn
    BY <1>1, <2>2, Product DEF rn, nf
  <2> QED BY <1>1, <1>2, <1>3, <2>3
<1>7. r % Frac = r
  <2>1. Frac * 0 = 0
    OBVIOUS
  <2> QED BY <1>1, <1>5, <1>6, <2>1, QuotientIs
<1>8. (rn + hf) \div Frac = y
  <2>1. yf <= rn + hf /\ rn + hf < yf + Frac
    BY <1>1, <1>2
  <2>2. Frac * y = yf
    BY Product DEF yf
  <2> QED BY <1>1, <1>2, <2>1, <2>2, QuotientIs
<1>9. Rounded(r, Frac, Nanos) = y
  BY <1>8 DEF Rounded, rn, hf
<1> QED BY <1>7, <1>9 DEF r

LEMMA Kept ==
  ASSUME NEW x \in Int, -Widest - 1 <= x, x <= Widest
  PROVE  AtLeast(AtMost(x, Widest), -Widest - 1) = x
BY Sizes DEF AtLeast, AtMost

LEMMA TimestampBack ==
  ASSUME NEW x \in Int, -Widest - 1 <= x, x <= Widest
  PROVE  ToUnixNsInEra(FromUnixNs(x), EraOfUnixNs(x)) = x
<1> USE Sizes
<1> DEFINE full == FullSeconds(x)
           sec == x \div Nanos
           rest == x % Nanos
<1>1. sec \in Int /\ rest \in 0 .. (Nanos - 1) /\ x = Nanos * sec + rest /\ full = sec + UnixOffset
  BY Divides DEF FullSeconds
<1> HIDE DEF full, sec, rest
<1>2. full \in Int
  BY <1>1
<1> DEFINE era == full \div EraSecs
           left == full % EraSecs
<1>3. era \in Int /\ left \in Int /\ full = era * EraSecs + left
  BY <1>2, Divides, Product
<1>4. /\ FromUnixNs(x).secs = left
      /\ Rounded(FromUnixNs(x).frac, Frac, Nanos) = rest
  <2>1. Rounded(Rounded(rest, Nanos, Frac) % Frac, Frac, Nanos) = rest
    BY <1>1, FractionBack
  <2> QED BY <2>1 DEF FromUnixNs, full, rest
<1>5. EraOfUnixNs(x) = era
  BY DEF EraOfUnixNs, full
<1>6. (era * EraSecs + left - UnixOffset) * Nanos + rest = x
  <2> HIDE DEF era, left
  <2>0. era * EraSecs \in Int
    BY <1>3
  <2>1. era * EraSecs + left - UnixOffset = sec
    BY <1>1, <1>3, <2>0
  <2>2. sec * Nanos = Nanos * sec
    BY <1>1, Product
  <2> QED BY <1>1, <2>1, <2>2
<1>7. ToUnixNsInEra(FromUnixNs(x), EraOfUnixNs(x)) = AtLeast(AtMost(x, Widest), -Widest - 1)
  BY <1>4, <1>5, <1>6 DEF ToUnixNsInEra
<1> QED BY <1>7, Kept

LEMMA NearestEra ==
  ASSUME NEW x \in Int, NEW ref \in Int,
         2 * Abs(FullSeconds(x) - FullSeconds(ref)) < EraSecs
  PROVE  ToUnixNsNear(FromUnixNs(x), ref) = ToUnixNsInEra(FromUnixNs(x), EraOfUnixNs(x))
<1> USE Sizes
<1> DEFINE s == FullSeconds(x)
           r == FullSeconds(ref)
           mine == EraOfUnixNs(x)
           its == EraOfUnixNs(ref)
           secs == FromUnixNs(x).secs
           Away(era) == Abs(era * EraSecs + secs - r)
           Eras == (its - 1) .. (its + 1)
           Best(e) == \A f \in Eras : Away(e) < Away(f) \/ (Away(e) = Away(f) /\ e <= f)
<1>1. s \in Int /\ r \in Int
  BY Divides DEF FullSeconds
<1>2. /\ mine \in Int /\ secs \in 0 .. (EraSecs - 1)
      /\ EraSecs * mine \in Int /\ s = EraSecs * mine + secs
  <2>1. mine = s \div EraSecs /\ secs = s % EraSecs
    BY DEF EraOfUnixNs, FromUnixNs
  <2> HIDE DEF s, mine, secs
  <2> QED BY <1>1, <2>1, Divides
<1>3. /\ its \in Int /\ EraSecs * its \in Int /\ EraSecs * its <= r /\ r < EraSecs * its + EraSecs
  <2>1. its = r \div EraSecs
    BY DEF EraOfUnixNs
  <2> HIDE DEF r, its
  <2> QED BY <1>1, <2>1, Divides
<1>4. 2 * Abs(s - r) < EraSecs
  OBVIOUS
<1>5. ToUnixNsNear(FromUnixNs(x), ref) = ToUnixNsInEra(FromUnixNs(x), CHOOSE e \in Eras : Best(e))
  BY DEF ToUnixNsNear
<1> HIDE DEF s, r, mine, its, secs
<1>6. -EraSecs < 2 * (s - r) /\ 2 * (s - r) < EraSecs
  BY <1>1, <1>4 DEF Abs
<1>7. mine \in Eras
  <2>1. ~(mine + 2 <= its)
    <3>1. SUFFICES ASSUME mine + 2 <= its PROVE FALSE
      OBVIOUS
    <3>2. EraSecs * (mine + 2) <= EraSecs * its
      BY <1>2, <1>3, <3>1, MulMono
    <3>3. EraSecs * (mine + 2) = EraSecs * mine + 2 * EraSecs
      BY <1>2
    <3> QED BY <1>1, <1>2, <1>3, <1>6, <3>2, <3>3
  <2>2. ~(its + 2 <= mine)
    <3>1. SUFFICES ASSUME its + 2 <= mine PROVE FALSE
      OBVIOUS
    <3>2. EraSecs * (its + 2) <= EraSecs * mine
      BY <1>2, <1>3, <3>1, MulMono
    <3>3. EraSecs * (its + 2) = EraSecs * its + 2 * EraSecs
      BY <1>3
    <3> QED BY <1>1, <1>2, <1>3, <1>6, <3>2, <3>3
  <2> QED BY <1>2, <1>3, <2>1, <2>2
<1>8. \A e \in Int : e # mine => Away(mine) < Away(e)
  <2>1. SUFFICES ASSUME NEW e \in Int, e # mine PROVE Away(mine) < Away(e)
    OBVIOUS
  <2>2. e * EraSecs \in Int /\ mine * EraSecs + secs - r = s - r
    BY <1>1, <1>2, <2>1, Product
  <2>3. \/ e * EraSecs + secs - r >= s - r + EraSecs
        \/ e * EraSecs + secs - r <= s - r - EraSecs
    <3>1. CASE mine + 1 <= e
      <4>1. EraSecs * (mine + 1) <= EraSecs * e
        BY <1>2, <2>1, <3>1, MulMono
      <4>2. EraSecs * (mine + 1) = EraSecs * mine + EraSecs
        BY <1>2
      <4>3. EraSecs * e = e * EraSecs
        BY <2>1, Product
      <4> QED BY <1>1, <1>2, <2>2, <4>1, <4>2, <4>3
    <3>2. CASE e <= mine - 1
      <4>1. EraSecs * e <= EraSecs * (mine - 1)
        BY <1>2, <2>1, <3>2, MulMono
      <4>2. EraSecs * (mine - 1) = EraSecs * mine - EraSecs
        BY <1>2
      <4>3. EraSecs * e = e * EraSecs
        BY <2>1, Product
      <4> QED BY <1>1, <1>2, <2>2, <4>1, <4>2, <4>3
    <3> QED BY <1>2, <2>1, <3>1, <3>2
  <2> DEFINE d == e * EraSecs + secs - r
             c == s - r
  <2>4. d \in Int /\ c \in Int /\ (d >= c + EraSecs \/ d <= c - EraSecs)
    BY <1>1, <1>2, <2>2, <2>3
  <2>5. -EraSecs < 2 * c /\ 2 * c < EraSecs
    BY <1>6
  <2>6. Away(e) = Abs(d) /\ Away(mine) = Abs(c)
    BY <2>2
  <2> HIDE DEF c, d, Away
  <2>7. Abs(c) < Abs(d)
    BY <2>4, <2>5 DEF Abs
  <2> QED BY <2>6, <2>7
<1>9. \A e \in Eras : Away(e) \in Int
  <2>1. SUFFICES ASSUME NEW e \in Eras PROVE Away(e) \in Int
    OBVIOUS
  <2>2. e \in Int /\ e * EraSecs \in Int
    BY <1>3
  <2>3. e * EraSecs + secs - r \in Int
    BY <1>1, <1>2, <2>2
  <2> HIDE DEF Eras
  <2> DEFINE z == e * EraSecs + secs - r
  <2>4. Abs(z) \in Int
    <3> HIDE DEF z
    <3> QED BY <2>3 DEF Abs, z
  <2> QED BY <2>4
<1>10. Best(mine)
  <2> HIDE DEF Away
  <2>1. SUFFICES ASSUME NEW f \in Eras
                 PROVE  Away(mine) < Away(f) \/ (Away(mine) = Away(f) /\ mine <= f)
    OBVIOUS
  <2>2. f \in Int
    BY <1>3
  <2>3. f # mine => Away(mine) < Away(f)
    BY <1>8, <2>2
  <2> QED BY <1>2, <2>3
<1>11. \A e \in Eras : Best(e) => e = mine
  <2> HIDE DEF Away
  <2>1. SUFFICES ASSUME NEW e \in Eras, Best(e), e # mine PROVE FALSE
    OBVIOUS
  <2>2. e \in Int /\ Away(mine) < Away(e) /\ Away(e) \in Int /\ Away(mine) \in Int
    BY <1>3, <1>7, <1>8, <1>9, <2>1
  <2>3. Away(e) < Away(mine) \/ Away(e) = Away(mine)
    BY <1>7, <2>1
  <2> QED BY <2>2, <2>3
<1>12. (CHOOSE e \in Eras : Best(e)) = mine
  <2> HIDE DEF Eras, Best
  <2>1. Best(CHOOSE e \in Eras : Best(e)) /\ (CHOOSE e \in Eras : Best(e)) \in Eras
    BY <1>7, <1>10
  <2> QED BY <1>11, <2>1
<1>13. QED
  BY <1>5, <1>12 DEF mine

LEMMA SecondsApart ==
  ASSUME NEW x \in Int, NEW ref \in Int, NEW d \in Nat, Abs(x - ref) <= d
  PROVE  Abs(FullSeconds(x) - FullSeconds(ref)) <= d \div Nanos + 1
<1> USE Sizes
<1> DEFINE p == x \div Nanos
           q == ref \div Nanos
           b == d \div Nanos
<1>1. p \in Int /\ Nanos * p \in Int /\ Nanos * p <= x /\ x < Nanos * p + Nanos
  BY Divides
<1>2. q \in Int /\ Nanos * q \in Int /\ Nanos * q <= ref /\ ref < Nanos * q + Nanos
  BY Divides
<1>3. b \in Int /\ Nanos * b \in Int /\ d < Nanos * b + Nanos
  BY Divides
<1>4. -d <= x - ref /\ x - ref <= d
  BY DEF Abs
<1>5. FullSeconds(x) = p + UnixOffset /\ FullSeconds(ref) = q + UnixOffset
  BY DEF FullSeconds
<1> HIDE DEF p, q, b
<1>6. ~(q + b + 2 <= p)
  <2>1. SUFFICES ASSUME q + b + 2 <= p PROVE FALSE
    OBVIOUS
  <2>2. Nanos * (q + b + 2) <= Nanos * p
    BY <1>1, <1>2, <1>3, <2>1, MulMono
  <2>3. Nanos * (q + b + 2) = Nanos * q + Nanos * b + 2 * Nanos
    BY <1>2, <1>3
  <2> QED BY <1>1, <1>2, <1>3, <1>4, <2>2, <2>3
<1>7. ~(p + b + 2 <= q)
  <2>1. SUFFICES ASSUME p + b + 2 <= q PROVE FALSE
    OBVIOUS
  <2>2. Nanos * (p + b + 2) <= Nanos * q
    BY <1>1, <1>2, <1>3, <2>1, MulMono
  <2>3. Nanos * (p + b + 2) = Nanos * p + Nanos * b + 2 * Nanos
    BY <1>1, <1>3
  <2> QED BY <1>1, <1>2, <1>3, <1>4, <2>2, <2>3
<1>8. Abs((p + UnixOffset) - (q + UnixOffset)) <= b + 1
  BY <1>1, <1>2, <1>3, <1>6, <1>7 DEF Abs
<1> QED BY <1>5, <1>8 DEF b

(* What a client near enough reads from a timestamp is the time written to it.   *)
LEMMA NearExact ==
  ASSUME NEW x \in Int, NEW ref \in Int, Abs(x - ref) <= Reach + 2 * Span,
         -Widest - 1 <= x, x <= Widest
  PROVE  ToUnixNsNear(FromUnixNs(x), ref) = x
<1>1. Reach + 2 * Span \in Nat
  BY NearAssumption, ExchangeAssumption DEF Span
<1> DEFINE d == Reach + 2 * Span
           b == d \div Nanos
           z == FullSeconds(x) - FullSeconds(ref)
<1>2. b \in Int /\ 2 * (b + 1) < EraSecs
  <2>1. b \in Int
    <3> HIDE DEF d
    <3> QED BY <1>1, Sizes, Divides DEF d
  <2>2. 2 * (b + 1) < EraSecs
    BY NearAssumption, Zenon
  <2> QED BY <2>1, <2>2
<1>3. z \in Int
  BY Sizes, Divides DEF FullSeconds
<1>4. Abs(z) <= b + 1
  BY <1>1, SecondsApart
<1> HIDE DEF b, z
<1>5. 2 * Abs(z) < EraSecs
  BY <1>2, <1>3, <1>4, Sizes DEF Abs
<1> QED BY <1>5, NearestEra, TimestampBack DEF z
-----------------------------------------------------------------------------
(* The short format: a time there and back has lost no more than Grain, unless   *)
(* it is at the ceiling, and past the ceiling it stays.                        *)
LEMMA RoundedPositive ==
  ASSUME NEW x \in Nat, NEW from \in Nat \ {0}, NEW to \in Nat \ {0}
  PROVE  Rounded(x, from, to) \in Nat
<1> DEFINE a == x * to + from \div 2
<1>1. x * to \in Nat
  OBVIOUS
<1>2. from \div 2 \in Nat
  BY Halves
<1>3. a \in Nat
  BY <1>1, <1>2
<1> HIDE DEF a
<1>4. a \div from \in Nat
  BY <1>3, QuotientPositive
<1> QED BY <1>4 DEF a, Rounded

LEMMA Ceiling ==
  /\ ShortMax \in Nat
  /\ ShortMax \div ShortFrac = ShortSecs - 1 /\ ShortMax % ShortFrac = ShortFrac - 1
<1> USE Sizes
<1> DEFINE p == ShortFrac * (ShortSecs - 1)
           w == ShortSecs * ShortFrac
<1>1. p \in Int /\ w \in Int /\ p = w - ShortFrac
  <2>1. ShortFrac * ShortSecs \in Int /\ p = ShortFrac * ShortSecs - ShortFrac
    OBVIOUS
  <2> QED BY <2>1, Product
<1>2. ShortFrac * 0 <= p
  BY MulMono
<1>3. ShortFrac * 0 = 0
  OBVIOUS
<1>4. ShortMax = w - 1
  BY DEF ShortMax
<1> DEFINE c == ShortMax
<1> HIDE DEF p, w, c
<1>5. c \in Nat /\ p <= c /\ c < p + ShortFrac /\ c - p = ShortFrac - 1
  BY <1>1, <1>2, <1>3, <1>4 DEF c
<1>6. c \div ShortFrac = ShortSecs - 1 /\ c % ShortFrac = c - p
  <2>1. c \in Int /\ ShortSecs - 1 \in Int
    BY <1>5
  <2> QED BY <1>5, <2>1, QuotientIs, Zenon DEF p
<1> QED BY <1>5, <1>6 DEF c

LEMMA ShortPositive ==
  ASSUME NEW s \in Nat
  PROVE  ShortToNanos(s) \in Nat
<1> USE Sizes
<1>1. s \div ShortFrac \in Nat
  BY QuotientPositive
<1>2. s % ShortFrac \in Nat
  BY Divides
<1>3. Rounded(s % ShortFrac, ShortFrac, Nanos) \in Nat
  BY <1>2, RoundedPositive
<1>4. (s \div ShortFrac) * Nanos \in Nat
  BY <1>1
<1> QED BY <1>3, <1>4 DEF ShortToNanos

LEMMA ShortTyped ==
  ASSUME NEW x \in Nat
  PROVE  ShortFromNanos(x) \in 0 .. ShortMax
<1> USE Sizes
<1>1. x \div Nanos \in Nat /\ x % Nanos \in Nat
  BY QuotientPositive, Divides
<1>2. (x \div Nanos) * ShortFrac \in Nat
  BY <1>1
<1>3. Rounded(x % Nanos, Nanos, ShortFrac) \in Nat
  BY <1>1, RoundedPositive
<1> QED BY <1>2, <1>3, Ceiling DEF ShortFromNanos, AtMost

\* two roundings in a row lose less than half a step of each format
LEMMA RoundedLoss ==
  ASSUME NEW b \in Nat, NEW r \in Nat, NEW q \in Nat,
         b * ShortFrac + Nanos \div 2 < r * Nanos + Nanos,
         r * Nanos + ShortFrac \div 2 < q * ShortFrac + ShortFrac
  PROVE  b <= q + Grain
<1> USE Sizes
<1> DEFINE F == ShortFrac
           N == Nanos
           bf == b * ShortFrac
           rn == r * Nanos
           qf == q * ShortFrac
           hn == Nanos \div 2
           hf == ShortFrac \div 2
           g == Grain
           gf == 2 * F * g
<1>1. bf \in Int /\ rn \in Int /\ qf \in Int /\ bf + hn < rn + N /\ rn + hf < qf + F
  OBVIOUS
<1>2. hn \in Nat /\ N <= 2 * hn + 1 /\ hf \in Nat /\ F <= 2 * hf + 1
  BY Halves
<1>3. g \in Int /\ gf \in Int /\ N + F < gf + 2 * F
  <2> DEFINE e == 2 * ShortFrac
             n == Nanos + ShortFrac
  <2>1. e \in Nat \ {0} /\ n \in Int
    OBVIOUS
  <2> HIDE DEF e, n
  <2>2. n \div e \in Int /\ e * (n \div e) \in Int /\ n < e * (n \div e) + e
    BY <2>1, Divides
  <2>3. g = n \div e
    BY DEF Grain, e, n
  <2> HIDE DEF g
  <2>4. gf = e * g
    BY DEF e
  <2> HIDE DEF gf
  <2> QED BY <2>2, <2>3, <2>4 DEF e, n
<1> SUFFICES ASSUME q + g + 1 <= b PROVE FALSE
  <2> HIDE DEF g
  <2> QED BY <1>3 DEF g
<1>4. F * (q + g + 1) <= F * b
  <2> HIDE DEF g
  <2> QED BY <1>3, MulMono
<1>5. 2 * (F * (q + g + 1)) = 2 * qf + gf + 2 * F
  <2> HIDE DEF g
  <2> QED BY <1>3
<1>6. F * b = bf
  BY Product
<1>7. 2 * qf + gf + 2 * F <= 2 * bf
  <2> DEFINE l == F * (q + g + 1)
  <2>1. l \in Int /\ l <= bf /\ 2 * l = 2 * qf + gf + 2 * F
    <3> HIDE DEF g, gf
    <3> QED BY <1>3, <1>4, <1>5, <1>6
  <2> HIDE DEF l, bf, qf, gf, g
  <2> QED BY <1>1, <1>3, <2>1
<1> HIDE DEF bf, rn, qf, hn, hf, g, gf
<1> QED BY <1>1, <1>2, <1>3, <1>7

LEMMA ShortBack ==
  ASSUME NEW x \in Nat
  PROVE  ShortFromNanos(x) = ShortMax \/ x <= ShortToNanos(ShortFromNanos(x)) + Grain
<1> USE Sizes
<1> DEFINE a == x \div Nanos
           b == x % Nanos
           r == Rounded(b, Nanos, ShortFrac)
           v == a * ShortFrac + r
<1>1. a \in Nat /\ b \in 0 .. (Nanos - 1) /\ Nanos * a \in Int /\ x = Nanos * a + b
  BY QuotientPositive, Divides
<1>2. ShortFromNanos(x) = IF a > ShortSecs - 1 THEN ShortMax ELSE AtMost(v, ShortMax)
  BY DEF ShortFromNanos
<1> HIDE DEF a, b
<1>3. r \in Nat
  BY <1>1, RoundedPositive
<1>4. /\ b * ShortFrac \in Int /\ r * Nanos \in Int
      /\ r * Nanos <= b * ShortFrac + Nanos \div 2
      /\ b * ShortFrac + Nanos \div 2 < r * Nanos + Nanos
  <2>1. b \in Int
    BY <1>1
  <2> QED BY <2>1, RoundedIs, Zenon DEF r
<1>5. r <= ShortFrac
  <2>1. SUFFICES ASSUME ShortFrac + 1 <= r PROVE FALSE
    BY <1>3
  <2>2. Nanos * (ShortFrac + 1) <= Nanos * r
    <3> HIDE DEF r
    <3> QED BY <1>3, <2>1, MulMono
  <2>3. Nanos * (ShortFrac + 1) = Nanos * ShortFrac + Nanos /\ Nanos * ShortFrac \in Int
    OBVIOUS
  <2>4. ShortFrac * b <= ShortFrac * Nanos
    BY <1>1, MulMono
  <2>5. Nanos * r = r * Nanos /\ ShortFrac * b = b * ShortFrac /\ ShortFrac * Nanos = Nanos * ShortFrac
    <3> HIDE DEF r
    <3> QED BY <1>1, <1>3, Product
  <2> DEFINE rn == r * Nanos
             bf == b * ShortFrac
             nf == Nanos * ShortFrac
             h == Nanos \div 2
  <2>6. /\ rn \in Int /\ bf \in Int /\ nf \in Int /\ h \in Nat /\ 2 * h <= Nanos
        /\ rn <= bf + h /\ nf + Nanos <= rn /\ bf <= nf
    BY <1>4, <2>2, <2>3, <2>4, <2>5, Halves
  <2> HIDE DEF rn, bf, nf, h
  <2> QED BY <2>6
<1> HIDE DEF r
<1>6. a * ShortFrac \in Nat /\ v \in Nat
  BY <1>1, <1>3
<1>7. CASE ShortFromNanos(x) # ShortMax
  <2>1. ShortFromNanos(x) = v
    BY <1>2, <1>7 DEF AtMost
  <2>2. CASE r = ShortFrac
    <3>1. ShortFrac * (a + 1) = v
      BY <1>1, <2>2
    <3>2. ShortFrac * (a + 1) <= v /\ v < ShortFrac * (a + 1) + ShortFrac
      BY <1>6, <3>1
    <3> HIDE DEF v
    <3>3. v \div ShortFrac = a + 1 /\ v % ShortFrac \in Nat
      <4>1. v \in Int /\ a + 1 \in Int
        BY <1>1, <1>6
      <4>2. v \div ShortFrac = a + 1
        BY <3>2, <4>1, QuotientIs, Zenon
      <4> QED BY <4>1, <4>2, Divides
    <3>4. Rounded(v % ShortFrac, ShortFrac, Nanos) \in Nat
      BY <3>3, RoundedPositive
    <3>5. (a + 1) * Nanos = Nanos * a + Nanos
      BY <1>1
    <3>6. x <= ShortToNanos(v)
      BY <1>1, <3>3, <3>4, <3>5 DEF ShortToNanos
    <3>7. Grain \in Nat
      <4>1. Nanos + ShortFrac \in Nat /\ 2 * ShortFrac \in Nat \ {0}
        OBVIOUS
      <4> QED BY <4>1, QuotientPositive DEF Grain
    <3>8. ShortToNanos(v) \in Nat
      BY <1>6, ShortPositive
    <3> QED BY <2>1, <3>6, <3>7, <3>8
  <2>3. CASE r < ShortFrac
    <3>1. ShortFrac * a <= v /\ v < ShortFrac * a + ShortFrac /\ v - ShortFrac * a = r
      <4>1. ShortFrac * a = a * ShortFrac
        BY <1>1, Product
      <4> DEFINE w == a * ShortFrac
      <4>2. ShortFrac * a = w /\ v = w + r /\ w \in Nat
        BY <1>6, <4>1
      <4> HIDE DEF w, v
      <4> QED BY <1>3, <2>3, <4>2
    <3> HIDE DEF v
    <3>2. v \div ShortFrac = a /\ v % ShortFrac = r
      <4>1. v \in Int /\ a \in Int
        BY <1>1, <1>6
      <4> QED BY <3>1, <4>1, QuotientIs, Zenon
    <3> DEFINE q == Rounded(r, ShortFrac, Nanos)
    <3>3. q \in Nat
      BY <1>3, RoundedPositive
    <3>4. r * Nanos + ShortFrac \div 2 < q * ShortFrac + ShortFrac
      <4>1. r \in Int
        BY <1>3
      <4> QED BY <4>1, RoundedIs, Zenon DEF q
    <3>5. ShortToNanos(v) = a * Nanos + q
      BY <3>2 DEF ShortToNanos
    <3> HIDE DEF q
    <3>6. b <= q + Grain
      <4>1. b \in Nat
        BY <1>1
      <4> QED BY <1>3, <1>4, <3>3, <3>4, <4>1, RoundedLoss, Zenon
    <3>7. a * Nanos = Nanos * a
      BY <1>1, Product
    <3>8. Grain \in Int
      <4>1. Nanos + ShortFrac \in Nat /\ 2 * ShortFrac \in Nat \ {0}
        OBVIOUS
      <4> QED BY <4>1, QuotientPositive DEF Grain
    <3> DEFINE p == Nanos * a
               s == ShortToNanos(v)
    <3>9. p \in Int /\ x = p + b /\ s = p + q
      BY <1>1, <3>5, <3>7
    <3> HIDE DEF p, s
    <3>10. x <= s + Grain
      BY <1>1, <3>3, <3>6, <3>8, <3>9
    <3> QED BY <2>1, <3>10 DEF s
  <2> QED BY <1>3, <1>5, <2>2, <2>3
<1> QED BY <1>7

LEMMA CeilingStays ==
  ASSUME NEW y \in Nat, ShortToNanos(ShortMax) + 1 <= y
  PROVE  ShortFromNanos(y) = ShortMax
<1> USE Sizes
<1> DEFINE a == y \div Nanos
           b == y % Nanos
           r == Rounded(b, Nanos, ShortFrac)
           q == Rounded(ShortFrac - 1, ShortFrac, Nanos)
           k == ShortSecs - 1
<1>1. a \in Nat /\ b \in 0 .. (Nanos - 1) /\ Nanos * a \in Int /\ y = Nanos * a + b
  <2>1. y \in Int /\ a \in Nat
    BY QuotientPositive
  <2> QED BY <2>1, Divides, Zenon
<1>2. ShortToNanos(ShortMax) = k * Nanos + q
  BY Ceiling, Zenon DEF ShortToNanos
<1>3. k \in Nat /\ q \in Nat /\ k * Nanos \in Int
  <2>1. k \in Nat /\ ShortFrac - 1 \in Nat
    OBVIOUS
  <2>2. q \in Nat
    BY <2>1, RoundedPositive
  <2> HIDE DEF k, q
  <2> QED BY <2>1, <2>2
<1>4. ShortFromNanos(y) = IF a > k THEN ShortMax ELSE AtMost(a * ShortFrac + r, ShortMax)
  BY DEF ShortFromNanos
<1>5. (ShortFrac - 1) * Nanos + ShortFrac \div 2 < q * ShortFrac + ShortFrac
  <2>1. ShortFrac - 1 \in Int
    OBVIOUS
  <2> QED BY <2>1, RoundedIs, Zenon DEF q
<1>6. r \in Int /\ b * ShortFrac + Nanos \div 2 < r * Nanos + Nanos
  <2>1. b \in Int
    BY <1>1
  <2> HIDE DEF b
  <2> QED BY <2>1, RoundedIs, Zenon DEF r
<1>7. CASE a <= k
  <2> HIDE DEF a, b, r, q, k
  <2>1. a = k
    <3>1. SUFFICES ASSUME a + 1 <= k PROVE FALSE
      BY <1>1, <1>3, <1>7
    <3>2. Nanos * (a + 1) <= Nanos * k
      BY <1>1, <1>3, <3>1, MulMono
    <3>3. Nanos * (a + 1) = Nanos * a + Nanos /\ Nanos * k = k * Nanos
      BY <1>1, <1>3, Product
    <3> QED BY <1>1, <1>2, <1>3, <3>2, <3>3
  <2>2. q + 1 <= b
    <3>1. Nanos * a = k * Nanos
      BY <1>3, <2>1, Product
    <3> QED BY <1>1, <1>2, <1>3, <3>1
  <2>3. ShortFrac * (q + 1) <= ShortFrac * b
    BY <1>1, <1>3, <2>2, MulMono
  <2>4. ~(r + 1 <= ShortFrac - 1)
    <3>1. SUFFICES ASSUME r + 1 <= ShortFrac - 1 PROVE FALSE
      OBVIOUS
    <3>2. Nanos * (r + 1) <= Nanos * (ShortFrac - 1)
      BY <1>6, <3>1, MulMono
    <3> DEFINE rn == r * Nanos
               fn == (ShortFrac - 1) * Nanos
               qf == q * ShortFrac
               bf == b * ShortFrac
               hn == Nanos \div 2
               hf == ShortFrac \div 2
    <3>3. Nanos * (r + 1) = rn + Nanos /\ Nanos * (ShortFrac - 1) = fn
      BY <1>6
    <3>4. ShortFrac * (q + 1) = qf + ShortFrac /\ ShortFrac * b = bf
      BY <1>1, <1>3
    <3>5. rn \in Int /\ fn \in Int /\ qf \in Int /\ bf \in Int /\ hn \in Nat /\ hf \in Nat
      BY <1>1, <1>3, <1>6, Halves
    <3>6. /\ rn + Nanos <= fn /\ qf + ShortFrac <= bf
          /\ fn + hf < qf + ShortFrac /\ bf + hn < rn + Nanos
      BY <1>5, <1>6, <2>3, <3>2, <3>3, <3>4
    <3> HIDE DEF rn, fn, qf, bf, hn, hf
    <3> QED BY <3>5, <3>6
  <2>5. k * ShortFrac + ShortFrac - 1 = ShortMax
    <3>1. k * ShortFrac = ShortSecs * ShortFrac - ShortFrac /\ ShortSecs * ShortFrac \in Int
      BY DEF k
    <3> DEFINE w == ShortSecs * ShortFrac
               kf == k * ShortFrac
    <3>2. kf = w - ShortFrac /\ w \in Int /\ ShortMax = w - 1
      BY <3>1 DEF ShortMax
    <3> HIDE DEF w, kf
    <3>3. kf + ShortFrac - 1 = ShortMax
      BY <3>2
    <3> QED BY <3>3 DEF kf
  <2>6. a * ShortFrac + r >= ShortMax
    <3> DEFINE kf == k * ShortFrac
    <3>1. kf \in Int /\ kf + ShortFrac - 1 = ShortMax
      BY <1>3, <2>5
    <3> HIDE DEF kf
    <3>2. kf + r >= ShortMax
      BY <1>6, <2>4, <3>1
    <3> QED BY <2>1, <3>2 DEF kf
  <2>7. a * ShortFrac + r \in Int
    BY <1>1, <1>6
  <2> QED BY <1>1, <1>3, <1>4, <1>7, <2>6, <2>7, Ceiling DEF AtMost
<1>8. CASE ~(a <= k)
  <2>1. a > k
    <3> HIDE DEF a, k
    <3> QED BY <1>1, <1>3, <1>8
  <2> QED BY <1>4, <2>1
<1> QED BY <1>7, <1>8

LEMMA PastCeiling ==
  ASSUME NEW y \in Nat, Widest <= y
  PROVE  ShortFromNanos(y) = ShortMax
<1> USE Sizes
<1> DEFINE a == y \div Nanos
<1>1. a \in Int /\ Nanos * a \in Int /\ y < Nanos * a + Nanos
  BY Divides
<1> HIDE DEF a
<1>2. ~(a <= ShortSecs - 1)
  <2>1. SUFFICES ASSUME a <= ShortSecs - 1 PROVE FALSE
    OBVIOUS
  <2>2. Nanos * a <= Nanos * (ShortSecs - 1)
    BY <1>1, <2>1, MulMono
  <2> DEFINE w == ShortSecs * Nanos
  <2>3. Nanos * (ShortSecs - 1) = w - Nanos /\ w \in Int /\ w <= Widest
    BY WidestAssumption
  <2> HIDE DEF w
  <2> QED BY <1>1, <2>2, <2>3
<1>3. a > ShortSecs - 1
  BY <1>1, <1>2
<1> QED BY <1>3 DEF ShortFromNanos, a
-----------------------------------------------------------------------------
(* The primary's clock slips by a tick at most, and within what it claims once  *)
(* a pulse has set it.                                                        *)
ClockInv ==
  /\ now \in Start .. Horizon /\ slip \in Int /\ locked \in BOOLEAN
  /\ Abs(slip) <= now - Start
  /\ updated # NoTime => updated \in Start .. now /\ Abs(slip) <= (now - updated) \div DriftDen

(* What a packet of the primary says is so.                                    *)
Honest(m) ==
  /\ m.packet.stratum = 1 /\ m.packet.rootDelay = 0
  /\ m.packet.rootDispersion \in 0 .. ShortMax
  /\ Abs(m.slip) <= Span
  /\ \/ Abs(m.slip) <= ShortToNanos(m.packet.rootDispersion)
     \/ m.packet.rootDispersion = ShortMax
  /\ m.packet.transmit = FromUnixNs(m.at + m.slip)

(* An answer repeats the time of a question that had arrived before it left.    *)
Answering(m, sent) ==
  \E t \in Processing, q \in sent :
    /\ q.packet.mode = "client" /\ m.packet.origin = q.packet.transmit
    /\ q.at <= m.at - t
    /\ m.packet.receive = FromUnixNs(m.at - t + m.slip)

Known(m, sent) ==
  /\ m.at \in Int /\ m.slip \in Int /\ Start <= m.at
  /\ m.packet.mode \in Modes
  /\ m.packet.mode \in {"server", "broadcast"} =>
       \/ ~Synchronised(m.packet) /\ m.slip = 0 /\ m.packet.rootDispersion \in 0 .. ShortMax
       \/ Honest(m) /\ (m.packet.mode = "server" => Answering(m, sent))

NetInv == \A m \in net : Known(m, net)

(* No packet with the time of the question the client waits on is older than    *)
(* the question.                                                              *)
Asked(request, off, time, sent) ==
  request # Nothing =>
    \E a \in Start .. time :
      /\ request = Request(a + off)
      /\ \A m \in sent : m.packet.mode = "client" /\ m.packet.transmit = request.transmit
                           => a <= m.at

(* The client's clock was set to within what it measured and its source claimed, *)
(* but for what it had lost unseen.                                            *)
Follows(s, off, lost) ==
  s # Nothing =>
    /\ s.kind = "upstream" /\ s.stratum = 1 /\ s.delay \in Int /\ s.rootDelay = 0
    /\ s.rootDispersion \in 0 .. ShortMax
    /\ \/ s.rootDispersion = ShortMax
       \/ 2 * Abs(off) <= 2 * ShortToNanos(s.rootDispersion) + Abs(s.delay) + 1 + 2 * lost

(* Since then it has drifted as far as it claims, while it waits as far as it may. *)
Drifted ==
  source # Nothing =>
    /\ followed \in Start .. now /\ settled \in Int
    /\ 2 * Abs(settled) <= 3 * Span + Wander + 1
    /\ Abs(skew - settled) <= (now - followed) \div DriftDen

Wandered ==
  asked # Nothing => began \in Int /\ Abs(began) <= Reach /\ Abs(skew - began) <= Wander

ClientInv ==
  /\ skew \in Int /\ Abs(skew) <= Reach /\ unseen \in Nat
  /\ Asked(asked, began, now, net) /\ Wandered
  /\ Follows(source, settled, unseen) /\ Drifted

Inv == ClockInv /\ NetInv /\ ClientInv
-----------------------------------------------------------------------------
(* What the primary sends.                                                     *)
LEMMA SpanTyped ==
  /\ Span \in Nat /\ Reach \in Nat /\ Horizon = Start + Span /\ Start \in Nat
  /\ Loose \in Nat /\ Wander \in Nat /\ Loose <= Reach /\ Wander <= Reach
  /\ 5 * Span + Wander + 1 <= 2 * Reach /\ Horizon + Reach + 2 * Span + PathDelay < Widest
  /\ PathDelay \in Nat /\ Widest \in Nat
BY ExchangeAssumption, NearAssumption, WidestAssumption, Sizes DEF Span

LEMMA GrainTyped == Grain \in Nat /\ 3 * Grain + 1 <= 2 * BaseDispersion /\ BaseDispersion \in Nat
<1>1. Nanos + ShortFrac \in Nat /\ 2 * ShortFrac \in Nat \ {0}
  BY Sizes
<1> QED BY <1>1, QuotientPositive, BaseAssumption, ServerAssumption DEF Grain

LEMMA DispersionTyped ==
  ASSUME NEW h \in Nat
  PROVE  /\ RootDispersion(h) \in Nat
         /\ RootDispersion(h) = Widest \/ BaseDispersion + AtMost(h \div DriftDen, Widest) = RootDispersion(h)
         /\ BaseDispersion <= RootDispersion(h) \/ RootDispersion(h) = Widest
<1>1. h \div DriftDen \in Nat
  BY QuotientPositive, ServerAssumption
<1>2. AtMost(h \div DriftDen, Widest) \in Nat
  BY <1>1, Sizes DEF AtMost
<1> DEFINE d == AtMost(h \div DriftDen, Widest)
<1> HIDE DEF d
<1>3. RootDispersion(h) = AtMost(BaseDispersion + d, Widest)
  BY DEF RootDispersion, d
<1>4. d \in Nat
  BY <1>2 DEF d
<1>5. /\ AtMost(BaseDispersion + d, Widest) \in Nat
      /\ AtMost(BaseDispersion + d, Widest) = Widest \/ AtMost(BaseDispersion + d, Widest) = BaseDispersion + d
  BY <1>4, GrainTyped, Sizes DEF AtMost
<1> QED BY <1>3, <1>4, <1>5, GrainTyped DEF d

(* A dispersion that covers its error before it is rounded covers it on the wire. *)
LEMMA PrimaryClaims ==
  ASSUME ClockInv, updated # NoTime
  PROVE  LET d == ShortFromNanos(RootDispersion(Holdover))
         IN  d \in 0 .. ShortMax /\ (Abs(slip) <= ShortToNanos(d) \/ d = ShortMax)
<1> DEFINE h == now - updated
           g == h \div DriftDen
           x == RootDispersion(Holdover)
           d == ShortFromNanos(x)
<1>1. Holdover = h /\ h \in Nat /\ h <= Horizon /\ Abs(slip) <= g /\ Abs(slip) \in Nat
  BY SpanTyped DEF ClockInv, Holdover, Abs
<1>2. g \in Nat /\ g <= h
  <2> HIDE DEF h
  <2> QED BY <1>1, QuotientPositive, ServerAssumption
<1>3. AtMost(g, Widest) = g
  <2> HIDE DEF g, h
  <2> QED BY <1>1, <1>2, SpanTyped DEF AtMost
<1>4. x \in Nat /\ (x = Widest \/ BaseDispersion + g = x)
  BY <1>1, <1>3, DispersionTyped
<1> HIDE DEF x, g, h
<1>5. d \in 0 .. ShortMax
  BY <1>4, ShortTyped
<1>6. CASE x = Widest
  <2>1. d = ShortMax
    BY <1>6, SpanTyped, PastCeiling
  <2> QED BY <1>5, <2>1 DEF x
<1>7. CASE BaseDispersion + g = x
  <2>1. d = ShortMax \/ x <= ShortToNanos(d) + Grain
    BY <1>4, ShortBack
  <2>2. ShortToNanos(d) \in Nat
    BY <1>5, ShortPositive, Ceiling
  <2>3. d = ShortMax \/ Abs(slip) <= ShortToNanos(d)
    <3> HIDE DEF d
    <3> QED BY <1>1, <1>2, <1>4, <1>7, <2>1, <2>2, GrainTyped
  <2> QED BY <1>5, <2>3 DEF x
<1> QED BY <1>4, <1>6, <1>7

LEMMA Vouched ==
  ASSUME NEW s, NEW state, Serves(s, state)
  PROVE  state.lastUpdate # NoTime
BY DEF Serves, SilentReason

LEMMA SlipSpan == ClockInv => Abs(slip) <= Span /\ now \in Int /\ slip \in Int /\ Start <= now
BY SpanTyped DEF ClockInv, Abs

LEMMA ShoutKnown ==
  ASSUME ClockInv, NEW sent, Broadcast(Reference, PrimaryState, PrimaryNow) # Nothing
  PROVE  LET m == Sent(Broadcast(Reference, PrimaryState, PrimaryNow), now)
         IN  Known(m, sent) /\ m.packet.mode = "broadcast"
<1> DEFINE m == Sent(Broadcast(Reference, PrimaryState, PrimaryNow), now)
<1>1. Serves(Reference, PrimaryState)
  BY DEF Broadcast
<1>2. updated # NoTime
  BY <1>1, Vouched DEF PrimaryState
<1>3. /\ m.at = now /\ m.slip = slip /\ m.packet.mode = "broadcast" /\ m.packet.stratum = 1
      /\ m.packet.rootDelay = 0 /\ m.packet.transmit = FromUnixNs(PrimaryNow)
      /\ m.packet.rootDispersion = ShortFromNanos(RootDispersion(Holdover))
  BY <1>1 DEF Sent, Wire, Broadcast, BasePacket, Stratum, RootDelay, Dispersion, PrimaryState
<1>4. Honest(m)
  BY <1>2, <1>3, PrimaryClaims, SlipSpan DEF Honest, PrimaryNow
<1> QED BY <1>3, <1>4, SlipSpan DEF Known, Modes

LEMMA ServeKnown ==
  ASSUME ClockInv, NEW sent, NEW q \in sent, NEW t \in Processing, q.at <= now,
         Respond(Reference, PrimaryState, q.packet, PrimaryNow, PrimaryNow + t) # Nothing
  PROVE  LET m == Sent(Respond(Reference, PrimaryState, q.packet, PrimaryNow, PrimaryNow + t), now + t)
         IN  Known(m, sent) /\ m.packet.mode = "server"
<1> DEFINE m == Sent(Respond(Reference, PrimaryState, q.packet, PrimaryNow, PrimaryNow + t), now + t)
<1>1. Serves(Reference, PrimaryState) /\ IsQuestion(q.packet)
  BY DEF Respond
<1>2. updated # NoTime
  BY <1>1, Vouched DEF PrimaryState
<1>3. /\ m.at = now + t /\ m.slip = slip /\ m.packet.mode = "server" /\ m.packet.stratum = 1
      /\ m.packet.rootDelay = 0 /\ m.packet.transmit = FromUnixNs(PrimaryNow + t)
      /\ m.packet.rootDispersion = ShortFromNanos(RootDispersion(Holdover))
      /\ m.packet.origin = q.packet.transmit /\ m.packet.receive = FromUnixNs(PrimaryNow)
  BY <1>1 DEF Sent, Wire, Respond, BasePacket, Stratum, RootDelay, Dispersion, PrimaryState
<1>4. t \in Nat /\ now \in Int /\ slip \in Int /\ Start <= now /\ Abs(slip) <= Span
  BY ExchangeAssumption, SlipSpan
<1>5. /\ m.at + m.slip = PrimaryNow + t /\ m.at - t = now /\ m.at - t + m.slip = PrimaryNow
      /\ m.at \in Int /\ m.slip \in Int /\ Start <= m.at
  BY <1>3, <1>4, SpanTyped DEF PrimaryNow
<1>6. Honest(m)
  BY <1>2, <1>3, <1>4, <1>5, PrimaryClaims DEF Honest
<1>7. Answering(m, sent)
  BY <1>1, <1>3, <1>5 DEF Answering, IsQuestion
<1> QED BY <1>3, <1>5, <1>6, <1>7 DEF Known, Modes

LEMMA KnownStays ==
  ASSUME NEW m, NEW sent, NEW more, sent \subseteq more, Known(m, sent)
  PROVE  Known(m, more)
BY DEF Known, Answering
-----------------------------------------------------------------------------
(* What the client reads.                                                      *)
LEMMA HalfQuot ==
  ASSUME NEW z \in Int
  PROVE  Quot(z, 2) \in Int /\ 2 * Quot(z, 2) >= z - 1 /\ 2 * Quot(z, 2) <= z + 1
BY DEF Quot

LEMMA SaturatedKeeps ==
  ASSUME NEW x \in Int, -Widest <= x, x <= Widest
  PROVE  Saturated(x) = x
BY Kept, Sizes DEF Saturated

(* A time within the client's reach comes back as it was sent.                  *)
LEMMA ReadsExact ==
  ASSUME NEW time \in Start .. Horizon, NEW sent \in Start .. Horizon, NEW off \in Int,
         NEW err \in Int, Abs(off) <= Reach,
         Abs(err) <= Span \/ (Abs(err) <= Reach /\ Abs(off - err) <= Wander)
  PROVE  ToUnixNsNear(FromUnixNs(sent + err), time + off) = sent + err
<1>1. Abs((sent + err) - (time + off)) <= Reach + 2 * Span
  BY SpanTyped DEF Abs
<1>2. -Widest - 1 <= sent + err /\ sent + err <= Widest
  BY SpanTyped DEF Abs
<1>3. sent + err \in Int /\ time + off \in Int
  BY SpanTyped DEF Abs
<1> QED BY <1>1, <1>2, <1>3, NearExact

LEMMA OnlyPrimary ==
  ASSUME NEW m, NEW sent, Known(m, sent), m.packet.mode \in {"server", "broadcast"},
         Synchronised(m.packet)
  PROVE  Honest(m) /\ (m.packet.mode = "server" => Answering(m, sent))
BY DEF Known

\* when everything the answer depends on happened, and what the client makes of it
LEMMA Exchanged ==
  ASSUME Inv, NEW m \in net, Answered(m)
  PROVE  /\ Honest(m)
         /\ \E a \in Start .. now, t \in Nat :
              /\ a <= m.at - t /\ m.at <= now
              /\ LET r == Measure(asked, m.packet, ClientNow)
                 IN  /\ r.delay = ((now - a) - t) + (skew - began)
                     /\ r.offset = Quot((2 * m.at + 2 * m.slip - t) - (now + a + skew + began), 2)
                     /\ r.stratum = 1
<1>1. asked # Nothing /\ Believes(asked, m.packet) /\ m.at <= now
  BY DEF Answered
<1>2. /\ skew \in Int /\ Abs(skew) <= Reach /\ Known(m, net) /\ now \in Start .. Horizon
      /\ began \in Int /\ Abs(began) <= Reach /\ Abs(skew - began) <= Wander
      /\ \E a \in Start .. now :
           /\ asked = Request(a + began)
           /\ \A q \in net : q.packet.mode = "client" /\ q.packet.transmit = asked.transmit => a <= q.at
  BY <1>1 DEF Inv, ClientInv, Wandered, ClockInv, NetInv, Asked
<1>3. PICK a \in Start .. now :
        /\ asked = Request(a + began)
        /\ \A q \in net : q.packet.mode = "client" /\ q.packet.transmit = asked.transmit => a <= q.at
  BY <1>2
<1>4. Honest(m) /\ Answering(m, net) /\ m.at \in Int /\ m.slip \in Int /\ m.packet.origin = asked.transmit
  BY <1>1, <1>2, OnlyPrimary DEF Believes, Known
<1>5. PICK t \in Processing, q \in net :
        /\ q.packet.mode = "client" /\ m.packet.origin = q.packet.transmit
        /\ q.at <= m.at - t /\ m.packet.receive = FromUnixNs(m.at - t + m.slip)
  BY <1>4 DEF Answering
<1>6. t \in Nat /\ q.at \in Int /\ a <= q.at
  <2>1. q.at \in Int
    BY DEF Inv, NetInv, Known
  <2>2. a <= q.at
    BY <1>3, <1>4, <1>5
  <2> QED BY <2>1, <2>2, ExchangeAssumption
<1>7. a <= m.at - t
  BY <1>3, <1>4, <1>5, <1>6
<1>8. a \in Start .. Horizon /\ m.at - t \in Start .. Horizon /\ m.at \in Start .. Horizon
  BY <1>1, <1>2, <1>3, <1>4, <1>6, <1>7, SpanTyped
<1>9. Abs(m.slip) <= Span /\ m.packet.transmit = FromUnixNs(m.at + m.slip)
  BY <1>4 DEF Honest
<1>10. asked.transmit = FromUnixNs(a + began)
  BY <1>3 DEF Request
<1> DEFINE t1 == ToUnixNsNear(asked.transmit, ClientNow)
           t2 == ToUnixNsNear(m.packet.receive, ClientNow)
           t3 == ToUnixNsNear(m.packet.transmit, ClientNow)
<1>11. t1 = a + began
  BY <1>2, <1>8, <1>10, ReadsExact DEF ClientNow
<1>12. t2 = m.at - t + m.slip
  <2> DEFINE arrived == m.at - t
  <2>1. arrived \in Start .. Horizon /\ m.packet.receive = FromUnixNs(arrived + m.slip)
    BY <1>5, <1>8
  <2> HIDE DEF arrived
  <2>2. t2 = arrived + m.slip
    BY <1>2, <1>4, <1>9, <2>1, ReadsExact DEF ClientNow
  <2> QED BY <2>2 DEF arrived
<1>13. t3 = m.at + m.slip
  BY <1>2, <1>4, <1>8, <1>9, ReadsExact DEF ClientNow
<1> DEFINE z == (2 * m.at + 2 * m.slip - t) - (now + a + skew + began)
           d == ((now - a) - t) + (skew - began)
<1>14. (t2 - t1) + (t3 - ClientNow) = z /\ (ClientNow - t1) - (t3 - t2) = d
  <2> HIDE DEF t1, t2, t3
  <2> QED BY <1>2, <1>3, <1>4, <1>6, <1>11, <1>12, <1>13 DEF ClientNow
<1>15. z \in Int /\ d \in Int /\ -Widest <= d /\ d <= Widest
  BY <1>1, <1>2, <1>3, <1>4, <1>6, <1>7, SpanTyped DEF Abs
<1>16. Quot(z, 2) \in Int /\ 2 * Quot(z, 2) >= z - 1 /\ 2 * Quot(z, 2) <= z + 1
  BY <1>15, HalfQuot
<1>17. -2 * Widest <= z - 1 /\ z + 1 <= 2 * Widest
  BY <1>1, <1>2, <1>3, <1>4, <1>6, <1>8, <1>9, SpanTyped DEF Abs
<1>18. Saturated(Quot(z, 2)) = Quot(z, 2)
  <2> HIDE DEF z
  <2> DEFINE k == Quot(z, 2)
  <2>1. k \in Int /\ -Widest <= k /\ k <= Widest
    <3>1. k \in Int /\ 2 * k >= z - 1 /\ 2 * k <= z + 1
      BY <1>16
    <3> HIDE DEF k
    <3> QED BY <1>15, <1>17, <3>1, SpanTyped
  <2> QED BY <2>1, SaturatedKeeps
<1>19. Saturated(d) = d
  BY <1>15, SaturatedKeeps, SpanTyped
<1>20. m.packet.stratum = 1
  BY <1>4 DEF Honest
<1>21. LET r == Measure(asked, m.packet, ClientNow)
       IN  r.delay = d /\ r.offset = Quot(z, 2) /\ r.stratum = 1
  <2> HIDE DEF z, d
  <2> QED BY <1>14, <1>18, <1>19, <1>20 DEF Measure
<1> QED BY <1>1, <1>4, <1>6, <1>7, <1>21

LEMMA ExchangeSound ==
  ASSUME Inv, NEW m \in net, Answered(m)
  PROVE  LET r == Measure(asked, m.packet, ClientNow)
         IN  /\ r.delay \in Int /\ r.offset \in Int /\ r.stratum = 1
             /\ -Lost <= r.delay /\ r.delay + 2 * Lost <= Span + Wander /\ Lost \in Nat
             /\ 2 * Abs(r.offset - (m.slip - skew)) <= r.delay + 1 + 2 * Lost
             /\ Honest(m) /\ m.slip \in Int
<1> DEFINE r == Measure(asked, m.packet, ClientNow)
<1>1. /\ Honest(m) /\ m.slip \in Int /\ m.at \in Int /\ skew \in Int /\ now \in Start .. Horizon
      /\ began \in Int /\ Abs(skew - began) <= Wander
  BY Exchanged DEF Inv, NetInv, Known, ClientInv, ClockInv, Wandered, Answered
<1>2. PICK a \in Start .. now, t \in Nat :
        /\ a <= m.at - t /\ m.at <= now
        /\ r.delay = ((now - a) - t) + (skew - began) /\ r.stratum = 1
        /\ r.offset = Quot((2 * m.at + 2 * m.slip - t) - (now + a + skew + began), 2)
  BY Exchanged
<1> DEFINE z == (2 * m.at + 2 * m.slip - t) - (now + a + skew + began)
           k == Quot(z, 2)
<1>3. z \in Int
  BY <1>1, <1>2, SpanTyped
<1>4. k \in Int /\ 2 * k >= z - 1 /\ 2 * k <= z + 1 /\ r.offset = k
  BY <1>2, <1>3, HalfQuot
<1> HIDE DEF k, r
<1>5. /\ r.delay \in Int /\ -Lost <= r.delay /\ r.delay + 2 * Lost <= Span + Wander
      /\ Lost \in Nat
  BY <1>1, <1>2, SpanTyped DEF Abs, Lost, AtLeast
<1>6. 2 * Abs(k - (m.slip - skew)) <= r.delay + 1 + 2 * Lost
  BY <1>1, <1>2, <1>4, SpanTyped DEF Abs, Lost, AtLeast
<1> QED BY <1>1, <1>2, <1>4, <1>5, <1>6 DEF r

LEMMA BroadcastSound ==
  ASSUME Inv, NEW m \in net, m.at <= now, BelievesBroadcast(m.packet)
  PROVE  AcceptBroadcast(m.packet, ClientNow, PathDelay).offset - (m.slip - skew)
           = Quot(PathDelay, 2) - (now - m.at)
<1>1. /\ skew \in Int /\ Abs(skew) <= Reach /\ Known(m, net) /\ now \in Start .. Horizon
  BY DEF Inv, ClientInv, ClockInv, NetInv
<1>2. Honest(m) /\ m.at \in Start .. Horizon /\ m.slip \in Int
  BY <1>1, OnlyPrimary, SpanTyped DEF BelievesBroadcast, Known
<1>3. Abs(m.slip) <= Span /\ m.packet.transmit = FromUnixNs(m.at + m.slip)
  BY <1>2 DEF Honest
<1>4. ToUnixNsNear(m.packet.transmit, ClientNow) = m.at + m.slip
  BY <1>1, <1>2, <1>3, ReadsExact DEF ClientNow
<1> DEFINE h == Quot(PathDelay, 2)
           x == m.at + m.slip - (now + skew) + h
<1>5. h \in Int /\ 0 <= h /\ h <= PathDelay
  <2>1. 2 * h >= PathDelay - 1 /\ 2 * h <= PathDelay + 1 /\ h \in Int
    BY HalfQuot, SpanTyped
  <2> HIDE DEF h
  <2> QED BY <2>1, SpanTyped
<1> HIDE DEF h
<1>6. x \in Int /\ -Widest <= x /\ x <= Widest
  BY <1>1, <1>2, <1>3, <1>5, SpanTyped DEF Abs
<1>7. AcceptBroadcast(m.packet, ClientNow, PathDelay).offset = Saturated(x)
  <2>1. AcceptBroadcast(m.packet, ClientNow, PathDelay).offset
          = Saturated(ToUnixNsNear(m.packet.transmit, ClientNow) - ClientNow + h)
    BY DEF AcceptBroadcast, h
  <2>2. ToUnixNsNear(m.packet.transmit, ClientNow) - ClientNow + h = x
    BY <1>1, <1>2, <1>4, <1>5 DEF ClientNow
  <2> QED BY <2>1, <2>2, Zenon
<1>8. Saturated(x) = x
  BY <1>6, SaturatedKeeps
<1>9. x - (m.slip - skew) = h - (now - m.at)
  BY <1>1, <1>2, <1>5, SpanTyped
<1> QED BY <1>7, <1>8, <1>9 DEF h
-----------------------------------------------------------------------------
(* The invariant holds at first and every step keeps it.                        *)
LEMMA InitInv == Init => Inv
<1> SUFFICES ASSUME Init PROVE Inv
  OBVIOUS
<1> USE SpanTyped DEF Init
<1>1. ClockInv
  <2>1. now \in Start .. Horizon /\ slip \in Int
    BY ExchangeAssumption
  <2>2. locked \in BOOLEAN /\ updated = NoTime
    OBVIOUS
  <2>3. Abs(slip) <= now - Start
    BY DEF Abs
  <2> QED BY <2>1, <2>2, <2>3 DEF ClockInv
<1>2. ASSUME NEW m \in net PROVE Known(m, net)
  <2>1. PICK p \in Strangers : m = [packet |-> Wire(p), at |-> Start, slip |-> 0]
    BY <1>2
  <2>2. p \in Packet /\ (p.mode \in {"server", "broadcast"} => ~Synchronised(p))
    BY StrangerAssumption
  <2>3. /\ m.packet.mode = p.mode /\ m.packet.synchronized = p.synchronized
        /\ m.packet.stratum = p.stratum /\ m.packet.rootDispersion = p.rootDispersion
        /\ p.mode \in Modes /\ p.rootDispersion \in 0 .. ShortMax
    BY <2>1, <2>2 DEF Wire, Packet
  <2>4. m.at = Start /\ m.slip = 0
    BY <2>1
  <2> QED BY <2>2, <2>3, <2>4 DEF Known, Synchronised
<1>3. ClientInv
  <2>1. skew \in Int /\ Abs(skew) <= Reach
    <3>1. skew \in Int /\ Abs(skew) <= Loose
      BY ExchangeAssumption, NearAssumption
    <3> QED BY <3>1 DEF Abs
  <2> QED BY <2>1 DEF ClientInv, Asked, Wandered, Follows, Drifted
<1> QED BY <1>1, <1>2, <1>3 DEF Inv, NetInv

\* time may pass and packets be added, as long as none is a new question
LEMMA AskedStays ==
  ASSUME NEW request, NEW off, NEW time \in Int, NEW later \in Int, time <= later,
         NEW sent, NEW more, Asked(request, off, time, sent),
         \A m \in more \ sent : m.packet.mode # "client"
  PROVE  Asked(request, off, later, more)
<1> SUFFICES ASSUME request # Nothing PROVE Asked(request, off, later, more)
  BY DEF Asked
<1>1. PICK a \in Start .. time :
        /\ request = Request(a + off)
        /\ \A m \in sent : m.packet.mode = "client" /\ m.packet.transmit = request.transmit => a <= m.at
  BY DEF Asked
<1>2. a \in Start .. later
  BY SpanTyped
<1>3. \A m \in more : m.packet.mode = "client" /\ m.packet.transmit = request.transmit => a <= m.at
  BY <1>1
<1> QED BY <1>1, <1>2, <1>3 DEF Asked

LEMMA OneTick ==
  ASSUME NEW s \in Int, NEW t, t = s - 1 \/ t = s \/ t = s + 1
  PROVE  Abs(s) \in Int /\ Abs(t) <= Abs(s) + 1
BY DEF Abs

LEMMA AbsNear ==
  ASSUME NEW x \in Int, NEW y \in Int, NEW d \in Int, Abs(x - y) <= d
  PROVE  Abs(x) \in Int /\ Abs(y) \in Int /\ Abs(x) <= Abs(y) + d
BY DEF Abs

LEMMA AbsTyped == ASSUME NEW x \in Int PROVE Abs(x) \in Int
BY DEF Abs

LEMMA TickInv == Inv /\ Tick => Inv'
<1> SUFFICES ASSUME Inv, Tick PROVE Inv'
  OBVIOUS
<1> USE SpanTyped
<1>1. /\ now \in Start .. Horizon /\ now' = now + 1 /\ now < Horizon /\ slip \in Int
      /\ slip' \in {slip - 1, slip, slip + 1} /\ Abs(slip) <= now - Start
      /\ updated # NoTime => Abs(slip') <= (now' - updated) \div DriftDen
      /\ updated # NoTime => updated \in Start .. now
      /\ UNCHANGED <<updated, locked, asked, began, source, followed, settled, unseen, net>>
  BY DEF Inv, ClockInv, Tick
<1>2. ClockInv'
  <2>1. now' \in Start .. Horizon /\ slip' \in Int /\ Abs(slip') <= now' - Start
    <3>1. now' \in Start .. Horizon /\ slip' \in Int
      BY <1>1
    <3>2. Abs(slip) \in Int /\ Abs(slip') <= Abs(slip) + 1
      <4>1. slip \in Int /\ (slip' = slip - 1 \/ slip' = slip \/ slip' = slip + 1)
        BY <1>1
      <4> QED BY <4>1, OneTick
    <3>3. Abs(slip') \in Int
      BY <3>1 DEF Abs
    <3> QED BY <1>1, <3>1, <3>2, <3>3
  <2>2. updated' # NoTime => updated' \in Start .. now'
    BY <1>1
  <2>3. locked' \in BOOLEAN
    BY <1>1 DEF Inv, ClockInv
  <2> QED BY <1>1, <2>1, <2>2, <2>3 DEF ClockInv
<1>3. NetInv'
  BY <1>1 DEF Inv, NetInv
<1>4. ClientInv'
  <2>1. Asked(asked, began, now', net)
    <3>1. Asked(asked, began, now, net)
      BY DEF Inv, ClientInv
    <3>2. now \in Int /\ now' \in Int /\ now <= now'
      BY <1>1
    <3> QED BY <3>1, <3>2, AskedStays
  <2>2. /\ skew' \in Int
        /\ asked # Nothing => Abs(skew' - began) <= Wander
        /\ source = Nothing => Abs(skew') <= Loose
        /\ source # Nothing => Abs(skew' - settled) <= (now' - followed) \div DriftDen
    BY ExchangeAssumption DEF Tick, Inv, ClientInv
  <2>3. Wandered'
    BY <1>1, <2>2 DEF Inv, ClientInv, Wandered
  <2>4. Drifted'
    BY <1>1, <2>2 DEF Inv, ClientInv, Drifted
  <2>5. Abs(skew') <= Reach
    <3>1. CASE source = Nothing
      <4>1. Abs(skew') <= Loose /\ Abs(skew') \in Int
        BY <2>2, <3>1, AbsTyped
      <4> QED BY <4>1
    <3>2. CASE source # Nothing
      <4>1. /\ settled \in Int /\ 2 * Abs(settled) <= 3 * Span + Wander + 1
            /\ now' - followed \in Nat /\ now' - followed <= Span
        BY <1>1, <3>2 DEF Inv, ClientInv, Drifted
      <4> DEFINE d == (now' - followed) \div DriftDen
      <4>2. d \in Nat /\ d <= Span /\ Abs(skew' - settled) <= d
        <5>1. d \in Nat /\ d <= now' - followed
          BY <4>1, QuotientPositive, ServerAssumption
        <5> HIDE DEF d
        <5> QED BY <2>2, <3>2, <4>1, <5>1 DEF d
      <4> HIDE DEF d
      <4>3. skew' \in Int
        BY <2>2
      <4>4. Abs(skew') <= Abs(settled) + Span /\ Abs(skew') \in Int /\ Abs(settled) \in Int
        <5>1. /\ Abs(skew') \in Int /\ Abs(settled) \in Int
              /\ Abs(skew') <= Abs(settled) + d
          BY <4>1, <4>2, <4>3, AbsNear
        <5> QED BY <4>2, <5>1
      <4> QED BY <4>1, <4>4
    <3> QED BY <3>1, <3>2
  <2> QED BY <1>1, <2>1, <2>2, <2>3, <2>4, <2>5 DEF Inv, ClientInv
<1> QED BY <1>2, <1>3, <1>4 DEF Inv

LEMMA PulseInv == Inv /\ Pulse => Inv'
<1> SUFFICES ASSUME Inv, Pulse PROVE Inv'
  OBVIOUS
<1> USE SpanTyped
<1>1. /\ updated' = now /\ slip' = 0 /\ locked' \in {locked, TRUE} /\ now' = now
      /\ UNCHANGED <<skew, asked, began, source, followed, settled, unseen, net>>
      /\ now \in Start .. Horizon
  BY DEF Inv, ClockInv, Pulse, client
<1>2. ClockInv'
  <2>1. (now' - updated') \div DriftDen \in Nat
    <3>1. now' - updated' \in Nat
      BY <1>1
    <3> QED BY <3>1, QuotientPositive, ServerAssumption
  <2>2. Abs(slip') = 0
    BY <1>1 DEF Abs
  <2>3. locked' \in BOOLEAN
    BY <1>1 DEF Inv, ClockInv
  <2> QED BY <1>1, <2>1, <2>2, <2>3 DEF ClockInv
<1> QED BY <1>1, <1>2 DEF Inv, NetInv, ClientInv, Wandered, Drifted

\* a packet of the primary joins the others
LEMMA SendInv ==
  ASSUME Inv, NEW m, net' = net \union {m}, UNCHANGED <<now, primary, client>>,
         Known(m, net), m.packet.mode \in {"server", "broadcast"}
  PROVE  Inv'
<1>1. UNCHANGED <<now, slip, updated, locked, skew, asked, began, source, followed, settled, unseen>>
  BY DEF primary, client
<1>2. ClockInv'
  BY <1>1 DEF Inv, ClockInv
<1>3. NetInv'
  <2>1. net \subseteq net'
    OBVIOUS
  <2>2. ASSUME NEW q \in net' PROVE Known(q, net')
    <3>1. Known(q, net)
      BY DEF Inv, NetInv
    <3> QED BY <2>1, <3>1, KnownStays
  <2> QED BY <2>2 DEF NetInv
<1>4. ClientInv'
  <2>1. Asked(asked, began, now, net) /\ now \in Int
    BY SpanTyped DEF Inv, ClientInv, ClockInv
  <2>2. \A q \in net' \ net : q.packet.mode # "client"
    OBVIOUS
  <2>3. Asked(asked, began, now, net')
    BY <2>1, <2>2, AskedStays
  <2> QED BY <1>1, <2>3 DEF Inv, ClientInv, Wandered, Drifted
<1> QED BY <1>2, <1>3, <1>4 DEF Inv

LEMMA ShoutInv == Inv /\ Shout => Inv'
<1> SUFFICES ASSUME Inv, Shout PROVE Inv'
  OBVIOUS
<1> DEFINE m == Sent(Broadcast(Reference, PrimaryState, PrimaryNow), now)
<1>1. /\ Broadcast(Reference, PrimaryState, PrimaryNow) # Nothing
      /\ net' = net \union {m} /\ UNCHANGED <<now, primary, client>>
  BY DEF Shout
<1>2. Known(m, net) /\ m.packet.mode = "broadcast"
  BY <1>1, ShoutKnown DEF Inv
<1> HIDE DEF m
<1> QED BY <1>1, <1>2, SendInv

LEMMA ServeInv ==
  ASSUME Inv, NEW q \in net, Serve(q)
  PROVE  Inv'
<1>1. PICK t \in Processing :
        /\ Respond(Reference, PrimaryState, q.packet, PrimaryNow, PrimaryNow + t) # Nothing
        /\ q.at <= now
        /\ net' = net \union
             {Sent(Respond(Reference, PrimaryState, q.packet, PrimaryNow, PrimaryNow + t), now + t)}
        /\ UNCHANGED <<now, primary, client>>
  BY DEF Serve
<1> DEFINE m == Sent(Respond(Reference, PrimaryState, q.packet, PrimaryNow, PrimaryNow + t), now + t)
<1>2. Known(m, net) /\ m.packet.mode = "server"
  BY <1>1, ServeKnown DEF Inv
<1>3. net' = net \union {m} /\ UNCHANGED <<now, primary, client>>
  BY <1>1
<1> HIDE DEF m
<1> QED BY <1>2, <1>3, SendInv

LEMMA AskInv == Inv /\ Ask => Inv'
<1> SUFFICES ASSUME Inv, Ask PROVE Inv'
  OBVIOUS
<1> DEFINE m == Sent(asked', now)
<1>1. /\ asked' = Request(ClientNow) /\ began' = skew /\ net' = net \union {m}
      /\ \A q \in net : q.packet.transmit # asked'.transmit
      /\ UNCHANGED <<now, slip, updated, locked, skew, source, followed, settled, unseen>>
  BY DEF Ask, primary
<1>2. now \in Start .. Horizon /\ slip \in Int
  BY DEF Inv, ClockInv
<1>3. m.at = now /\ m.slip = slip /\ m.packet.mode = "client"
  BY <1>1 DEF Sent, Wire, Request
<1> HIDE DEF m
<1>4. Known(m, net')
  BY <1>2, <1>3, SpanTyped DEF Known, Modes
<1>5. NetInv'
  <2>1. ASSUME NEW q \in net' PROVE Known(q, net')
    <3>1. CASE q \in net
      BY <1>1, <3>1, KnownStays DEF Inv, NetInv
    <3> QED BY <1>1, <1>4, <3>1
  <2> QED BY <2>1 DEF NetInv
<1>6. Asked(asked', skew, now, net')
  <2>1. now \in Start .. now /\ asked' = Request(now + skew)
    BY <1>1, <1>2, SpanTyped DEF ClientNow
  <2>2. \A q \in net' : q.packet.mode = "client" /\ q.packet.transmit = asked'.transmit => now <= q.at
    BY <1>1, <1>2, <1>3, SpanTyped
  <2> QED BY <2>1, <2>2 DEF Asked
<1>7. ClockInv'
  BY <1>1 DEF Inv, ClockInv
<1>8. ClientInv'
  <2>1. Wandered'
    BY <1>1, SpanTyped DEF Inv, ClientInv, Wandered, Abs
  <2> QED BY <1>1, <1>6, <2>1 DEF Inv, ClientInv, Drifted
<1> QED BY <1>5, <1>7, <1>8 DEF Inv

LEMMA FollowInv ==
  ASSUME Inv, NEW m \in net, Follow(m)
  PROVE  Inv'
<1> DEFINE r == Measure(asked, m.packet, ClientNow)
<1>1. /\ Answered(m) /\ skew' = skew + r.offset
      /\ source' = [kind |-> "upstream", stratum |-> r.stratum, delay |-> r.delay,
                    rootDelay |-> m.packet.rootDelay,
                    rootDispersion |-> m.packet.rootDispersion]
      /\ followed' = now /\ settled' = skew' /\ asked' = Nothing
      /\ unseen' = AtLeast(Lost + AtMost(r.delay, 0), 0)
      /\ UNCHANGED <<now, slip, updated, locked, net>>
  BY DEF Follow, primary
<1>2. /\ r.delay \in Int /\ r.offset \in Int /\ r.stratum = 1
      /\ -Lost <= r.delay /\ r.delay + 2 * Lost <= Span + Wander /\ Lost \in Nat
      /\ 2 * Abs(r.offset - (m.slip - skew)) <= r.delay + 1 + 2 * Lost
      /\ Honest(m) /\ m.slip \in Int
  BY <1>1, ExchangeSound
<1> HIDE DEF r
<1>3. skew \in Int /\ now \in Start .. Horizon
  BY DEF Inv, ClientInv, ClockInv
<1>4. skew' \in Int /\ 2 * Abs(skew') <= 2 * Abs(m.slip) + r.delay + 1 + 2 * Lost
  BY <1>1, <1>2, <1>3, SpanTyped DEF Abs
<1>5. /\ Abs(m.slip) <= Span /\ m.packet.rootDelay = 0 /\ m.packet.rootDispersion \in 0 .. ShortMax
      /\ Abs(m.slip) <= ShortToNanos(m.packet.rootDispersion) \/ m.packet.rootDispersion = ShortMax
  BY <1>2 DEF Honest
<1>6. Abs(m.slip) \in Int /\ Abs(skew') \in Int
  BY <1>2, <1>4 DEF Abs
<1>7. 2 * Abs(skew') <= 3 * Span + Wander + 1 /\ Abs(skew') <= Reach
  BY <1>2, <1>4, <1>5, <1>6, SpanTyped
<1>8. unseen' \in Nat /\ r.delay + 2 * Lost = Abs(r.delay) + 2 * unseen'
  BY <1>1, <1>2 DEF AtLeast, AtMost, Abs
<1>9. Follows(source', skew', unseen')
  <2>1. /\ source'.kind = "upstream" /\ source'.stratum = 1 /\ source'.delay = r.delay
        /\ source'.rootDelay = 0 /\ source'.rootDispersion = m.packet.rootDispersion
    BY <1>1, <1>2, <1>5
  <2>2. ShortToNanos(m.packet.rootDispersion) \in Nat
    BY <1>5, ShortPositive, Ceiling
  <2>3. Abs(r.delay) \in Int
    BY <1>2 DEF Abs
  <2>4. \/ m.packet.rootDispersion = ShortMax
        \/ 2 * Abs(skew') <= 2 * ShortToNanos(m.packet.rootDispersion)
                               + Abs(r.delay) + 1 + 2 * unseen'
    BY <1>2, <1>4, <1>5, <1>6, <1>8, <2>2, <2>3, SpanTyped
  <2> QED BY <1>2, <1>5, <2>1, <2>4 DEF Follows
<1>10. Drifted'
  <2>1. (now' - followed') \div DriftDen \in Nat
    <3>1. now' - followed' \in Nat
      BY <1>1, <1>3, SpanTyped
    <3> QED BY <3>1, QuotientPositive, ServerAssumption
  <2>2. Abs(skew' - settled') = 0
    BY <1>1, <1>4 DEF Abs
  <2> QED BY <1>1, <1>3, <1>4, <1>7, <2>1, <2>2, SpanTyped DEF Drifted
<1>11. ClientInv'
  <2>1. Asked(asked', began', now', net') /\ Wandered'
    BY <1>1 DEF Asked, Wandered
  <2> QED BY <1>1, <1>4, <1>7, <1>8, <1>9, <1>10, <2>1 DEF ClientInv
<1>12. ClockInv' /\ NetInv'
  BY <1>1 DEF Inv, ClockInv, NetInv
<1> QED BY <1>11, <1>12 DEF Inv

LEMMA NextInv == Inv /\ [Next]_vars => Inv'
<1> SUFFICES ASSUME Inv, [Next]_vars PROVE Inv'
  OBVIOUS
<1>1. CASE Tick
  BY <1>1, TickInv
<1>2. CASE Pulse
  BY <1>2, PulseInv
<1>3. CASE Shout
  BY <1>3, ShoutInv
<1>4. CASE Ask
  BY <1>4, AskInv
<1>5. ASSUME NEW m \in net, Serve(m) PROVE Inv'
  BY <1>5, ServeInv
<1>6. ASSUME NEW m \in net, Follow(m) PROVE Inv'
  BY <1>6, FollowInv
<1>7. CASE UNCHANGED vars
  BY <1>7 DEF Inv, ClockInv, NetInv, ClientInv, Wandered, Drifted, vars, primary, client
<1> QED BY <1>1, <1>2, <1>3, <1>4, <1>5, <1>6, <1>7 DEF Next

LEMMA Invariant == Spec => []Inv
BY InitInv, NextInv, PTL DEF Spec
-----------------------------------------------------------------------------
(* The client takes from an answer its clock's error to within half the delay    *)
(* measured with it and what its own clock lost meanwhile, which a negative delay *)
(* shows a part of, and from a broadcast to what the path delay is off, however  *)
(* the network delayed, repeated or reordered the packets and wherever an era    *)
(* ended (client.rs measure, accept_broadcast).                                 *)
THEOREM TakesTheTruth == Spec => []MeasuredSound
<1>1. Inv => MeasuredSound
  <2> SUFFICES ASSUME Inv, NEW m \in net
               PROVE  /\ Answered(m) =>
                           LET r == Measure(asked, m.packet, ClientNow)
                           IN  r.delay >= -Lost /\ 2 * Abs(r.offset - (m.slip - skew)) <= r.delay + 1 + 2 * Lost
                      /\ m.at <= now /\ BelievesBroadcast(m.packet) =>
                           AcceptBroadcast(m.packet, ClientNow, PathDelay).offset - (m.slip - skew)
                             = Quot(PathDelay, 2) - (now - m.at)
    BY DEF MeasuredSound
  <2>1. ASSUME Answered(m)
        PROVE  LET r == Measure(asked, m.packet, ClientNow)
               IN  r.delay >= -Lost /\ 2 * Abs(r.offset - (m.slip - skew)) <= r.delay + 1 + 2 * Lost
    <3>1. LET r == Measure(asked, m.packet, ClientNow)
          IN  r.delay \in Int /\ -Lost <= r.delay /\ Lost \in Nat
              /\ 2 * Abs(r.offset - (m.slip - skew)) <= r.delay + 1 + 2 * Lost
      BY <2>1, ExchangeSound
    <3> QED BY <3>1
  <2>2. ASSUME m.at <= now, BelievesBroadcast(m.packet)
        PROVE  AcceptBroadcast(m.packet, ClientNow, PathDelay).offset - (m.slip - skew)
                 = Quot(PathDelay, 2) - (now - m.at)
    BY <2>2, BroadcastSound
  <2> QED BY <2>1, <2>2
<1> QED BY <1>1, Invariant, PTL

(* A primary's packet never claims a smaller error than its clock has, however   *)
(* long the holdover and whatever the short format rounds (server.rs            *)
(* root_dispersion_ns, timestamp.rs from_nanos).                               *)
THEOREM ClaimsNoBetterClock == Spec => []PrimaryHonest
<1>1. Inv => PrimaryHonest
  <2> SUFFICES ASSUME Inv, NEW m \in Answers
               PROVE  \/ m.packet.stratum # 1
                      \/ Abs(m.slip) <= ShortToNanos(m.packet.rootDispersion)
                      \/ m.packet.rootDispersion = ShortMax
    BY DEF PrimaryHonest
  <2>1. Known(m, net) /\ m.packet.mode \in {"server", "broadcast"}
    BY DEF Answers, Inv, NetInv
  <2>2. CASE m.slip = 0 /\ m.packet.rootDispersion \in 0 .. ShortMax
    <3>1. ShortToNanos(m.packet.rootDispersion) \in Nat
      BY <2>2, ShortPositive, Ceiling
    <3> QED BY <2>2, <3>1 DEF Abs
  <2>3. CASE Honest(m)
    BY <2>3 DEF Honest
  <2> QED BY <2>1, <2>2, <2>3 DEF Known
<1> QED BY <1>1, Invariant, PTL

(* Nor does a client that serves in turn, whatever sign the measured delay has:   *)
(* half the root delay and the root dispersion it passes on cover the error of    *)
(* its clock, also while it drifts as it claims, but for what its clock lost      *)
(* during the exchange without a trace in the delay (server.rs base_packet).     *)
THEOREM PassesNoBetterClock == Spec => []PassedOnHonest
<1>1. Inv => PassedOnHonest
  <2> SUFFICES ASSUME Inv, Passes # Nothing,
                      Passes.rootDispersion # ShortMax, Passes.rootDelay # ShortMax
               PROVE  2 * Abs(skew) <= ShortToNanos(Passes.rootDelay)
                                         + 2 * (ShortToNanos(Passes.rootDispersion) + unseen)
    BY DEF PassedOnHonest
  <2> DEFINE h == now - followed
             g == h \div DriftDen
             rd == source.rootDispersion
             far == AtLeast(source.delay, 0)
             shown == Abs(AtMost(source.delay, 0))
             x == ShortToNanos(0) + far
             y == ShortToNanos(rd) + RootDispersion(h) + shown
             d == ShortFromNanos(x)
             e == ShortFromNanos(y)
  <2>1. source # Nothing
    BY DEF Passes
  <2>2. /\ source.kind = "upstream" /\ source.delay \in Int /\ source.rootDelay = 0
        /\ rd \in 0 .. ShortMax /\ skew \in Int /\ settled \in Int /\ unseen \in Nat
        /\ h \in Nat /\ h <= Horizon /\ Abs(skew - settled) <= g
        /\ \/ rd = ShortMax
           \/ 2 * Abs(settled) <= 2 * ShortToNanos(rd) + Abs(source.delay) + 1 + 2 * unseen
    BY <2>1, SpanTyped DEF Inv, ClientInv, Follows, Drifted, ClockInv
  <2>3. source # Reference /\ Serves(source, ClientState)
    BY <2>1, <2>2 DEF Reference, Passes, Broadcast
  <2>4. far \in Nat /\ shown \in Nat /\ Abs(source.delay) = far + shown
    BY <2>2 DEF AtLeast, AtMost, Abs
  <2>5. RootDispersion(h) \in Nat /\ ShortToNanos(rd) \in Nat /\ ShortToNanos(0) \in Nat
    BY <2>2, DispersionTyped, ShortPositive, Ceiling
  <2>6. Passes.rootDelay = d /\ Passes.rootDispersion = e
    <3>1. /\ Passes.rootDelay = RootDelay(source)
          /\ Passes.rootDispersion = Dispersion(source, ClientState.holdover)
      BY <2>1, <2>3 DEF Passes, Broadcast, BasePacket
    <3>2. ClientState.holdover = h
      BY DEF ClientState
    <3>3. RootDelay(source) = d
      BY <2>2, <2>3 DEF RootDelay
    <3>4. Dispersion(source, h) = e
      BY <2>3 DEF Dispersion
    <3> QED BY <3>1, <3>2, <3>3, <3>4
  <2> HIDE DEF far, shown, g
  <2>7. x \in Nat /\ y \in Nat
    BY <2>4, <2>5
  <2>8. far <= ShortToNanos(d) + Grain /\ ShortToNanos(d) \in Nat
    <3>1. d = ShortMax \/ x <= ShortToNanos(d) + Grain
      BY <2>7, ShortBack
    <3>2. d \in 0 .. ShortMax
      BY <2>7, ShortTyped
    <3>3. ShortToNanos(d) \in Nat
      BY <3>2, ShortPositive, Ceiling
    <3> HIDE DEF d
    <3> QED BY <2>4, <2>5, <2>6, <3>1, <3>3, GrainTyped
  <2>9. y <= ShortToNanos(e) + Grain /\ ShortToNanos(e) \in Nat
    <3>1. e \in 0 .. ShortMax
      BY <2>7, ShortTyped
    <3>2. ShortToNanos(e) \in Nat
      BY <3>1, ShortPositive, Ceiling
    <3> QED BY <2>6, <2>7, <3>2, ShortBack
  <2>10. RootDispersion(h) # Widest
    <3>1. SUFFICES ASSUME RootDispersion(h) = Widest PROVE FALSE
      OBVIOUS
    <3>2. Widest <= y
      BY <2>4, <2>5, <3>1, SpanTyped
    <3>3. ShortFromNanos(y) = ShortMax
      BY <2>7, <3>2, PastCeiling
    <3> QED BY <2>6, <3>3
  <2>11. BaseDispersion + g = RootDispersion(h) /\ g \in Nat
    <3>1. g \in Nat /\ g <= h
      BY <2>2, QuotientPositive, ServerAssumption DEF g
    <3>2. AtMost(g, Widest) = g
      BY <2>2, <3>1, SpanTyped DEF AtMost
    <3>3. BaseDispersion + AtMost(g, Widest) = RootDispersion(h)
      BY <2>2, <2>10, DispersionTyped DEF g
    <3> QED BY <3>1, <3>2, <3>3
  <2>12. rd # ShortMax
    <3>1. SUFFICES ASSUME rd = ShortMax PROVE FALSE
      OBVIOUS
    <3>2. ShortToNanos(ShortMax) + 1 <= y
      BY <2>4, <2>5, <2>11, <3>1, GrainTyped
    <3>3. ShortFromNanos(y) = ShortMax
      BY <2>7, <3>2, CeilingStays
    <3> QED BY <2>6, <3>3
  <2> DEFINE p == ShortToNanos(d)
             q == ShortToNanos(e)
             c == RootDispersion(h)
             z == ShortToNanos(rd)
  <2>13. /\ far <= p + Grain /\ z + c + shown <= q + Grain /\ BaseDispersion + g = c
         /\ 2 * Abs(settled) <= 2 * z + (far + shown) + 1 + 2 * unseen
         /\ p \in Nat /\ q \in Nat /\ c \in Nat /\ z \in Nat /\ g \in Nat
    BY <2>2, <2>4, <2>5, <2>8, <2>9, <2>11, <2>12
  <2>14. Abs(skew) <= Abs(settled) + g /\ Abs(skew) \in Nat /\ Abs(settled) \in Nat
    BY <2>2, <2>11 DEF Abs
  <2> HIDE DEF p, q, c, z, h, rd
  <2>15. 2 * Abs(skew) <= p + 2 * (q + unseen)
    BY <2>2, <2>4, <2>13, <2>14, GrainTyped
  <2> QED BY <2>6, <2>15 DEF p, q
<1> QED BY <1>1, Invariant, PTL
=============================================================================
