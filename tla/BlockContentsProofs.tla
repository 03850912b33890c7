------------------------ MODULE BlockContentsProofs ------------------------
(***************************************************************************)
(* What blocks hold: that targets follow the rule (module Retarget), that  *)
(* no money comes from nothing (Ledger), that branches of scripts are      *)
(* taken as their structure says and numbers are computed exactly          *)
(* (Script), and that signatures are paired with keys exactly (Multisig),  *)
(* whatever the constants are.                                             *)
(***************************************************************************)
EXTENDS Ledger, Retarget, Script, Multisig, FiniteSetTheorems, SequenceTheorems,
        TLAPS

-----------------------------------------------------------------------------
(* Arithmetic: quotients, and products that are compared.                  *)

LEMMA QuotientIs ==
    ASSUME NEW a \in Nat, NEW b \in Nat, b > 0
    PROVE  /\ a \div b \in Nat
           /\ (a \div b) * b <= a
           /\ a < (a \div b) * b + b
  OBVIOUS

LEMMA ProductKeepsOrder ==
    ASSUME NEW a \in Nat, NEW b \in Nat, NEW c \in Nat, a <= b
    PROVE  a * c <= b * c /\ c * a <= c * b
  OBVIOUS

LEMMA OrderOfFactors ==
    ASSUME NEW a \in Nat, NEW b \in Nat, NEW c \in Nat, c > 0, a * c < b * c
    PROVE  a < b
<1>. SUFFICES ASSUME b <= a PROVE FALSE
  OBVIOUS
<1>1. b * c <= a * c
  BY ProductKeepsOrder
<1>2. a * c \in Nat /\ b * c \in Nat
  OBVIOUS
<1>. QED
  BY <1>1, <1>2

LEMMA QuotientAtLeast ==
    ASSUME NEW a \in Nat, NEW b \in Nat, b > 0, NEW k \in Nat, k * b <= a
    PROVE  k <= a \div b
<1>. DEFINE q == a \div b
<1>1. q \in Nat /\ a < q * b + b
  BY QuotientIs
<1>. HIDE DEF q
<1>2. k * b < (q + 1) * b
  <2>1. (q + 1) * b = q * b + b /\ q * b \in Nat /\ k * b \in Nat
    BY <1>1
  <2>. QED
    BY <1>1, <2>1
<1>3. k < q + 1
  BY <1>1, <1>2, OrderOfFactors
<1>. QED
  BY <1>1, <1>3 DEF q

LEMMA QuotientBelow ==
    ASSUME NEW a \in Nat, NEW b \in Nat, b > 0, NEW k \in Nat, a < k * b
    PROVE  a \div b < k
<1>. DEFINE q == a \div b
<1>1. q \in Nat /\ q * b <= a
  BY QuotientIs
<1>. HIDE DEF q
<1>2. q * b < k * b
  <2>1. q * b \in Nat /\ k * b \in Nat
    BY <1>1
  <2>. QED
    BY <1>1, <2>1
<1>. QED
  BY <1>1, <1>2, OrderOfFactors DEF q

LEMMA QuotientExact ==
    ASSUME NEW k \in Nat, NEW b \in Nat, b > 0
    PROVE  (k * b) \div b = k
<1>1. k * b \in Nat
  OBVIOUS
<1>2. k <= (k * b) \div b
  BY <1>1, QuotientAtLeast
<1>3. (k * b) \div b < k + 1
  <2>1. k * b < (k + 1) * b
    <3>1. (k + 1) * b = k * b + b
      OBVIOUS
    <3>. QED
      BY <1>1, <3>1
  <2>. QED
    BY <1>1, <2>1, QuotientBelow
<1>4. (k * b) \div b \in Nat
  BY <1>1, QuotientIs
<1>. QED
  BY <1>2, <1>3, <1>4

-----------------------------------------------------------------------------
(* Powers of the base.                                                     *)
TimesBase(x, n) == Base * x

Powers == INSTANCE Folding WITH Op <- TimesBase

LEMMA PowerIs ==
    \A n \in Nat : Power[n] = IF n = 0 THEN 1 ELSE Base * Power[n - 1]
<1>. DEFINE Is(f) == f = [bytes \in Nat |-> IF bytes = 0 THEN 1 ELSE Base * f[bytes - 1]]
            one == [n \in Nat |-> 1]
            down == [n \in Nat |-> n - 1]
<1>1. PICK f : Powers!Recurs(f, {0}, one, down, Nat)
  <2>1. \A m \in Nat : m \notin {0} => down[m] \in Nat /\ down[m] < m
    OBVIOUS
  <2>. HIDE DEF one, down
  <2>. QED
    BY <2>1, Powers!RecursionExists
<1>2. Is(f)
  BY <1>1 DEF Powers!Recurs, TimesBase
<1>3. Is(Power)
  <2>1. Power = CHOOSE g : Is(g)
    BY DEF Power
  <2>. HIDE DEF Is
  <2>. QED
    BY <1>2, <2>1
<1>. QED
  BY <1>3

LEMMA PowerType == \A n \in Nat : Power[n] \in Nat /\ Power[n] > 0
<1>. DEFINE T == {n \in Nat : Power[n] \in Nat /\ Power[n] > 0}
<1>1. 0 \in T
  BY PowerIs
<1>2. ASSUME NEW n \in Nat, n \in T
      PROVE  n + 1 \in T
  <2>1. Power[n + 1] = Base * Power[n]
    BY PowerIs
  <2>2. Power[n] \in Nat /\ Power[n] > 0
    BY <1>2
  <2>. DEFINE p == Power[n]
  <2>3. Base * p \in Nat /\ Base * p > 0
    <3>. HIDE DEF p
    <3>. QED
      BY <2>2, RetargetAssumption DEF p
  <2>. QED
    BY <2>1, <2>3
<1>3. \A n \in Nat : n \in T
  <2>. HIDE DEF T
  <2>. QED
    BY <1>1, <1>2, Powers!NatSetInduction
<1>. QED
  BY <1>3

LEMMA PowerSum == \A a \in Nat : \A b \in Nat : Power[a + b] = Power[a] * Power[b]
<1>. SUFFICES ASSUME NEW a \in Nat PROVE \A b \in Nat : Power[a + b] = Power[a] * Power[b]
  OBVIOUS
<1>. DEFINE T == {b \in Nat : Power[a + b] = Power[a] * Power[b]}
<1>1. 0 \in T
  BY PowerIs, PowerType
<1>2. ASSUME NEW b \in Nat, b \in T
      PROVE  b + 1 \in T
  <2>1. Power[b + 1] = Base * Power[b] /\ Power[a + (b + 1)] = Base * Power[a + b]
    BY PowerIs
  <2>. DEFINE p == Power[a]
              q == Power[b]
  <2>2. p \in Nat /\ q \in Nat
    BY PowerType
  <2>3. Power[a + b] = p * q
    BY <1>2
  <2>4. Base * (p * q) = p * (Base * q)
    <3>. HIDE DEF p, q
    <3>. QED
      BY <2>2, RetargetAssumption
  <2>. QED
    BY <2>1, <2>3, <2>4
<1>3. \A b \in Nat : b \in T
  <2>. HIDE DEF T
  <2>. QED
    BY <1>1, <1>2, Powers!NatSetInduction
<1>. QED
  BY <1>3

LEMMA PowerGrows ==
    ASSUME NEW a \in Nat, NEW b \in Nat, a <= b
    PROVE  Power[a] <= Power[b]
<1>. DEFINE p == Power[a]
            q == Power[b - a]
<1>1. b - a \in Nat /\ a + (b - a) = b
  OBVIOUS
<1>2. Power[b] = p * q
  BY <1>1, PowerSum
<1>3. p \in Nat /\ q \in Nat /\ q > 0
  BY <1>1, PowerType
<1>. HIDE DEF p, q
<1>4. p * 1 <= p * q
  BY <1>3, ProductKeepsOrder
<1>. QED
  BY <1>2, <1>3, <1>4 DEF p

(* The top bit of a byte is half of its values.                            *)
LEMMA HalfPowers ==
    /\ Power[2] \in Nat /\ Power[3] \in Nat
    /\ Power[2] % 2 = 0
    /\ Power[3] = 2 * (Power[3] \div 2)
    /\ Power[3] \div 2 \in Nat
    /\ Power[3] \div 2 > 0
<1>1. Power[1] = Base /\ Power[2] = Base * Base /\ Power[3] = Base * (Base * Base)
  <2>1. Power[0] = 1
    BY PowerIs
  <2>2. Power[1] = Base * Power[0]
    BY PowerIs
  <2>3. Power[2] = Base * Power[1]
    BY PowerIs
  <2>4. Power[3] = Base * Power[2]
    BY PowerIs
  <2>. QED
    BY <2>1, <2>2, <2>3, <2>4, RetargetAssumption
<1>2. PICK h \in Nat : Base = 2 * h /\ h > 0
  <2>1. Base = 2 * (Base \div 2) /\ Base \div 2 \in Nat /\ Base \div 2 > 0
    BY RetargetAssumption
  <2>. QED
    BY <2>1
<1>. DEFINE b == h * Base
            c == h * (Base * Base)
<1>3. b \in Nat /\ c \in Nat /\ c > 0
  BY <1>2, RetargetAssumption
<1>4. Power[2] = 2 * b /\ Power[3] = 2 * c
  BY <1>1, <1>2, RetargetAssumption
<1>. HIDE DEF b, c
<1>5. (2 * b) % 2 = 0 /\ (2 * c) \div 2 = c
  BY <1>3
<1>. QED
  BY <1>3, <1>4, <1>5

-----------------------------------------------------------------------------
(* Compact targets.                                                        *)

(* The fewest bytes that leave the top bit free.                           *)
Fits(s, n) ==
    /\ 2 * n < Power[s]
    /\ \A t \in 0 .. s - 1 : 2 * n >= Power[t]

LEMMA FewestBytes ==
    ASSUME NEW n \in Nat, NEW g \in Nat, 2 * n < Power[g]
    PROVE  \E s \in 0 .. g : Fits(s, n)
<1>. DEFINE T == {k \in Nat : (\E t \in 0 .. k : 2 * n < Power[t]) => \E s \in 0 .. k : Fits(s, n)}
<1>1. 0 \in T
  BY DEF Fits
<1>2. ASSUME NEW k \in Nat, k \in T
      PROVE  k + 1 \in T
  <2>. SUFFICES ASSUME NEW t \in 0 .. k + 1, 2 * n < Power[t]
                PROVE  \E s \in 0 .. k + 1 : Fits(s, n)
    OBVIOUS
  <2>1. CASE \E u \in 0 .. k : 2 * n < Power[u]
    <3>1. PICK s \in 0 .. k : Fits(s, n)
      BY <1>2, <2>1
    <3>. QED
      BY <3>1
  <2>2. CASE \A u \in 0 .. k : ~ (2 * n < Power[u])
    <3>1. t = k + 1
      BY <2>2
    <3>2. ASSUME NEW u \in 0 .. (k + 1) - 1
          PROVE  2 * n >= Power[u]
      <4>1. u \in 0 .. k /\ Power[u] \in Nat
        BY PowerType
      <4>. QED
        BY <2>2, <4>1
    <3>3. Fits(k + 1, n)
      BY <3>1, <3>2 DEF Fits
    <3>. QED
      BY <3>3
  <2>. QED
    BY <2>1, <2>2
<1>3. \A k \in Nat : k \in T
  <2>. HIDE DEF T
  <2>. QED
    BY <1>1, <1>2, Powers!NatSetInduction
<1>. QED
  BY <1>3

(* A compact target of three bytes or more is worth its bytes times the    *)
(* values of the rest, a shorter one what is left of its three bytes.      *)
Value(size, mantissa) ==
    IF size >= 3 THEN mantissa * Power[size - 3] ELSE mantissa \div Power[3 - size]

LEMMA UnsignedIs ==
    ASSUME NEW m \in Nat
    PROVE  m \in Unsigned <=> 2 * m < Power[3]
<1>. DEFINE h == Power[3] \div 2
<1>1. h \in Nat /\ Power[3] = 2 * h
  BY HalfPowers
<1>2. Unsigned = 0 .. h - 1
  BY DEF Unsigned
<1>. HIDE DEF h
<1>. QED
  BY <1>1, <1>2

(* A compact target without a sign is worth less than half of the numbers  *)
(* of its size.                                                            *)
LEMMA ValueFits ==
    ASSUME NEW size \in Nat, size >= 3, NEW m \in Unsigned
    PROVE  /\ m * Power[size - 3] \in Nat
           /\ 2 * (m * Power[size - 3]) < Power[size]
<1>. DEFINE p == Power[size - 3]
            c == Power[3]
<1>1. p \in Nat /\ p > 0 /\ c \in Nat /\ m \in Nat
  BY PowerType, HalfPowers DEF Unsigned
<1>2. Power[size] = c * p
  <2>1. 3 \in Nat /\ size - 3 \in Nat /\ 3 + (size - 3) = size
    OBVIOUS
  <2>. QED
    BY <2>1, PowerSum
<1>3. 2 * m < c
  BY <1>1, UnsignedIs
<1>. HIDE DEF p, c
<1>4. m * p \in Nat
  BY <1>1
<1>5. (2 * m) * p < c * p
  <2>1. 2 * m + 1 <= c
    BY <1>1, <1>3
  <2>2. (2 * m + 1) * p <= c * p
    BY <1>1, <2>1, ProductKeepsOrder
  <2>3. (2 * m + 1) * p = (2 * m) * p + p /\ (2 * m) * p \in Nat /\ c * p \in Nat
    BY <1>1
  <2>. QED
    BY <1>1, <2>2, <2>3
<1>6. (2 * m) * p = 2 * (m * p)
  BY <1>1
<1>. QED
  BY <1>2, <1>4, <1>5, <1>6 DEF p

(* Rounding to a compact target gives the greatest one that is not above.  *)
LEMMA RoundsDown ==
    ASSUME NEW n \in Nat, NEW s \in Nat, Fits(s, n), n > 0,
           NEW mantissa, mantissa = IF s >= 3 THEN n \div Power[s - 3] ELSE n * Power[3 - s]
    PROVE  /\ mantissa \in Unsigned
           /\ Value(s, mantissa) \in Nat
           /\ Value(s, mantissa) <= n
           /\ \A size \in Nat : \A k \in Unsigned :
                 (size >= 3 /\ k * Power[size - 3] <= n)
                    => k * Power[size - 3] <= Value(s, mantissa)
<1>1. CASE s >= 3
  <2>. DEFINE p == Power[s - 3]
              c == Power[3]
              d == Power[2]
              m == n \div p
  <2>1. p \in Nat /\ p > 0 /\ c \in Nat /\ d \in Nat /\ d % 2 = 0
    BY <1>1, PowerType, HalfPowers
  <2>2. m \in Nat /\ m * p <= n /\ n < m * p + p
    <3>. HIDE DEF p
    <3>. QED
      BY <2>1, QuotientIs
  <2>3. Power[s] = c * p
    <3>1. 3 \in Nat /\ s - 3 \in Nat /\ 3 + (s - 3) = s
      BY <1>1
    <3>. QED
      BY <3>1, PowerSum
  <2>4. Power[s - 1] = d * p
    <3>1. 2 \in Nat /\ s - 3 \in Nat /\ 2 + (s - 3) = s - 1
      BY <1>1
    <3>. QED
      BY <3>1, PowerSum
  <2>5. 2 * n < c * p /\ 2 * n >= d * p
    <3>1. s - 1 \in 0 .. s - 1
      BY <1>1
    <3>. QED
      BY <2>3, <2>4, <3>1 DEF Fits
  <2>6. mantissa = m /\ Value(s, mantissa) = m * p
    BY <1>1 DEF Value
  <2>. HIDE DEF p, c, d, m
  <2>7. m * p \in Nat /\ c * p \in Nat /\ d * p \in Nat
    BY <2>1, <2>2
  <2>8. 2 * m < c
    <3>1. (2 * m) * p = 2 * (m * p)
      BY <2>1, <2>2
    <3>2. (2 * m) * p < c * p
      BY <2>2, <2>5, <2>7, <3>1
    <3>. QED
      BY <2>1, <2>2, <3>2, OrderOfFactors
  <2>9. m \in Unsigned
    BY <2>2, <2>8, UnsignedIs DEF c
  <2>10. 2 * m >= d
    <3>1. PICK e \in Nat : d = 2 * e
      <4>1. d = 2 * (d \div 2) /\ d \div 2 \in Nat
        BY <2>1
      <4>. QED
        BY <4>1
    <3>2. d * p = 2 * (e * p) /\ e * p \in Nat
      BY <2>1, <3>1
    <3>3. e * p <= n
      BY <2>5, <3>2
    <3>4. e * p < m * p + p
      BY <2>2, <3>2, <3>3, <2>7, <2>1
    <3>5. m * p + p = (m + 1) * p
      BY <2>1, <2>2
    <3>6. e < m + 1
      BY <2>1, <2>2, <3>4, <3>5, OrderOfFactors
    <3>. QED
      BY <2>2, <3>1, <3>6
  <2>11. ASSUME NEW size \in Nat, NEW k \in Unsigned, size >= 3, k * Power[size - 3] <= n
         PROVE  k * Power[size - 3] <= m * p
    <3>1. k \in Nat
      BY HalfPowers DEF Unsigned
    <3>2. CASE size >= s
      <4>. DEFINE q == Power[size - s]
      <4>1. q \in Nat /\ q > 0
        BY <3>2, PowerType
      <4>2. Power[size - 3] = q * p
        <5>1. size - s \in Nat /\ s - 3 \in Nat /\ (size - s) + (s - 3) = size - 3
          BY <1>1, <3>2
        <5>. QED
          BY <5>1, PowerSum DEF p
      <4>. HIDE DEF q
      <4>3. k * (q * p) = (k * q) * p /\ k * q \in Nat
        BY <2>1, <3>1, <4>1
      <4>4. k * q <= m
        BY <2>1, <2>11, <4>2, <4>3, QuotientAtLeast DEF m
      <4>5. (k * q) * p <= m * p
        BY <2>1, <2>2, <4>3, <4>4, ProductKeepsOrder
      <4>. QED
        BY <4>2, <4>3, <4>5
    <3>3. CASE size < s
      <4>. DEFINE v == k * Power[size - 3]
      <4>1. v \in Nat /\ 2 * v < Power[size]
        BY <2>11, ValueFits
      <4>2. Power[size] <= Power[s - 1]
        <5>1. s - 1 \in Nat /\ size <= s - 1
          BY <3>3
        <5>. QED
          BY <5>1, PowerGrows
      <4>3. Power[size] \in Nat
        BY PowerType
      <4>. HIDE DEF v
      <4>4. 2 * v < d * p
        BY <2>4, <2>7, <4>1, <4>2, <4>3 DEF p, d
      <4>5. d * p <= (2 * m) * p
        <5>1. 2 * m \in Nat
          BY <2>2
        <5>. QED
          BY <2>1, <2>10, <5>1, ProductKeepsOrder
      <4>6. (2 * m) * p = 2 * (m * p)
        BY <2>1, <2>2
      <4>7. v <= m * p
        BY <2>7, <4>1, <4>4, <4>5, <4>6
      <4>. QED
        BY <4>7 DEF v
    <3>. QED
      BY <3>2, <3>3
  <2>. QED
    BY <2>2, <2>6, <2>7, <2>9, <2>11
<1>2. CASE s < 3
  <2>. DEFINE p == Power[3 - s]
              a == Power[s]
  <2>1. p \in Nat /\ p > 0 /\ a \in Nat /\ 2 * n < a
    BY <1>2, PowerType DEF Fits
  <2>2. Power[3] = a * p
    <3>1. 3 - s \in Nat /\ s + (3 - s) = 3
      BY <1>2
    <3>. QED
      BY <3>1, PowerSum
  <2>3. mantissa = n * p /\ Value(s, mantissa) = (n * p) \div p
    BY <1>2 DEF Value
  <2>. HIDE DEF p, a
  <2>4. (n * p) \div p = n
    BY <2>1, QuotientExact
  <2>5. n * p \in Nat /\ 2 * (n * p) < a * p
    <3>1. 2 * n + 1 <= a
      BY <2>1
    <3>2. (2 * n + 1) * p <= a * p
      BY <2>1, <3>1, ProductKeepsOrder
    <3>3. (2 * n + 1) * p = 2 * (n * p) + p /\ n * p \in Nat /\ a * p \in Nat
      BY <2>1
    <3>. QED
      BY <2>1, <3>2, <3>3
  <2>6. n * p \in Unsigned
    BY <2>2, <2>5, UnsignedIs
  <2>. QED
    BY <2>3, <2>4, <2>6
<1>. QED
  BY <1>1, <1>2

-----------------------------------------------------------------------------
(* The rule.                                                               *)

(* The time a period took, taken between a quarter and four times of what  *)
(* it should.                                                              *)
Clamped(period) ==
    Larger(DesiredPeriod \div RetargetBound, Smaller(DesiredPeriod * RetargetBound, period))

Rule(current, ceiling, period) ==
    Smaller((current * Clamped(period)) \div DesiredPeriod, ceiling)

(* What get_maximal_target makes of the current target.                    *)
Scaled(current, period) ==
    CASE period > DesiredPeriod * RetargetBound -> current * RetargetBound
      [] period <= DesiredPeriod * RetargetBound
           /\ (period * RetargetBound) % Uint32 < DesiredPeriod ->
              current \div RetargetBound
      [] OTHER -> (current * period) \div DesiredPeriod

LEMMA PeriodIs ==
    /\ DesiredPeriod \in Nat /\ DesiredPeriod > 0
    /\ RetargetBound \in Nat /\ RetargetBound > 0
    /\ DesiredPeriod \div RetargetBound \in Nat
    /\ DesiredPeriod = (DesiredPeriod \div RetargetBound) * RetargetBound
    /\ DesiredPeriod * RetargetBound \in Nat
    /\ DesiredPeriod \div RetargetBound <= DesiredPeriod
    /\ DesiredPeriod <= DesiredPeriod * RetargetBound
<1>. DEFINE d == DesiredPeriod \div RetargetBound
<1>1. DesiredPeriod \in Nat /\ DesiredPeriod > 0 /\ RetargetBound \in Nat /\ RetargetBound > 0
  BY RetargetAssumption
<1>2. d \in Nat /\ DesiredPeriod = d * RetargetBound
  <2>1. DesiredPeriod % RetargetBound = 0
    BY RetargetAssumption
  <2>. QED
    BY <1>1, <2>1
<1>3. DesiredPeriod * RetargetBound \in Nat
  BY <1>1
<1>. HIDE DEF d
<1>4. d * 1 <= d * RetargetBound
  BY <1>1, <1>2, ProductKeepsOrder
<1>5. DesiredPeriod * 1 <= DesiredPeriod * RetargetBound
  BY <1>1, ProductKeepsOrder
<1>. QED
  BY <1>1, <1>2, <1>3, <1>4, <1>5 DEF d

(* Nothing is cut off where the code compares the product with the period. *)
LEMMA NoWrap ==
    ASSUME NEW period \in Nat, period <= DesiredPeriod * RetargetBound
    PROVE  (period * RetargetBound) % Uint32 = period * RetargetBound
<1>. DEFINE m == DesiredPeriod * RetargetBound
            r == period * RetargetBound
<1>1. m \in Nat /\ RetargetBound \in Nat /\ Uint32 \in Nat /\ m * RetargetBound < Uint32
  BY PeriodIs, RetargetAssumption
<1>. HIDE DEF m
<1>2. r \in Nat /\ r <= m * RetargetBound
  BY <1>1, ProductKeepsOrder DEF m
<1>3. m * RetargetBound \in Nat
  BY <1>1
<1>. HIDE DEF r
<1>4. r < Uint32
  BY <1>1, <1>2, <1>3
<1>5. r % Uint32 = r
  BY <1>1, <1>2, <1>4
<1>. QED
  BY <1>5 DEF r

(* Where the product is not above the ceiling, the three cases of the code *)
(* are the rule.                                                           *)
LEMMA ScaledIsRule ==
    ASSUME NEW current \in Nat, NEW ceiling \in Nat, NEW period \in Nat, current <= ceiling,
           current * period <= ceiling * DesiredPeriod
    PROVE  /\ Scaled(current, period) \in Nat
           /\ Scaled(current, period) <= ceiling
           /\ Scaled(current, period) = Rule(current, ceiling, period)
<1>. DEFINE d == DesiredPeriod \div RetargetBound
            m == DesiredPeriod * RetargetBound
            D == DesiredPeriod
            B == RetargetBound
<1>1. /\ D \in Nat /\ D > 0 /\ B \in Nat /\ B > 0 /\ d \in Nat /\ m \in Nat
      /\ D = d * B /\ d <= m /\ m = D * B
  BY PeriodIs
<1>2. Clamped(period) = IF m < period THEN m ELSE IF d > period THEN d ELSE period
  BY <1>1 DEF Clamped, Larger, Smaller
<1>3. /\ period > m => Scaled(current, period) = current * B
      /\ (period <= m /\ period * B < D) => Scaled(current, period) = current \div B
      /\ (period <= m /\ ~ (period * B < D)) => Scaled(current, period) = (current * period) \div D
  <2>1. period <= m => (period * B) % Uint32 = period * B
    BY NoWrap
  <2>2. period > m <=> ~ (period <= m)
    BY <1>1
  <2>. QED
    BY <2>1, <2>2 DEF Scaled
<1>4. Rule(current, ceiling, period) = Smaller((current * Clamped(period)) \div D, ceiling)
  BY DEF Rule
<1>. HIDE DEF d, m, D, B
<1>5. current * period <= ceiling * D
  BY DEF D
<1>6. CASE period > m
  <2>1. Clamped(period) = m
    BY <1>1, <1>2, <1>6
  <2>2. (current * m) \div D = current * B
    <3>1. current * m = (current * B) * D /\ current * B \in Nat
      BY <1>1
    <3>. QED
      BY <1>1, <3>1, QuotientExact
  <2>3. current * B \in Nat
    BY <1>1
  <2>4. current * B <= ceiling
    <3>1. current * m <= current * period
      BY <1>1, <1>6, ProductKeepsOrder
    <3>2. (current * B) * D <= ceiling * D
      <4>1. current * m = (current * B) * D
        BY <1>1
      <4>2. current * m \in Nat /\ current * period \in Nat /\ ceiling * D \in Nat
        BY <1>1
      <4>. QED
        BY <1>5, <3>1, <4>1, <4>2
    <3>3. (ceiling * D) \div D = ceiling /\ ceiling * D \in Nat
      BY <1>1, QuotientExact
    <3>. QED
      BY <1>1, <2>3, <3>2, <3>3, QuotientAtLeast
  <2>. QED
    BY <1>3, <1>4, <1>6, <2>1, <2>2, <2>3, <2>4 DEF Smaller
<1>7. CASE period <= m /\ period * B < D
  <2>1. period < d
    <3>1. period * B < d * B
      BY <1>1, <1>7
    <3>. QED
      BY <1>1, <3>1, OrderOfFactors
  <2>2. Clamped(period) = d
    BY <1>1, <1>2, <1>7, <2>1
  <2>3. d > 0
    BY <1>1, <2>1
  <2>4. (current * d) \div D = current \div B
    <3>. DEFINE q == current \div B
    <3>1. q \in Nat /\ q * B <= current /\ current < q * B + B
      BY <1>1, QuotientIs
    <3>. HIDE DEF q
    <3>2. current * d \in Nat /\ q * D <= current * d
      <4>1. q * D = (q * B) * d /\ q * B \in Nat /\ current * d \in Nat
        BY <1>1, <3>1
      <4>. QED
        BY <1>1, <3>1, <4>1, ProductKeepsOrder
    <3>3. current * d < (q + 1) * D
      <4>1. current + 1 <= q * B + B
        BY <1>1, <3>1
      <4>2. (current + 1) * d <= (q * B + B) * d
        BY <1>1, <3>1, <4>1, ProductKeepsOrder
      <4>3. (current + 1) * d = current * d + d
        BY <1>1
      <4>4. (q * B + B) * d = (q + 1) * D
        <5>1. q * B + B = (q + 1) * B
          BY <1>1, <3>1
        <5>2. ((q + 1) * B) * d = (q + 1) * (d * B)
          BY <1>1, <3>1
        <5>. QED
          BY <1>1, <5>1, <5>2
      <4>5. (q + 1) * D \in Nat
        BY <1>1, <3>1
      <4>. QED
        BY <1>1, <2>3, <3>2, <4>2, <4>3, <4>4, <4>5
    <3>. DEFINE r == (current * d) \div D
    <3>4. r \in Nat /\ q <= r
      BY <1>1, <3>1, <3>2, QuotientAtLeast, QuotientIs
    <3>5. r < q + 1
      BY <1>1, <3>1, <3>2, <3>3, QuotientBelow
    <3>. HIDE DEF r
    <3>6. r = q
      BY <3>1, <3>4, <3>5
    <3>. QED
      BY <3>6 DEF q, r
  <2>5. current \div B \in Nat /\ current \div B <= ceiling
    <3>. DEFINE q == current \div B
    <3>1. q \in Nat /\ q * B <= current
      BY <1>1, QuotientIs
    <3>. HIDE DEF q
    <3>2. q * 1 <= q * B /\ q * B \in Nat
      BY <1>1, <3>1, ProductKeepsOrder
    <3>3. q <= ceiling
      BY <3>1, <3>2
    <3>. QED
      BY <3>1, <3>3 DEF q
  <2>. QED
    BY <1>3, <1>4, <1>7, <2>2, <2>4, <2>5 DEF Smaller
<1>8. CASE period <= m /\ ~ (period * B < D)
  <2>1. d <= period
    <3>. SUFFICES ASSUME period < d PROVE FALSE
      BY <1>1
    <3>1. period + 1 <= d
      BY <1>1
    <3>2. (period + 1) * B <= d * B
      BY <1>1, <3>1, ProductKeepsOrder
    <3>3. (period + 1) * B = period * B + B /\ period * B \in Nat
      BY <1>1
    <3>. QED
      BY <1>1, <1>8, <3>2, <3>3
  <2>2. Clamped(period) = period
    BY <1>1, <1>2, <1>8, <2>1
  <2>3. current * period \in Nat /\ ceiling * D \in Nat
    BY <1>1
  <2>. DEFINE r == (current * period) \div D
  <2>4. r \in Nat /\ r * D <= current * period
    BY <1>1, <2>3, QuotientIs
  <2>. HIDE DEF r
  <2>5. r * D <= ceiling * D /\ r * D \in Nat
    BY <1>1, <1>5, <2>3, <2>4
  <2>6. r <= ceiling
    <3>1. (ceiling * D) \div D = ceiling
      BY <1>1, QuotientExact
    <3>. QED
      BY <1>1, <2>3, <2>4, <2>5, <3>1, QuotientAtLeast
  <2>. QED
    BY <1>3, <1>4, <1>8, <2>2, <2>4, <2>6 DEF Smaller, r
<1>. QED
  BY <1>1, <1>6, <1>7, <1>8

(* Where it is, the rule gives the ceiling, unless the period took longer  *)
(* than it is counted for.                                                 *)
LEMMA AboveIsCeiling ==
    ASSUME NEW current \in Nat, NEW ceiling \in Nat, NEW period \in Nat,
           current * period > ceiling * DesiredPeriod,
           period <= DesiredPeriod * RetargetBound
    PROVE  Rule(current, ceiling, period) = ceiling
<1>. DEFINE D == DesiredPeriod
            c == Clamped(period)
            r == (current * c) \div D
<1>1. D \in Nat /\ D > 0
  BY PeriodIs
<1>2. c \in Nat /\ period <= c
  BY PeriodIs DEF Clamped, Larger, Smaller
<1>3. Rule(current, ceiling, period) = Smaller(r, ceiling)
  BY DEF Rule
<1>4. current * period > ceiling * D
  OBVIOUS
<1>. HIDE DEF c, D
<1>5. current * c \in Nat /\ current * period <= current * c
  BY <1>2, ProductKeepsOrder
<1>6. ceiling * D <= current * c
  <2>1. ceiling * D \in Nat /\ current * period \in Nat
    BY <1>1
  <2>. QED
    BY <1>4, <1>5, <2>1
<1>7. r \in Nat /\ ceiling <= r
  BY <1>1, <1>5, <1>6, QuotientAtLeast, QuotientIs
<1>. QED
  BY <1>3, <1>7 DEF Smaller

-----------------------------------------------------------------------------
(* The inductive invariant: what get_maximal_target has returned is what   *)
(* it returns for these timestamps.                                        *)
RInv ==
    /\ target \in Targets
    /\ startTime \in Times
    /\ endTime \in Times
    /\ maximalTarget = {} \/ maximalTarget = {NextTarget(ActualPeriod)}

LEMMA FloatIsValue ==
    ASSUME NEW compact
    PROVE  TargetValue(compact) = Value(compact.size, compact.mantissa)
  BY DEF TargetValue, Value

LEMMA LegalIs ==
    ASSUME NEW compact, LegalTarget(compact)
    PROVE  /\ compact.size \in Nat
           /\ compact.mantissa \in Unsigned
           /\ compact.mantissa \in Nat
           /\ TargetValue(compact) \in Nat
           /\ TargetValue(compact) <= TargetValue(GenesisTarget)
<1>1. compact.size \in Nat /\ compact.mantissa \in Nat /\ compact.mantissa \in Unsigned
  BY HalfPowers DEF LegalTarget, Sizes, Unsigned
<1>2. TargetValue(compact) \in Nat
  <2>1. CASE compact.size >= 3
    <3>. DEFINE p == Power[compact.size - 3]
    <3>1. p \in Nat
      BY <1>1, <2>1, PowerType
    <3>2. TargetValue(compact) = compact.mantissa * p
      BY <2>1 DEF TargetValue
    <3>. HIDE DEF p
    <3>. QED
      BY <1>1, <3>1, <3>2
  <2>2. CASE ~ (compact.size >= 3)
    <3>. DEFINE p == Power[3 - compact.size]
    <3>1. p \in Nat /\ p > 0
      BY <1>1, <2>2, PowerType
    <3>2. TargetValue(compact) = compact.mantissa \div p
      BY <2>2 DEF TargetValue
    <3>. HIDE DEF p
    <3>. QED
      BY <1>1, <3>1, <3>2, QuotientIs
  <2>. QED
    BY <2>1, <2>2
<1>. QED
  BY <1>1, <1>2 DEF LegalTarget

(* Rounding what is not above the ceiling.                                 *)
LEMMA CompactIs ==
    ASSUME NEW n \in Nat, n <= TargetValue(GenesisTarget),
           NEW next, next = TargetBignumToCompact(n)
    PROVE  /\ LegalTarget(next)
           /\ TargetValue(next) <= n
           /\ \A size \in 3 .. GenesisTarget.size, mantissa \in Unsigned :
                 LET other == TargetValue([size |-> size, mantissa |-> mantissa])
                 IN  other <= n => other <= TargetValue(next)
<1>. DEFINE g == GenesisTarget.size
            ceiling == TargetValue(GenesisTarget)
<1>1. g \in Sizes /\ g \in Nat /\ g >= 3 /\ GenesisTarget.mantissa \in Unsigned
  BY RetargetAssumption DEF LegalTarget, Sizes
<1>2. ceiling \in Nat /\ 2 * ceiling < Power[g]
  <2>1. ceiling = GenesisTarget.mantissa * Power[g - 3]
    BY <1>1 DEF TargetValue
  <2>. QED
    BY <1>1, <2>1, ValueFits
<1>3. 2 * n < Power[g]
  <2>1. Power[g] \in Nat
    BY <1>1, PowerType
  <2>. QED
    BY <1>2, <2>1
<1>4. ASSUME NEW other \in 3 .. g, NEW mantissa \in Unsigned
      PROVE  /\ TargetValue([size |-> other, mantissa |-> mantissa])
                  = mantissa * Power[other - 3]
             /\ other \in Nat /\ other >= 3
             /\ mantissa * Power[other - 3] \in Nat
  <2>1. other \in Nat /\ other >= 3
    BY <1>1
  <2>2. mantissa * Power[other - 3] \in Nat
    BY <2>1, ValueFits
  <2>. QED
    BY <2>1, <2>2 DEF TargetValue
<1>5. CASE n = 0
  <2>1. next = [size |-> 0, mantissa |-> 0 * Power[3]]
    BY <1>5 DEF TargetBignumToCompact
  <2>2. 0 * Power[3] = 0 /\ Power[3] \in Nat /\ Power[3] > 0
    BY PowerType
  <2>3. next.size = 0 /\ next.mantissa = 0
    BY <2>1, <2>2
  <2>4. 0 \div Power[3] = 0
    BY <2>2
  <2>5. TargetValue(next) = 0
    BY <2>3, <2>4 DEF TargetValue
  <2>6. 0 \in Unsigned
    BY HalfPowers DEF Unsigned
  <2>7. LegalTarget(next)
    BY <1>2, <2>3, <2>5, <2>6 DEF LegalTarget, Sizes
  <2>. QED
    BY <1>4, <1>5, <2>5, <2>7
<1>6. CASE n > 0
  <2>. DEFINE s == CHOOSE s \in Sizes : Fits(s, n)
              m == IF s >= 3 THEN n \div Power[s - 3] ELSE n * Power[3 - s]
              size == IF n = 0 THEN 0
                      ELSE CHOOSE t \in Sizes : /\ 2 * n < Power[t]
                                                /\ \A u \in 0 .. t - 1 : 2 * n >= Power[u]
  <2>1. next = [size |-> s, mantissa |-> m]
    <3>1. next = [size |-> size,
                  mantissa |-> IF size >= 3 THEN n \div Power[size - 3] ELSE n * Power[3 - size]]
      BY Zenon DEF TargetBignumToCompact
    <3>2. size = s
      BY <1>6 DEF Fits
    <3>. HIDE DEF size, s
    <3>. QED
      BY <3>1, <3>2
  <2>2. s \in Sizes /\ Fits(s, n)
    <3>1. \E t \in Sizes : Fits(t, n)
      <4>1. \A t \in 0 .. g : t \in Sizes
        BY <1>1 DEF Sizes
      <4>. QED
        BY <1>1, <1>3, <4>1, FewestBytes
    <3>. QED
      BY <3>1
  <2>3. m = IF s >= 3 THEN n \div Power[s - 3] ELSE n * Power[3 - s]
    OBVIOUS
  <2>. HIDE DEF s, m
  <2>4. s \in Nat
    BY <2>2 DEF Sizes
  <2>5. /\ m \in Unsigned
        /\ Value(s, m) \in Nat
        /\ Value(s, m) <= n
        /\ \A other \in Nat : \A k \in Unsigned :
              (other >= 3 /\ k * Power[other - 3] <= n)
                 => k * Power[other - 3] <= Value(s, m)
    BY <1>6, <2>2, <2>3, <2>4, RoundsDown
  <2>6. TargetValue(next) = Value(s, m)
    BY <2>1, FloatIsValue
  <2>7. LegalTarget(next)
    <3>1. Value(s, m) <= ceiling
      BY <1>2, <2>5
    <3>. QED
      BY <2>1, <2>2, <2>5, <2>6, <3>1 DEF LegalTarget
  <2>8. ASSUME NEW other \in 3 .. g, NEW mantissa \in Unsigned,
               TargetValue([size |-> other, mantissa |-> mantissa]) <= n
        PROVE  TargetValue([size |-> other, mantissa |-> mantissa]) <= TargetValue(next)
    BY <1>4, <2>5, <2>6, <2>8
  <2>. QED
    BY <2>5, <2>6, <2>7, <2>8
<1>. QED
  BY <1>5, <1>6

(* What get_maximal_target returns is legal and follows the rule.          *)
LEMMA NextTargetIs ==
    ASSUME RInv, NEW next \in maximalTarget
    PROVE  LegalTarget(next) /\ TargetIsScaled
<1>. DEFINE current == TargetValue(target)
            ceiling == TargetValue(GenesisTarget)
            period  == ActualPeriod
            elapsed == IF endTime < startTime THEN endTime - startTime + Uint32
                       ELSE endTime - startTime
            rule    == Rule(current, ceiling, period)
<1>1. maximalTarget = {next} /\ next = NextTarget(period)
  BY DEF RInv
<1>2. LegalTarget(target) /\ LegalTarget(GenesisTarget)
  BY RetargetAssumption DEF RInv
<1>3. current \in Nat /\ ceiling \in Nat /\ current <= ceiling /\ target.mantissa \in Unsigned
  BY <1>2, LegalIs
<1>4. period = elapsed /\ period \in Nat
  <2>1. startTime \in 0 .. Uint32 - 1 /\ endTime \in 0 .. Uint32 - 1 /\ Uint32 \in Nat
    BY RetargetAssumption DEF RInv
  <2>2. CASE endTime < startTime
    <3>. DEFINE e == endTime - startTime + Uint32
    <3>1. e \in 0 .. Uint32 - 1 /\ endTime - startTime = e - Uint32
      BY <2>1, <2>2
    <3>2. (e - Uint32) % Uint32 = e
      <4>. HIDE DEF e
      <4>. QED
        BY <2>1, <3>1
    <3>. QED
      BY <2>2, <3>1, <3>2 DEF ActualPeriod
  <2>3. CASE ~ (endTime < startTime)
    <3>. DEFINE e == endTime - startTime
    <3>1. e \in 0 .. Uint32 - 1
      BY <2>1, <2>3
    <3>2. e % Uint32 = e
      <4>. HIDE DEF e
      <4>. QED
        BY <2>1, <3>1
    <3>. QED
      BY <2>3, <3>1, <3>2 DEF ActualPeriod
  <2>. QED
    BY <2>2, <2>3
<1>5. TargetCompactToBignum(target) = current
  BY <1>3 DEF TargetCompactToBignum
<1>6. next = IF IsAboveCeiling(period) THEN GenesisTarget
             ELSE TargetBignumToCompact(Scaled(current, period))
  <2>. HIDE DEF current, ceiling, period
  <2>. QED
    BY <1>1, <1>5 DEF NextTarget, Scaled
<1>7. TargetIsScaled <=>
        \/ /\ next.mantissa \in Unsigned
           /\ TargetValue(next) <= rule
           /\ \A size \in 3 .. GenesisTarget.size, mantissa \in Unsigned :
                 LET other == TargetValue([size |-> size, mantissa |-> mantissa])
                 IN  other <= rule => other <= TargetValue(next)
        \/ /\ period > DesiredPeriod * RetargetBound
           /\ current * period > ceiling * DesiredPeriod
           /\ next = GenesisTarget
        \/ /\ target.size < 3 /\ target.mantissa > 0 /\ period > 0
           /\ next = GenesisTarget
  BY <1>1, <1>4 DEF TargetIsScaled, Rule, Clamped
<1>8. IsAboveCeiling(period)
         <=> IF target.size >= 3 THEN current * period > ceiling * DesiredPeriod
             ELSE target.mantissa > 0 /\ period > 0
  BY DEF IsAboveCeiling
<1>9. target.size \in Nat /\ target.mantissa \in Nat
  BY <1>2, HalfPowers DEF LegalTarget, Sizes, Unsigned
<1>. HIDE DEF current, ceiling, period, elapsed, rule
<1>10. CASE IsAboveCeiling(period)
  <2>1. next = GenesisTarget
    BY <1>6, <1>10
  <2>2. CASE target.size < 3
    <3>1. ~ (target.size >= 3)
      BY <1>9, <2>2
    <3>2. target.mantissa > 0 /\ period > 0
      BY <1>8, <1>10, <3>1
    <3>. QED
      BY <1>2, <1>7, <2>1, <2>2, <3>2
  <2>3. CASE target.size >= 3 /\ period > DesiredPeriod * RetargetBound
    BY <1>2, <1>7, <1>8, <1>10, <2>1, <2>3
  <2>4. CASE target.size >= 3 /\ ~ (period > DesiredPeriod * RetargetBound)
    <3>0. current * period > ceiling * DesiredPeriod
      BY <1>8, <1>10, <2>4
    <3>1. rule = ceiling
      <4>1. period <= DesiredPeriod * RetargetBound
        BY <1>4, <2>4, PeriodIs
      <4>. QED
        BY <1>3, <1>4, <3>0, <4>1, AboveIsCeiling DEF rule
    <3>2. TargetValue(next) = ceiling /\ next.mantissa \in Unsigned
      BY <1>2, <2>1 DEF ceiling, LegalTarget
    <3>. QED
      BY <1>2, <1>3, <1>7, <2>1, <3>1, <3>2
  <2>. QED
    BY <1>9, <2>2, <2>3, <2>4
<1>11. CASE ~ IsAboveCeiling(period)
  <2>. DEFINE n == Scaled(current, period)
  <2>1. current * period <= ceiling * DesiredPeriod
    <3>1. current * period \in Nat /\ ceiling * DesiredPeriod \in Nat
      BY <1>3, <1>4, PeriodIs
    <3>2. CASE target.size >= 3
      BY <1>8, <1>11, <3>1, <3>2
    <3>3. CASE target.size < 3
      <4>1. target.mantissa = 0 \/ period = 0
        BY <1>4, <1>8, <1>9, <1>11, <3>3
      <4>2. target.mantissa = 0 => current = 0
        <5>1. 3 - target.size \in Nat
          BY <1>9, <3>3
        <5>2. Power[3 - target.size] \in Nat /\ Power[3 - target.size] > 0
          BY <5>1, PowerType
        <5>3. 0 \div Power[3 - target.size] = 0
          BY <5>2
        <5>4. ~ (target.size >= 3)
          BY <1>9, <3>3
        <5>. QED
          BY <5>3, <5>4 DEF TargetValue, current
      <4>3. current * period = 0
        BY <1>3, <1>4, <4>1, <4>2
      <4>. QED
        BY <3>1, <4>3
    <3>. QED
      BY <1>9, <3>2, <3>3
  <2>2. n \in Nat /\ n <= ceiling /\ n = rule
    BY <1>3, <1>4, <2>1, ScaledIsRule DEF rule
  <2>3. next = TargetBignumToCompact(n)
    BY <1>6, <1>11
  <2>. HIDE DEF n
  <2>4. /\ LegalTarget(next)
        /\ TargetValue(next) <= rule
        /\ \A size \in 3 .. GenesisTarget.size, mantissa \in Unsigned :
              LET other == TargetValue([size |-> size, mantissa |-> mantissa])
              IN  other <= rule => other <= TargetValue(next)
    BY <2>2, <2>3, CompactIs DEF ceiling
  <2>. QED
    BY <1>7, <2>4 DEF LegalTarget
<1>. QED
  BY <1>10, <1>11

LEMMA RetargetInvariant == RetargetSpec => []RInv
<1>1. RetargetInit => RInv
  BY DEF RetargetInit, RInv
<1>2. RInv /\ [GetMaximalTarget]_retargetVars => RInv'
  <2>. SUFFICES ASSUME RInv, [GetMaximalTarget]_retargetVars PROVE RInv'
    OBVIOUS
  <2>1. UNCHANGED <<target, startTime, endTime>>
    BY DEF GetMaximalTarget, retargetVars
  <2>2. NextTarget(ActualPeriod)' = NextTarget(ActualPeriod)
    BY <2>1 DEF NextTarget, ActualPeriod, IsAboveCeiling
  <2>3. maximalTarget' = maximalTarget \/ maximalTarget' = {NextTarget(ActualPeriod)}
    BY DEF GetMaximalTarget, retargetVars
  <2>. QED
    BY <2>1, <2>2, <2>3 DEF RInv
<1>. QED
  BY <1>1, <1>2, PTL DEF RetargetSpec

(* A target that is scaled follows the rule to the last bit, for every     *)
(* base, desired period and bound, and whatever the timestamps say         *)
(* (blockchain.c:399-436).                                                 *)
THEOREM TargetRule == RetargetSpec => []TargetIsScaled
<1>1. RInv => TargetIsScaled
  <2>1. CASE maximalTarget = {}
    BY <2>1 DEF TargetIsScaled
  <2>2. CASE maximalTarget # {}
    BY <2>2, NextTargetIs
  <2>. QED
    BY <2>1, <2>2
<1>. QED
  BY <1>1, RetargetInvariant, PTL

TargetStaysLegal == \A next \in maximalTarget : LegalTarget(next)

(* What get_maximal_target returns is without a sign and at most the       *)
(* ceiling, as the target it started from: what is assumed of targets      *)
(* holds of every target of a chain whose blocks follow the rule           *)
(* (blockchain.c:399-436).                                                 *)
THEOREM TargetsStayLegal == RetargetSpec => []TargetStaysLegal
<1>1. RInv => TargetStaysLegal
  BY NextTargetIs DEF TargetStaysLegal
<1>. QED
  BY <1>1, RetargetInvariant, PTL

(***************************************************************************)
(* Sums over finite sets.                                                  *)
(***************************************************************************)
Chosen(s) == CHOOSE x \in s : TRUE

(* The function SumFunctionOnSet iterates over the subsets of D.           *)
SumsUp(g, f, D) ==
    g = [s \in SUBSET D |-> IF s = {} THEN 0 ELSE f[Chosen(s)] + g[s \ {Chosen(s)}]]

(* A subset without one of its elements is smaller.                        *)
LEMMA SubsetSmaller ==
    ASSUME NEW D, IsFiniteSet(D), NEW s \in SUBSET D, NEW x \in s
    PROVE  /\ s \ {x} \in SUBSET D
           /\ IsFiniteSet(s) /\ IsFiniteSet(s \ {x})
           /\ Cardinality(s) \in Nat /\ Cardinality(s \ {x}) \in Nat
           /\ Cardinality(s) = Cardinality(s \ {x}) + 1
<1>1. s \ {x} \in SUBSET D
  OBVIOUS
<1>2. IsFiniteSet(s)
  BY FS_Subset
<1>3. IsFiniteSet(s \ {x}) /\ Cardinality(s \ {x}) = Cardinality(s) - 1
  BY <1>2, FS_RemoveElement
<1>4. Cardinality(s) \in Nat /\ Cardinality(s \ {x}) \in Nat
  BY <1>2, <1>3, FS_CardinalityType
<1>. QED
  BY <1>1, <1>2, <1>3, <1>4

LEMMA NoSubsetSmaller ==
    ASSUME NEW D, IsFiniteSet(D), NEW s \in SUBSET D
    PROVE  /\ Cardinality(s) \in Nat /\ Cardinality(D) \in Nat
           /\ Cardinality(s) <= Cardinality(D)
           /\ Cardinality(s) = 0 <=> s = {}
<1>1. IsFiniteSet(s) /\ Cardinality(s) <= Cardinality(D)
  BY FS_Subset
<1>2. Cardinality(s) \in Nat /\ Cardinality(D) \in Nat
  BY <1>1, FS_CardinalityType
<1>. QED
  BY <1>1, <1>2, FS_EmptySet

Uint64Sums == INSTANCE Folding WITH Op <- AddUint64

LEMMA SumsUpExists ==
    ASSUME NEW f, NEW D, IsFiniteSet(D)
    PROVE  \E g : SumsUp(g, f, D)
<1>. DEFINE Right(g, n) ==
              \A s \in SUBSET D : Cardinality(s) <= n =>
                 g[s] = IF s = {} THEN 0 ELSE f[Chosen(s)] + g[s \ {Chosen(s)}]
            T == {n \in Nat : \E g : Right(g, n)}
<1>1. 0 \in T
  <2>. DEFINE g == [s \in SUBSET D |-> 0]
  <2>1. Right(g, 0)
    BY NoSubsetSmaller
  <2>. QED
    BY <2>1
<1>2. ASSUME NEW n \in Nat, n \in T
      PROVE  n + 1 \in T
  <2>1. PICK g : Right(g, n)
    BY <1>2
  <2>. DEFINE next == [s \in SUBSET D |->
                         IF Cardinality(s) <= n THEN g[s]
                         ELSE f[Chosen(s)] + g[s \ {Chosen(s)}]]
  <2>2. ASSUME NEW s \in SUBSET D, Cardinality(s) <= n + 1
        PROVE  next[s] = IF s = {} THEN 0 ELSE f[Chosen(s)] + next[s \ {Chosen(s)}]
    <3>1. CASE s = {}
      <4>1. Cardinality(s) = 0
        BY <3>1, FS_EmptySet
      <4>. QED
        BY <2>1, <3>1, <4>1
    <3>2. CASE s # {}
      <4>. DEFINE rest == s \ {Chosen(s)}
      <4>1. Chosen(s) \in s
        BY <3>2 DEF Chosen
      <4>2. rest \in SUBSET D /\ Cardinality(rest) <= n
        BY <2>2, <4>1, SubsetSmaller
      <4>3. next[rest] = g[rest]
        BY <4>2
      <4>4. Cardinality(s) <= n => g[s] = f[Chosen(s)] + g[rest]
        BY <2>1, <3>2
      <4>5. next[s] = f[Chosen(s)] + g[rest]
        BY <4>4
      <4>. QED
        BY <3>2, <4>3, <4>5
    <3>. QED
      BY <3>1, <3>2
  <2>. HIDE DEF next
  <2>3. Right(next, n + 1)
    BY <2>2
  <2>4. \E h : Right(h, n + 1)
    BY <2>3
  <2>. HIDE DEF Right
  <2>. QED
    BY <2>4
<1>3. \A n \in Nat : n \in T
  <2>. HIDE DEF T
  <2>. QED
    BY <1>1, <1>2, Uint64Sums!NatSetInduction
<1>4. PICK g : Right(g, Cardinality(D))
  BY <1>3, FS_CardinalityType
<1>5. ASSUME NEW s \in SUBSET D
      PROVE  g[s] = IF s = {} THEN 0 ELSE f[Chosen(s)] + g[s \ {Chosen(s)}]
  BY <1>4, NoSubsetSmaller
<1>. DEFINE h == [s \in SUBSET D |-> g[s]]
<1>6. ASSUME NEW s \in SUBSET D
      PROVE  h[s] = IF s = {} THEN 0 ELSE f[Chosen(s)] + h[s \ {Chosen(s)}]
  BY <1>5
<1>7. h = [s \in SUBSET D |-> h[s]]
  OBVIOUS
<1>. HIDE DEF h
<1>8. SumsUp(h, f, D)
  BY <1>6, <1>7 DEF SumsUp
<1>. QED
  BY <1>8

(* What it comes to depends on the values of the elements alone.           *)
LEMMA SumsUpAgree ==
    ASSUME NEW f, NEW D, IsFiniteSet(D), NEW g, SumsUp(g, f, D),
           NEW e, NEW E, NEW h, SumsUp(h, e, E),
           NEW S \in SUBSET D, S \subseteq E, \A x \in S : f[x] = e[x]
    PROVE  g[S] = h[S]
<1>. DEFINE T == {n \in Nat : \A s \in SUBSET S : Cardinality(s) = n => g[s] = h[s]}
<1>1. ASSUME NEW s \in SUBSET S
      PROVE  /\ g[s] = IF s = {} THEN 0 ELSE f[Chosen(s)] + g[s \ {Chosen(s)}]
             /\ h[s] = IF s = {} THEN 0 ELSE e[Chosen(s)] + h[s \ {Chosen(s)}]
             /\ s \in SUBSET D
  <2>1. s \in SUBSET D /\ s \in SUBSET E
    OBVIOUS
  <2>. QED
    BY <2>1 DEF SumsUp
<1>2. 0 \in T
  <2>. SUFFICES ASSUME NEW s \in SUBSET S, Cardinality(s) = 0 PROVE g[s] = h[s]
    OBVIOUS
  <2>1. s = {}
    BY <1>1, NoSubsetSmaller
  <2>. QED
    BY <1>1, <2>1
<1>3. ASSUME NEW n \in Nat, n \in T
      PROVE  n + 1 \in T
  <2>. SUFFICES ASSUME NEW s \in SUBSET S, Cardinality(s) = n + 1 PROVE g[s] = h[s]
    OBVIOUS
  <2>1. s # {}
    BY <1>1, NoSubsetSmaller
  <2>2. PICK x \in s : x = Chosen(s)
    BY <2>1 DEF Chosen
  <2>3. s \ {x} \in SUBSET S /\ Cardinality(s \ {x}) = n
    <3>1. s \in SUBSET D
      BY <1>1
    <3>2. Cardinality(s) = Cardinality(s \ {x}) + 1 /\ Cardinality(s \ {x}) \in Nat
      BY <2>2, <3>1, SubsetSmaller
    <3>. QED
      BY <3>2
  <2>4. g[s \ {x}] = h[s \ {x}] /\ f[x] = e[x]
    BY <1>3, <2>2, <2>3
  <2>. QED
    BY <1>1, <2>1, <2>2, <2>4
<1>4. \A n \in Nat : n \in T
  <2>. HIDE DEF T
  <2>. QED
    BY <1>2, <1>3, Uint64Sums!NatSetInduction
<1>5. Cardinality(S) \in Nat /\ S \in SUBSET S
  BY NoSubsetSmaller
<1>. QED
  BY <1>4, <1>5

LEMMA SumIs ==
    ASSUME NEW f, NEW D, IsFiniteSet(D), NEW g, SumsUp(g, f, D),
           NEW e, NEW S \in SUBSET D, \A x \in S : f[x] = e[x]
    PROVE  SumFunctionOnSet(e, S) = g[S]
<1>. DEFINE h == CHOOSE h : SumsUp(h, e, S)
<1>1. SumFunctionOnSet(e, S) = h[S]
  BY DEF SumFunctionOnSet, FoldFunctionOnSet, MapThenFoldSet, SumsUp, Chosen
<1>2. SumsUp(h, e, S)
  <2>1. IsFiniteSet(S)
    BY FS_Subset
  <2>. QED
    BY <2>1, SumsUpExists
<1>. HIDE DEF h
<1>. QED
  BY <1>1, <1>2, SumsUpAgree

(* A sum does not depend on what is taken first.                           *)
LEMMA AnyFirst ==
    ASSUME NEW f, NEW D, IsFiniteSet(D), NEW g, SumsUp(g, f, D),
           \A y \in D : f[y] \in Int
    PROVE  \A s \in SUBSET D : /\ g[s] \in Int
                               /\ \A y \in s : g[s] = f[y] + g[s \ {y}]
<1>. DEFINE Free(s) == g[s] \in Int /\ \A y \in s : g[s] = f[y] + g[s \ {y}]
            T == {n \in Nat : \A s \in SUBSET D : Cardinality(s) <= n => Free(s)}
<1>1. ASSUME NEW s \in SUBSET D
      PROVE  g[s] = IF s = {} THEN 0 ELSE f[Chosen(s)] + g[s \ {Chosen(s)}]
  BY DEF SumsUp
<1>0. Free({})
  <2>1. {} \in SUBSET D
    OBVIOUS
  <2>2. g[{}] = 0
    BY <1>1, <2>1
  <2>. QED
    BY <2>2
<1>2. 0 \in T
  <2>. SUFFICES ASSUME NEW s \in SUBSET D, Cardinality(s) <= 0 PROVE Free(s)
    OBVIOUS
  <2>1. s = {}
    BY NoSubsetSmaller
  <2>. QED
    BY <1>0, <2>1
<1>3. ASSUME NEW n \in Nat, n \in T
      PROVE  n + 1 \in T
  <2>. SUFFICES ASSUME NEW s \in SUBSET D, Cardinality(s) <= n + 1, s # {} PROVE Free(s)
    <3>. HIDE DEF Free
    <3>. QED
      BY <1>0
  <2>. DEFINE c == Chosen(s)
  <2>2. c \in s
    BY DEF Chosen
  <2>3. g[s] = f[c] + g[s \ {c}]
    BY <1>1
  <2>. HIDE DEF c
  <2>4. ASSUME NEW y \in s
        PROVE  /\ s \ {y} \in SUBSET D /\ Cardinality(s \ {y}) <= n
               /\ Free(s \ {y})
    <3>1. s \ {y} \in SUBSET D /\ Cardinality(s \ {y}) <= n
      BY SubsetSmaller
    <3>. QED
      BY <1>3, <3>1
  <2>5. ASSUME NEW y \in s
        PROVE  g[s] = f[y] + g[s \ {y}]
    <3>1. CASE y = c
      BY <2>3, <3>1
    <3>2. CASE y # c
      <4>1. g[s \ {c}] = f[y] + g[(s \ {c}) \ {y}]
        BY <2>2, <2>4, <3>2
      <4>2. g[s \ {y}] = f[c] + g[(s \ {y}) \ {c}]
        BY <2>2, <2>4, <3>2
      <4>3. (s \ {c}) \ {y} = (s \ {y}) \ {c}
        OBVIOUS
      <4>. DEFINE r == (s \ {c}) \ {y}
                  p == g[r]  a == f[c]  b == f[y]  u == g[s \ {c}]  v == g[s \ {y}]
      <4>4. a \in Int /\ b \in Int
        BY <2>2
      <4>5. u \in Int /\ v \in Int
        BY <2>2, <2>4
      <4>6. p \in Int
        <5>1. y \in s \ {c} /\ s \ {c} \in SUBSET D /\ Cardinality(s \ {c}) <= n
          BY <2>2, <2>4, <3>2
        <5>2. r \in SUBSET D /\ Cardinality(r) <= n
          <6>1. PICK w : w = s \ {c}
            OBVIOUS
          <6>2. w \in SUBSET D /\ y \in w /\ Cardinality(w) <= n
            BY <5>1, <6>1
          <6>3. /\ w \ {y} \in SUBSET D
                /\ Cardinality(w \ {y}) \in Nat /\ Cardinality(w) \in Nat
                /\ Cardinality(w) = Cardinality(w \ {y}) + 1
            BY <6>2, SubsetSmaller
          <6>. QED
            BY <6>1, <6>2, <6>3
        <5>. QED
          BY <1>3, <5>2
      <4>7. g[s] = a + u /\ u = b + p /\ v = a + p
        BY <2>3, <4>1, <4>2, <4>3
      <4>. HIDE DEF p, a, b, u, v
      <4>8. g[s] = b + v
        BY <4>4, <4>5, <4>6, <4>7
      <4>. QED
        BY <4>8 DEF b, v
    <3>. QED
      BY <3>1, <3>2
  <2>6. g[s] \in Int
    BY <2>2, <2>3, <2>4
  <2>. QED
    BY <2>5, <2>6
<1>4. \A n \in Nat : n \in T
  <2>. HIDE DEF T
  <2>. QED
    BY <1>2, <1>3, Uint64Sums!NatSetInduction
<1>5. ASSUME NEW s \in SUBSET D
      PROVE  Free(s)
  <2>1. Cardinality(s) \in Nat /\ Cardinality(s) <= Cardinality(s)
    BY NoSubsetSmaller
  <2>. HIDE DEF Free
  <2>. QED
    BY <1>4, <2>1
<1>. QED
  BY <1>5

(* The sum over nothing, and over one element more.                        *)
LEMMA SumOfNone ==
    ASSUME NEW f
    PROVE  SumFunctionOnSet(f, {}) = 0
<1>0. PICK S : S = {}
  OBVIOUS
<1>1. IsFiniteSet(S)
  BY <1>0, FS_EmptySet
<1>2. PICK g : SumsUp(g, f, S)
  BY <1>1, SumsUpExists
<1>3. SumFunctionOnSet(f, S) = g[S]
  <2>1. S \in SUBSET S /\ \A x \in S : f[x] = f[x]
    OBVIOUS
  <2>. QED
    BY <1>1, <1>2, <2>1, SumIs
<1>. QED
  BY <1>0, <1>2, <1>3 DEF SumsUp

LEMMA SumOfMore ==
    ASSUME NEW f, NEW S, IsFiniteSet(S), NEW x, x \notin S,
           \A y \in S \cup {x} : f[y] \in Int
    PROVE  /\ SumFunctionOnSet(f, S) \in Int
           /\ SumFunctionOnSet(f, S \cup {x}) = SumFunctionOnSet(f, S) + f[x]
<1>0. PICK D : D = S \cup {x}
  OBVIOUS
<1>1. IsFiniteSet(D)
  BY <1>0, FS_AddElement
<1>2. PICK g : SumsUp(g, f, D)
  BY <1>1, SumsUpExists
<1>3. S \in SUBSET D /\ D \in SUBSET D /\ x \in D /\ D \ {x} = S /\ \A y \in D : f[y] \in Int
  BY <1>0
<1>4. SumFunctionOnSet(f, S) = g[S] /\ SumFunctionOnSet(f, D) = g[D]
  BY <1>1, <1>2, <1>3, SumIs
<1>5. g[S] \in Int /\ g[D] = f[x] + g[S]
  <2>1. \A s \in SUBSET D : g[s] \in Int /\ \A y \in s : g[s] = f[y] + g[s \ {y}]
    <3>1. \A y \in D : f[y] \in Int
      BY <1>3
    <3>. QED
      BY <1>1, <1>2, <3>1, AnyFirst
  <2>. QED
    BY <1>3, <2>1
<1>6. f[x] \in Int
  BY <1>3
<1>. QED
  BY <1>0, <1>4, <1>5, <1>6

LEMMA SumType ==
    ASSUME NEW f, NEW D, IsFiniteSet(D), \A y \in D : f[y] \in Int
    PROVE  SumFunctionOnSet(f, D) \in Int
<1>1. PICK g : SumsUp(g, f, D)
  BY SumsUpExists
<1>2. SumFunctionOnSet(f, D) = g[D]
  BY <1>1, SumIs
<1>3. g[D] \in Int
  <2>1. \A y \in D : f[y] \in Int
    OBVIOUS
  <2>2. D \in SUBSET D
    OBVIOUS
  <2>. QED
    BY <1>1, <2>1, <2>2, AnyFirst
<1>. QED
  BY <1>2, <1>3

LEMMA SumsAgree ==
    ASSUME NEW f, NEW e, NEW S, IsFiniteSet(S), \A y \in S : f[y] = e[y]
    PROVE  SumFunctionOnSet(f, S) = SumFunctionOnSet(e, S)
<1>1. PICK g : SumsUp(g, f, S)
  BY SumsUpExists
<1>2. SumFunctionOnSet(f, S) = g[S] /\ SumFunctionOnSet(e, S) = g[S]
  BY <1>1, SumIs
<1>. QED
  BY <1>2

-----------------------------------------------------------------------------
(* Sums over sequences: exact, from one element to the next ...            *)
Upto(f, k) == SumFunctionOnSet(f, 1 .. k)

LEMMA UptoNext ==
    ASSUME NEW n \in Nat, NEW f, \A k \in 1 .. n : f[k] \in Int
    PROVE  /\ Upto(f, 0) = 0
           /\ \A k \in 0 .. n : Upto(f, k) \in Int
           /\ \A k \in 1 .. n : Upto(f, k) = Upto(f, k - 1) + f[k]
<1>1. Upto(f, 0) = 0
  <2>1. 1 .. 0 = {}
    OBVIOUS
  <2>. QED
    BY <2>1, SumOfNone DEF Upto
<1>2. ASSUME NEW k \in 1 .. n
      PROVE  Upto(f, k - 1) \in Int /\ Upto(f, k) = Upto(f, k - 1) + f[k]
  <2>1. PICK S : S = 1 .. k - 1
    OBVIOUS
  <2>2. 1 .. k = S \cup {k} /\ k \notin S
    BY <2>1
  <2>3. IsFiniteSet(S)
    BY <2>1, FS_Interval
  <2>4. \A y \in S \cup {k} : f[y] \in Int
    BY <2>1
  <2>5. /\ SumFunctionOnSet(f, S) \in Int
        /\ SumFunctionOnSet(f, S \cup {k}) = SumFunctionOnSet(f, S) + f[k]
    BY <2>2, <2>3, <2>4, SumOfMore
  <2>. QED
    BY <2>1, <2>2, <2>5 DEF Upto
<1>3. ASSUME NEW k \in 0 .. n
      PROVE  Upto(f, k) \in Int
  <2>1. CASE k = 0
    BY <1>1, <2>1
  <2>2. CASE k # 0
    <3>1. k \in 1 .. n
      BY <2>2
    <3>2. f[k] \in Int
      BY <3>1
    <3>. QED
      BY <1>2, <3>1, <3>2
  <2>. QED
    BY <2>1, <2>2
<1>. QED
  BY <1>1, <1>2, <1>3

LEMMA ExactSum ==
    ASSUME NEW n \in Nat, NEW f, DOMAIN f = 1 .. n
    PROVE  SumFunction(f) = Upto(f, n)
  BY DEF SumFunction, Upto

(* ... and of the code, which is never more.                               *)
LEMMA SameFold ==
    ASSUME NEW seq
    PROVE  SumOf(seq) = Uint64Sums!FoldLeft(AddUint64, 0, seq)
  BY DEF SumOf, FoldLeft, MapThenFoldSet, Max,
         Uint64Sums!FoldLeft, Uint64Sums!MapThenFoldSet, Uint64Sums!Max

LEMMA Remainder ==
    ASSUME NEW a \in Nat, NEW b \in Nat \ {0}
    PROVE  a % b \in 0 .. b - 1 /\ a % b <= a
<1>1. a = b * (a \div b) + (a % b) /\ a % b \in 0 .. b - 1 /\ a \div b \in Int
  OBVIOUS
<1>. DEFINE q == a \div b  r == a % b
<1>. HIDE DEF q, r
<1>2. q \in Int /\ r \in Int /\ a = b * q + r /\ 0 <= r /\ r < b
  BY <1>1 DEF q, r
<1>3. q >= 0
  BY <1>2
<1>4. b * q >= 0
  BY <1>2, <1>3
<1>. QED
  BY <1>1, <1>2, <1>4 DEF r

LEMMA SumWraps ==
    ASSUME NEW n \in Nat, NEW f, DOMAIN f = 1 .. n, \A k \in 1 .. n : f[k] \in Nat
    PROVE  /\ SumOf(f) \in 0 .. Uint64 - 1
           /\ SumOf(f) <= Upto(f, n)
<1>. DEFINE I == [k \in 0 .. n |-> {x \in 0 .. Uint64 - 1 : x <= Upto(f, k)}]
<1>0. Uint64 \in Nat \ {0}
  BY LedgerAssumption
<1>1. \A k \in 1 .. n : f[k] \in Int
  OBVIOUS
<1>2. 0 \in I[0]
  <2>1. Upto(f, 0) = 0
    BY <1>1, UptoNext
  <2>. QED
    BY <1>0, <2>1
<1>3. ASSUME NEW k \in 1 .. n, NEW x \in I[k - 1]
      PROVE  AddUint64(x, f[k]) \in I[k]
  <2>. DEFINE v == f[k]  before == Upto(f, k - 1)  after == Upto(f, k)  next == (x + v) % Uint64
  <2>1. v \in Nat /\ before \in Int /\ after = before + v
    <3>1. k - 1 \in 0 .. n
      OBVIOUS
    <3>. QED
      BY <1>1, <3>1, UptoNext
  <2>2. x \in 0 .. Uint64 - 1 /\ x <= before
    OBVIOUS
  <2>3. I[k] = {y \in 0 .. Uint64 - 1 : y <= after}
    OBVIOUS
  <2>. HIDE DEF v, before, after, I, next
  <2>4. next \in 0 .. Uint64 - 1 /\ next <= x + v
    <3>1. x + v \in Nat
      BY <1>0, <2>1, <2>2
    <3>. QED
      BY <1>0, <3>1, Remainder DEF next
  <2>5. next <= after
    BY <1>0, <2>1, <2>2, <2>4
  <2>. QED
    BY <2>3, <2>4, <2>5 DEF AddUint64, next, v
<1>4. I[n] = {x \in 0 .. Uint64 - 1 : x <= Upto(f, n)}
  OBVIOUS
<1>. HIDE DEF I
<1>5. Uint64Sums!FoldLeft(AddUint64, 0, f) \in I[n]
  BY <1>2, <1>3, Uint64Sums!FoldLeftInduction
<1>. QED
  BY <1>4, <1>5, SameFold

-----------------------------------------------------------------------------
(* What a block that is connected names and pays.                          *)

LedgerTypeOK ==
    /\ IsFiniteSet(DOMAIN coins)
    /\ coins \in [DOMAIN coins -> Nat]
    /\ \A o \in DOMAIN coins : o \in Outpoints /\ o[1] <= lastId
    /\ height \in Nat
    /\ lastId \in Nat
    /\ issued \in Int
    /\ respent \in Int
    /\ wrapped \in Int

Connects(txs, n) ==
    /\ LedgerTypeOK
    /\ txs \in Blocks
    /\ n = Len(txs)
    /\ AllTxValid(txs, height + 1)

(* Outpoints its first k transactions pay to, and those they name; and     *)
(* what is in the database after them.                                     *)
Paid(txs, k)  == UNION {OutpointsOf(txs[j]) : j \in 1 .. k}
Named(txs, k) == UNION {ToSet(txs[j].ins) : j \in 1 .. k}
Left(txs, k)  == (DOMAIN coins \cup Paid(txs, k)) \ Named(txs, k)

Price(txs) ==
    [o \in DOMAIN coins \cup Paid(txs, Len(txs)) |->
        ValueFound(SearchUtxo(o, txs, Len(txs)))]

LEMMA BlockIs ==
    ASSUME NEW txs, NEW n, Connects(txs, n)
    PROVE  /\ n \in Nat /\ n > 0 /\ DOMAIN txs = 1 .. n
           /\ \A k \in 1 .. n :
                 /\ txs[k].id = lastId + k
                 /\ Len(txs[k].ins) \in Nat /\ DOMAIN txs[k].ins = 1 .. Len(txs[k].ins)
                 /\ \A i \in DOMAIN txs[k].ins : txs[k].ins[i] \in Outpoints
                 /\ Len(txs[k].outs) \in Nat /\ DOMAIN txs[k].outs = 1 .. Len(txs[k].outs)
                 /\ \A i \in DOMAIN txs[k].outs : txs[k].outs[i] \in Nat
           /\ lastId \in Nat /\ height \in Nat
<1>. DEFINE Tx == [id : Nat, ins : Seq(Outpoints), outs : Seq(Values)]
<1>1. txs \in Seq(Tx) /\ txs # << >> /\ \A k \in DOMAIN txs : txs[k].id = lastId + k
  BY DEF Connects, Blocks, Id
<1>2. n \in Nat /\ n > 0 /\ DOMAIN txs = 1 .. n
  <2>. HIDE DEF Tx
  <2>. QED
    BY <1>1 DEF Connects
<1>3. ASSUME NEW k \in 1 .. n
      PROVE  /\ Len(txs[k].ins) \in Nat /\ DOMAIN txs[k].ins = 1 .. Len(txs[k].ins)
             /\ \A i \in DOMAIN txs[k].ins : txs[k].ins[i] \in Outpoints
             /\ Len(txs[k].outs) \in Nat /\ DOMAIN txs[k].outs = 1 .. Len(txs[k].outs)
             /\ \A i \in DOMAIN txs[k].outs : txs[k].outs[i] \in Nat
  <2>1. txs[k] \in Tx
    <3>. HIDE DEF Tx
    <3>. QED
      BY <1>1, <1>2
  <2>2. PICK ins \in Seq(Outpoints), outs \in Seq(Values) : ins = txs[k].ins /\ outs = txs[k].outs
    BY <2>1
  <2>3. Values \subseteq Nat
    BY LedgerAssumption DEF Values
  <2>4. \A i \in DOMAIN outs : outs[i] \in Values
    OBVIOUS
  <2>5. Len(outs) \in Nat /\ DOMAIN outs = 1 .. Len(outs)
    OBVIOUS
  <2>7. \A i \in DOMAIN outs : outs[i] \in Nat
    BY <2>3, <2>4, Zenon
  <2>6. Len(ins) \in Nat /\ DOMAIN ins = 1 .. Len(ins) /\ \A i \in DOMAIN ins : ins[i] \in Outpoints
    OBVIOUS
  <2>. QED
    BY <2>2, <2>5, <2>6, <2>7
<1>4. lastId \in Nat /\ height \in Nat
  BY DEF Connects, LedgerTypeOK
<1>. QED
  BY <1>1, <1>2, <1>3, <1>4

(* Ids are not used again, so a search has one result at most.             *)
LEMMA OldPrice ==
    ASSUME NEW txs, NEW n, Connects(txs, n), NEW o \in DOMAIN coins
    PROVE  /\ Price(txs)[o] = coins[o] /\ coins[o] \in Nat
           /\ \A limit : SearchUtxo(o, txs, limit) = {coins[o]}
<1>1. \A limit : SearchUtxo(o, txs, limit) = {coins[o]}
  BY DEF SearchUtxo
<1>2. ValueFound({coins[o]}) = coins[o]
  BY DEF ValueFound
<1>3. coins[o] \in Nat
  BY DEF Connects, LedgerTypeOK
<1>. QED
  BY <1>1, <1>2, <1>3 DEF Price

LEMMA NewPrice ==
    ASSUME NEW txs, NEW n, Connects(txs, n),
           NEW j \in 1 .. n, NEW i \in DOMAIN txs[j].outs
    PROVE  /\ <<lastId + j, i>> \notin DOMAIN coins
           /\ <<lastId + j, i>> \in OutpointsOf(txs[j])
           /\ Price(txs)[<<lastId + j, i>>] = txs[j].outs[i]
           /\ txs[j].outs[i] \in Nat
           /\ \A limit \in j .. n : SearchUtxo(<<lastId + j, i>>, txs, limit) = {txs[j].outs[i]}
<1>. DEFINE o == <<lastId + j, i>>
<1>1. /\ n \in Nat /\ lastId \in Nat /\ txs[j].outs[i] \in Nat
      /\ \A k \in 1 .. n : txs[k].id = lastId + k
  BY BlockIs
<1>2. o \notin DOMAIN coins
  <2>1. ~ (lastId + j <= lastId)
    BY <1>1
  <2>. QED
    BY <2>1 DEF Connects, LedgerTypeOK
<1>3. o \in OutpointsOf(txs[j])
  BY <1>1 DEF OutpointsOf
<1>4. ASSUME NEW limit \in j .. n
      PROVE  SearchUtxo(o, txs, limit) = {txs[j].outs[i]}
  <2>1. {k \in 1 .. limit : txs[k].id = lastId + j /\ i \in DOMAIN txs[k].outs} = {j}
    <3>1. \A k \in 1 .. limit : k \in 1 .. n /\ (lastId + k = lastId + j => k = j)
      BY <1>1
    <3>2. j \in 1 .. limit
      BY <1>1
    <3>. QED
      BY <1>1, <3>1, <3>2
  <2>2. o[1] = lastId + j /\ o[2] = i
    OBVIOUS
  <2>. QED
    BY <1>2, <2>1, <2>2 DEF SearchUtxo
<1>5. Price(txs)[o] = txs[j].outs[i]
  <2>1. n = Len(txs) /\ n \in j .. n
    BY <1>1 DEF Connects
  <2>2. SearchUtxo(o, txs, Len(txs)) = {txs[j].outs[i]}
    BY <1>4, <2>1
  <2>3. o \in Paid(txs, Len(txs))
    BY <1>3, <2>1 DEF Paid
  <2>4. ValueFound({txs[j].outs[i]}) = txs[j].outs[i]
    BY DEF ValueFound
  <2>. HIDE DEF o
  <2>. QED
    BY <2>2, <2>3, <2>4 DEF Price
<1>. QED
  BY <1>1, <1>2, <1>3, <1>4, <1>5

(* Everything that is named is in the database, or paid before.            *)
IsSource(txs, k, o) == SearchUtxo(o, txs, k - 1) = {Price(txs)[o]}

LEMMA InputFound ==
    ASSUME NEW txs, NEW n, Connects(txs, n), NEW k \in 1 .. n, NEW i \in DOMAIN txs[k].ins
    PROVE  LET o == txs[k].ins[i]
           IN  /\ o \in DOMAIN coins \cup Paid(txs, k - 1)
               /\ o[1] < lastId + k
               /\ Price(txs)[o] \in Nat
               /\ IsSource(txs, k, o)
               /\ ValueFound(SearchUtxo(o, txs, n)) = Price(txs)[o]
<1>. DEFINE o == txs[k].ins[i]
<1>1. n \in Nat /\ lastId \in Nat /\ o \in Outpoints
  BY BlockIs
<1>2. SearchUtxo(o, txs, k - 1) # {}
  <2>1. IsNormalTxValid(txs, k)
    <3>1. CASE k = 1
      BY <3>1 DEF Connects, AllTxValid, IsInitialTxValid
    <3>2. CASE k # 1
      BY <3>2 DEF Connects, AllTxValid
    <3>. QED
      BY <3>1, <3>2
  <2>. QED
    BY <2>1 DEF IsNormalTxValid
<1>. HIDE DEF o
<1>3. CASE o \in DOMAIN coins
  <2>1. o[1] <= lastId
    BY <1>3 DEF Connects, LedgerTypeOK
  <2>2. o[1] < lastId + k
    BY <1>1, <2>1 DEF Outpoints
  <2>3. ValueFound(SearchUtxo(o, txs, n)) = Price(txs)[o]
    BY <1>3, OldPrice DEF ValueFound
  <2>. QED
    BY <1>3, <2>2, <2>3, OldPrice DEF o, IsSource
<1>4. CASE o \notin DOMAIN coins
  <2>1. PICK j \in 1 .. k - 1 : txs[j].id = o[1] /\ o[2] \in DOMAIN txs[j].outs
    BY <1>2, <1>4 DEF SearchUtxo
  <2>2. j \in 1 .. n /\ k - 1 \in j .. n /\ n \in j .. n /\ j < k
    BY <1>1
  <2>3. o[1] = lastId + j
    BY <2>1, <2>2, BlockIs
  <2>4. o = <<lastId + j, o[2]>>
    BY <1>1, <2>3 DEF Outpoints
  <2>5. PICK m : m = o[2]
    OBVIOUS
  <2>6. /\ o \in OutpointsOf(txs[j])
        /\ Price(txs)[o] = txs[j].outs[m]
        /\ txs[j].outs[m] \in Nat
        /\ SearchUtxo(o, txs, k - 1) = {txs[j].outs[m]}
        /\ SearchUtxo(o, txs, n) = {txs[j].outs[m]}
    BY <2>1, <2>2, <2>4, <2>5, NewPrice
  <2>7. o \in Paid(txs, k - 1)
    BY <2>6 DEF Paid
  <2>8. o[1] < lastId + k
    BY <1>1, <2>2, <2>3
  <2>9. ValueFound(SearchUtxo(o, txs, n)) = Price(txs)[o]
    BY <2>6 DEF ValueFound
  <2>. QED
    BY <2>6, <2>7, <2>8, <2>9 DEF o, IsSource
<1>. QED
  BY <1>3, <1>4

-----------------------------------------------------------------------------
(* The database after a block.                                             *)

Left1(txs, k) == Left(txs, k - 1) \cup OutpointsOf(txs[k])

LEMMA PaidIs ==
    ASSUME NEW txs, NEW n, Connects(txs, n), NEW k \in 1 .. n
    PROVE  /\ Paid(txs, k) = Paid(txs, k - 1) \cup OutpointsOf(txs[k])
           /\ Named(txs, k) = Named(txs, k - 1) \cup ToSet(txs[k].ins)
           /\ \A o \in OutpointsOf(txs[k]) :
                 /\ o[1] = lastId + k
                 /\ o \notin DOMAIN coins \cup Paid(txs, k - 1) \cup Named(txs, k - 1)
           /\ \A o \in ToSet(txs[k].ins) : o \in DOMAIN coins \cup Paid(txs, k - 1)
<1>1. n \in Nat /\ lastId \in Nat /\ \A j \in 1 .. n : txs[j].id = lastId + j
  BY BlockIs
<1>2. \A j : j \in 1 .. k <=> j \in 1 .. k - 1 \/ j = k
  BY <1>1
<1>3. Paid(txs, k) = Paid(txs, k - 1) \cup OutpointsOf(txs[k])
  BY <1>2 DEF Paid
<1>4. Named(txs, k) = Named(txs, k - 1) \cup ToSet(txs[k].ins)
  BY <1>2 DEF Named
<1>5. ASSUME NEW j \in 1 .. n, NEW o \in OutpointsOf(txs[j])
      PROVE  o[1] = lastId + j
  BY <1>1 DEF OutpointsOf
<1>6. ASSUME NEW j \in 1 .. n, NEW o \in ToSet(txs[j].ins)
      PROVE  o[1] < lastId + j /\ o \in DOMAIN coins \cup Paid(txs, j - 1)
  BY InputFound DEF ToSet
<1>7. ASSUME NEW o \in OutpointsOf(txs[k])
      PROVE  o \notin DOMAIN coins \cup Paid(txs, k - 1) \cup Named(txs, k - 1)
  <2>1. o[1] = lastId + k
    BY <1>5
  <2>2. o \notin DOMAIN coins
    <3>1. ~ (lastId + k <= lastId)
      BY <1>1
    <3>. QED
      BY <2>1, <3>1 DEF Connects, LedgerTypeOK
  <2>3. o \notin Paid(txs, k - 1)
    <3>. SUFFICES ASSUME NEW j \in 1 .. k - 1, o \in OutpointsOf(txs[j]) PROVE FALSE
      BY DEF Paid
    <3>1. j \in 1 .. n /\ j < k
      BY <1>1
    <3>2. o[1] = lastId + j
      BY <1>5, <3>1
    <3>. QED
      BY <1>1, <2>1, <3>1, <3>2
  <2>4. o \notin Named(txs, k - 1)
    <3>. SUFFICES ASSUME NEW j \in 1 .. k - 1, o \in ToSet(txs[j].ins) PROVE FALSE
      BY DEF Named
    <3>1. j \in 1 .. n /\ j < k
      BY <1>1
    <3>2. o[1] < lastId + j
      BY <1>6, <3>1
    <3>. QED
      BY <1>1, <2>1, <3>1, <3>2
  <2>. QED
    BY <2>2, <2>3, <2>4
<1>. QED
  BY <1>3, <1>4, <1>5, <1>6, <1>7

LEMMA LeftIs ==
    ASSUME NEW txs, NEW n, Connects(txs, n), NEW k \in 1 .. n
    PROVE  Left(txs, k) = Left1(txs, k) \ ToSet(txs[k].ins)
  BY PaidIs DEF Left, Left1

LEMMA LeftStart ==
    ASSUME NEW txs
    PROVE  Left(txs, 0) = DOMAIN coins
<1>1. 1 .. 0 = {}
  OBVIOUS
<1>. QED
  BY <1>1 DEF Left, Paid, Named

LEMMA PaidGrows ==
    ASSUME NEW txs, NEW n \in Nat, NEW k \in 0 .. n
    PROVE  Paid(txs, k) \subseteq Paid(txs, n)
<1>1. \A j \in 1 .. k : j \in 1 .. n
  OBVIOUS
<1>. QED
  BY <1>1 DEF Paid

Registering == INSTANCE Folding WITH Op <- RegisterCoins

(* RegisterCoins keeps to it.                                              *)
LEMMA RegisterIs ==
    ASSUME NEW txs, NEW n, Connects(txs, n), NEW k \in 1 .. n
    PROVE  RegisterCoins([o \in Left(txs, k - 1) |-> Price(txs)[o]], txs[k])
             = [o \in Left(txs, k) |-> Price(txs)[o]]
<1>. DEFINE db == [o \in Left(txs, k - 1) |-> Price(txs)[o]]
            new == OutpointsOf(txs[k])
            saved == [o \in DOMAIN db \cup new |->
                        IF o \in new THEN txs[k].outs[o[2]] ELSE db[o]]
<1>1. RegisterCoins(db, txs[k]) = Restrict(saved, DOMAIN saved \ ToSet(txs[k].ins))
  BY Zenon DEF RegisterCoins
<1>2. DOMAIN db = Left(txs, k - 1)
  OBVIOUS
<1>3. ASSUME NEW o \in new
      PROVE  Price(txs)[o] = txs[k].outs[o[2]]
  <2>1. txs[k].id = lastId + k
    BY BlockIs
  <2>2. PICK i \in DOMAIN txs[k].outs : o = <<lastId + k, i>>
    BY <2>1 DEF OutpointsOf
  <2>3. Price(txs)[<<lastId + k, i>>] = txs[k].outs[i]
    BY NewPrice
  <2>. QED
    BY <2>2, <2>3
<1>4. saved = [o \in Left1(txs, k) |-> Price(txs)[o]]
  <2>. HIDE DEF new
  <2>. QED
    BY <1>2, <1>3 DEF Left1, new
<1>. HIDE DEF saved, db
<1>5. RegisterCoins(db, txs[k]) = [o \in Left1(txs, k) \ ToSet(txs[k].ins) |-> Price(txs)[o]]
  BY <1>1, <1>4 DEF Restrict
<1>. QED
  BY <1>5, LeftIs DEF db

LEMMA DatabaseIs ==
    ASSUME NEW txs, NEW n, Connects(txs, n)
    PROVE  FoldLeft(RegisterCoins, coins, txs) = [o \in Left(txs, n) |-> Price(txs)[o]]
<1>. DEFINE I == [k \in 0 .. n |-> {[o \in Left(txs, k) |-> Price(txs)[o]]}]
<1>1. n \in Nat /\ n > 0 /\ DOMAIN txs = 1 .. n
  BY BlockIs
<1>2. coins \in I[0]
  <2>1. coins = [o \in DOMAIN coins |-> Price(txs)[o]]
    BY OldPrice DEF Connects, LedgerTypeOK
  <2>2. 0 \in 0 .. n
    BY <1>1
  <2>. QED
    BY <2>1, <2>2, LeftStart
<1>3. ASSUME NEW k \in 1 .. n, NEW db \in I[k - 1]
      PROVE  RegisterCoins(db, txs[k]) \in I[k]
  <2>1. k \in 0 .. n /\ k - 1 \in 0 .. n
    BY <1>1
  <2>2. db = [o \in Left(txs, k - 1) |-> Price(txs)[o]]
    BY <2>1
  <2>3. RegisterCoins(db, txs[k]) = [o \in Left(txs, k) |-> Price(txs)[o]]
    BY <2>2, RegisterIs
  <2>. QED
    BY <2>1, <2>3
<1>4. I[n] = {[o \in Left(txs, n) |-> Price(txs)[o]]}
  BY <1>1
<1>. HIDE DEF I
<1>5. Registering!FoldLeft(RegisterCoins, coins, txs) \in I[n]
  BY <1>1, <1>2, <1>3, Registering!FoldLeftInduction
<1>6. FoldLeft(RegisterCoins, coins, txs) = Registering!FoldLeft(RegisterCoins, coins, txs)
  BY DEF FoldLeft, MapThenFoldSet, Max,
         Registering!FoldLeft, Registering!MapThenFoldSet, Registering!Max
<1>. QED
  BY <1>4, <1>5, <1>6

-----------------------------------------------------------------------------
(* Sums of what is added to a set and of what is taken out of it.          *)
First(w, i) == {w[j] : j \in 1 .. i}

LEMMA FirstNext ==
    ASSUME NEW w, NEW i \in Nat
    PROVE  First(w, i + 1) = First(w, i) \cup {w[i + 1]}
<1>1. \A j : j \in 1 .. i + 1 <=> j \in 1 .. i \/ j = i + 1
  OBVIOUS
<1>. QED
  BY <1>1 DEF First

LEMMA FirstNone ==
    ASSUME NEW w
    PROVE  First(w, 0) = {}
<1>1. 1 .. 0 = {}
  OBVIOUS
<1>. QED
  BY <1>1 DEF First

Adds(p, L, m, w, v) ==
    /\ IsFiniteSet(L)
    /\ \A y \in L : p[y] \in Int
    /\ m \in Nat
    /\ \A i \in 1 .. m : /\ v[i] \in Int /\ p[w[i]] = v[i]
                         /\ w[i] \notin L \cup First(w, i - 1)

LEMMA SumOfAdded ==
    ASSUME NEW p, NEW L, NEW m, NEW w, NEW v, Adds(p, L, m, w, v)
    PROVE  /\ IsFiniteSet(L \cup First(w, m))
           /\ SumFunctionOnSet(p, L \cup First(w, m)) = SumFunctionOnSet(p, L) + Upto(v, m)
<1>. DEFINE Sum(S) == SumFunctionOnSet(p, S)
            Holds(i) == /\ IsFiniteSet(L \cup First(w, i))
                        /\ \A y \in L \cup First(w, i) : p[y] \in Int
                        /\ Sum(L \cup First(w, i)) = Sum(L) + Upto(v, i)
            T == {i \in Nat : i <= m => Holds(i)}
<1>0. /\ IsFiniteSet(L)
      /\ \A y \in L : p[y] \in Int
      /\ m \in Nat
      /\ \A i \in 1 .. m : v[i] \in Int
      /\ \A i \in 1 .. m : p[w[i]] = v[i] /\ w[i] \notin L \cup First(w, i - 1)
  BY DEF Adds
<1>1. /\ Upto(v, 0) = 0
      /\ \A i \in 0 .. m : Upto(v, i) \in Int
      /\ \A i \in 1 .. m : Upto(v, i) = Upto(v, i - 1) + v[i]
  BY <1>0, UptoNext
<1>2. Sum(L) \in Int
  BY <1>0, SumType
<1>. HIDE DEF Sum
<1>3. 0 \in T
  <2>1. L \cup First(w, 0) = L
    BY FirstNone
  <2>2. IsFiniteSet(L \cup First(w, 0)) /\ Sum(L \cup First(w, 0)) = Sum(L)
    BY <1>0, <2>1, Zenon
  <2>3. \A y \in L \cup First(w, 0) : p[y] \in Int
    BY <1>0, <2>1
  <2>4. Holds(0)
    BY <1>0, <1>1, <1>2, <2>2, <2>3
  <2>. QED
    BY <2>4
<1>4. ASSUME NEW i \in Nat, i \in T
      PROVE  i + 1 \in T
  <2>. SUFFICES ASSUME i + 1 <= m PROVE Holds(i + 1)
    OBVIOUS
  <2>1. Holds(i) /\ i + 1 \in 1 .. m /\ i \in 0 .. m /\ (i + 1) - 1 = i
    BY <1>0, <1>4
  <2>2. PICK S : S = L \cup First(w, i)
    OBVIOUS
  <2>3. PICK x : x = w[i + 1]
    OBVIOUS
  <2>4. L \cup First(w, i + 1) = S \cup {x}
    BY <2>2, <2>3, FirstNext
  <2>5. IsFiniteSet(S) /\ x \notin S /\ p[x] = v[i + 1] /\ v[i + 1] \in Int
    BY <1>0, <2>1, <2>2, <2>3
  <2>6. \A y \in S \cup {x} : p[y] \in Int
    BY <2>1, <2>2, <2>5
  <2>7. Sum(S \cup {x}) = Sum(S) + p[x]
    BY <2>5, <2>6, SumOfMore DEF Sum
  <2>8. IsFiniteSet(S \cup {x})
    BY <2>5, FS_AddElement
  <2>9. Sum(S) = Sum(L) + Upto(v, i) /\ Upto(v, i + 1) = Upto(v, i) + v[i + 1] /\ Upto(v, i) \in Int
    BY <1>1, <2>1, <2>2
  <2>10. Sum(S \cup {x}) = Sum(L) + Upto(v, i + 1)
    BY <1>2, <2>5, <2>7, <2>9
  <2>. QED
    BY <2>4, <2>6, <2>8, <2>10
<1>5. \A i \in Nat : i \in T
  <2>. HIDE DEF T
  <2>. QED
    BY <1>3, <1>4, Uint64Sums!NatSetInduction
<1>6. Holds(m)
  <2>. HIDE DEF Holds
  <2>. QED
    BY <1>0, <1>5
<1>. QED
  BY <1>6 DEF Sum

(* Again counts what was taken out before.                                 *)
Takes(p, L, m, w, v, again) ==
    /\ IsFiniteSet(L)
    /\ \A y \in L : p[y] \in Int
    /\ m \in Nat
    /\ \A i \in 1 .. m : /\ v[i] \in Int
                         /\ IF w[i] \in L \ First(w, i - 1)
                            THEN p[w[i]] = v[i] /\ again[i] = 0
                            ELSE again[i] = v[i]

SumOfRest(p, L, m, w, v, again) ==
    /\ IsFiniteSet(L \ First(w, m))
    /\ SumFunctionOnSet(p, L \ First(w, m))
         = SumFunctionOnSet(p, L) - Upto(v, m) + Upto(again, m)

LEMMA SumOfTaken ==
    ASSUME NEW p, NEW L, NEW m, NEW w, NEW v, NEW again, Takes(p, L, m, w, v, again)
    PROVE  SumOfRest(p, L, m, w, v, again)
<1>. DEFINE Sum(S) == SumFunctionOnSet(p, S)
            Holds(i) == Sum(L \ First(w, i)) = Sum(L) - Upto(v, i) + Upto(again, i)
            T == {i \in Nat : i <= m => Holds(i)}
<1>0. /\ IsFiniteSet(L)
      /\ \A y \in L : p[y] \in Int
      /\ m \in Nat
      /\ \A i \in 1 .. m : v[i] \in Int
      /\ \A i \in 1 .. m : IF w[i] \in L \ First(w, i - 1)
                           THEN p[w[i]] = v[i] /\ again[i] = 0
                           ELSE again[i] = v[i]
  BY DEF Takes
<1>1. \A i \in 1 .. m : again[i] \in Int
  BY <1>0
<1>2. /\ Upto(v, 0) = 0 /\ Upto(again, 0) = 0
      /\ \A i \in 0 .. m : Upto(v, i) \in Int /\ Upto(again, i) \in Int
      /\ \A i \in 1 .. m : /\ Upto(v, i) = Upto(v, i - 1) + v[i]
                           /\ Upto(again, i) = Upto(again, i - 1) + again[i]
  BY <1>0, <1>1, UptoNext
<1>3. ASSUME NEW S \in SUBSET L
      PROVE  IsFiniteSet(S) /\ Sum(S) \in Int
  <2>1. IsFiniteSet(S)
    BY <1>0, FS_Subset
  <2>. QED
    BY <1>0, <2>1, SumType
<1>. HIDE DEF Sum
<1>4. 0 \in T
  <2>1. L \ First(w, 0) = L /\ Sum(L) \in Int
    BY <1>3, FirstNone
  <2>2. Holds(0)
    BY <1>2, <2>1
  <2>. QED
    BY <2>2
<1>5. ASSUME NEW i \in Nat, i \in T
      PROVE  i + 1 \in T
  <2>. SUFFICES ASSUME i + 1 <= m PROVE Holds(i + 1)
    OBVIOUS
  <2>1. Holds(i) /\ i + 1 \in 1 .. m /\ i \in 0 .. m /\ (i + 1) - 1 = i
    BY <1>0, <1>5
  <2>2. PICK S : S = L \ First(w, i + 1)
    OBVIOUS
  <2>3. PICK x : x = w[i + 1]
    OBVIOUS
  <2>4. S = (L \ First(w, i)) \ {x}
    BY <2>2, <2>3, FirstNext
  <2>5. PICK a, b, c, d : /\ a = Upto(v, i) /\ b = Upto(again, i)
                          /\ c = v[i + 1] /\ d = again[i + 1]
    OBVIOUS
  <2>6. /\ a \in Int /\ b \in Int /\ c \in Int /\ d \in Int
        /\ Upto(v, i + 1) = a + c /\ Upto(again, i + 1) = b + d
    BY <1>0, <1>1, <1>2, <2>1, <2>5
  <2>7. Sum(L \ First(w, i)) = Sum(L) - a + b
    BY <2>1, <2>5
  <2>8. S \in SUBSET L /\ IsFiniteSet(S) /\ Sum(S) \in Int /\ Sum(L) \in Int
    BY <1>3, <2>2
  <2>9. CASE x \in L \ First(w, i)
    <3>1. p[x] = c /\ d = 0
      BY <1>0, <2>1, <2>3, <2>5, <2>9
    <3>2. L \ First(w, i) = S \cup {x} /\ x \notin S
      BY <2>4, <2>9
    <3>3. \A y \in S \cup {x} : p[y] \in Int
      BY <1>0, <2>8, <2>9
    <3>4. Sum(S \cup {x}) = Sum(S) + p[x]
      BY <2>8, <3>2, <3>3, SumOfMore DEF Sum
    <3>5. Sum(S) + c = Sum(L) - a + b
      BY <2>7, <3>1, <3>2, <3>4
    <3>6. Sum(S) = Sum(L) - (a + c) + (b + d)
      BY <2>6, <2>8, <3>1, <3>5
    <3>. QED
      BY <2>2, <2>6, <3>6
  <2>10. CASE x \notin L \ First(w, i)
    <3>1. d = c
      BY <1>0, <2>1, <2>3, <2>5, <2>10
    <3>2. S = L \ First(w, i)
      BY <2>4, <2>10
    <3>3. Sum(S) = Sum(L) - (a + c) + (b + d)
      BY <2>6, <2>7, <2>8, <3>1, <3>2
    <3>. QED
      BY <2>2, <2>6, <3>3
  <2>. QED
    BY <2>9, <2>10
<1>6. \A i \in Nat : i \in T
  <2>. HIDE DEF T
  <2>. QED
    BY <1>4, <1>5, Uint64Sums!NatSetInduction
<1>7. Holds(m)
  <2>. HIDE DEF Holds
  <2>. QED
    BY <1>0, <1>6
<1>8. IsFiniteSet(L \ First(w, m))
  BY <1>3
<1>. QED
  BY <1>7, <1>8 DEF Sum, SumOfRest

-----------------------------------------------------------------------------
(* What each transaction does to the worth of the database.                *)
PaidBy(txs)  == [k \in DOMAIN txs |-> SumFunction(txs[k].outs)]
Again(txs)   == [k \in DOMAIN txs |-> AgainBy(txs, k)]

Prices(txs, k) == [i \in DOMAIN txs[k].ins |-> Price(txs)[txs[k].ins[i]]]
NamedBy(txs)   == [k \in DOMAIN txs |-> SumFunction(Prices(txs, k))]

LeftWorth(txs, k) == SumFunctionOnSet(Price(txs), Left(txs, k))

LEMMA PriceType ==
    ASSUME NEW txs, NEW n, Connects(txs, n)
    PROVE  \A o \in DOMAIN coins \cup Paid(txs, n) : Price(txs)[o] \in Nat
<1>. SUFFICES ASSUME NEW o \in DOMAIN coins \cup Paid(txs, n) PROVE Price(txs)[o] \in Nat
  OBVIOUS
<1>1. CASE o \in DOMAIN coins
  BY <1>1, OldPrice
<1>2. CASE o \in Paid(txs, n)
  <2>1. PICK j \in 1 .. n : o \in OutpointsOf(txs[j])
    BY <1>2 DEF Paid
  <2>2. txs[j].id = lastId + j
    BY BlockIs
  <2>3. PICK i \in DOMAIN txs[j].outs : o = <<lastId + j, i>>
    BY <2>1, <2>2 DEF OutpointsOf
  <2>4. Price(txs)[<<lastId + j, i>>] = txs[j].outs[i] /\ txs[j].outs[i] \in Nat
    BY NewPrice
  <2>. QED
    BY <2>3, <2>4
<1>. QED
  BY <1>1, <1>2

LEMMA LeftPriced ==
    ASSUME NEW txs, NEW n, Connects(txs, n), NEW k \in 1 .. n
    PROVE  /\ \A o \in Left(txs, k - 1) : Price(txs)[o] \in Int
           /\ \A o \in Left1(txs, k) : Price(txs)[o] \in Int
<1>1. n \in Nat /\ k \in 0 .. n /\ k - 1 \in 0 .. n
  BY BlockIs
<1>2. Paid(txs, k) \subseteq Paid(txs, n) /\ Paid(txs, k - 1) \subseteq Paid(txs, n)
  BY <1>1, PaidGrows
<1>3. Left(txs, k - 1) \subseteq DOMAIN coins \cup Paid(txs, n)
  BY <1>2 DEF Left
<1>4. Left1(txs, k) \subseteq DOMAIN coins \cup Paid(txs, n)
  BY <1>2, <1>3, PaidIs DEF Left1
<1>. QED
  BY <1>3, <1>4, PriceType

LEMMA WorthPaid ==
    ASSUME NEW txs, NEW n, Connects(txs, n), NEW k \in 1 .. n, IsFiniteSet(Left(txs, k - 1))
    PROVE  /\ IsFiniteSet(Left1(txs, k))
           /\ SumFunctionOnSet(Price(txs), Left1(txs, k))
                = LeftWorth(txs, k - 1) + PaidBy(txs)[k]
<1>. DEFINE outs == txs[k].outs
            m == Len(outs)
            w == [i \in 1 .. m |-> <<lastId + k, i>>]
            p == Price(txs)
            L == Left(txs, k - 1)
<1>1. /\ n \in Nat /\ DOMAIN txs = 1 .. n /\ txs[k].id = lastId + k
      /\ m \in Nat /\ DOMAIN outs = 1 .. m
      /\ \A i \in 1 .. m : outs[i] \in Nat
  BY BlockIs
<1>2. First(w, m) = OutpointsOf(txs[k])
  <2>1. First(w, m) = {<<lastId + k, i>> : i \in 1 .. m}
    BY DEF First
  <2>2. OutpointsOf(txs[k]) = {lastId + k} \X (1 .. m)
    BY <1>1 DEF OutpointsOf
  <2>. QED
    BY <2>1, <2>2
<1>3. ASSUME NEW i \in 1 .. m
      PROVE  /\ outs[i] \in Int /\ p[w[i]] = outs[i]
             /\ w[i] \notin L \cup First(w, i - 1)
  <2>1. i \in DOMAIN outs /\ w[i] = <<lastId + k, i>>
    BY <1>1
  <2>2. p[w[i]] = outs[i] /\ outs[i] \in Int
    BY <1>1, <2>1, NewPrice
  <2>3. w[i] \notin L
    <3>1. w[i] \in OutpointsOf(txs[k])
      BY <2>1, NewPrice
    <3>. QED
      BY <3>1, PaidIs DEF Left
  <2>4. w[i] \notin First(w, i - 1)
    <3>1. \A j \in 1 .. i - 1 : j \in 1 .. m /\ j # i
      BY <1>1
    <3>2. \A j \in 1 .. i - 1 : w[j] # w[i]
      BY <3>1
    <3>. QED
      BY <3>2 DEF First
  <2>. QED
    BY <2>2, <2>3, <2>4
<1>4. \A y \in L : p[y] \in Int
  BY LeftPriced
<1>5. PaidBy(txs)[k] = Upto(outs, m)
  BY <1>1, ExactSum DEF PaidBy
<1>. HIDE DEF outs, m, w, p, L
<1>6. /\ IsFiniteSet(L \cup First(w, m))
      /\ SumFunctionOnSet(p, L \cup First(w, m)) = SumFunctionOnSet(p, L) + Upto(outs, m)
  <2>1. Adds(p, L, m, w, outs)
    BY <1>1, <1>3, <1>4 DEF Adds, L
  <2>. QED
    BY <2>1, SumOfAdded
<1>7. L \cup First(w, m) = Left1(txs, k)
  BY <1>2 DEF Left1, L
<1>. QED
  BY <1>5, <1>6, <1>7 DEF LeftWorth, p, L

LEMMA WorthNamed ==
    ASSUME NEW txs, NEW n, Connects(txs, n), NEW k \in 1 .. n, IsFiniteSet(Left1(txs, k))
    PROVE  /\ IsFiniteSet(Left(txs, k))
           /\ LeftWorth(txs, k)
                = SumFunctionOnSet(Price(txs), Left1(txs, k)) - NamedBy(txs)[k] + Again(txs)[k]
<1>. DEFINE w == txs[k].ins
            m == Len(w)
            p == Price(txs)
            L == Left1(txs, k)
            v == Prices(txs, k)
            again == [i \in DOMAIN w |->
                        IF NamedBefore(txs, k, i)
                        THEN ValueFound(SearchUtxo(w[i], txs, Len(txs))) ELSE 0]
<1>1. /\ n \in Nat /\ DOMAIN txs = 1 .. n
      /\ m \in Nat /\ DOMAIN w = 1 .. m
  BY BlockIs
<1>2. First(w, m) = ToSet(w)
  BY <1>1 DEF First, ToSet
<1>3. ASSUME NEW i \in 1 .. m
      PROVE  /\ v[i] \in Int
             /\ IF w[i] \in L \ First(w, i - 1)
                THEN p[w[i]] = v[i] /\ again[i] = 0
                ELSE again[i] = v[i]
  <2>1. /\ i \in DOMAIN w /\ v[i] = p[w[i]]
        /\ again[i] = IF NamedBefore(txs, k, i)
                      THEN ValueFound(SearchUtxo(w[i], txs, Len(txs))) ELSE 0
    BY <1>1 DEF Prices
  <2>2. /\ w[i] \in DOMAIN coins \cup Paid(txs, k - 1)
        /\ p[w[i]] \in Nat
        /\ ValueFound(SearchUtxo(w[i], txs, n)) = p[w[i]]
    BY <2>1, InputFound
  <2>3. n = Len(txs)
    BY DEF Connects
  <2>4. w[i] \in First(w, i - 1) <=> \E j \in 1 .. i - 1 : w[i] = w[j]
    BY DEF First
  <2>5. w[i] \in Named(txs, k - 1) <=> \E j \in 1 .. k - 1 : w[i] \in ToSet(txs[j].ins)
    BY DEF Named
  <2>6. w[i] \notin OutpointsOf(txs[k])
    BY <2>2, PaidIs
  <2>7. w[i] \in L <=> w[i] \notin Named(txs, k - 1)
    BY <2>2, <2>6 DEF Left1, Left
  <2>8. w[i] \in L \ First(w, i - 1) <=> ~ NamedBefore(txs, k, i)
    BY <2>4, <2>5, <2>7 DEF NamedBefore
  <2>. HIDE DEF again, v, p, w, L
  <2>. QED
    BY <2>1, <2>2, <2>3, <2>8
<1>4. \A y \in L : p[y] \in Int
  BY LeftPriced
<1>5. NamedBy(txs)[k] = Upto(v, m)
  <2>1. DOMAIN v = 1 .. m
    BY <1>1 DEF Prices
  <2>. QED
    BY <1>1, <2>1, ExactSum DEF NamedBy
<1>6. Again(txs)[k] = Upto(again, m)
  <2>1. DOMAIN again = 1 .. m
    BY <1>1
  <2>2. AgainBy(txs, k) = SumFunction(again)
    BY Zenon DEF AgainBy
  <2>. HIDE DEF again, m
  <2>. QED
    BY <1>1, <2>1, <2>2, ExactSum DEF Again
<1>. HIDE DEF w, m, p, L, v, again
<1>7. /\ IsFiniteSet(L \ First(w, m))
      /\ SumFunctionOnSet(p, L \ First(w, m))
           = SumFunctionOnSet(p, L) - Upto(v, m) + Upto(again, m)
  <2>1. Takes(p, L, m, w, v, again)
    BY <1>1, <1>3, <1>4 DEF Takes, L
  <2>2. SumOfRest(p, L, m, w, v, again)
    BY <2>1, SumOfTaken
  <2>. QED
    BY <2>2 DEF SumOfRest
<1>8. L \ First(w, m) = Left(txs, k)
  BY <1>2, LeftIs DEF L, w
<1>. QED
  BY <1>5, <1>6, <1>7, <1>8 DEF LeftWorth, p, L

-----------------------------------------------------------------------------
(* What a valid block takes in covers what it pays.                        *)
Wraps(txs)    == [k \in DOMAIN txs |-> SumFunction(txs[k].outs) - SumOutputs(txs[k])]
Residues(txs) == [k \in 1 .. Len(txs) - 1 |-> ComputeTxResidue(txs, k + 1)]
Inputs(txs, k) == SumInputs(txs[k], txs, k - 1)

LEMMA Unwrapped ==
    ASSUME NEW a \in Nat, NEW b \in Nat \ {0}, a < b
    PROVE  a % b = a
<1>1. a = b * (a \div b) + (a % b) /\ a % b \in 0 .. b - 1 /\ a \div b \in Int
  OBVIOUS
<1>. DEFINE q == a \div b  r == a % b
<1>. HIDE DEF q, r
<1>2. q \in Int /\ r \in Int /\ a = b * q + r /\ 0 <= r /\ r < b
  BY <1>1 DEF q, r
<1>3. ~ (q > 0)
  <2>. SUFFICES ASSUME q > 0 PROVE FALSE
    OBVIOUS
  <2>1. b * q >= b
    BY <1>2
  <2>. QED
    BY <1>2, <2>1
<1>4. ~ (q < 0)
  <2>. SUFFICES ASSUME q < 0 PROVE FALSE
    OBVIOUS
  <2>1. b * q <= - b
    BY <1>2
  <2>. QED
    BY <1>2, <2>1
<1>5. q = 0
  BY <1>2, <1>3, <1>4
<1>. QED
  BY <1>2, <1>5 DEF r

LEMMA TxSums ==
    ASSUME NEW txs, NEW n, Connects(txs, n), NEW k \in 1 .. n
    PROVE  /\ PaidBy(txs)[k] \in Int /\ NamedBy(txs)[k] \in Int
           /\ Again(txs)[k] \in Int /\ Wraps(txs)[k] \in Int
           /\ SumOutputs(txs[k]) \in 0 .. Uint64 - 1
           /\ Inputs(txs, k) \in 0 .. Uint64 - 1
           /\ PaidBy(txs)[k] = SumOutputs(txs[k]) + Wraps(txs)[k]
           /\ Inputs(txs, k) <= NamedBy(txs)[k]
<1>. DEFINE outs == txs[k].outs
            m == Len(outs)
            w == txs[k].ins
            l == Len(w)
            v == Prices(txs, k)
            again == [i \in DOMAIN w |->
                        IF NamedBefore(txs, k, i)
                        THEN ValueFound(SearchUtxo(w[i], txs, Len(txs))) ELSE 0]
<1>1. /\ n \in Nat /\ DOMAIN txs = 1 .. n
      /\ m \in Nat /\ DOMAIN outs = 1 .. m /\ \A i \in 1 .. m : outs[i] \in Nat
      /\ l \in Nat /\ DOMAIN w = 1 .. l
  BY BlockIs
<1>2. ASSUME NEW i \in 1 .. l
      PROVE  /\ v[i] \in Nat /\ again[i] \in Int
             /\ v[i] = ValueFound(SearchUtxo(w[i], txs, k - 1))
  <2>1. /\ i \in DOMAIN w /\ v[i] = Price(txs)[w[i]]
        /\ again[i] = IF NamedBefore(txs, k, i)
                      THEN ValueFound(SearchUtxo(w[i], txs, Len(txs))) ELSE 0
    BY <1>1 DEF Prices
  <2>2. PICK o : o = txs[k].ins[i]
    OBVIOUS
  <2>3. PICK x : x = Price(txs)[o]
    OBVIOUS
  <2>4. x \in Nat /\ ValueFound(SearchUtxo(o, txs, n)) = x
    BY <2>1, <2>2, <2>3, InputFound
  <2>5. SearchUtxo(o, txs, k - 1) = {x}
    <3>1. IsSource(txs, k, txs[k].ins[i])
      BY <2>1, InputFound
    <3>. QED
      BY <2>2, <2>3, <3>1, Zenon DEF IsSource
  <2>6. ValueFound({x}) = x
    BY DEF ValueFound
  <2>7. ValueFound(SearchUtxo(o, txs, k - 1)) = x
    BY <2>5, <2>6, Zenon
  <2>8. n = Len(txs) /\ w[i] = o
    BY <2>2 DEF Connects
  <2>. HIDE DEF again, v, w
  <2>9. v[i] = x
    BY <2>1, <2>3, <2>8
  <2>10. again[i] \in Int
    BY <2>1, <2>4, <2>8
  <2>. QED
    BY <2>4, <2>7, <2>8, <2>9, <2>10
<1>3. DOMAIN v = 1 .. l /\ DOMAIN again = 1 .. l
  BY <1>1 DEF Prices
<1>4. Inputs(txs, k) = SumOf(v)
  <2>1. v = [i \in DOMAIN w |-> ValueFound(SearchUtxo(w[i], txs, k - 1))]
    <3>1. v = [i \in DOMAIN w |-> v[i]]
      BY DEF Prices
    <3>2. \A i \in DOMAIN w : v[i] = ValueFound(SearchUtxo(w[i], txs, k - 1))
      BY <1>1, <1>2
    <3>. HIDE DEF v, w
    <3>. QED
      BY <3>1, <3>2
  <2>. QED
    BY <2>1 DEF Inputs, SumInputs
<1>5. /\ PaidBy(txs)[k] = SumFunction(outs)
      /\ NamedBy(txs)[k] = SumFunction(v)
      /\ Again(txs)[k] = SumFunction(again)
      /\ Wraps(txs)[k] = SumFunction(outs) - SumOf(outs)
      /\ SumOutputs(txs[k]) = SumOf(outs)
  <2>1. AgainBy(txs, k) = SumFunction(again)
    BY Zenon DEF AgainBy
  <2>. HIDE DEF again
  <2>. QED
    BY <1>1, <2>1 DEF PaidBy, NamedBy, Again, Wraps, SumOutputs
<1>. HIDE DEF outs, m, w, l, v, again
<1>6. /\ SumFunction(outs) = Upto(outs, m)
      /\ SumFunction(v) = Upto(v, l)
      /\ SumFunction(again) = Upto(again, l)
  BY <1>1, <1>3, ExactSum
<1>7. Upto(outs, m) \in Int
  <2>1. \A i \in 1 .. m : outs[i] \in Int
    BY <1>1
  <2>2. m \in 0 .. m
    BY <1>1
  <2>. QED
    BY <1>1, <2>1, <2>2, UptoNext
<1>8. Upto(v, l) \in Int /\ Upto(again, l) \in Int
  <2>1. \A i \in 1 .. l : v[i] \in Int /\ again[i] \in Int
    BY <1>2
  <2>2. l \in 0 .. l
    BY <1>1
  <2>. QED
    BY <1>1, <2>1, <2>2, UptoNext
<1>9. SumOf(outs) \in 0 .. Uint64 - 1
  BY <1>1, SumWraps
<1>10. SumOf(v) \in 0 .. Uint64 - 1 /\ SumOf(v) <= Upto(v, l)
  BY <1>1, <1>2, <1>3, SumWraps
<1>11. Uint64 \in Nat
  BY LedgerAssumption
<1>. QED
  BY <1>4, <1>5, <1>6, <1>7, <1>8, <1>9, <1>10, <1>11

LEMMA SubsidyType ==
    ASSUME NEW h \in Nat
    PROVE  CoinbaseSubsidy(h) \in Nat
<1>1. PICK e \in Nat : e = h \div HalvingPeriod
  BY LedgerAssumption
<1>2. 2 ^ e \in Nat /\ 2 ^ e > 0
  <2>1. PICK S : S = 1 .. e
    OBVIOUS
  <2>2. IsFiniteSet(S) /\ Cardinality(S) = e
    BY <1>1, <2>1, FS_Interval
  <2>3. IsFiniteSet(SUBSET S) /\ Cardinality(SUBSET S) = 2 ^ e
    BY <2>2, FS_SUBSET
  <2>4. Cardinality(SUBSET S) \in Nat
    BY <2>3, FS_CardinalityType
  <2>5. Cardinality(SUBSET S) # 0
    <3>1. S \in SUBSET S
      OBVIOUS
    <3>2. SUBSET S # {}
      BY <3>1
    <3>. QED
      BY <2>3, <3>2, FS_EmptySet
  <2>. QED
    BY <2>3, <2>4, <2>5
<1>3. PICK d : d = 2 ^ e
  OBVIOUS
<1>4. d \in Nat /\ d > 0
  BY <1>2, <1>3
<1>5. InitialSubsidy \div d \in Nat
  BY <1>4, LedgerAssumption
<1>. QED
  BY <1>1, <1>3, <1>5 DEF CoinbaseSubsidy

LEMMA ResidueIs ==
    ASSUME NEW txs, NEW n, Connects(txs, n), NEW k \in 2 .. n
    PROVE  /\ Residues(txs)[k - 1] \in Nat
           /\ Residues(txs)[k - 1] = Inputs(txs, k) - SumOutputs(txs[k])
<1>. DEFINE in == Inputs(txs, k)  out == SumOutputs(txs[k])
<1>1. n \in Nat /\ n = Len(txs) /\ k \in 1 .. n /\ k - 1 \in 1 .. n - 1 /\ (k - 1) + 1 = k
  BY BlockIs DEF Connects
<1>2. in \in 0 .. Uint64 - 1 /\ out \in 0 .. Uint64 - 1
  BY <1>1, TxSums
<1>3. in >= out
  <2>1. IsNormalTxValid(txs, k)
    BY <1>1 DEF Connects, AllTxValid
  <2>. QED
    BY <1>1, <2>1 DEF IsNormalTxValid, Inputs
<1>4. Residues(txs)[k - 1] = (in - out) % Uint64
  BY <1>1 DEF Residues, ComputeTxResidue, Inputs
<1>. HIDE DEF in, out
<1>5. in - out \in Nat /\ in - out < Uint64 /\ Uint64 \in Nat \ {0}
  BY <1>2, <1>3, LedgerAssumption
<1>6. (in - out) % Uint64 = in - out
  BY <1>5, Unwrapped
<1>. QED
  BY <1>4, <1>5, <1>6 DEF in, out

LEMMA BlockCovers ==
    ASSUME NEW txs, NEW n, Connects(txs, n)
    PROVE  Upto(PaidBy(txs), n) - Upto(NamedBy(txs), n)
             <= CoinbaseSubsidy(height + 1) + Upto(Wraps(txs), n)
<1>. DEFINE in(k)  == Inputs(txs, k)
            out(k) == SumOutputs(txs[k])
            P(k) == Upto(PaidBy(txs), k)
            N(k) == Upto(NamedBy(txs), k)
            W(k) == Upto(Wraps(txs), k)
            R(k) == Upto(Residues(txs), k)
            subsidy == CoinbaseSubsidy(height + 1)
            Covered(k) == P(k) - W(k) - N(k) <= out(1) - in(1) - R(k - 1)
            T == {k \in Nat : k + 1 <= n => Covered(k + 1)}
<1>1. /\ n \in Nat /\ n > 0 /\ DOMAIN txs = 1 .. n /\ n = Len(txs)
      /\ height \in Nat /\ Uint64 \in Nat \ {0}
  BY BlockIs, LedgerAssumption DEF Connects
<1>2. /\ P(0) = 0 /\ N(0) = 0 /\ W(0) = 0 /\ R(0) = 0
      /\ \A k \in 0 .. n : P(k) \in Int /\ N(k) \in Int /\ W(k) \in Int
      /\ \A k \in 1 .. n : /\ P(k) = P(k - 1) + PaidBy(txs)[k]
                           /\ N(k) = N(k - 1) + NamedBy(txs)[k]
                           /\ W(k) = W(k - 1) + Wraps(txs)[k]
  <2>1. /\ \A k \in 1 .. n : PaidBy(txs)[k] \in Int
        /\ \A k \in 1 .. n : NamedBy(txs)[k] \in Int
        /\ \A k \in 1 .. n : Wraps(txs)[k] \in Int
    BY TxSums
  <2>2. Upto(Residues(txs), 0) = 0
    <3>1. 0 \in Nat /\ \A k \in 1 .. 0 : Residues(txs)[k] \in Int
      OBVIOUS
    <3>. QED
      BY <3>1, UptoNext
  <2>3. /\ P(0) = 0
        /\ \A k \in 0 .. n : P(k) \in Int
        /\ \A k \in 1 .. n : P(k) = P(k - 1) + PaidBy(txs)[k]
    BY <1>1, <2>1, UptoNext
  <2>4. /\ N(0) = 0
        /\ \A k \in 0 .. n : N(k) \in Int
        /\ \A k \in 1 .. n : N(k) = N(k - 1) + NamedBy(txs)[k]
    BY <1>1, <2>1, UptoNext
  <2>5. /\ W(0) = 0
        /\ \A k \in 0 .. n : W(k) \in Int
        /\ \A k \in 1 .. n : W(k) = W(k - 1) + Wraps(txs)[k]
    BY <1>1, <2>1, UptoNext
  <2>. HIDE DEF P, N, W
  <2>. QED
    BY <2>2, <2>3, <2>4, <2>5
<1>3. /\ \A k \in 1 .. n - 1 : Residues(txs)[k] \in Nat
      /\ \A k \in 1 .. n - 1 : Residues(txs)[k] = in(k + 1) - out(k + 1)
      /\ \A k \in 0 .. n - 1 : R(k) \in Int
      /\ \A k \in 1 .. n - 1 : R(k) = R(k - 1) + Residues(txs)[k]
  <2>1. ASSUME NEW k \in 1 .. n - 1
        PROVE  Residues(txs)[k] \in Nat /\ Residues(txs)[k] = in(k + 1) - out(k + 1)
    <3>1. PICK j : j = k + 1
      OBVIOUS
    <3>2. j \in 2 .. n /\ j - 1 = k
      BY <1>1, <3>1
    <3>. QED
      BY <3>1, <3>2, ResidueIs
  <2>2. n - 1 \in Nat /\ \A k \in 1 .. n - 1 : Residues(txs)[k] \in Int
    BY <1>1, <2>1
  <2>. QED
    BY <2>1, <2>2, UptoNext
<1>4. \A k \in 1 .. n : /\ PaidBy(txs)[k] \in Int /\ NamedBy(txs)[k] \in Int
                        /\ Wraps(txs)[k] \in Int
                        /\ out(k) \in Int /\ in(k) \in Int
                        /\ PaidBy(txs)[k] = out(k) + Wraps(txs)[k]
                        /\ in(k) <= NamedBy(txs)[k]
  BY TxSums
<1>5. out(1) <= in(1) + subsidy + R(n - 1)
  <2>. DEFINE agg == AggregateResidues(txs)
  <2>1. agg \in Nat /\ agg <= R(n - 1)
    <3>1. agg = SumOf(Residues(txs)) /\ DOMAIN Residues(txs) = 1 .. n - 1 /\ n - 1 \in Nat
      BY <1>1 DEF AggregateResidues, Residues
    <3>2. SumOf(Residues(txs)) \in 0 .. Uint64 - 1 /\ SumOf(Residues(txs)) <= Upto(Residues(txs), n - 1)
      BY <1>3, <3>1, SumWraps
    <3>. QED
      BY <1>1, <3>1, <3>2
  <2>2. in(1) = SumInputs(txs[1], txs, 0)
    BY DEF Inputs
  <2>3. (in(1) + subsidy + agg) % Uint64 >= out(1)
    BY <2>2 DEF Connects, AllTxValid, IsInitialTxValid
  <2>4. subsidy \in Nat
    BY <1>1, SubsidyType
  <2>5. in(1) \in Nat /\ out(1) \in Nat
    <3>1. 1 \in 1 .. n
      BY <1>1
    <3>. QED
      BY <1>1, <3>1, TxSums
  <2>6. R(n - 1) \in Int
    <3>1. n - 1 \in 0 .. n - 1
      BY <1>1
    <3>. QED
      BY <1>3, <3>1
  <2>7. PICK i, o, r : i = in(1) /\ o = out(1) /\ r = R(n - 1)
    OBVIOUS
  <2>. HIDE DEF in, out, R, subsidy, agg
  <2>8. PICK t \in Nat : t = i + subsidy + agg
    BY <2>1, <2>4, <2>5, <2>7
  <2>9. t % Uint64 <= t /\ t % Uint64 \in Int
    <3>1. PICK U \in Nat \ {0} : U = Uint64
      BY <1>1
    <3>2. t % U \in 0 .. U - 1 /\ t % U <= t
      BY Remainder
    <3>. QED
      BY <3>1, <3>2
  <2>10. t % Uint64 >= o
    BY <2>3, <2>7, <2>8
  <2>11. o <= t
    BY <2>5, <2>7, <2>8, <2>9, <2>10
  <2>. QED
    BY <2>1, <2>4, <2>5, <2>6, <2>7, <2>8, <2>11
<1>. HIDE DEF in, out, P, N, W, R, subsidy
<1>6. 0 \in T
  <2>1. PICK p, w, m, o, i : /\ p = PaidBy(txs)[1] /\ w = Wraps(txs)[1] /\ m = NamedBy(txs)[1]
                             /\ o = out(1) /\ i = in(1)
    OBVIOUS
  <2>2. 1 \in 1 .. n /\ 1 - 1 = 0
    BY <1>1
  <2>3. /\ p \in Int /\ w \in Int /\ m \in Int /\ o \in Int /\ i \in Int
        /\ p = o + w /\ i <= m
    BY <1>4, <2>1, <2>2
  <2>4. P(1) = p /\ W(1) = w /\ N(1) = m
    <3>1. P(1) = P(1 - 1) + p /\ W(1) = W(1 - 1) + w /\ N(1) = N(1 - 1) + m
      BY <1>2, <2>1, <2>2
    <3>2. P(1 - 1) = 0 /\ W(1 - 1) = 0 /\ N(1 - 1) = 0
      BY <1>2, <2>2
    <3>. QED
      BY <2>3, <3>1, <3>2
  <2>5. p - w - m <= o - i - 0
    BY <2>3
  <2>6. Covered(1)
    BY <1>2, <2>1, <2>4, <2>5
  <2>. QED
    BY <2>6
<1>7. ASSUME NEW k \in Nat, k \in T
      PROVE  k + 1 \in T
  <2>. SUFFICES ASSUME k + 2 <= n PROVE Covered(k + 2)
    OBVIOUS
  <2>1. /\ k + 2 \in 1 .. n /\ k + 1 \in 0 .. n /\ k + 1 \in 1 .. n - 1 /\ k \in 0 .. n - 1
        /\ (k + 2) - 1 = k + 1 /\ (k + 1) - 1 = k /\ (k + 1) + 1 = k + 2 /\ 1 \in 1 .. n
    BY <1>1
  <2>2. Covered(k + 1)
    BY <1>1, <1>7
  <2>3. PICK p, w, m, o, i, o1, i1 :
             /\ p = PaidBy(txs)[k + 2] /\ w = Wraps(txs)[k + 2] /\ m = NamedBy(txs)[k + 2]
             /\ o = out(k + 2) /\ i = in(k + 2) /\ o1 = out(1) /\ i1 = in(1)
    OBVIOUS
  <2>4. PICK a, b, c, r : a = P(k + 1) /\ b = W(k + 1) /\ c = N(k + 1) /\ r = R(k)
    OBVIOUS
  <2>5. /\ p \in Int /\ w \in Int /\ m \in Int /\ o \in Int /\ i \in Int
        /\ o1 \in Int /\ i1 \in Int
        /\ p = o + w /\ i <= m
    BY <1>4, <2>1, <2>3
  <2>6. a \in Int /\ b \in Int /\ c \in Int /\ r \in Int
    BY <1>2, <1>3, <2>1, <2>4
  <2>7. P(k + 2) = a + p /\ W(k + 2) = b + w /\ N(k + 2) = c + m
    BY <1>2, <2>1, <2>3, <2>4
  <2>8. R(k + 1) = r + (i - o)
    BY <1>3, <2>1, <2>3, <2>4
  <2>9. a - b - c <= o1 - i1 - r
    BY <2>1, <2>2, <2>3, <2>4
  <2>10. (a + p) - (b + w) - (c + m) <= o1 - i1 - (r + (i - o))
    BY <2>5, <2>6, <2>9
  <2>. QED
    BY <2>1, <2>3, <2>7, <2>8, <2>10
<1>8. \A k \in Nat : k \in T
  <2>. HIDE DEF T
  <2>. QED
    BY <1>6, <1>7, Uint64Sums!NatSetInduction
<1>9. Covered(n)
  <2>1. n - 1 \in Nat /\ (n - 1) + 1 = n
    BY <1>1
  <2>2. n - 1 \in T
    BY <1>8, <2>1
  <2>. HIDE DEF Covered
  <2>. QED
    BY <1>1, <2>1, <2>2
<1>10. subsidy \in Int
  BY <1>1, SubsidyType DEF subsidy
<1>11. /\ P(n) \in Int /\ N(n) \in Int /\ W(n) \in Int /\ R(n - 1) \in Int
       /\ out(1) \in Int /\ in(1) \in Int
  BY <1>1, <1>2, <1>3, <1>4
<1>12. P(n) - N(n) <= subsidy + W(n)
  BY <1>5, <1>9, <1>10, <1>11
<1>. QED
  BY <1>12 DEF P, N, W, subsidy

-----------------------------------------------------------------------------
(* The worth of the database after each transaction of a block.            *)
LEMMA CoinsWorth ==
    ASSUME NEW txs, NEW n, Connects(txs, n)
    PROVE  /\ IsFiniteSet(Left(txs, 0))
           /\ LeftWorth(txs, 0) = Worth(coins)
           /\ Worth(coins) \in Int
<1>1. IsFiniteSet(DOMAIN coins) /\ \A o \in DOMAIN coins : Price(txs)[o] = coins[o]
  BY OldPrice DEF Connects, LedgerTypeOK
<1>2. \A o \in DOMAIN coins : coins[o] \in Int
  BY DEF Connects, LedgerTypeOK
<1>3. SumFunctionOnSet(Price(txs), DOMAIN coins) = SumFunctionOnSet(coins, DOMAIN coins)
  BY <1>1, SumsAgree
<1>4. SumFunctionOnSet(coins, DOMAIN coins) \in Int
  BY <1>1, <1>2, SumType
<1>5. Worth(coins) = SumFunctionOnSet(coins, DOMAIN coins)
  BY DEF Worth, SumFunction
<1>6. Left(txs, 0) = DOMAIN coins
  BY LeftStart
<1>. QED
  BY <1>1, <1>3, <1>4, <1>5, <1>6 DEF LeftWorth

LEMMA LeftWorthIs ==
    ASSUME NEW txs, NEW n, Connects(txs, n)
    PROVE  /\ IsFiniteSet(Left(txs, n))
           /\ LeftWorth(txs, n)
                = Worth(coins) + Upto(PaidBy(txs), n) - Upto(NamedBy(txs), n)
                    + Upto(Again(txs), n)
<1>. DEFINE Sum(k) == LeftWorth(txs, k)
            P(k) == Upto(PaidBy(txs), k)
            N(k) == Upto(NamedBy(txs), k)
            A(k) == Upto(Again(txs), k)
            before == Worth(coins)
            Holds(k) == IsFiniteSet(Left(txs, k)) /\ Sum(k) = before + P(k) - N(k) + A(k)
            T == {k \in Nat : k <= n => Holds(k)}
<1>1. n \in Nat
  BY BlockIs
<1>2. /\ P(0) = 0 /\ N(0) = 0 /\ A(0) = 0
      /\ \A k \in 0 .. n : P(k) \in Int /\ N(k) \in Int /\ A(k) \in Int
      /\ \A k \in 1 .. n : /\ P(k) = P(k - 1) + PaidBy(txs)[k]
                           /\ N(k) = N(k - 1) + NamedBy(txs)[k]
                           /\ A(k) = A(k - 1) + Again(txs)[k]
  <2>1. /\ \A k \in 1 .. n : PaidBy(txs)[k] \in Int
        /\ \A k \in 1 .. n : NamedBy(txs)[k] \in Int
        /\ \A k \in 1 .. n : Again(txs)[k] \in Int
    BY TxSums
  <2>2. /\ P(0) = 0
        /\ \A k \in 0 .. n : P(k) \in Int
        /\ \A k \in 1 .. n : P(k) = P(k - 1) + PaidBy(txs)[k]
    BY <1>1, <2>1, UptoNext
  <2>3. /\ N(0) = 0
        /\ \A k \in 0 .. n : N(k) \in Int
        /\ \A k \in 1 .. n : N(k) = N(k - 1) + NamedBy(txs)[k]
    BY <1>1, <2>1, UptoNext
  <2>4. /\ A(0) = 0
        /\ \A k \in 0 .. n : A(k) \in Int
        /\ \A k \in 1 .. n : A(k) = A(k - 1) + Again(txs)[k]
    BY <1>1, <2>1, UptoNext
  <2>. HIDE DEF P, N, A
  <2>. QED
    BY <2>2, <2>3, <2>4
<1>3. /\ IsFiniteSet(Left(txs, 0)) /\ Sum(0) = before /\ before \in Int
  BY CoinsWorth
<1>4. ASSUME NEW k \in 1 .. n, IsFiniteSet(Left(txs, k - 1))
      PROVE  /\ IsFiniteSet(Left(txs, k))
             /\ Sum(k) = (Sum(k - 1) + PaidBy(txs)[k]) - NamedBy(txs)[k] + Again(txs)[k]
  <2>1. /\ IsFiniteSet(Left1(txs, k))
        /\ SumFunctionOnSet(Price(txs), Left1(txs, k)) = Sum(k - 1) + PaidBy(txs)[k]
    BY <1>4, WorthPaid
  <2>2. /\ IsFiniteSet(Left(txs, k))
        /\ Sum(k) = SumFunctionOnSet(Price(txs), Left1(txs, k)) - NamedBy(txs)[k] + Again(txs)[k]
    BY <2>1, WorthNamed
  <2>. HIDE DEF Sum
  <2>. QED
    BY <2>1, <2>2
<1>. HIDE DEF Sum, P, N, A, before
<1>5. 0 \in T
  <2>1. Holds(0)
    BY <1>2, <1>3
  <2>. QED
    BY <2>1
<1>6. ASSUME NEW i \in Nat, i \in T
      PROVE  i + 1 \in T
  <2>. SUFFICES ASSUME i + 1 <= n PROVE Holds(i + 1)
    OBVIOUS
  <2>1. i + 1 \in 1 .. n /\ i \in 0 .. n /\ (i + 1) - 1 = i
    BY <1>1
  <2>2. Holds(i)
    BY <1>1, <1>6
  <2>3. PICK a, b, c, d, e, f : /\ a = P(i) /\ b = N(i) /\ c = A(i)
                                /\ d = PaidBy(txs)[i + 1] /\ e = NamedBy(txs)[i + 1]
                                /\ f = Again(txs)[i + 1]
    OBVIOUS
  <2>4. a \in Int /\ b \in Int /\ c \in Int
    BY <1>2, <2>1, <2>3
  <2>5. d \in Int /\ e \in Int /\ f \in Int
    BY <2>1, <2>3, TxSums
  <2>6. P(i + 1) = a + d /\ N(i + 1) = b + e /\ A(i + 1) = c + f
    BY <1>2, <2>1, <2>3
  <2>7. IsFiniteSet(Left(txs, i + 1)) /\ Sum(i + 1) = (Sum(i) + d) - e + f
    BY <1>4, <2>1, <2>2, <2>3
  <2>8. Sum(i) = before + a - b + c
    BY <2>2, <2>3
  <2>9. Sum(i + 1) = before + (a + d) - (b + e) + (c + f)
    BY <1>3, <2>4, <2>5, <2>7, <2>8
  <2>. QED
    BY <2>6, <2>7, <2>9
<1>7. \A k \in Nat : k \in T
  <2>. HIDE DEF T
  <2>. QED
    BY <1>5, <1>6, Uint64Sums!NatSetInduction
<1>8. Holds(n)
  <2>. HIDE DEF Holds
  <2>. QED
    BY <1>1, <1>7
<1>. QED
  BY <1>8 DEF Sum, P, N, A, before

(* What a block makes of the database: not worth more than the subsidy,    *)
(* what it names again and what its outputs wrap account for.              *)
LEMMA BlockConserves ==
    ASSUME NEW txs, NEW n, Connects(txs, n)
    PROVE  LET new == FoldLeft(RegisterCoins, coins, txs)
           IN  /\ IsFiniteSet(DOMAIN new)
               /\ new \in [DOMAIN new -> Nat]
               /\ \A o \in DOMAIN new : o \in Outpoints /\ o[1] <= lastId + n
               /\ Worth(new) <= Worth(coins) + CoinbaseSubsidy(height + 1)
                                   + NamedAgain(txs) + WrappedOutputs(txs)
               /\ Worth(new) \in Int /\ Worth(coins) \in Int
               /\ CoinbaseSubsidy(height + 1) \in Int
               /\ NamedAgain(txs) \in Int /\ WrappedOutputs(txs) \in Int
<1>. DEFINE new == FoldLeft(RegisterCoins, coins, txs)
<1>1. /\ n \in Nat /\ n > 0 /\ DOMAIN txs = 1 .. n /\ n = Len(txs)
      /\ height \in Nat /\ lastId \in Nat
  BY BlockIs DEF Connects
<1>2. new = [o \in Left(txs, n) |-> Price(txs)[o]]
  BY DatabaseIs
<1>. HIDE DEF new
<1>3. DOMAIN new = Left(txs, n) /\ \A o \in Left(txs, n) : new[o] = Price(txs)[o]
  BY <1>2
<1>4. IsFiniteSet(Left(txs, n))
  BY LeftWorthIs
<1>5. Left(txs, n) \subseteq DOMAIN coins \cup Paid(txs, n)
  BY DEF Left
<1>6. new \in [DOMAIN new -> Nat]
  <2>1. \A o \in Left(txs, n) : Price(txs)[o] \in Nat
    BY <1>5, PriceType
  <2>. QED
    BY <1>2, <2>1
<1>7. ASSUME NEW o \in DOMAIN new
      PROVE  o \in Outpoints /\ o[1] <= lastId + n
  <2>1. CASE o \in DOMAIN coins
    <3>1. o \in Outpoints /\ o[1] <= lastId
      BY <2>1 DEF Connects, LedgerTypeOK
    <3>2. o[1] \in Nat
      BY <3>1 DEF Outpoints
    <3>. QED
      BY <1>1, <3>1, <3>2
  <2>2. CASE o \in Paid(txs, n)
    <3>1. PICK j \in 1 .. n : o \in OutpointsOf(txs[j])
      BY <2>2 DEF Paid
    <3>2. txs[j].id = lastId + j /\ DOMAIN txs[j].outs \subseteq Nat
      BY BlockIs
    <3>3. PICK i \in Nat : o = <<lastId + j, i>>
      BY <3>1, <3>2 DEF OutpointsOf
    <3>. QED
      BY <1>1, <3>3 DEF Outpoints
  <2>. QED
    BY <1>3, <1>5, <2>1, <2>2
<1>8. Worth(new) = LeftWorth(txs, n)
  <2>1. Worth(new) = SumFunctionOnSet(new, Left(txs, n))
    BY <1>3 DEF Worth, SumFunction
  <2>2. SumFunctionOnSet(new, Left(txs, n)) = SumFunctionOnSet(Price(txs), Left(txs, n))
    BY <1>3, <1>4, SumsAgree
  <2>. QED
    BY <2>1, <2>2 DEF LeftWorth
<1>9. NamedAgain(txs) = Upto(Again(txs), n) /\ WrappedOutputs(txs) = Upto(Wraps(txs), n)
  <2>1. NamedAgain(txs) = SumFunction(Again(txs)) /\ WrappedOutputs(txs) = SumFunction(Wraps(txs))
    BY DEF NamedAgain, Again, WrappedOutputs, Wraps
  <2>2. DOMAIN Again(txs) = 1 .. n /\ DOMAIN Wraps(txs) = 1 .. n
    BY <1>1 DEF Again, Wraps
  <2>. QED
    BY <1>1, <2>1, <2>2, ExactSum
<1>10. PICK p, m, a, w, s, before :
          /\ p = Upto(PaidBy(txs), n) /\ m = Upto(NamedBy(txs), n)
          /\ a = Upto(Again(txs), n) /\ w = Upto(Wraps(txs), n)
          /\ s = CoinbaseSubsidy(height + 1) /\ before = Worth(coins)
  OBVIOUS
<1>11. p \in Int /\ m \in Int /\ a \in Int /\ w \in Int
  <2>1. /\ \A k \in 1 .. n : PaidBy(txs)[k] \in Int
        /\ \A k \in 1 .. n : NamedBy(txs)[k] \in Int
        /\ \A k \in 1 .. n : Again(txs)[k] \in Int
        /\ \A k \in 1 .. n : Wraps(txs)[k] \in Int
    BY TxSums
  <2>2. n \in 0 .. n
    BY <1>1
  <2>. QED
    BY <1>1, <1>10, <2>1, <2>2, UptoNext
<1>12. s \in Int /\ before \in Int
  <2>1. height + 1 \in Nat
    BY <1>1
  <2>2. CoinbaseSubsidy(height + 1) \in Nat
    BY <2>1, SubsidyType
  <2>. QED
    BY <1>10, <2>2, CoinsWorth
<1>13. Worth(new) = before + p - m + a
  BY <1>8, <1>10, LeftWorthIs
<1>14. p - m <= s + w
  BY <1>10, BlockCovers
<1>15. /\ before + p - m + a <= before + s + a + w
       /\ before + p - m + a \in Int
  BY <1>11, <1>12, <1>14
<1>. QED
  BY <1>3, <1>4, <1>6, <1>7, <1>9, <1>10, <1>11, <1>12, <1>13, <1>15 DEF new

-----------------------------------------------------------------------------
LInv == LedgerTypeOK /\ MoneyConserved

LEMMA LedgerStarts == LedgerInit => LInv
<1>. SUFFICES ASSUME LedgerInit PROVE LInv
  OBVIOUS
<1>1. PICK s \in Nat : s = CoinbaseSubsidy(0)
  BY SubsidyType
<1>2. PICK o : o = <<1, 1>>
  OBVIOUS
<1>3. coins = [x \in {o} |-> s]
  BY <1>1, <1>2 DEF LedgerInit
<1>4. DOMAIN coins = {o} /\ coins[o] = s
  BY <1>3
<1>5. PICK S : S = {}
  OBVIOUS
<1>6. IsFiniteSet(S) /\ o \notin S /\ S \cup {o} = {o} /\ \A y \in S \cup {o} : coins[y] \in Int
  BY <1>1, <1>4, <1>5, FS_EmptySet
<1>7. SumFunctionOnSet(coins, S \cup {o}) = SumFunctionOnSet(coins, S) + coins[o]
  BY <1>6, SumOfMore
<1>8. SumFunctionOnSet(coins, S) = 0
  BY <1>5, SumOfNone
<1>9. Worth(coins) = s
  BY <1>1, <1>4, <1>6, <1>7, <1>8 DEF Worth, SumFunction
<1>10. IsFiniteSet({o})
  BY FS_Singleton
<1>11. LedgerTypeOK
  <2>1. o \in Outpoints /\ o[1] <= 1
    BY <1>2 DEF Outpoints
  <2>. QED
    BY <1>1, <1>3, <1>4, <1>10, <2>1 DEF LedgerInit, LedgerTypeOK
<1>12. MoneyConserved
  BY <1>1, <1>9 DEF LedgerInit, MoneyConserved
<1>. QED
  BY <1>11, <1>12 DEF LInv

LEMMA BlockKeeps ==
    ASSUME LInv, NEW txs \in Blocks, ConnectBlock(txs)
    PROVE  LInv'
<1>1. PICK n : n = Len(txs)
  OBVIOUS
<1>2. Connects(txs, n)
  BY <1>1 DEF Connects, LInv, ConnectBlock
<1>3. PICK new : new = FoldLeft(RegisterCoins, coins, txs)
  OBVIOUS
<1>4. PICK s, a, w : /\ s = CoinbaseSubsidy(height + 1) /\ a = NamedAgain(txs)
                     /\ w = WrappedOutputs(txs)
  OBVIOUS
<1>5. /\ IsFiniteSet(DOMAIN new)
      /\ new \in [DOMAIN new -> Nat]
      /\ \A o \in DOMAIN new : o \in Outpoints /\ o[1] <= lastId + n
      /\ Worth(new) <= Worth(coins) + s + a + w
      /\ Worth(new) \in Int /\ Worth(coins) \in Int
      /\ s \in Int /\ a \in Int /\ w \in Int
  BY <1>2, <1>3, <1>4, BlockConserves
<1>6. /\ coins' = new /\ height' = height + 1 /\ lastId' = lastId + n
      /\ issued' = issued + s /\ respent' = respent + a /\ wrapped' = wrapped + w
  BY <1>1, <1>3, <1>4 DEF ConnectBlock
<1>7. /\ height \in Nat /\ lastId \in Nat /\ issued \in Int /\ respent \in Int
      /\ wrapped \in Int /\ n \in Nat
  BY <1>2, BlockIs DEF LInv, LedgerTypeOK
<1>8. LedgerTypeOK'
  BY <1>5, <1>6, <1>7 DEF LedgerTypeOK
<1>9. Worth(coins) <= issued + respent + wrapped
  BY DEF LInv, MoneyConserved
<1>10. PICK before, after : before = Worth(coins) /\ after = Worth(new)
  OBVIOUS
<1>11. after <= (issued + s) + (respent + a) + (wrapped + w)
  BY <1>5, <1>7, <1>9, <1>10
<1>12. Worth(coins)' = after
  BY <1>6, <1>10 DEF Worth
<1>13. MoneyConserved'
  BY <1>6, <1>11, <1>12 DEF MoneyConserved
<1>. QED
  BY <1>8, <1>13 DEF LInv

(* No chain of blocks makes money from nothing, however many transactions  *)
(* they have, whatever these name and pay, and however wide a word is      *)
(* (blockchain.c:104-222, 469-508).                                        *)
THEOREM MoneyIsConserved == LedgerSpec => []MoneyConserved
<1>1. LInv /\ [LedgerNext]_ledgerVars => LInv'
  <2>. SUFFICES ASSUME LInv, [LedgerNext]_ledgerVars PROVE LInv'
    OBVIOUS
  <2>1. CASE LedgerNext
    BY <2>1, BlockKeeps DEF LedgerNext
  <2>2. CASE UNCHANGED ledgerVars
    BY <2>2 DEF LInv, LedgerTypeOK, MoneyConserved, Worth, ledgerVars
  <2>. QED
    BY <2>1, <2>2
<1>2. LInv => MoneyConserved
  BY DEF LInv
<1>. QED
  BY <1>1, <1>2, LedgerStarts, PTL DEF LedgerSpec

-----------------------------------------------------------------------------
(* The blocks of a run.                                                    *)
TxsSoFar(txs) ==
    /\ txs \in Seq([id : Nat, ins : Seq(Outpoints), outs : Seq(Values)])
    /\ \A k \in DOMAIN txs : txs[k].id = Id(k)

PaidSoFar(txs) == UNION {OutpointsOf(txs[j]) : j \in DOMAIN txs}
OwnOutput(txs) == <<Id(Len(txs) + 1), 1>>

LEMMA SpendableType ==
    ASSUME LedgerTypeOK, NEW txs, TxsSoFar(txs)
    PROVE  Spendable(txs) \subseteq Outpoints
<1>. DEFINE Tx == [id : Nat, ins : Seq(Outpoints), outs : Seq(Values)]
<1>1. DOMAIN coins \subseteq Outpoints /\ lastId \in Nat
  BY DEF LedgerTypeOK
<1>2. ASSUME NEW j \in DOMAIN txs
      PROVE  OutpointsOf(txs[j]) \subseteq Outpoints
  <2>1. txs[j] \in Tx
    <3>1. txs \in Seq(Tx)
      BY DEF TxsSoFar
    <3>. HIDE DEF Tx
    <3>. QED
      BY <3>1
  <2>2. PICK outs \in Seq(Values) : outs = txs[j].outs
    BY <2>1
  <2>3. DOMAIN outs \subseteq Nat /\ txs[j].id \in Nat
    BY <2>1
  <2>. QED
    BY <2>2, <2>3 DEF OutpointsOf, Outpoints
<1>3. Len(txs) \in Nat
  <2>1. txs \in Seq(Tx)
    BY DEF TxsSoFar
  <2>. HIDE DEF Tx
  <2>. QED
    BY <2>1
<1>4. <<Id(Len(txs) + 1), 1>> \in Outpoints
  BY <1>1, <1>3 DEF Id, Outpoints
<1>5. UNION {OutpointsOf(txs[j]) : j \in DOMAIN txs} \subseteq Outpoints
  BY <1>2, Zenon
<1>6. Spendable(txs) = DOMAIN coins \cup PaidSoFar(txs) \cup {OwnOutput(txs)}
  BY DEF Spendable, PaidSoFar, OwnOutput
<1>7. PaidSoFar(txs) \subseteq Outpoints /\ OwnOutput(txs) \in Outpoints
  BY <1>4, <1>5 DEF PaidSoFar, OwnOutput
<1>. QED
  BY <1>1, <1>6, <1>7

LEMMA ExtendedType ==
    ASSUME LedgerTypeOK, NEW txs, TxsSoFar(txs), NEW more \in Extended(txs)
    PROVE  TxsSoFar(more) /\ more # << >>
<1>. DEFINE Tx == [id : Nat, ins : Seq(Outpoints), outs : Seq(Values)]
<1>1. PICK outs \in Payments, ins \in IF txs = << >> THEN {<< >>} ELSE InputLists(txs) :
          more = Append(txs, [id |-> Id(Len(txs) + 1), outs |-> outs, ins |-> ins])
  BY DEF Extended
<1>2. ins \in Seq(Outpoints)
  <2>1. CASE txs = << >>
    BY <1>1, <2>1
  <2>2. CASE txs # << >>
    <3>1. PICK S : S = Spendable(txs)
      OBVIOUS
    <3>2. S \subseteq Outpoints
      BY <3>1, SpendableType
    <3>3. (\E o \in S : ins = <<o>>) \/ ins \in S \X S
      BY <1>1, <2>2, <3>1 DEF InputLists
    <3>4. CASE \E o \in S : ins = <<o>>
      BY <3>2, <3>4
    <3>5. CASE ins \in S \X S
      <4>1. PICK a \in S, b \in S : ins = <<a, b>>
        BY <3>5
      <4>. QED
        BY <3>2, <4>1
    <3>. QED
      BY <3>3, <3>4, <3>5
  <2>. QED
    BY <2>1, <2>2
<1>3. outs \in Seq(Values)
  BY <1>1, PaymentsAssumption
<1>4. txs \in Seq(Tx) /\ \A k \in DOMAIN txs : txs[k].id = Id(k)
  BY DEF TxsSoFar
<1>5. PICK tx : tx = [id |-> Id(Len(txs) + 1), outs |-> outs, ins |-> ins]
  OBVIOUS
<1>6. Len(txs) \in Nat
  <2>. HIDE DEF Tx
  <2>. QED
    BY <1>4
<1>7. tx \in Tx /\ tx.id = Id(Len(txs) + 1)
  BY <1>2, <1>3, <1>5, <1>6 DEF LedgerTypeOK, Id
<1>. HIDE DEF Tx
<1>8. more \in Seq(Tx) /\ more # << >>
  BY <1>1, <1>4, <1>5, <1>7
<1>9. ASSUME NEW k \in DOMAIN more
      PROVE  more[k].id = Id(k)
  <2>1. more = Append(txs, tx)
    BY <1>1, <1>5
  <2>2. CASE k = Len(txs) + 1
    BY <1>4, <1>7, <2>1, <2>2
  <2>3. CASE k # Len(txs) + 1
    <3>1. k \in DOMAIN txs /\ more[k] = txs[k]
      BY <1>4, <1>7, <2>1, <2>3
    <3>. QED
      BY <1>4, <3>1
  <2>. QED
    BY <2>2, <2>3
<1>. QED
  BY <1>8, <1>9 DEF TxsSoFar, Tx

(* What a run receives is among the blocks of the theorem.                 *)
LEMMA ReceivedIsBlock == LedgerTypeOK /\ ReceiveBlock => LedgerNext
<1>. SUFFICES ASSUME LedgerTypeOK, ReceiveBlock PROVE LedgerNext
  OBVIOUS
<1>1. TxsSoFar(<< >>)
  BY DEF TxsSoFar
<1>2. ASSUME NEW txs, TxsSoFar(txs), txs # << >>
      PROVE  txs \in Blocks
  BY <1>2 DEF TxsSoFar, Blocks
<1>3. PICK one \in Extended(<< >>) :
        \/ ConnectBlock(one)
        \/ \E two \in Extended(one) :
              \/ ConnectBlock(two)
              \/ \E three \in Extended(two) : ConnectBlock(three)
  BY DEF ReceiveBlock
<1>4. TxsSoFar(one) /\ one # << >>
  BY <1>1, <1>3, ExtendedType
<1>5. \A two \in Extended(one) : TxsSoFar(two) /\ two # << >>
  BY <1>4, ExtendedType
<1>6. \A two \in Extended(one) : \A three \in Extended(two) : TxsSoFar(three) /\ three # << >>
  BY <1>5, ExtendedType
<1>. QED
  BY <1>2, <1>3, <1>4, <1>5, <1>6 DEF LedgerNext

(* Nor do the blocks of a run (blockchain.c:104-222, 469-508).             *)
THEOREM ReceivedConserves ==
    LedgerInit /\ [][ReceiveBlock]_ledgerVars => []MoneyConserved
<1>1. LInv /\ [ReceiveBlock]_ledgerVars => LInv'
  <2>. SUFFICES ASSUME LInv, [ReceiveBlock]_ledgerVars PROVE LInv'
    OBVIOUS
  <2>1. CASE ReceiveBlock
    BY <2>1, ReceivedIsBlock, BlockKeeps DEF LInv, LedgerNext
  <2>2. CASE UNCHANGED ledgerVars
    BY <2>2 DEF LInv, LedgerTypeOK, MoneyConserved, Worth, ledgerVars
  <2>. QED
    BY <2>1, <2>2
<1>2. LInv => MoneyConserved
  BY DEF LInv
<1>. QED
  BY <1>1, <1>2, LedgerStarts, PTL

-----------------------------------------------------------------------------
(* Branches.                                                               *)

Marks  == {"taken", "not taken", "else", "endif"}
States == {"executing", "skipping"}

BranchTypeOK ==
    /\ structure \in Seq(Marks)
    /\ branchStack \in Seq(States)

(* What one mark more changes: every depth of a branch by what it opens or *)
(* closes, and nothing of what came before.                                *)
Opens(mark) == mark \in {"taken", "not taken"}

Changes(mark) == IF Opens(mark) THEN 1 ELSE IF mark = "endif" THEN -1 ELSE 0

Marked(mark, n) ==
    /\ BranchTypeOK
    /\ n \in Nat /\ n = Len(structure)
    /\ mark \in Marks
    /\ structure' = Append(structure, mark)

LEMMA MarkedIs ==
    ASSUME NEW mark, NEW n, Marked(mark, n)
    PROVE  /\ n \in Nat
           /\ n = Len(structure)
           /\ Len(structure') = n + 1
           /\ structure'[n + 1] = mark
           /\ \A m \in 1 .. n : structure'[m] = structure[m]
           /\ structure' \in Seq(Marks)
  BY DEF Marked, BranchTypeOK

LEMMA CountIs ==
    ASSUME NEW j \in Int, NEW k \in Int, NEW S \in SUBSET (j .. k)
    PROVE  IsFiniteSet(S) /\ Cardinality(S) \in Nat
<1>1. IsFiniteSet(j .. k)
  BY FS_Interval
<1>. QED
  BY <1>1, FS_Subset, FS_CardinalityType

LEMMA DepthType ==
    ASSUME NEW j \in Int, NEW k \in Int
    PROVE  Depth(j, k) \in Int
<1>. DEFINE opened == {m \in j .. k : IsOpening(m)}
            closed == {m \in j .. k : structure[m] = "endif"}
<1>1. Depth(j, k) = Cardinality(opened) - Cardinality(closed)
  BY DEF Depth
<1>2. opened \in SUBSET (j .. k) /\ closed \in SUBSET (j .. k)
  OBVIOUS
<1>. HIDE DEF opened, closed
<1>3. Cardinality(opened) \in Nat /\ Cardinality(closed) \in Nat
  BY <1>2, CountIs
<1>. QED
  BY <1>1, <1>3

LEMMA DepthStays ==
    ASSUME NEW mark, NEW n, Marked(mark, n), NEW j \in Nat, j > 0, NEW k \in Int, k <= n
    PROVE  Depth(j, k)' = Depth(j, k)
<1>1. \A m \in j .. k : structure'[m] = structure[m]
  BY MarkedIs
<1>2. {m \in j .. k : IsOpening(m)}' = {m \in j .. k : IsOpening(m)}
  BY <1>1 DEF IsOpening
<1>3. {m \in j .. k : structure'[m] = "endif"} = {m \in j .. k : structure[m] = "endif"}
  BY <1>1
<1>. QED
  BY <1>2, <1>3 DEF Depth

LEMMA DepthChanges ==
    ASSUME NEW mark, NEW n, Marked(mark, n), NEW j \in 1 .. n + 1
    PROVE  /\ Depth(j, n + 1)' = Depth(j, n) + Changes(mark)
           /\ Depth(j, n) \in Int
           /\ j = n + 1 => Depth(j, n) = 0
<1>. DEFINE opened == {m \in j .. n : IsOpening(m)}
            closed == {m \in j .. n : structure[m] = "endif"}
            opened1 == {m \in j .. n + 1 : structure'[m] \in {"taken", "not taken"}}
            closed1 == {m \in j .. n + 1 : structure'[m] = "endif"}
<1>1. n \in Nat /\ structure'[n + 1] = mark /\ \A m \in j .. n : structure'[m] = structure[m]
  BY MarkedIs
<1>2. n + 1 \notin opened /\ n + 1 \notin closed
  BY <1>1
<1>3. opened1 = IF Opens(mark) THEN opened \cup {n + 1} ELSE opened
  <2>1. \A m \in j .. n : IsOpening(m) <=> structure'[m] \in {"taken", "not taken"}
    BY <1>1 DEF IsOpening
  <2>2. \A m : m \in j .. n + 1 <=> m \in j .. n \/ m = n + 1
    BY <1>1
  <2>3. structure'[n + 1] \in {"taken", "not taken"} <=> Opens(mark)
    BY <1>1 DEF Opens
  <2>. QED
    BY <2>1, <2>2, <2>3
<1>4. closed1 = IF mark = "endif" THEN closed \cup {n + 1} ELSE closed
  BY <1>1
<1>5. /\ IsFiniteSet(opened) /\ Cardinality(opened) \in Nat
      /\ IsFiniteSet(closed) /\ Cardinality(closed) \in Nat
  <2>1. /\ opened \in SUBSET (j .. n) /\ closed \in SUBSET (j .. n)
        /\ j \in Int /\ n \in Int
    BY <1>1
  <2>. HIDE DEF opened, closed
  <2>. QED
    BY <2>1, CountIs
<1>6. Depth(j, n) = Cardinality(opened) - Cardinality(closed)
  BY DEF Depth
<1>7. Depth(j, n + 1)' = Cardinality(opened1) - Cardinality(closed1)
  BY DEF Depth, IsOpening
<1>8. j = n + 1 => opened = {} /\ closed = {}
  BY <1>1
<1>. HIDE DEF opened, closed, opened1, closed1
<1>9. Cardinality(opened1) = Cardinality(opened) + (IF Opens(mark) THEN 1 ELSE 0)
  <2>1. Cardinality(opened \cup {n + 1}) = Cardinality(opened) + 1
    BY <1>2, <1>5, FS_AddElement
  <2>. QED
    BY <1>3, <1>5, <2>1
<1>10. Cardinality(closed1) = Cardinality(closed) + (IF mark = "endif" THEN 1 ELSE 0)
  <2>1. Cardinality(closed \cup {n + 1}) = Cardinality(closed) + 1
    BY <1>2, <1>5, FS_AddElement
  <2>. QED
    BY <1>4, <1>5, <2>1
<1>11. ~ (Opens(mark) /\ mark = "endif")
  BY DEF Opens
<1>12. Depth(j, n + 1)' = Depth(j, n) + Changes(mark)
  BY <1>5, <1>6, <1>7, <1>9, <1>10, <1>11 DEF Changes
<1>13. j = n + 1 => Depth(j, n) = 0
  BY <1>6, <1>8, FS_EmptySet
<1>. QED
  BY <1>5, <1>6, <1>12, <1>13

LEMMA BeforeStays ==
    ASSUME NEW mark, NEW n, Marked(mark, n), NEW k \in Nat, k <= n
    PROVE  /\ Around(k)' = Around(k)
           /\ \A j \in 1 .. k : TakenAt(j, k)' = TakenAt(j, k)
<1>1. \A m \in 1 .. k : structure'[m] = structure[m] /\ (IsOpening(m)' <=> IsOpening(m))
  <2>1. \A m \in 1 .. k : m \in 1 .. n
    BY MarkedIs
  <2>2. \A m \in 1 .. k : structure'[m] = structure[m]
    BY <2>1, MarkedIs
  <2>. QED
    BY <2>2 DEF IsOpening
<1>2. \A j \in 1 .. k : \A m \in j .. k : Depth(j, m)' = Depth(j, m)
  BY MarkedIs, DepthStays
<1>3. Around(k)' = Around(k)
  BY <1>1, <1>2 DEF Around
<1>4. ASSUME NEW j \in 1 .. k
      PROVE  TakenAt(j, k)' = TakenAt(j, k)
  <2>1. {m \in j + 1 .. k : structure'[m] = "else" /\ Depth(j, m)' = 1}
          = {m \in j + 1 .. k : structure[m] = "else" /\ Depth(j, m) = 1}
    BY <1>1, <1>2
  <2>. QED
    BY <1>1, <2>1 DEF TakenAt
<1>. QED
  BY <1>3, <1>4

LEMMA AroundNext ==
    ASSUME NEW mark, NEW n, Marked(mark, n)
    PROVE  Around(n + 1)' = {j \in Around(n) : Depth(j, n) + Changes(mark) > 0}
                              \cup (IF Opens(mark) THEN {n + 1} ELSE {})
<1>1. n \in Nat /\ structure'[n + 1] = mark
  BY MarkedIs
<1>2. ASSUME NEW j \in 1 .. n
      PROVE  j \in Around(n + 1)' <=> j \in Around(n) /\ Depth(j, n) + Changes(mark) > 0
  <2>1. IsOpening(j)' <=> IsOpening(j)
    BY MarkedIs DEF IsOpening
  <2>2. \A m \in j .. n : Depth(j, m)' = Depth(j, m)
    BY <1>1, DepthStays
  <2>3. Depth(j, n + 1)' = Depth(j, n) + Changes(mark)
    BY <1>1, DepthChanges
  <2>4. \A m : m \in j .. n + 1 <=> m \in j .. n \/ m = n + 1
    BY <1>1
  <2>5. j \in Around(n) <=> IsOpening(j) /\ \A m \in j .. n : Depth(j, m) > 0
    BY DEF Around
  <2>6. j \in Around(n + 1)' <=> IsOpening(j)' /\ \A m \in j .. n + 1 : Depth(j, m)' > 0
    BY <1>1 DEF Around
  <2>. QED
    BY <2>1, <2>2, <2>3, <2>4, <2>5, <2>6
<1>3. n + 1 \in Around(n + 1)' <=> Opens(mark)
  <2>1. IsOpening(n + 1)' <=> Opens(mark)
    BY <1>1 DEF IsOpening, Opens
  <2>2. Depth(n + 1, n + 1)' = Changes(mark)
    <3>1. n + 1 \in 1 .. n + 1
      BY <1>1
    <3>2. Changes(mark) \in Int
      BY DEF Changes
    <3>. QED
      BY <3>1, <3>2, DepthChanges
  <2>3. \A m : m \in n + 1 .. n + 1 <=> m = n + 1
    BY <1>1
  <2>. QED
    BY <1>1, <2>1, <2>2, <2>3 DEF Around, Changes
<1>4. Around(n) \subseteq 1 .. n /\ Around(n + 1)' \subseteq 1 .. n + 1
  BY DEF Around
<1>. QED
  BY <1>1, <1>2, <1>3, <1>4

LEMMA TakenNext ==
    ASSUME NEW mark, NEW n, Marked(mark, n), NEW j \in 1 .. n,
           Depth(j, n) = 1 \/ mark # "else"
    PROVE  TakenAt(j, n + 1)'
             <=> (IF mark = "else" THEN ~ TakenAt(j, n) ELSE TakenAt(j, n))
<1>. DEFINE elses == {m \in j + 1 .. n : structure[m] = "else" /\ Depth(j, m) = 1}
            elses1 == {m \in j + 1 .. n + 1 : structure'[m] = "else" /\ Depth(j, m)' = 1}
<1>1. /\ n \in Nat /\ structure'[n + 1] = mark /\ structure'[j] = structure[j]
      /\ \A m \in j + 1 .. n : structure'[m] = structure[m]
  BY MarkedIs
<1>2. \A m \in j .. n : Depth(j, m)' = Depth(j, m)
  BY <1>1, DepthStays
<1>3. mark = "else" => Depth(j, n + 1)' = 1
  <2>1. j \in 1 .. n + 1
    BY <1>1
  <2>2. Depth(j, n + 1)' = Depth(j, n) + Changes(mark)
    BY <2>1, DepthChanges
  <2>3. mark = "else" => Changes(mark) = 0
    BY DEF Changes, Opens
  <2>. QED
    BY <2>2, <2>3
<1>4. elses1 = IF mark = "else" THEN elses \cup {n + 1} ELSE elses
  BY <1>1, <1>2, <1>3
<1>5. IsFiniteSet(elses) /\ Cardinality(elses) \in Nat /\ n + 1 \notin elses
  <2>1. elses \in SUBSET (j + 1 .. n) /\ j + 1 \in Int /\ n \in Int /\ n + 1 \notin elses
    BY <1>1
  <2>. HIDE DEF elses
  <2>. QED
    BY <2>1, CountIs
<1>6. /\ TakenAt(j, n) <=> ((structure[j] = "taken") <=> (Cardinality(elses) % 2 = 0))
      /\ TakenAt(j, n + 1)' <=> ((structure'[j] = "taken") <=> (Cardinality(elses1) % 2 = 0))
  BY <1>1 DEF TakenAt
<1>. HIDE DEF elses, elses1
<1>7. CASE mark = "else"
  <2>1. Cardinality(elses1) = Cardinality(elses) + 1
    BY <1>4, <1>5, <1>7, FS_AddElement
  <2>2. (Cardinality(elses1) % 2 = 0) <=> ~ (Cardinality(elses) % 2 = 0)
    BY <1>5, <2>1
  <2>. QED
    BY <1>1, <1>6, <1>7, <2>2
<1>8. CASE mark # "else"
  BY <1>1, <1>4, <1>6, <1>8
<1>. QED
  BY <1>7, <1>8

(* A branch further out has an OP_ELSE of another one.                     *)
LEMMA TakenElsewhere ==
    ASSUME NEW mark, NEW n, Marked(mark, n), NEW j \in 1 .. n,
           Depth(j, n) # 1
    PROVE  TakenAt(j, n + 1)' <=> TakenAt(j, n)
<1>1. CASE mark = "else"
  <2>. DEFINE elses == {m \in j + 1 .. n : structure[m] = "else" /\ Depth(j, m) = 1}
              elses1 == {m \in j + 1 .. n + 1 : structure'[m] = "else" /\ Depth(j, m)' = 1}
  <2>1. /\ n \in Nat /\ structure'[j] = structure[j]
        /\ \A m \in j + 1 .. n : structure'[m] = structure[m]
    BY MarkedIs
  <2>2. \A m \in j .. n : Depth(j, m)' = Depth(j, m)
    BY <2>1, DepthStays
  <2>3. Depth(j, n + 1)' # 1
    <3>1. j \in 1 .. n + 1
      BY <2>1
    <3>2. Depth(j, n + 1)' = Depth(j, n) + Changes(mark) /\ Depth(j, n) \in Int
      BY <3>1, DepthChanges
    <3>3. Changes(mark) = 0
      BY <1>1 DEF Changes, Opens
    <3>. QED
      BY <3>2, <3>3
  <2>4. elses1 = elses
    BY <2>1, <2>2, <2>3
  <2>. QED
    BY <2>1, <2>4 DEF TakenAt
<1>2. CASE mark # "else"
  BY <1>2, TakenNext
<1>. QED
  BY <1>1, <1>2

LEMMA TakenOpened ==
    ASSUME NEW mark, NEW n, Marked(mark, n), Opens(mark)
    PROVE  TakenAt(n + 1, n + 1)' <=> mark = "taken"
<1>1. n \in Nat /\ structure'[n + 1] = mark
  BY MarkedIs
<1>2. {m \in n + 1 + 1 .. n + 1 : structure'[m] = "else" /\ Depth(n + 1, m)' = 1} = {}
  BY <1>1
<1>3. Cardinality({}) % 2 = 0
  BY FS_EmptySet
<1>. QED
  BY <1>1, <1>2, <1>3 DEF TakenAt

-----------------------------------------------------------------------------
(* The branches around the next frame, p, from the outermost one: each has *)
(* its place on the stack of branches, which says whether it is taken.     *)
Places(p, n, d) ==
    /\ d = Len(branchStack)
    /\ p \in [1 .. d -> 1 .. n]
    /\ \A i \in 1 .. d : \A k \in 1 .. d : i < k => p[i] < p[k]
    /\ Around(n) = {p[i] : i \in 1 .. d}
    /\ \A i \in 1 .. d : Depth(p[i], n) = d - i + 1
    /\ \A i \in 1 .. d : branchStack[i] = IF TakenAt(p[i], n) THEN "executing" ELSE "skipping"

(* No branch was opened within a skipped one.                              *)
InScope ==
    \A k \in DOMAIN structure : IsOpening(k) => \A j \in Around(k - 1) : TakenAt(j, k - 1)

OuterTaken == \A i \in 1 .. Len(branchStack) - 1 : branchStack[i] = "executing"

BInv ==
    /\ BranchTypeOK
    /\ \E p : Places(p, Len(structure), Len(branchStack))
    /\ InScope => OuterTaken

LEMMA ScopeIs ==
    ASSUME NEW mark, NEW n, Marked(mark, n), InScope'
    PROVE  /\ InScope
           /\ Opens(mark) => \A j \in Around(n) : TakenAt(j, n)
<1>1. n \in Nat /\ structure'[n + 1] = mark /\ DOMAIN structure = 1 .. n /\ DOMAIN structure' = 1 .. n + 1
  BY MarkedIs
<1>2. ASSUME NEW k \in 1 .. n + 1, IsOpening(k)', NEW j \in Around(k - 1)
      PROVE  TakenAt(j, k - 1)
  <2>1. k - 1 \in Nat /\ k - 1 <= n
    BY <1>1
  <2>2. Around(k - 1)' = Around(k - 1) /\ j \in 1 .. k - 1
    BY <2>1, BeforeStays DEF Around
  <2>3. TakenAt(j, k - 1)'
    BY <1>1, <1>2, <2>2 DEF InScope
  <2>. QED
    BY <2>1, <2>2, <2>3, BeforeStays
<1>3. InScope
  <2>1. \A k \in 1 .. n : IsOpening(k)' <=> IsOpening(k)
    BY MarkedIs DEF IsOpening
  <2>2. \A k \in 1 .. n : k \in 1 .. n + 1
    BY <1>1
  <2>. QED
    BY <1>1, <1>2, <2>1, <2>2 DEF InScope
<1>4. ASSUME Opens(mark), NEW j \in Around(n)
      PROVE  TakenAt(j, n)
  <2>1. IsOpening(n + 1)'
    BY <1>1, <1>4 DEF IsOpening, Opens
  <2>2. n + 1 \in 1 .. n + 1 /\ (n + 1) - 1 = n
    BY <1>1
  <2>. QED
    BY <1>2, <1>4, <2>1, <2>2
<1>. QED
  BY <1>3, <1>4

(* A branch is opened.                                                     *)
LEMMA OpeningKeeps ==
    ASSUME BInv, NEW mark, NEW n, Marked(mark, n), Opens(mark),
           branchStack' = Append(branchStack, IF mark = "taken" THEN "executing" ELSE "skipping")
    PROVE  BInv'
<1>1. PICK d \in Nat : d = Len(branchStack)
  BY DEF BInv, BranchTypeOK
<1>2. /\ n \in Nat /\ n = Len(structure) /\ Len(structure') = n + 1 /\ structure' \in Seq(Marks)
  BY MarkedIs
<1>3. PICK p : Places(p, n, d)
  BY <1>1, <1>2 DEF BInv
<1>4. /\ branchStack' \in Seq(States)
      /\ Len(branchStack') = d + 1
      /\ branchStack'[d + 1] = IF mark = "taken" THEN "executing" ELSE "skipping"
      /\ \A i \in 1 .. d : branchStack'[i] = branchStack[i]
  BY <1>1 DEF BInv, BranchTypeOK, States
<1>5. Changes(mark) = 1 /\ mark # "else"
  BY DEF Changes, Opens
<1>. DEFINE q == [i \in 1 .. d + 1 |-> IF i <= d THEN p[i] ELSE n + 1]
<1>6. /\ q \in [1 .. d + 1 -> 1 .. n + 1]
      /\ q[d + 1] = n + 1
      /\ \A i \in 1 .. d : q[i] = p[i] /\ p[i] \in 1 .. n /\ p[i] \in 1 .. n + 1 /\ i \in 1 .. d + 1
      /\ \A i \in 1 .. d + 1 : i \in 1 .. d \/ i = d + 1
  <2>1. p \in [1 .. d -> 1 .. n]
    BY <1>3 DEF Places
  <2>2. \A i \in 1 .. d : p[i] \in 1 .. n /\ p[i] \in 1 .. n + 1
    BY <1>2, <2>1
  <2>3. \A i \in 1 .. d : i \in 1 .. d + 1 /\ i <= d
    OBVIOUS
  <2>4. \A i \in 1 .. d + 1 : i \in 1 .. d \/ i = d + 1
    OBVIOUS
  <2>5. d + 1 \in 1 .. d + 1 /\ ~ (d + 1 <= d) /\ n + 1 \in 1 .. n + 1
    BY <1>2
  <2>6. \A i \in 1 .. d : q[i] = p[i]
    BY <2>3
  <2>7. q[d + 1] = n + 1
    BY <2>5
  <2>8. \A i \in 1 .. d + 1 : (IF i <= d THEN p[i] ELSE n + 1) \in 1 .. n + 1
    BY <2>2, <2>4, <2>5
  <2>9. q \in [1 .. d + 1 -> 1 .. n + 1]
    BY <2>8
  <2>. HIDE DEF q
  <2>. QED
    BY <2>2, <2>3, <2>4, <2>6, <2>7, <2>9
<1>7. \A i \in 1 .. d + 1 : \A k \in 1 .. d + 1 : i < k => q[i] < q[k]
  <2>. SUFFICES ASSUME NEW i \in 1 .. d + 1, NEW k \in 1 .. d + 1, i < k
                PROVE  q[i] < q[k]
    OBVIOUS
  <2>1. i \in 1 .. d
    BY <1>1
  <2>2. CASE k \in 1 .. d
    BY <1>3, <1>6, <2>1, <2>2 DEF Places
  <2>3. CASE k = d + 1
    <3>1. p[i] \in 1 .. n
      BY <1>6, <2>1
    <3>. QED
      BY <1>2, <1>6, <2>1, <2>3, <3>1
  <2>. QED
    BY <1>6, <2>2, <2>3
<1>8. \A i \in 1 .. d : Depth(p[i], n) = d - i + 1
  BY <1>3 DEF Places
<1>9. Around(n + 1)' = {q[i] : i \in 1 .. d + 1}
  <2>1. Around(n + 1)' = {j \in Around(n) : Depth(j, n) + 1 > 0} \cup {n + 1}
    BY <1>5, AroundNext
  <2>2. \A i \in 1 .. d : Depth(p[i], n) + 1 > 0
    BY <1>8
  <2>3. Around(n) = {p[i] : i \in 1 .. d}
    BY <1>3 DEF Places
  <2>. HIDE DEF q
  <2>4. \A i \in 1 .. d : q[i] = p[i] /\ i \in 1 .. d + 1
    BY <1>6
  <2>5. q[d + 1] = n + 1 /\ d + 1 \in 1 .. d + 1 /\ \A i \in 1 .. d + 1 : i \in 1 .. d \/ i = d + 1
    BY <1>6
  <2>6. Around(n + 1)' = {p[i] : i \in 1 .. d} \cup {n + 1}
    BY <2>1, <2>2, <2>3
  <2>7. {q[i] : i \in 1 .. d + 1} = {p[i] : i \in 1 .. d} \cup {n + 1}
    BY <2>4, <2>5
  <2>. QED
    BY <2>6, <2>7
<1>. HIDE DEF q
<1>10. \A i \in 1 .. d + 1 : Depth(q[i], n + 1)' = (d + 1) - i + 1
  <2>1. \A i \in 1 .. d : Depth(q[i], n + 1)' = (d + 1) - i + 1
    <3>. SUFFICES ASSUME NEW i \in 1 .. d PROVE Depth(p[i], n + 1)' = (d + 1) - i + 1
      BY <1>6
    <3>1. p[i] \in 1 .. n + 1
      BY <1>6
    <3>2. Depth(p[i], n + 1)' = Depth(p[i], n) + 1
      BY <1>5, <3>1, DepthChanges
    <3>. QED
      BY <1>1, <1>8, <3>2
  <2>2. Depth(q[d + 1], n + 1)' = 1
    <3>1. n + 1 \in 1 .. n + 1
      BY <1>2
    <3>2. Depth(n + 1, n + 1)' = Depth(n + 1, n) + 1 /\ Depth(n + 1, n) = 0
      BY <1>5, <3>1, DepthChanges
    <3>. QED
      BY <1>6, <3>2
  <2>. QED
    BY <1>1, <1>6, <2>1, <2>2
<1>11. \A i \in 1 .. d + 1 :
          branchStack'[i] = IF TakenAt(q[i], n + 1)' THEN "executing" ELSE "skipping"
  <2>1. ASSUME NEW i \in 1 .. d
        PROVE  branchStack'[i] = IF TakenAt(q[i], n + 1)' THEN "executing" ELSE "skipping"
    <3>1. TakenAt(p[i], n + 1)' <=> TakenAt(p[i], n)
      BY <1>5, <1>6, TakenNext
    <3>2. q[i] = p[i]
      BY <1>6
    <3>3. branchStack[i] = IF TakenAt(p[i], n) THEN "executing" ELSE "skipping"
      BY <1>3 DEF Places
    <3>. QED
      BY <1>4, <3>1, <3>2, <3>3
  <2>2. branchStack'[d + 1] = IF TakenAt(q[d + 1], n + 1)' THEN "executing" ELSE "skipping"
    BY <1>4, <1>6, TakenOpened
  <2>. QED
    BY <1>6, <2>1, <2>2
<1>12. Places(q, n + 1, d + 1)'
  BY <1>4, <1>6, <1>7, <1>9, <1>10, <1>11 DEF Places
<1>13. ASSUME InScope'
       PROVE  OuterTaken'
  <2>1. \A i \in 1 .. d : TakenAt(p[i], n)
    BY <1>3, <1>13, ScopeIs DEF Places
  <2>2. \A i \in 1 .. d : branchStack'[i] = "executing"
    BY <1>3, <1>4, <2>1 DEF Places
  <2>. QED
    BY <1>1, <1>4, <2>2 DEF OuterTaken
<1>. QED
  BY <1>2, <1>4, <1>12, <1>13 DEF BInv, BranchTypeOK

(* The innermost branch changes sides.                                     *)
LEMMA ElseKeeps ==
    ASSUME BInv, NEW n, Marked("else", n), branchStack # << >>,
           branchStack' = [branchStack EXCEPT ![Len(branchStack)] =
                              IF @ = "executing" THEN "skipping" ELSE "executing"]
    PROVE  BInv'
<1>1. PICK d \in Nat : d = Len(branchStack) /\ d > 0
  BY DEF BInv, BranchTypeOK
<1>2. n \in Nat /\ n = Len(structure) /\ Len(structure') = n + 1 /\ structure' \in Seq(Marks)
  BY MarkedIs
<1>3. PICK p : Places(p, n, d)
  BY <1>1, <1>2 DEF BInv
<1>4. /\ branchStack' \in Seq(States)
      /\ Len(branchStack') = d
      /\ branchStack'[d] = IF branchStack[d] = "executing" THEN "skipping" ELSE "executing"
      /\ \A i \in 1 .. d : i # d => branchStack'[i] = branchStack[i]
  BY <1>1 DEF BInv, BranchTypeOK, States
<1>5. Changes("else") = 0 /\ ~ Opens("else")
  BY DEF Changes, Opens
<1>6. \A i \in 1 .. d : Depth(p[i], n) = d - i + 1 /\ p[i] \in 1 .. n /\ p[i] \in 1 .. n + 1
  <2>1. p \in [1 .. d -> 1 .. n] /\ \A i \in 1 .. d : Depth(p[i], n) = d - i + 1
    BY <1>3 DEF Places
  <2>2. \A i \in 1 .. d : p[i] \in 1 .. n
    BY <2>1
  <2>3. \A m \in 1 .. n : m \in 1 .. n + 1
    BY <1>2
  <2>. QED
    BY <2>1, <2>2, <2>3
<1>7. Around(n + 1)' = {p[i] : i \in 1 .. d}
  <2>1. Around(n + 1)' = {j \in Around(n) : Depth(j, n) + 0 > 0} \cup {}
    BY <1>5, AroundNext
  <2>2. \A i \in 1 .. d : Depth(p[i], n) + 0 > 0
    BY <1>1, <1>6
  <2>3. Around(n) = {p[i] : i \in 1 .. d}
    BY <1>3 DEF Places
  <2>. QED
    BY <2>1, <2>2, <2>3
<1>8. \A i \in 1 .. d : Depth(p[i], n + 1)' = d - i + 1
  <2>1. \A i \in 1 .. d : Depth(p[i], n + 1)' = Depth(p[i], n) + 0
    BY <1>5, <1>6, DepthChanges
  <2>. QED
    BY <1>1, <1>6, <2>1
<1>9. ASSUME NEW i \in 1 .. d
      PROVE  branchStack'[i] = IF TakenAt(p[i], n + 1)' THEN "executing" ELSE "skipping"
  <2>1. branchStack[i] = IF TakenAt(p[i], n) THEN "executing" ELSE "skipping"
    BY <1>3 DEF Places
  <2>2. CASE i = d
    <3>1. Depth(p[i], n) = 1
      BY <1>1, <1>6, <2>2
    <3>2. TakenAt(p[i], n + 1)' <=> ~ TakenAt(p[i], n)
      BY <1>6, <3>1, TakenNext
    <3>. QED
      BY <1>4, <2>1, <2>2, <3>2
  <2>3. CASE i # d
    <3>1. Depth(p[i], n) # 1
      BY <1>1, <1>6, <2>3
    <3>2. TakenAt(p[i], n + 1)' <=> TakenAt(p[i], n)
      BY <1>6, <3>1, TakenElsewhere
    <3>. QED
      BY <1>4, <2>1, <2>3, <3>2
  <2>. QED
    BY <2>2, <2>3
<1>10. Places(p, n + 1, d)'
  <2>1. p \in [1 .. d -> 1 .. n + 1]
    BY <1>3, <1>6 DEF Places
  <2>2. \A i \in 1 .. d : \A k \in 1 .. d : i < k => p[i] < p[k]
    BY <1>3 DEF Places
  <2>. QED
    BY <1>4, <1>7, <1>8, <1>9, <2>1, <2>2 DEF Places
<1>11. ASSUME InScope'
       PROVE  OuterTaken'
  <2>1. OuterTaken
    BY <1>11, ScopeIs DEF BInv
  <2>. QED
    BY <1>1, <1>4, <2>1 DEF OuterTaken
<1>. QED
  BY <1>2, <1>4, <1>10, <1>11 DEF BInv, BranchTypeOK

(* The innermost branch is closed.                                         *)
LEMMA ClosingKeeps ==
    ASSUME BInv, NEW n, Marked("endif", n), branchStack # << >>,
           branchStack' = Front(branchStack)
    PROVE  BInv'
<1>1. PICK d \in Nat : d = Len(branchStack) /\ d > 0
  BY DEF BInv, BranchTypeOK
<1>2. n \in Nat /\ n = Len(structure) /\ Len(structure') = n + 1 /\ structure' \in Seq(Marks)
  BY MarkedIs
<1>3. PICK p : Places(p, n, d)
  BY <1>1, <1>2 DEF BInv
<1>4. /\ branchStack' \in Seq(States)
      /\ Len(branchStack') = d - 1
      /\ \A i \in 1 .. d - 1 : branchStack'[i] = branchStack[i]
  BY <1>1 DEF BInv, BranchTypeOK, Front
<1>5. Changes("endif") = -1 /\ ~ Opens("endif")
  BY DEF Changes, Opens
<1>6. \A i \in 1 .. d : Depth(p[i], n) = d - i + 1 /\ p[i] \in 1 .. n /\ p[i] \in 1 .. n + 1
  <2>1. p \in [1 .. d -> 1 .. n] /\ \A i \in 1 .. d : Depth(p[i], n) = d - i + 1
    BY <1>3 DEF Places
  <2>2. \A i \in 1 .. d : p[i] \in 1 .. n
    BY <2>1
  <2>3. \A m \in 1 .. n : m \in 1 .. n + 1
    BY <1>2
  <2>. QED
    BY <2>1, <2>2, <2>3
<1>. DEFINE q == [i \in 1 .. d - 1 |-> p[i]]
<1>7. \A i \in 1 .. d - 1 : q[i] = p[i] /\ i \in 1 .. d
  BY <1>1
<1>8. Around(n + 1)' = {q[i] : i \in 1 .. d - 1}
  <2>1. Around(n + 1)' = {j \in Around(n) : Depth(j, n) + (-1) > 0} \cup {}
    BY <1>5, AroundNext
  <2>2. \A i \in 1 .. d : Depth(p[i], n) + (-1) > 0 <=> i \in 1 .. d - 1
    BY <1>1, <1>6
  <2>3. Around(n) = {p[i] : i \in 1 .. d}
    BY <1>3 DEF Places
  <2>. HIDE DEF q
  <2>. QED
    BY <1>7, <2>1, <2>2, <2>3
<1>9. \A i \in 1 .. d - 1 : Depth(q[i], n + 1)' = (d - 1) - i + 1
  <2>1. \A i \in 1 .. d : Depth(p[i], n + 1)' = Depth(p[i], n) + (-1)
    BY <1>5, <1>6, DepthChanges
  <2>. QED
    BY <1>1, <1>6, <1>7, <2>1
<1>10. ASSUME NEW i \in 1 .. d - 1
       PROVE  branchStack'[i] = IF TakenAt(q[i], n + 1)' THEN "executing" ELSE "skipping"
  <2>1. branchStack[i] = IF TakenAt(p[i], n) THEN "executing" ELSE "skipping"
    BY <1>3, <1>7 DEF Places
  <2>2. TakenAt(p[i], n + 1)' <=> TakenAt(p[i], n)
    <3>1. Depth(p[i], n) # 1
      BY <1>1, <1>6
    <3>. QED
      BY <1>6, <1>7, <3>1, TakenElsewhere
  <2>. QED
    BY <1>4, <1>7, <2>1, <2>2
<1>11. Places(q, n + 1, d - 1)'
  <2>1. q \in [1 .. d - 1 -> 1 .. n + 1]
    BY <1>6, <1>7
  <2>2. \A i \in 1 .. d - 1 : \A k \in 1 .. d - 1 : i < k => q[i] < q[k]
    BY <1>3, <1>7 DEF Places
  <2>. HIDE DEF q
  <2>. QED
    BY <1>4, <1>8, <1>9, <1>10, <2>1, <2>2 DEF Places
<1>12. ASSUME InScope'
       PROVE  OuterTaken'
  <2>1. OuterTaken
    BY <1>12, ScopeIs DEF BInv
  <2>2. \A i \in 1 .. (d - 1) - 1 : i \in 1 .. d - 1 /\ i \in 1 .. Len(branchStack) - 1
    BY <1>1
  <2>. QED
    BY <1>1, <1>4, <2>1, <2>2 DEF OuterTaken
<1>. QED
  BY <1>2, <1>4, <1>11, <1>12 DEF BInv, BranchTypeOK

LEMMA InitBranches == Init => BInv
<1>. SUFFICES ASSUME Init PROVE BInv
  OBVIOUS
<1>1. structure = << >> /\ branchStack = << >> /\ Len(structure) = 0 /\ Len(branchStack) = 0
  BY DEF Init
<1>. DEFINE p == [i \in 1 .. 0 |-> 0]
<1>2. Around(0) = {}
  BY DEF Around
<1>3. Places(p, 0, 0)
  BY <1>1, <1>2 DEF Places
<1>4. OuterTaken
  BY <1>1 DEF OuterTaken
<1>5. BranchTypeOK
  BY <1>1 DEF BranchTypeOK
<1>. QED
  BY <1>1, <1>3, <1>4, <1>5 DEF BInv

LEMMA UnmarkedKeeps ==
    ASSUME BInv, UNCHANGED <<structure, branchStack>>
    PROVE  BInv'
<1>1. structure' = structure /\ branchStack' = branchStack
  OBVIOUS
<1>2. \A j, k : Depth(j, k)' = Depth(j, k)
  BY <1>1 DEF Depth, IsOpening
<1>3. \A k : Around(k)' = Around(k)
  BY <1>1, <1>2 DEF Around, IsOpening
<1>4. \A j, k : TakenAt(j, k)' = TakenAt(j, k)
  BY <1>1, <1>2 DEF TakenAt
<1>5. InScope' <=> InScope
  BY <1>1, <1>3, <1>4 DEF InScope, IsOpening
<1>6. OuterTaken' <=> OuterTaken
  BY <1>1 DEF OuterTaken
<1>7. ASSUME NEW p, Places(p, Len(structure), Len(branchStack))
      PROVE  Places(p, Len(structure), Len(branchStack))'
  BY <1>1, <1>2, <1>3, <1>4, <1>7 DEF Places
<1>8. BranchTypeOK'
  BY <1>1 DEF BInv, BranchTypeOK
<1>. QED
  BY <1>5, <1>6, <1>7, <1>8 DEF BInv

LEMMA BranchesStep == BInv /\ [Next]_vars => BInv'
<1>. SUFFICES ASSUME BInv, [Next]_vars PROVE BInv'
  OBVIOUS
<1>. DEFINE Same == UNCHANGED <<structure, branchStack>>
<1>1. PICK n \in Nat : n = Len(structure)
  BY DEF BInv, BranchTypeOK
<1>2. CASE UNCHANGED vars
  BY <1>2, UnmarkedKeeps DEF vars
<1>3. CASE End
  BY <1>3, UnmarkedKeeps DEF End
<1>4. ASSUME NEW f \in Frames, Step(f)
      PROVE  BInv'
  <2>1. CASE If(f)
    <3>1. PICK mark : mark = IF IsTruthy(Top(1)) <=> (f.op = "OP_IF") THEN "taken" ELSE "not taken"
      OBVIOUS
    <3>2. Marked(mark, n) /\ Opens(mark)
      BY <1>1, <2>1, <3>1 DEF If, Marked, Marks, Opens, BInv
    <3>3. branchStack' = Append(branchStack, IF mark = "taken" THEN "executing" ELSE "skipping")
      BY <2>1, <3>1 DEF If
    <3>. QED
      BY <3>2, <3>3, OpeningKeeps
  <2>2. CASE Else(f)
    <3>1. Marked("else", n)
      BY <1>1, <2>2 DEF Else, Marked, Marks, BInv
    <3>. QED
      BY <2>2, <3>1, ElseKeeps DEF Else
  <2>3. CASE EndIf(f)
    <3>1. Marked("endif", n)
      BY <1>1, <2>3 DEF EndIf, Marked, Marks, BInv
    <3>. QED
      BY <2>3, <3>1, ClosingKeeps DEF EndIf
  <2>4. CASE Works(f)
    BY <2>4, UnmarkedKeeps DEF Works
  <2>5. CASE SkipFrame(f)
    BY <2>5, UnmarkedKeeps DEF SkipFrame
  <2>6. CASE PickOrRoll(f)
    BY <2>6, UnmarkedKeeps DEF PickOrRoll
  <2>7. CASE Fail(f)
    BY <2>7, UnmarkedKeeps DEF Fail
  <2>. QED
    BY <1>4, <2>1, <2>2, <2>3, <2>4, <2>5, <2>6, <2>7
    DEF Step, PushFrame, MoveFrames, Alternate, Compute, Verify, Hash, CheckSignatures
<1>. QED
  BY <1>2, <1>3, <1>4 DEF Next

LEMMA PlacesCount ==
    ASSUME NEW p, NEW n \in Nat, NEW d \in Nat, Places(p, n, d)
    PROVE  Cardinality(Around(n)) = d
<1>1. p \in [1 .. d -> 1 .. n] /\ Around(n) = {p[i] : i \in 1 .. d}
  BY DEF Places
<1>2. \A i \in 1 .. d : \A k \in 1 .. d : i < k => p[i] < p[k]
  BY DEF Places
<1>3. \A i \in 1 .. d : p[i] \in Nat
  BY <1>1
<1>4. \A i \in 1 .. d : \A k \in 1 .. d : p[i] = p[k] => i = k
  <2>. SUFFICES ASSUME NEW i \in 1 .. d, NEW k \in 1 .. d, p[i] = p[k] PROVE i = k
    OBVIOUS
  <2>1. ~ (i < k) /\ ~ (k < i)
    BY <1>2, <1>3
  <2>. QED
    BY <2>1
<1>. DEFINE A == Around(n)
<1>5. p \in Bijection(1 .. d, A)
  <2>1. p \in [1 .. d -> A]
    BY <1>1
  <2>2. IsInjective(p)
    BY <1>1, <1>4 DEF IsInjective
  <2>3. \A t \in A : \E i \in 1 .. d : p[i] = t
    BY <1>1
  <2>. HIDE DEF A
  <2>. QED
    BY <2>1, <2>2, <2>3 DEF Bijection, Injection, Surjection
<1>6. IsFiniteSet(1 .. d) /\ Cardinality(1 .. d) = d
  BY FS_Interval
<1>. HIDE DEF A
<1>7. ExistsBijection(1 .. d, A)
  BY <1>5 DEF ExistsBijection
<1>. QED
  BY <1>6, <1>7, FS_Bijection DEF A

(* A frame is executed exactly if every branch around it is taken, in      *)
(* programs of any length that open none within a skipped one              *)
(* (script.c:866-880, 1125-1174).                                          *)
THEOREM BranchesAreTaken == Spec => []BranchesTaken
<1>1. BInv => BranchesTaken
  <2>. SUFFICES ASSUME BInv, InScope
                PROVE  /\ Len(branchStack) = Cardinality(Around(Len(structure)))
                       /\ ShouldSkipBranch <=>
                             \E j \in Around(Len(structure)) : ~ TakenAt(j, Len(structure))
    BY DEF BranchesTaken, InScope
  <2>1. PICK n \in Nat, d \in Nat : n = Len(structure) /\ d = Len(branchStack)
    BY DEF BInv, BranchTypeOK
  <2>2. PICK p : Places(p, n, d)
    BY <2>1 DEF BInv
  <2>3. \A i \in 1 .. d : i # d => branchStack[i] = "executing"
    BY <2>1 DEF BInv, OuterTaken
  <2>4. ShouldSkipBranch <=> d > 0 /\ branchStack[d] = "skipping"
    BY <2>1 DEF BInv, BranchTypeOK, ShouldSkipBranch, Last
  <2>5. (\E j \in Around(n) : ~ TakenAt(j, n)) <=> \E i \in 1 .. d : branchStack[i] = "skipping"
    BY <2>2 DEF Places
  <2>6. d > 0 => d \in 1 .. d
    OBVIOUS
  <2>7. ShouldSkipBranch <=> \E j \in Around(n) : ~ TakenAt(j, n)
    BY <2>3, <2>4, <2>5, <2>6
  <2>. QED
    BY <2>1, <2>2, <2>7, PlacesCount
<1>. QED
  BY <1>1, InitBranches, BranchesStep, PTL DEF Spec

-----------------------------------------------------------------------------
(* Scripts that compute: numbers and their bytes.                          *)

Appends(bytes, m) == Append(bytes, (m % 256))
Digits  == INSTANCE Folding WITH Op <- Appends
Numeral == INSTANCE Folding WITH Op <- ShiftIn

Byte == 0 .. 255

LEMMA BytesAre ==
    \A m \in Nat : Bytes[m] = IF m < 256 THEN <<m>> ELSE Append(Bytes[m \div 256], (m % 256))
<1>. DEFINE Is(f) == f = [m \in Nat |-> IF m < 256 THEN <<m>>
                                        ELSE Append(f[m \div 256], (m % 256))]
            one == [m \in Nat |-> <<m>>]
            down == [m \in Nat |-> m \div 256]
<1>1. PICK f : Digits!Recurs(f, Byte, one, down, Nat)
  <2>1. \A m \in Nat : m \notin Byte => down[m] \in Nat /\ down[m] < m
    BY DEF Byte
  <2>. HIDE DEF one, down
  <2>. QED
    BY <2>1, Digits!RecursionExists
<1>2. \A m \in Nat : m \in Byte <=> m < 256
  BY DEF Byte
<1>3. Is(f)
  <2>1. f = [m \in Nat |-> IF m \in Byte THEN one[m] ELSE Appends(f[down[m]], m)]
    BY <1>1 DEF Digits!Recurs
  <2>2. ASSUME NEW m \in Nat
        PROVE  (IF m \in Byte THEN one[m] ELSE Appends(f[down[m]], m))
                 = IF m < 256 THEN <<m>> ELSE Append(f[m \div 256], (m % 256))
    BY <1>2 DEF Appends
  <2>3. [m \in Nat |-> IF m \in Byte THEN one[m] ELSE Appends(f[down[m]], m)]
          = [m \in Nat |-> IF m < 256 THEN <<m>> ELSE Append(f[m \div 256], (m % 256))]
    BY <2>2
  <2>. QED
    BY <2>1, <2>3, Zenon
<1>4. Is(Bytes)
  <2>1. Bytes = CHOOSE g : Is(g)
    BY DEF Bytes
  <2>. HIDE DEF Is
  <2>. QED
    BY <1>3, <2>1
<1>. QED
  BY <1>4

(* FoldLeft of Script is that of Folding.                                  *)
LEMMA NumeralIs ==
    ASSUME NEW base, NEW seq
    PROVE  FoldLeft(ShiftIn, base, seq) = Numeral!FoldLeft(ShiftIn, base, seq)
  BY DEF FoldLeft, MapThenFoldSet, Max,
         Numeral!FoldLeft, Numeral!MapThenFoldSet, Numeral!Max

ReadFrom(base, seq) == FoldLeft(ShiftIn, base, seq)

LEMMA NumeralNone ==
    ASSUME NEW base PROVE ReadFrom(base, << >>) = base
  BY NumeralIs, Numeral!FoldLeftEmpty DEF ReadFrom

LEMMA NumeralNext ==
    ASSUME NEW base, NEW seq \in Seq(Byte), NEW x \in Byte
    PROVE  ReadFrom(base, Append(seq, x)) = 256 * ReadFrom(base, seq) + x
<1>1. Numeral!FoldLeft(ShiftIn, base, Append(seq, x))
        = ShiftIn(Numeral!FoldLeft(ShiftIn, base, seq), x)
  BY Numeral!FoldLeftAppend
<1>2. /\ ReadFrom(base, Append(seq, x)) = Numeral!FoldLeft(ShiftIn, base, Append(seq, x))
      /\ ReadFrom(base, seq) = Numeral!FoldLeft(ShiftIn, base, seq)
  BY NumeralIs, Zenon DEF ReadFrom
<1>3. ReadFrom(base, Append(seq, x)) = ShiftIn(ReadFrom(base, seq), x)
  BY <1>1, <1>2, Zenon
<1>. QED
  BY <1>3, Zenon DEF ShiftIn

(* The bytes of a number read as that number, whether the first of them    *)
(* comes with the others or is where the fold starts.                      *)
IsNumeral(bytes, m) ==
    /\ bytes \in Seq(Byte)
    /\ bytes # << >>
    /\ m > 0 => Head(bytes) > 0
    /\ ReadFrom(0, bytes) = m
    /\ ReadFrom(Head(bytes), Tail(bytes)) = m

LEMMA NumeralOne ==
    ASSUME NEW m \in Byte
    PROVE  IsNumeral(<<m>>, m)
<1>1. PICK none : none = << >>
  OBVIOUS
<1>2. none \in Seq(Byte) /\ <<m>> = Append(none, m)
  BY <1>1
<1>3. ReadFrom(0, << >>) = 0 /\ ReadFrom(m, << >>) = m
  BY NumeralNone
<1>4. ReadFrom(0, <<m>>) = m
  <2>1. ReadFrom(0, Append(none, m)) = 256 * ReadFrom(0, none) + m
    BY <1>2, NumeralNext
  <2>2. ReadFrom(0, none) = 0
    BY <1>1, <1>3
  <2>3. ReadFrom(0, Append(none, m)) = 256 * 0 + m
    BY <2>1, <2>2
  <2>4. 256 * 0 + m = m
    BY DEF Byte
  <2>. QED
    BY <1>2, <2>3, <2>4, Zenon
<1>5. Head(<<m>>) = m /\ Tail(<<m>>) = << >>
  OBVIOUS
<1>. QED
  BY <1>3, <1>4, <1>5 DEF IsNumeral

LEMMA NumeralMore ==
    ASSUME NEW q \in Nat, q > 0, NEW r \in Byte, NEW bytes, IsNumeral(bytes, q)
    PROVE  IsNumeral(Append(bytes, r), 256 * q + r)
<1>. DEFINE more == Append(bytes, r)
<1>1. bytes \in Seq(Byte) /\ bytes # << >> /\ Head(bytes) > 0
  BY DEF IsNumeral
<1>2. more \in Seq(Byte) /\ more # << >> /\ Head(more) = Head(bytes)
  BY <1>1
<1>3. Tail(more) = Append(Tail(bytes), r) /\ Tail(bytes) \in Seq(Byte)
  BY <1>1
<1>4. ReadFrom(0, more) = 256 * q + r
  BY <1>1, NumeralNext DEF IsNumeral
<1>5. ReadFrom(Head(bytes), Append(Tail(bytes), r)) = 256 * q + r
  <2>1. ReadFrom(Head(bytes), Append(Tail(bytes), r))
          = 256 * ReadFrom(Head(bytes), Tail(bytes)) + r
    <3>1. PICK head, tail : head = Head(bytes) /\ tail = Tail(bytes)
      OBVIOUS
    <3>2. tail \in Seq(Byte)
      BY <1>3, <3>1
    <3>3. ReadFrom(head, Append(tail, r)) = 256 * ReadFrom(head, tail) + r
      BY <3>2, NumeralNext
    <3>. QED
      BY <3>1, <3>3
  <2>2. ReadFrom(Head(bytes), Tail(bytes)) = q
    BY DEF IsNumeral
  <2>. QED
    BY <2>1, <2>2
<1>. QED
  BY <1>1, <1>2, <1>3, <1>4, <1>5 DEF IsNumeral

LEMMA BytesRead == \A m \in Nat : IsNumeral(Bytes[m], m)
<1>. DEFINE T == {n \in Nat : \A m \in 0 .. n : IsNumeral(Bytes[m], m)}
<1>1. ASSUME NEW m \in Nat, \A k \in 0 .. m - 1 : IsNumeral(Bytes[k], k)
      PROVE  IsNumeral(Bytes[m], m)
  <2>1. CASE m < 256
    <3>1. m \in Byte
      BY <2>1 DEF Byte
    <3>2. Bytes[m] = <<m>>
      BY <2>1, BytesAre, Zenon
    <3>. QED
      BY <3>1, <3>2, NumeralOne
  <2>2. CASE m >= 256
    <3>1. PICK q, r : q = m \div 256 /\ r = m % 256
      OBVIOUS
    <3>2. q \in Nat /\ q > 0 /\ q < m /\ r \in Byte /\ m = 256 * q + r
      BY <2>2, <3>1 DEF Byte
    <3>3. Bytes[m] = Append(Bytes[q], r)
      <4>1. ~ (m < 256)
        BY <2>2
      <4>2. Bytes[m] = Append(Bytes[m \div 256], (m % 256))
        BY <4>1, BytesAre
      <4>. QED
        BY <3>1, <4>2
    <3>4. IsNumeral(Bytes[q], q)
      BY <1>1, <3>2
    <3>5. IsNumeral(Append(Bytes[q], r), 256 * q + r)
      BY <3>2, <3>4, NumeralMore
    <3>. QED
      BY <3>2, <3>3, <3>5
  <2>. QED
    BY <2>1, <2>2
<1>2. 0 \in T
  BY <1>1
<1>3. ASSUME NEW n \in Nat, n \in T
      PROVE  n + 1 \in T
  <2>1. IsNumeral(Bytes[n + 1], n + 1)
    BY <1>1, <1>3
  <2>2. \A m \in 0 .. n + 1 : m \in 0 .. n \/ m = n + 1
    OBVIOUS
  <2>. QED
    BY <1>3, <2>1, <2>2
<1>4. \A n \in Nat : n \in T
  <2>. HIDE DEF T
  <2>. QED
    BY <1>2, <1>3, Digits!NatSetInduction
<1>. QED
  BY <1>4

(* The number with its sign: what it is made of, and what it reads as.     *)
LEMMA MpiIs ==
    ASSUME NEW n \in Int, n # 0
    PROVE  /\ Mpi(n) \in Seq(Byte) /\ Mpi(n) # << >>
           /\ ReadFrom((Mpi(n)[1] % 128), Tail(Mpi(n))) = Abs(n)
           /\ Mpi(n)[1] < 128 <=> n > 0
           /\ n \in 1 .. 255 => Last(Mpi(n)) = n
<1>. DEFINE bytes == Bytes[Abs(n)]
            magnitude == IF Head(bytes) < 128 THEN bytes ELSE <<0>> \o bytes
<1>1. Abs(n) \in Nat /\ Abs(n) > 0
  BY DEF Abs
<1>2. IsNumeral(bytes, Abs(n))
  BY <1>1, BytesRead
<1>3. Mpi(n) = IF n < 0 THEN [magnitude EXCEPT ![1] = @ + 128] ELSE magnitude
  BY DEF Mpi
<1>4. n \in 1 .. 255 => bytes = <<n>>
  <2>. HAVE n \in 1 .. 255
  <2>1. Abs(n) = n /\ n \in Nat /\ n < 256
    BY DEF Abs
  <2>2. Bytes[n] = <<n>>
    BY <2>1, BytesAre
  <2>. QED
    BY <2>1, <2>2
<1>. HIDE DEF bytes
<1>5. bytes \in Seq(Byte) /\ bytes # << >> /\ Head(bytes) \in Byte /\ Head(bytes) = bytes[1]
  BY <1>2 DEF IsNumeral
<1>6. /\ magnitude \in Seq(Byte) /\ magnitude # << >> /\ magnitude[1] \in 0 .. 127
      /\ ReadFrom(magnitude[1], Tail(magnitude)) = Abs(n)
      /\ n \in 1 .. 255 => Last(magnitude) = n
  <2>1. CASE Head(bytes) < 128
    <3>1. magnitude = bytes
      BY <2>1
    <3>2. Head(bytes) \in 0 .. 127
      <4>1. PICK first : first = Head(bytes)
        OBVIOUS
      <4>2. first \in 0 .. 255 /\ first < 128
        BY <1>5, <2>1, <4>1 DEF Byte
      <4>. QED
        BY <4>1, <4>2
    <3>. HIDE DEF magnitude
    <3>. QED
      BY <1>2, <1>4, <1>5, <3>1, <3>2 DEF IsNumeral, Last
  <2>2. CASE ~ (Head(bytes) < 128)
    <3>1. magnitude = <<0>> \o bytes
      BY <2>2
    <3>. HIDE DEF magnitude
    <3>2. <<0>> \in Seq(Byte)
      BY DEF Byte
    <3>3. magnitude \in Seq(Byte) /\ magnitude # << >> /\ magnitude[1] = 0
      BY <1>5, <3>1, <3>2
    <3>4. Tail(magnitude) = bytes
      BY <1>5, <3>1, <3>2
    <3>5. Last(magnitude) = Last(bytes)
      BY <1>5, <3>1, <3>2 DEF Last
    <3>6. Last(bytes) = n \/ n \notin 1 .. 255
      BY <1>4 DEF Last
    <3>7. ReadFrom(0, bytes) = Abs(n)
      BY <1>2 DEF IsNumeral
    <3>8. ReadFrom(magnitude[1], Tail(magnitude)) = Abs(n)
      BY <3>3, <3>4, <3>7
    <3>. QED
      BY <3>3, <3>5, <3>6, <3>8
  <2>. QED
    BY <2>1, <2>2
<1>. HIDE DEF magnitude
<1>7. CASE n > 0
  <2>1. Mpi(n) = magnitude
    BY <1>3, <1>7
  <2>2. magnitude[1] % 128 = magnitude[1] /\ magnitude[1] < 128
    <3>1. PICK first : first = magnitude[1]
      OBVIOUS
    <3>2. first \in 0 .. 127
      BY <1>6, <3>1
    <3>3. (first % 128) = first
      BY <3>2
    <3>. QED
      BY <3>1, <3>2, <3>3
  <2>. QED
    BY <1>6, <1>7, <2>1, <2>2
<1>8. CASE n < 0
  <2>. DEFINE first == magnitude[1] + 128
              signed == [magnitude EXCEPT ![1] = first]
  <2>1. Mpi(n) = signed
    BY <1>3, <1>8
  <2>2. first \in Byte /\ ~ (first < 128) /\ (first % 128) = magnitude[1]
    <3>1. PICK m : m = magnitude[1]
      OBVIOUS
    <3>2. m \in 0 .. 127 /\ first = m + 128
      BY <1>6, <3>1
    <3>3. ((m + 128) % 128) = m
      BY <3>2
    <3>. HIDE DEF first
    <3>. QED
      BY <3>1, <3>2, <3>3 DEF Byte
  <2>. HIDE DEF first
  <2>3. signed \in Seq(Byte) /\ signed # << >> /\ signed[1] = first /\ Tail(signed) = Tail(magnitude)
    BY <1>6, <2>2
  <2>. HIDE DEF signed
  <2>4. ReadFrom((signed[1] % 128), Tail(signed)) = Abs(n)
    BY <1>6, <2>2, <2>3
  <2>5. ~ (signed[1] < 128) /\ ~ (n > 0) /\ n \notin 1 .. 255
    BY <1>8, <2>2, <2>3
  <2>. QED
    BY <2>1, <2>3, <2>4, <2>5
<1>. QED
  BY <1>7, <1>8

(* bytes_to_bignum undoes bignum_to_bytes, and small numbers are the first *)
(* byte.                                                                   *)
LEMMA RoundTrip ==
    ASSUME NEW n \in Int
    PROVE  /\ BignumToBytes(n) \in Seq(Nat)
           /\ BytesToBignum(BignumToBytes(n)) = n
           /\ n \in 0 .. 255 => FirstByte(Data(BignumToBytes(n))) = n
<1>1. CASE n = 0
  <2>1. BignumToBytes(n) = << >>
    BY <1>1 DEF BignumToBytes
  <2>2. BytesToBignum(<< >>) = 0
    BY DEF BytesToBignum
  <2>3. Data(<< >>).data = << >>
    BY DEF Data
  <2>4. FirstByte(Data(<< >>)) = 0
    BY <2>3 DEF FirstByte
  <2>5. << >> \in Seq(Nat)
    OBVIOUS
  <2>. QED
    BY <1>1, <2>1, <2>2, <2>4, <2>5, Zenon
<1>2. CASE n # 0
  <2>. DEFINE mpi == Mpi(n)
              k == Len(mpi)
              bytes == Reverse(<<k>> \o mpi)
  <2>1. /\ mpi \in Seq(Byte) /\ mpi # << >>
        /\ ReadFrom((mpi[1] % 128), Tail(mpi)) = Abs(n)
        /\ mpi[1] < 128 <=> n > 0
        /\ n \in 1 .. 255 => Last(mpi) = n
    BY <1>2, MpiIs
  <2>2. BignumToBytes(n) = bytes
    BY <1>2 DEF BignumToBytes
  <2>. HIDE DEF mpi
  <2>3. k \in Nat /\ k > 0 /\ mpi \in Seq(Nat)
    <3>1. k \in Nat /\ k > 0
      BY <2>1
    <3>2. \A b \in Byte : b \in Nat
      BY DEF Byte
    <3>3. \A i \in 1 .. k : mpi[i] \in Nat
      BY <2>1, <3>1, <3>2
    <3>4. mpi = [i \in 1 .. k |-> mpi[i]]
      BY <2>1
    <3>. QED
      BY <3>1, <3>3, <3>4
  <2>4. /\ bytes \in Seq(Nat) /\ Len(bytes) = k + 1
        /\ bytes[k + 1] = k
        /\ \A i \in 1 .. k : bytes[i] = mpi[k - i + 1]
    <3>. DEFINE whole == <<k>> \o mpi
    <3>1. /\ whole \in Seq(Nat) /\ Len(whole) = k + 1 /\ whole[1] = k
          /\ \A i \in 1 .. k : whole[i + 1] = mpi[i]
      BY <2>3
    <3>. HIDE DEF whole
    <3>2. bytes = [i \in 1 .. k + 1 |-> whole[(k + 1 - i) + 1]]
      BY <3>1 DEF Reverse, whole
    <3>3. \A i \in 1 .. k + 1 : (k + 1 - i) + 1 \in 1 .. k + 1
      BY <2>3
    <3>4. \A i \in 1 .. k + 1 : whole[(k + 1 - i) + 1] \in Nat
      BY <3>1, <3>3
    <3>5. bytes \in Seq(Nat) /\ Len(bytes) = k + 1
      <4>1. PICK m : m = k + 1
        OBVIOUS
      <4>2. m \in Nat
        BY <2>3, <4>1
      <4>3. bytes \in [1 .. m -> Nat]
        BY <3>2, <3>4, <4>1
      <4>. QED
        BY <4>1, <4>2, <4>3
    <3>6. bytes[k + 1] = whole[1]
      BY <2>3, <3>2
    <3>7. ASSUME NEW i \in 1 .. k PROVE bytes[i] = mpi[k - i + 1]
      <4>1. k - i + 1 \in 1 .. k /\ (k + 1 - i) + 1 = (k - i + 1) + 1 /\ i \in 1 .. k + 1
        BY <2>3
      <4>. QED
        BY <3>1, <3>2, <4>1
    <3>. QED
      BY <3>1, <3>5, <3>6, <3>7
  <2>. HIDE DEF bytes
  <2>5. Reverse(Front(bytes)) = mpi
    <3>1. /\ Front(bytes) \in Seq(Nat) /\ Len(Front(bytes)) = k
          /\ \A i \in 1 .. k : Front(bytes)[i] = bytes[i]
      <4>1. Len(bytes) - 1 = k
        BY <2>3, <2>4
      <4>2. Front(bytes) = SubSeq(bytes, 1, k)
        BY <4>1 DEF Front
      <4>3. \A i \in 1 .. k : bytes[i] \in Nat
        BY <2>3, <2>4
      <4>4. SubSeq(bytes, 1, k) = [i \in 1 .. k |-> bytes[i]]
        BY <2>3, <2>4
      <4>. QED
        BY <2>3, <4>2, <4>3, <4>4
    <3>2. Reverse(Front(bytes)) = [i \in 1 .. k |-> Front(bytes)[(k - i) + 1]]
      BY <3>1 DEF Reverse
    <3>3. ASSUME NEW i \in 1 .. k PROVE Front(bytes)[(k - i) + 1] = mpi[i]
      <4>1. (k - i) + 1 \in 1 .. k /\ k - ((k - i) + 1) + 1 = i
        BY <2>3
      <4>. QED
        BY <2>4, <3>1, <4>1
    <3>4. mpi = [i \in 1 .. k |-> mpi[i]]
      BY <2>3
    <3>. QED
      BY <3>2, <3>3, <3>4
  <2>6. bytes # << >> /\ Len(bytes) # 1 /\ Last(bytes) = Len(bytes) - 1
    BY <2>3, <2>4 DEF Last
  <2>7. BytesToBignum(bytes) = IF mpi[1] < 128 THEN Abs(n) ELSE - Abs(n)
    <3>1. BytesToBignum(bytes)
            = LET size == ReadFrom((mpi[1] % 128), Tail(mpi))
              IN  IF mpi[1] < 128 THEN size ELSE -size
      BY <2>5, <2>6 DEF BytesToBignum, ReadFrom
    <3>. QED
      BY <2>1, <3>1
  <2>8. BytesToBignum(bytes) = n
    BY <1>2, <2>1, <2>7 DEF Abs
  <2>9. n \in 0 .. 255 => FirstByte(Data(bytes)) = n
    <3>1. bytes[1] = mpi[k]
      BY <2>3, <2>4
    <3>. QED
      BY <1>2, <2>1, <2>6, <3>1 DEF FirstByte, Data, Last
  <2>. QED
    BY <2>2, <2>4, <2>8, <2>9
<1>. QED
  BY <1>1, <1>2

-----------------------------------------------------------------------------
(* The program on integers, one op at a time.                              *)

To(s, n, pushed) == [s EXCEPT !.stack = Pop(@, n) \o pushed]
Out(s)           == [s EXCEPT !.ok = FALSE]
Has(s, n)        == Len(s.stack) >= n
X(s, k)          == Popped(s.stack, k, 0)
Index(s)         == Len(s.stack) - 1 - X(s, 1)

LEMMA StepOfPush ==
    ASSUME NEW s, s.ok, NEW f
    PROVE  /\ f.op = "" => NumberStep(s, f) = IF IsNumber(f.data)
                                              THEN To(s, 0, <<BytesToBignum(f.data)>>) ELSE Out(s)
           /\ f.op = "OP_1" => NumberStep(s, f) = To(s, 0, f.data)
           /\ f.op = "OP_1NEGATE" => NumberStep(s, f) = To(s, 0, <<-1>>)
           /\ f.op = "OP_DEPTH" => NumberStep(s, f) = To(s, 0, <<Len(s.stack)>>)
           /\ f.op = "OP_SIZE" => NumberStep(s, f) = Out(s)
  BY DEF NumberStep, Moves, Unaries, Binaries, To, Out

LEMMA StepOfMove ==
    ASSUME NEW s, s.ok, NEW f, f.op \in Moves
    PROVE  NumberStep(s, f) = IF Has(s, Move(f.op).pops) THEN [s EXCEPT !.stack = Moved(@, f.op, 0)]
                              ELSE Out(s)
  BY DEF NumberStep, Moves, Unaries, Binaries, Out, Has

LEMMA StepOfAlt ==
    ASSUME NEW s, s.ok, NEW f
    PROVE  /\ f.op = "OP_TOALTSTACK" =>
                NumberStep(s, f) = IF Has(s, 1) THEN [To(s, 1, << >>) EXCEPT !.alt = Append(@, X(s, 1))]
                                   ELSE Out(s)
           /\ f.op = "OP_FROMALTSTACK" =>
                NumberStep(s, f) = IF s.alt # << >>
                                   THEN [To(s, 0, <<Last(s.alt)>>) EXCEPT !.alt = Front(@)]
                                   ELSE Out(s)
  BY DEF NumberStep, Moves, Unaries, Binaries, Out, Has, To, X

LEMMA StepOfCompute ==
    ASSUME NEW s, s.ok, NEW f
    PROVE  /\ f.op \in Unaries =>
                NumberStep(s, f) = IF Has(s, 1) THEN To(s, 1, <<Unary(f.op, X(s, 1))>>) ELSE Out(s)
           /\ f.op \in Binaries =>
                NumberStep(s, f) = IF Has(s, 2) THEN To(s, 2, <<Binary(f.op, X(s, 2), X(s, 1))>>) ELSE Out(s)
           /\ f.op = "OP_WITHIN" =>
                NumberStep(s, f) = IF Has(s, 3) THEN To(s, 3, <<Within(X(s, 3), X(s, 2), X(s, 1))>>) ELSE Out(s)
           /\ f.op = "OP_NOT" =>
                NumberStep(s, f) = IF Has(s, 1) THEN To(s, 0, <<Bit(X(s, 1) = 0)>>) ELSE Out(s)
           /\ f.op \in {"OP_MIN", "OP_EQUAL"} => NumberStep(s, f) = Out(s)
<1>1. f.op \in Unaries =>
        NumberStep(s, f) = IF Has(s, 1) THEN To(s, 1, <<Unary(f.op, X(s, 1))>>) ELSE Out(s)
  BY DEF NumberStep, Moves, Unaries, Binaries, Out, Has, To, X
<1>2. f.op \in Binaries =>
        NumberStep(s, f) = IF Has(s, 2) THEN To(s, 2, <<Binary(f.op, X(s, 2), X(s, 1))>>) ELSE Out(s)
  BY DEF NumberStep, Moves, Unaries, Binaries, Out, Has, To, X
<1>3. f.op = "OP_WITHIN" =>
        NumberStep(s, f) = IF Has(s, 3) THEN To(s, 3, <<Within(X(s, 3), X(s, 2), X(s, 1))>>) ELSE Out(s)
  BY DEF NumberStep, Moves, Unaries, Binaries, Out, Has, To, X
<1>4. f.op = "OP_NOT" =>
        NumberStep(s, f) = IF Has(s, 1) THEN To(s, 0, <<Bit(X(s, 1) = 0)>>) ELSE Out(s)
  BY DEF NumberStep, Moves, Unaries, Binaries, Out, Has, To, X
<1>5. f.op \in {"OP_MIN", "OP_EQUAL"} => NumberStep(s, f) = Out(s)
  BY DEF NumberStep, Moves, Unaries, Binaries, Out
<1>. QED
  BY <1>1, <1>2, <1>3, <1>4, <1>5, Zenon

LEMMA StepOfPick ==
    ASSUME NEW s, s.ok, NEW f
    PROVE  /\ f.op = "OP_PICK" =>
                NumberStep(s, f) = IF Has(s, 1) /\ Index(s) \in 1 .. Len(s.stack) - 1
                                   THEN To(s, 1, <<s.stack[Index(s)]>>) ELSE Out(s)
           /\ f.op = "OP_ROLL" =>
                NumberStep(s, f) = IF Has(s, 1) /\ Index(s) \in 1 .. Len(s.stack) - 1 /\ Index(s) <= 3
                                   THEN [s EXCEPT !.stack = Append(RemoveAt(Front(@), Index(s)), @[Index(s)])]
                                   ELSE Out(s)
  BY DEF NumberStep, Moves, Unaries, Binaries, Out, Has, To, X, Index

LEMMA StepOfOther ==
    ASSUME NEW s, s.ok, NEW f
    PROVE  /\ f.op = "OP_VERIFY" => NumberStep(s, f) = IF Has(s, 1) THEN To(s, 1, << >>) ELSE Out(s)
           /\ f.op \in {"OP_EQUALVERIFY", "OP_HASH160", "OP_CHECKSIG", "OP_CHECKSIGVERIFY",
                        "OP_CHECKMULTISIG"} => NumberStep(s, f) = Out(s)
  BY DEF NumberStep, Moves, Unaries, Binaries, Out, Has, To

-----------------------------------------------------------------------------
(* Frames and the numbers they read as, on two stacks.                     *)
DataFrames == [op : {""}, data : Seq(Int)]

Reads(frame, n) ==
    /\ frame \in DataFrames
    /\ BytesToBignum(frame.data) = n
    /\ n \in 0 .. 255 => FirstByte(frame) = n

Agree(stack, ints) ==
    /\ stack \in Seq(DataFrames)
    /\ ints \in Seq(Int)
    /\ Len(stack) = Len(ints)
    /\ \A k \in 1 .. Len(ints) : Reads(stack[k], ints[k])

LEMMA NumericalReads == ASSUME NEW n \in Int PROVE Reads(NumericalFrame(n), n)
<1>1. PICK bytes : bytes = BignumToBytes(n)
  OBVIOUS
<1>2. /\ bytes \in Seq(Nat) /\ BytesToBignum(bytes) = n
      /\ n \in 0 .. 255 => FirstByte(Data(bytes)) = n
  BY <1>1, RoundTrip
<1>3. bytes \in Seq(Int)
  <2>1. Nat \subseteq Int
    OBVIOUS
  <2>. QED
    BY <1>2, <2>1, SeqMonotonic
<1>4. Data(bytes) \in DataFrames /\ Data(bytes).data = bytes
  BY <1>3 DEF Data, DataFrames
<1>. QED
  BY <1>1, <1>2, <1>4 DEF Reads, NumericalFrame

LEMMA AgreeNone == Agree(<< >>, << >>)
  BY DEF Agree

LEMMA AgreeConcat ==
    ASSUME NEW a, NEW b, Agree(a, b), NEW c, NEW d, Agree(c, d)
    PROVE  Agree(a \o c, b \o d) /\ Len(a \o c) = Len(a) + Len(c)
<1>1. a \in Seq(DataFrames) /\ c \in Seq(DataFrames) /\ b \in Seq(Int) /\ d \in Seq(Int)
      /\ Len(a) = Len(b) /\ Len(c) = Len(d)
  BY DEF Agree
<1>2. /\ a \o c \in Seq(DataFrames) /\ Len(a \o c) = Len(a) + Len(c)
      /\ Len(a) \in Nat /\ Len(c) \in Nat
      /\ \A k \in 1 .. Len(a) + Len(c) :
            (a \o c)[k] = IF k <= Len(a) THEN a[k] ELSE c[k - Len(a)]
  <2>1. Len(a) \in Nat /\ Len(c) \in Nat
    BY <1>1
  <2>2. a \o c \in Seq(DataFrames) /\ Len(a \o c) = Len(a) + Len(c)
    BY <1>1, ConcatProperties
  <2>3. \A k \in 1 .. Len(a) + Len(c) :
            (a \o c)[k] = IF k <= Len(a) THEN a[k] ELSE c[k - Len(a)]
    BY <1>1
  <2>. QED
    BY <2>1, <2>2, <2>3
<1>4. /\ b \o d \in Seq(Int) /\ Len(b \o d) = Len(a) + Len(c)
      /\ \A k \in 1 .. Len(a) + Len(c) :
            (b \o d)[k] = IF k <= Len(a) THEN b[k] ELSE d[k - Len(a)]
  BY <1>1
<1>3. ASSUME NEW k \in 1 .. Len(b \o d)
      PROVE  Reads((a \o c)[k], (b \o d)[k])
  <2>1. CASE k <= Len(a)
    <3>1. k \in 1 .. Len(a) + Len(c) /\ k \in 1 .. Len(b)
      BY <1>1, <1>2, <1>4, <2>1
    <3>2. (a \o c)[k] = a[k] /\ (b \o d)[k] = b[k]
      BY <1>2, <1>4, <2>1, <3>1
    <3>. QED
      BY <3>1, <3>2 DEF Agree
  <2>2. CASE k > Len(a)
    <3>1. /\ k \in 1 .. Len(a) + Len(c)
          /\ k - Len(a) \in 1 .. Len(d) /\ ~ (k <= Len(a))
      BY <1>1, <1>2, <1>4, <2>2
    <3>2. (a \o c)[k] = c[k - Len(a)] /\ (b \o d)[k] = d[k - Len(a)]
      BY <1>2, <1>4, <3>1
    <3>. QED
      BY <3>1, <3>2 DEF Agree
  <2>3. k <= Len(a) \/ k > Len(a)
    <3>1. k \in Int /\ Len(a) \in Int
      BY <1>2, <1>4
    <3>. QED
      BY <3>1
  <2>. QED
    BY <2>1, <2>2, <2>3, Zenon
<1>. QED
  BY <1>1, <1>2, <1>3, <1>4 DEF Agree

LEMMA AgreeOne ==
    ASSUME NEW frame, NEW n \in Int, Reads(frame, n)
    PROVE  Agree(<<frame>>, <<n>>)
  BY DEF Agree, Reads

LEMMA AgreePush ==
    ASSUME NEW a, NEW b, Agree(a, b), NEW frame, NEW n \in Int, Reads(frame, n)
    PROVE  /\ Agree(Append(a, frame), b \o <<n>>)
           /\ Append(b, n) = b \o <<n>>
           /\ Len(Append(a, frame)) = Len(a) + 1
<1>1. Agree(<<frame>>, <<n>>)
  BY AgreeOne
<1>2. Agree(a \o <<frame>>, b \o <<n>>) /\ Len(a \o <<frame>>) = Len(a) + Len(<<frame>>)
  BY <1>1, AgreeConcat
<1>3. a \in Seq(DataFrames) /\ frame \in DataFrames /\ b \in Seq(Int)
  BY DEF Agree, Reads
<1>4. Append(a, frame) = a \o <<frame>>
  BY <1>3, AppendIsConcat
<1>5. Append(b, n) = b \o <<n>>
  BY <1>3, AppendIsConcat
<1>6. Len(<<frame>>) = 1
  OBVIOUS
<1>. QED
  BY <1>2, <1>4, <1>5, <1>6

LEMMA AgreePop ==
    ASSUME NEW a, NEW b, Agree(a, b), NEW m \in Nat, m <= Len(b)
    PROVE  Agree(Pop(a, m), Pop(b, m)) /\ Len(Pop(a, m)) = Len(a) - m
<1>1. a \in Seq(DataFrames) /\ b \in Seq(Int) /\ Len(a) = Len(b) /\ Len(b) \in Nat
  BY DEF Agree
<1>2. /\ Pop(a, m) \in Seq(DataFrames) /\ Len(Pop(a, m)) = Len(a) - m
      /\ Pop(b, m) \in Seq(Int) /\ Len(Pop(b, m)) = Len(b) - m
      /\ \A k \in 1 .. Len(b) - m : Pop(a, m)[k] = a[k] /\ Pop(b, m)[k] = b[k] /\ k \in 1 .. Len(b)
  <2>1. PICK p : p = Len(b) - m
    OBVIOUS
  <2>2. p \in Nat /\ p <= Len(b) /\ p = Len(a) - m
    BY <1>1, <2>1
  <2>3. /\ SubSeq(a, 1, p) \in Seq(DataFrames) /\ Len(SubSeq(a, 1, p)) = p
        /\ \A k \in 1 .. p : SubSeq(a, 1, p)[k] = a[k]
    BY <1>1, <2>2
  <2>4. /\ SubSeq(b, 1, p) \in Seq(Int) /\ Len(SubSeq(b, 1, p)) = p
        /\ \A k \in 1 .. p : SubSeq(b, 1, p)[k] = b[k]
    BY <1>1, <2>2
  <2>5. Pop(a, m) = SubSeq(a, 1, p) /\ Pop(b, m) = SubSeq(b, 1, p)
    BY <2>1, <2>2 DEF Pop
  <2>. QED
    BY <1>1, <2>1, <2>2, <2>3, <2>4, <2>5
<1>. QED
  BY <1>1, <1>2 DEF Agree

LEMMA AgreePopped ==
    ASSUME NEW a, NEW b, Agree(a, b), NEW k \in 1 .. Len(b), NEW empty
    PROVE  Reads(Popped(a, k, empty), Popped(b, k, 0)) /\ Popped(b, k, 0) \in Int
<1>1. a \in Seq(DataFrames) /\ b \in Seq(Int) /\ Len(a) = Len(b) /\ Len(b) \in Nat
  BY DEF Agree
<1>2. Len(b) - k + 1 \in 1 .. Len(b)
  BY <1>1
<1>3. PICK j : j = Len(b) - k + 1
  OBVIOUS
<1>4. Popped(a, k, empty) = a[j] /\ Popped(b, k, 0) = b[j]
  BY <1>1, <1>3 DEF Popped
<1>5. Reads(a[j], b[j])
  BY <1>2, <1>3 DEF Agree
<1>6. b[j] \in Int
  BY <1>1, <1>2, <1>3
<1>. QED
  BY <1>4, <1>5, <1>6

PushesFit(pops, pushes) ==
    /\ pops \in Nat
    /\ pushes \in Seq(1 .. pops)
    /\ Len(pushes) <= pops + 2

LEMMA MovePushes ==
    ASSUME NEW op \in Moves
    PROVE  PushesFit(Move(op).pops, Move(op).pushes)
<1>9. ASSUME NEW pops, NEW pushes, Move(op) = [pops |-> pops, pushes |-> pushes], PushesFit(pops, pushes)
      PROVE  PushesFit(Move(op).pops, Move(op).pushes)
  BY <1>9
<1>1. CASE op = "OP_NOP"
  <2>1. Move(op) = [pops |-> 0, pushes |-> << >>]
    BY <1>1 DEF Move
  <2>2. PushesFit(0, << >>)
    BY DEF PushesFit
  <2>. QED
    BY <1>9, <2>1, <2>2
<1>2. CASE op = "OP_DROP"
  <2>1. Move(op) = [pops |-> 1, pushes |-> << >>]
    BY <1>2 DEF Move
  <2>2. PushesFit(1, << >>)
    BY DEF PushesFit
  <2>. QED
    BY <1>9, <2>1, <2>2
<1>3. CASE op = "OP_DUP"
  <2>1. Move(op) = [pops |-> 1, pushes |-> <<1, 1>>]
    BY <1>3 DEF Move
  <2>2. PushesFit(1, <<1, 1>>)
    BY DEF PushesFit
  <2>. QED
    BY <1>9, <2>1, <2>2
<1>4. CASE op = "OP_NIP"
  <2>1. Move(op) = [pops |-> 2, pushes |-> <<1>>]
    BY <1>4 DEF Move
  <2>2. PushesFit(2, <<1>>)
    BY DEF PushesFit
  <2>. QED
    BY <1>9, <2>1, <2>2
<1>5. CASE op = "OP_SWAP"
  <2>1. Move(op) = [pops |-> 2, pushes |-> <<1, 2>>]
    BY <1>5 DEF Move
  <2>2. PushesFit(2, <<1, 2>>)
    BY DEF PushesFit
  <2>. QED
    BY <1>9, <2>1, <2>2
<1>6. CASE op = "OP_TUCK"
  <2>1. Move(op) = [pops |-> 2, pushes |-> <<1, 2, 1>>]
    BY <1>6 DEF Move
  <2>2. PushesFit(2, <<1, 2, 1>>)
    BY DEF PushesFit
  <2>. QED
    BY <1>9, <2>1, <2>2
<1>7. CASE op = "OP_2DUP"
  <2>1. Move(op) = [pops |-> 2, pushes |-> <<2, 1, 2, 1>>]
    BY <1>7 DEF Move
  <2>2. PushesFit(2, <<2, 1, 2, 1>>)
    BY DEF PushesFit
  <2>. QED
    BY <1>9, <2>1, <2>2
<1>8. CASE op = "OP_ROT"
  <2>1. Move(op) = [pops |-> 3, pushes |-> <<2, 1, 3>>]
    BY <1>8 DEF Move
  <2>2. PushesFit(3, <<2, 1, 3>>)
    BY DEF PushesFit
  <2>. QED
    BY <1>9, <2>1, <2>2
<1>. QED
  BY <1>1, <1>2, <1>3, <1>4, <1>5, <1>6, <1>7, <1>8 DEF Moves

LEMMA AgreeMoved ==
    ASSUME NEW a, NEW b, Agree(a, b), NEW op \in Moves, Move(op).pops <= Len(b), NEW empty
    PROVE  /\ Agree(Moved(a, op, empty), Moved(b, op, 0))
           /\ Len(Moved(a, op, empty)) <= Len(a) + 2
<1>. DEFINE pops == Move(op).pops
            pushes == Move(op).pushes
            c == [k \in DOMAIN pushes |-> Popped(a, pushes[k], empty)]
            d == [k \in DOMAIN pushes |-> Popped(b, pushes[k], 0)]
<1>1. pops \in Nat /\ pushes \in Seq(1 .. pops) /\ Len(pushes) <= pops + 2
  BY MovePushes DEF PushesFit
<1>2. Moved(a, op, empty) = Pop(a, pops) \o c /\ Moved(b, op, 0) = Pop(b, pops) \o d
  BY DEF Moved
<1>3. Len(b) \in Nat /\ Len(a) = Len(b) /\ pops <= Len(b)
  BY DEF Agree
<1>. HIDE DEF pops, pushes
<1>4. DOMAIN pushes = 1 .. Len(pushes) /\ Len(pushes) \in Nat
  BY <1>1
<1>5. ASSUME NEW k \in 1 .. Len(pushes) PROVE Reads(c[k], d[k]) /\ d[k] \in Int /\ c[k] \in DataFrames
  <2>1. pushes[k] \in 1 .. Len(b)
    <3>1. pushes[k] \in 1 .. pops
      BY <1>1
    <3>. QED
      BY <1>1, <1>3, <3>1
  <2>2. Reads(Popped(a, pushes[k], empty), Popped(b, pushes[k], 0)) /\ Popped(b, pushes[k], 0) \in Int
    BY <2>1, AgreePopped
  <2>3. c[k] = Popped(a, pushes[k], empty) /\ d[k] = Popped(b, pushes[k], 0)
    BY <1>4
  <2>. QED
    BY <2>2, <2>3 DEF Reads
<1>6. Agree(c, d) /\ Len(c) = Len(pushes)
  <2>1. DOMAIN c = 1 .. Len(pushes) /\ DOMAIN d = 1 .. Len(pushes)
    BY <1>4
  <2>2. c = [k \in 1 .. Len(pushes) |-> c[k]] /\ d = [k \in 1 .. Len(pushes) |-> d[k]]
    BY <1>4
  <2>. HIDE DEF c, d
  <2>3. c \in Seq(DataFrames) /\ Len(c) = Len(pushes)
    BY <1>4, <1>5, <2>2
  <2>4. d \in Seq(Int) /\ Len(d) = Len(pushes)
    BY <1>4, <1>5, <2>2
  <2>. QED
    BY <1>5, <2>3, <2>4 DEF Agree
<1>. HIDE DEF c, d
<1>7. Agree(Pop(a, pops), Pop(b, pops)) /\ Len(Pop(a, pops)) = Len(a) - pops
  BY <1>1, <1>3, AgreePop
<1>8. Agree(Pop(a, pops) \o c, Pop(b, pops) \o d) /\ Len(Pop(a, pops) \o c) = Len(a) - pops + Len(pushes)
  <2>1. /\ Agree(Pop(a, pops) \o c, Pop(b, pops) \o d)
        /\ Len(Pop(a, pops) \o c) = Len(Pop(a, pops)) + Len(c)
    BY <1>6, <1>7, AgreeConcat
  <2>. QED
    BY <1>6, <1>7, <2>1
<1>9. Len(a) - pops + Len(pushes) <= Len(a) + 2
  BY <1>1, <1>3, <1>4
<1>. QED
  BY <1>2, <1>8, <1>9

LEMMA AgreeDrop ==
    ASSUME NEW a, NEW b, Agree(a, b), NEW m \in Nat, m <= Len(b)
    PROVE  Agree(Pop(a, m), Pop(b, m) \o << >>) /\ Len(Pop(a, m)) <= Len(a)
<1>1. Agree(Pop(a, m), Pop(b, m)) /\ Len(Pop(a, m)) = Len(a) - m
  BY AgreePop
<1>2. Len(a) = Len(b) /\ Len(b) \in Nat
  BY DEF Agree
<1>3. Pop(b, m) \in Seq(Int)
  BY <1>1 DEF Agree
<1>4. Pop(b, m) \o << >> = Pop(b, m)
  BY <1>3, ConcatEmptySeq
<1>. QED
  BY <1>1, <1>2, <1>4

(* A sequence without one of its elements.                                 *)
LEMMA Removed ==
    ASSUME NEW S, NEW seq \in Seq(S), NEW i \in 1 .. Len(seq)
    PROVE  /\ RemoveAt(seq, i) \in Seq(S)
           /\ Len(RemoveAt(seq, i)) = Len(seq) - 1
           /\ \A k \in 1 .. Len(seq) - 1 :
                 RemoveAt(seq, i)[k] = IF k < i THEN seq[k] ELSE seq[k + 1]
<1>. DEFINE n == Len(seq)
            c == SubSeq(seq, 1, i - 1)
            d == SubSeq(seq, i + 1, n)
<1>1. RemoveAt(seq, i) = c \o d
  BY DEF RemoveAt
<1>2. n \in Nat /\ i - 1 \in 0 .. n - 1 /\ i \in Nat
  OBVIOUS
<1>3. /\ c \in Seq(S) /\ Len(c) = i - 1
      /\ \A k \in 1 .. i - 1 : c[k] = seq[k]
  BY <1>2
<1>4. d \in Seq(S) /\ Len(d) = n - i
  <2>1. CASE i = n
    BY <1>2, <2>1
  <2>2. CASE i < n
    BY <1>2, <2>2
  <2>. QED
    BY <1>2, <2>1, <2>2
<1>5. \A k \in 1 .. n - i : d[k] = seq[k + i]
  BY <1>2
<1>. HIDE DEF c, d
<1>6. c \o d \in Seq(S) /\ Len(c \o d) = n - 1
  BY <1>2, <1>3, <1>4
<1>7. ASSUME NEW k \in 1 .. n - 1
      PROVE  (c \o d)[k] = IF k < i THEN seq[k] ELSE seq[k + 1]
  <2>1. (c \o d)[k] = IF k <= Len(c) THEN c[k] ELSE d[k - Len(c)]
    BY <1>2, <1>3, <1>4
  <2>2. CASE k < i
    <3>1. k \in 1 .. i - 1 /\ k <= Len(c)
      BY <1>2, <1>3, <2>2
    <3>2. c[k] = seq[k]
      BY <1>3, <3>1
    <3>. QED
      BY <2>1, <2>2, <3>1, <3>2
  <2>3. CASE k >= i
    <3>1. ~ (k <= Len(c)) /\ k - Len(c) \in 1 .. n - i /\ (k - Len(c)) + i = k + 1 /\ ~ (k < i)
      BY <1>2, <1>3, <2>3
    <3>2. d[k - Len(c)] = seq[k + 1]
      BY <1>5, <3>1
    <3>. QED
      BY <2>1, <3>1, <3>2
  <2>4. k < i \/ k >= i
    BY <1>2
  <2>. QED
    BY <2>2, <2>3, <2>4, Zenon
<1>. QED
  BY <1>1, <1>6, <1>7

(* Up to an index of 3 the loop of OP_ROLL closes the gap.                 *)
LEMMA AgreeRolled ==
    ASSUME NEW a, NEW b, Agree(a, b), NEW i \in 1 .. Len(b), i <= 3
    PROVE  /\ Agree(Rolled(a, i - 1), Append(RemoveAt(b, i), b[i]))
           /\ Len(Rolled(a, i - 1)) = Len(a)
<1>. DEFINE n == Len(a)
            c == [k \in 1 .. n - 1 |-> IF k > i - 1 /\ k - 1 < n - (i - 1) + 1
                                       THEN a[k + 1] ELSE a[k]]
            d == RemoveAt(b, i)
<1>1. /\ a \in Seq(DataFrames) /\ b \in Seq(Int) /\ n = Len(b) /\ n \in Nat /\ i \in 1 .. n
      /\ \A k \in 1 .. n : Reads(a[k], b[k])
  BY DEF Agree
<1>2. Rolled(a, i - 1) = Append(c, a[(i - 1) + 1])
  BY DEF Rolled
<1>3. (i - 1) + 1 = i
  BY <1>1
<1>4. d \in Seq(Int) /\ Len(d) = n - 1 /\ \A k \in 1 .. n - 1 : d[k] = IF k < i THEN b[k] ELSE b[k + 1]
  BY <1>1, Removed
<1>5. ASSUME NEW k \in 1 .. n - 1 PROVE c[k] = IF k < i THEN a[k] ELSE a[k + 1]
  <2>1. (k > i - 1 /\ k - 1 < n - (i - 1) + 1) <=> ~ (k < i)
    BY <1>1
  <2>. QED
    BY <2>1
<1>6. c = [k \in 1 .. n - 1 |-> c[k]]
  OBVIOUS
<1>. HIDE DEF c, d
<1>7. ASSUME NEW k \in 1 .. n - 1 PROVE Reads(c[k], d[k]) /\ c[k] \in DataFrames
  <2>1. k \in 1 .. n /\ k + 1 \in 1 .. n
    BY <1>1
  <2>2. Reads(a[k], b[k]) /\ Reads(a[k + 1], b[k + 1])
    BY <1>1, <2>1
  <2>. QED
    BY <1>4, <1>5, <2>2 DEF Reads
<1>8. Agree(c, d) /\ Len(c) = n - 1
  <2>1. c \in Seq(DataFrames) /\ Len(c) = n - 1
    BY <1>1, <1>6, <1>7
  <2>. QED
    BY <1>4, <1>7, <2>1 DEF Agree
<1>9. Reads(a[i], b[i]) /\ b[i] \in Int
  BY <1>1
<1>10. /\ Agree(Append(c, a[i]), d \o <<b[i]>>) /\ Append(d, b[i]) = d \o <<b[i]>>
       /\ Len(Append(c, a[i])) = (n - 1) + 1
  BY <1>8, <1>9, AgreePush
<1>11. (n - 1) + 1 = n
  BY <1>1
<1>. QED
  BY <1>2, <1>3, <1>10, <1>11 DEF d

(* Reading bytes gives an integer.                                         *)
LEMMA ReadFromIn ==
    ASSUME NEW base \in Int, NEW seq \in Seq(Byte)
    PROVE  ReadFrom(base, seq) \in Int
<1>. DEFINE T == {n \in Nat : \A q \in Seq(Byte) : Len(q) = n => ReadFrom(base, q) \in Int}
<1>1. 0 \in T
  <2>1. ASSUME NEW q \in Seq(Byte), Len(q) = 0 PROVE ReadFrom(base, q) \in Int
    <3>1. q = << >>
      BY <2>1
    <3>. QED
      BY <3>1, NumeralNone
  <2>. QED
    BY <2>1
<1>2. ASSUME NEW n \in Nat, n \in T PROVE n + 1 \in T
  <2>1. ASSUME NEW q \in Seq(Byte), Len(q) = n + 1 PROVE ReadFrom(base, q) \in Int
    <3>1. PICK front, last : front = SubSeq(q, 1, n) /\ last = q[n + 1]
      OBVIOUS
    <3>2. front \in Seq(Byte) /\ Len(front) = n /\ last \in Byte /\ q = Append(front, last)
      <4>1. front \in Seq(Byte) /\ Len(front) = n /\ last \in Byte
        BY <2>1, <3>1
      <4>2. /\ Append(front, last) \in Seq(Byte) /\ Len(Append(front, last)) = n + 1
            /\ \A k \in 1 .. n + 1 : Append(front, last)[k] = q[k]
        BY <2>1, <3>1, <4>1
      <4>. QED
        BY <2>1, <4>1, <4>2, SeqEqual
    <3>3. ReadFrom(base, front) \in Int
      BY <1>2, <3>2
    <3>4. ReadFrom(base, q) = 256 * ReadFrom(base, front) + last
      BY <3>2, NumeralNext
    <3>. QED
      BY <3>2, <3>3, <3>4 DEF Byte
  <2>. QED
    BY <2>1
<1>3. \A n \in Nat : n \in T
  <2>. HIDE DEF T
  <2>. QED
    BY <1>1, <1>2, Digits!NatSetInduction
<1>. QED
  BY <1>3

LEMMA ByteIsInt == Byte \subseteq Int
  BY DEF Byte

LEMMA SmallBignum ==
    ASSUME NEW bytes \in Seq(Byte), Len(bytes) <= 1
    PROVE  \/ bytes = << >> /\ BytesToBignum(bytes) = 0
           \/ bytes # << >> /\ BytesToBignum(bytes) = bytes[1] /\ bytes[1] \in Byte
<1>1. CASE bytes = << >>
  BY <1>1 DEF BytesToBignum
<1>2. CASE bytes # << >>
  <2>1. Len(bytes) \in Nat /\ Len(bytes) # 0
    BY <1>2, EmptySeq
  <2>3. Len(bytes) = 1
    <3>1. PICK n : n = Len(bytes)
      OBVIOUS
    <3>2. n \in Nat /\ n # 0 /\ n <= 1
      BY <2>1, <3>1
    <3>3. n = 1
      BY <3>2
    <3>. QED
      BY <3>1, <3>3
  <2>2. BytesToBignum(bytes) = bytes[1]
    BY <1>2, <2>3 DEF BytesToBignum
  <2>. QED
    BY <1>2, <2>2, <2>3
<1>. QED
  BY <1>1, <1>2

LEMMA BignumIn ==
    ASSUME NEW bytes \in Seq(Byte)
    PROVE  BytesToBignum(bytes) \in Int
<1>. DEFINE mpi == Reverse(Front(bytes))
            size == ReadFrom((mpi[1] % 128), Tail(mpi))
<1>1. CASE Len(bytes) <= 1
  BY <1>1, SmallBignum DEF Byte
<1>2. CASE Len(bytes) > 1
  <2>1. /\ Front(bytes) \in Seq(Byte) /\ Len(Front(bytes)) > 0
    BY <1>2 DEF Front
  <2>2. mpi \in Seq(Byte) /\ Len(mpi) > 0
    <3>1. PICK front : front = Front(bytes)
      OBVIOUS
    <3>2. Reverse(front) \in Seq(Byte) /\ Len(Reverse(front)) = Len(front)
      BY <2>1, <3>1 DEF Reverse
    <3>. QED
      BY <2>1, <3>1, <3>2
  <2>3. size \in Int
    <3>1. PICK first : first = mpi[1]
      OBVIOUS
    <3>2. first \in Byte /\ Tail(mpi) \in Seq(Byte)
      <4>. HIDE DEF mpi
      <4>. QED
        BY <2>2, <3>1
    <3>3. (first % 128) \in Int
      BY <3>2 DEF Byte
    <3>. QED
      BY <3>1, <3>2, <3>3, ReadFromIn
  <2>4. BytesToBignum(bytes) \in {0, size, -size}
    <3>1. bytes # << >> /\ Len(bytes) # 1
      <4>1. Len(bytes) # 0 /\ Len(bytes) # 1
        <5>1. PICK n : n = Len(bytes)
          OBVIOUS
        <5>2. n \in Nat /\ n > 1
          BY <1>2, <5>1
        <5>3. n # 0 /\ n # 1
          BY <5>2
        <5>. QED
          BY <5>1, <5>3
      <4>2. Len(<< >>) = 0
        BY EmptySeq
      <4>. QED
        BY <4>1, <4>2, Zenon
    <3>2. CASE Last(bytes) # Len(bytes) - 1
      BY <1>2, <3>1, <3>2 DEF BytesToBignum
    <3>3. CASE Last(bytes) = Len(bytes) - 1
      <4>1. BytesToBignum(bytes) = IF mpi[1] < 128 THEN size ELSE -size
        BY <3>1, <3>3 DEF BytesToBignum, ReadFrom
      <4>. QED
        BY <4>1
    <3>. QED
      BY <3>2, <3>3
  <2>. HIDE DEF size
  <2>. QED
    BY <2>3, <2>4
<1>. QED
  BY <1>1, <1>2

(* A number that is pushed as its bytes.                                   *)
LEMMA NumberReads ==
    ASSUME NEW f, f \in [op : STRING, data : Seq(Byte)], f.op = "", IsNumber(f.data)
    PROVE  Reads(f, BytesToBignum(f.data)) /\ BytesToBignum(f.data) \in Int
<1>1. PICK bytes, n : bytes = f.data /\ n = BytesToBignum(bytes)
  OBVIOUS
<1>2. bytes \in Seq(Byte)
  BY <1>1
<1>3. n \in Int
  BY <1>1, <1>2, BignumIn
<1>4. f \in DataFrames
  <2>1. bytes \in Seq(Int)
    BY <1>2, ByteIsInt, SeqMonotonic
  <2>2. f = [op |-> f.op, data |-> f.data]
    OBVIOUS
  <2>. QED
    BY <1>1, <2>1, <2>2 DEF DataFrames
<1>5. n \in 0 .. 255 => FirstByte(f) = n
  <2>1. CASE Len(bytes) <= 1
    <3>1. \/ bytes = << >> /\ n = 0
          \/ bytes # << >> /\ n = bytes[1]
      BY <1>1, <1>2, <2>1, SmallBignum
    <3>. QED
      BY <1>1, <3>1 DEF FirstByte
  <2>2. CASE bytes = BignumToBytes(n)
    <3>1. n \in 0 .. 255 => FirstByte(Data(bytes)) = n
      BY <1>3, <2>2, RoundTrip
    <3>2. FirstByte(Data(bytes)) = FirstByte(f)
      BY <1>1 DEF FirstByte, Data
    <3>. QED
      BY <3>1, <3>2
  <2>. QED
    BY <1>1, <2>1, <2>2 DEF IsNumber
<1>. QED
  BY <1>1, <1>3, <1>4, <1>5 DEF Reads

-----------------------------------------------------------------------------
(* One op on both, without its frames.                                     *)

Record(s) == s = [ok |-> s.ok, stack |-> s.stack, alt |-> s.alt] /\ s.ok \in BOOLEAN

(* The stacks st and al, with at most n frames, read as s.                 *)
Good(st, al, s, n) ==
    /\ Record(s)
    /\ s.ok => /\ Agree(st, s.stack)
               /\ Agree(al, s.alt)
               /\ Len(st) <= n

LEMMA GoodOut ==
    ASSUME NEW s, Record(s), NEW st, NEW al, NEW n
    PROVE  Good(st, al, Out(s), n)
<1>1. Out(s) = [ok |-> FALSE, stack |-> s.stack, alt |-> s.alt]
  <2>1. PICK ok, stack, alt : s = [ok |-> ok, stack |-> stack, alt |-> alt]
    BY DEF Record
  <2>2. s.stack = stack /\ s.alt = alt
    BY <2>1
  <2>3. \A no : [s EXCEPT !.ok = no] = [ok |-> no, stack |-> stack, alt |-> alt]
    BY <2>1
  <2>4. Out(s) = [ok |-> FALSE, stack |-> stack, alt |-> alt]
    BY <2>3, Zenon DEF Out
  <2>. QED
    BY <2>2, <2>4, Zenon
<1>2. PICK out : out = Out(s)
  OBVIOUS
<1>3. out = [ok |-> out.ok, stack |-> out.stack, alt |-> out.alt] /\ out.ok = FALSE
  BY <1>1, <1>2
<1>. QED
  BY <1>2, <1>3 DEF Good, Record

LEMMA GoodOld ==
    ASSUME NEW s, Record(s), ~ s.ok, NEW f, NEW st, NEW al, NEW n
    PROVE  Good(st, al, NumberStep(s, f), n)
  BY DEF Good, NumberStep

LEMMA GoodFields ==
    ASSUME NEW st, NEW al, NEW stack, NEW alt, NEW ok \in BOOLEAN, NEW n,
           Agree(st, stack), Agree(al, alt), Len(st) <= n
    PROVE  Good(st, al, [ok |-> ok, stack |-> stack, alt |-> alt], n)
  BY DEF Good, Record

LEMMA GoodTo ==
    ASSUME NEW s, Record(s), NEW st, NEW al, NEW k, NEW pushed, NEW n \in Int,
           Agree(st, Pop(s.stack, k) \o pushed), Agree(al, s.alt), Len(st) <= n
    PROVE  Good(st, al, To(s, k, pushed), n)
<1>1. PICK ok, stack, alt : s = [ok |-> ok, stack |-> stack, alt |-> alt] /\ ok \in BOOLEAN
  BY DEF Record
<1>2. s.stack = stack /\ s.alt = alt
  BY <1>1
<1>3. PICK p : p = Pop(s.stack, k) \o pushed
  OBVIOUS
<1>4. To(s, k, pushed) = [s EXCEPT !.stack = p]
  BY <1>3, Zenon DEF To
<1>5. [s EXCEPT !.stack = p] = [ok |-> ok, stack |-> p, alt |-> alt]
  BY <1>1
<1>6. Good(st, al, [ok |-> ok, stack |-> p, alt |-> alt], n)
  BY <1>1, <1>2, <1>3, GoodFields
<1>. QED
  BY <1>4, <1>5, <1>6, Zenon

LEMMA GoodReplace ==
    ASSUME NEW s, NEW st, NEW al, NEW n \in Int, Good(st, al, s, n), s.ok,
           NEW k \in Nat, k <= Len(s.stack), NEW frame, NEW v \in Int, Reads(frame, v)
    PROVE  Good(Append(Pop(st, k), frame), al, To(s, k, <<v>>), n + 2)
<1>1. Agree(st, s.stack) /\ Agree(al, s.alt) /\ Len(st) <= n /\ Record(s)
  BY DEF Good
<1>2. Agree(Pop(st, k), Pop(s.stack, k)) /\ Len(Pop(st, k)) = Len(st) - k
  BY <1>1, AgreePop
<1>3. /\ Agree(Append(Pop(st, k), frame), Pop(s.stack, k) \o <<v>>)
      /\ Len(Append(Pop(st, k), frame)) = Len(Pop(st, k)) + 1
  BY <1>2, AgreePush
<1>4. Len(Append(Pop(st, k), frame)) <= n + 2
  <2>1. Len(st) \in Nat
    BY <1>1 DEF Agree
  <2>. QED
    BY <1>1, <1>2, <1>3, <2>1
<1>5. n + 2 \in Int
  OBVIOUS
<1>. QED
  BY <1>1, <1>3, <1>4, <1>5, GoodTo

LEMMA GoodDrop ==
    ASSUME NEW s, NEW st, NEW al, NEW n \in Int, Good(st, al, s, n), s.ok,
           NEW k \in Nat, k <= Len(s.stack)
    PROVE  Good(Pop(st, k), al, To(s, k, << >>), n + 2)
<1>1. Agree(st, s.stack) /\ Agree(al, s.alt) /\ Len(st) <= n /\ Record(s)
  BY DEF Good
<1>2. Agree(Pop(st, k), Pop(s.stack, k) \o << >>) /\ Len(Pop(st, k)) <= Len(st)
  BY <1>1, AgreeDrop
<1>3. Len(Pop(st, k)) <= n + 2
  <2>1. Len(st) \in Nat /\ Len(Pop(st, k)) \in Nat
    BY <1>1, <1>2 DEF Agree
  <2>. QED
    BY <1>1, <1>2, <2>1
<1>4. n + 2 \in Int
  OBVIOUS
<1>. QED
  BY <1>1, <1>2, <1>3, <1>4, GoodTo

(* What the op makes of the numbers: k of them are replaced by the one that *)
(* the frame reads as.                                                     *)
Replaces(s, f, k, frame) ==
    \/ NumberStep(s, f) = Out(s)
    \/ /\ k <= Len(s.stack)
       /\ \E v \in Int : Reads(frame, v) /\ NumberStep(s, f) = To(s, k, <<v>>)

LEMMA GoodReplaces ==
    ASSUME NEW s, NEW st, NEW al, NEW n \in Int, Good(st, al, s, n),
           NEW f, NEW k \in Nat, NEW frame, s.ok => Replaces(s, f, k, frame)
    PROVE  Good(Append(Pop(st, k), frame), al, NumberStep(s, f), n + 2)
<1>1. Record(s)
  BY DEF Good
<1>2. CASE ~ s.ok
  BY <1>1, <1>2, GoodOld
<1>3. CASE s.ok /\ NumberStep(s, f) = Out(s)
  BY <1>1, <1>3, GoodOut
<1>4. ASSUME s.ok, k <= Len(s.stack),
             NEW v \in Int, Reads(frame, v), NumberStep(s, f) = To(s, k, <<v>>)
      PROVE  Good(Append(Pop(st, k), frame), al, NumberStep(s, f), n + 2)
  <2>1. Good(Append(Pop(st, k), frame), al, To(s, k, <<v>>), n + 2)
    BY <1>4, GoodReplace
  <2>. QED
    BY <1>4, <2>1
<1>. QED
  BY <1>2, <1>3, <1>4 DEF Replaces

LEMMA ReplacesNumeral ==
    ASSUME NEW s, NEW f, NEW k, k <= Len(s.stack), NEW v \in Int,
           NumberStep(s, f) = To(s, k, <<v>>)
    PROVE  Replaces(s, f, k, NumericalFrame(v))
<1>1. Reads(NumericalFrame(v), v)
  BY NumericalReads
<1>. QED
  BY <1>1 DEF Replaces

LEMMA PushReplaces ==
    ASSUME NEW s, s.ok, 0 <= Len(s.stack), NEW f \in Frames
    PROVE  /\ f.op = "" => Replaces(s, f, 0, f)
           /\ f.op = "OP_1" => Replaces(s, f, 0, NumericalFrame(f.data[1]))
           /\ f.op = "OP_1NEGATE" => Replaces(s, f, 0, NumericalFrame(-1))
<1>1. ASSUME f.op = "" PROVE Replaces(s, f, 0, f)
  <2>1. CASE IsNumber(f.data)
    <3>1. f \in [op : STRING, data : Seq(Byte)]
      BY FramesAssumption DEF Byte
    <3>2. Reads(f, BytesToBignum(f.data)) /\ BytesToBignum(f.data) \in Int
      BY <1>1, <2>1, <3>1, NumberReads
    <3>3. NumberStep(s, f) = To(s, 0, <<BytesToBignum(f.data)>>)
      BY <1>1, <2>1, StepOfPush
    <3>. QED
      BY <3>2, <3>3 DEF Replaces
  <2>2. CASE ~ IsNumber(f.data)
    <3>1. NumberStep(s, f) = Out(s)
      BY <1>1, <2>2, StepOfPush
    <3>. QED
      BY <3>1 DEF Replaces
  <2>. QED
    BY <2>1, <2>2
<1>2. ASSUME f.op = "OP_1" PROVE Replaces(s, f, 0, NumericalFrame(f.data[1]))
  <2>1. PICK v \in 1 .. 16 : f.data = <<v>>
    BY <1>2, FramesAssumption
  <2>2. v \in Int /\ f.data[1] = v
    BY <2>1
  <2>3. NumberStep(s, f) = To(s, 0, <<v>>)
    BY <1>2, <2>1, StepOfPush
  <2>4. Replaces(s, f, 0, NumericalFrame(v))
    BY <2>2, <2>3, ReplacesNumeral
  <2>. QED
    BY <2>2, <2>4
<1>3. ASSUME f.op = "OP_1NEGATE" PROVE Replaces(s, f, 0, NumericalFrame(-1))
  <2>1. PICK v : v = -1
    OBVIOUS
  <2>2. v \in Int
    BY <2>1
  <2>3. NumberStep(s, f) = To(s, 0, <<v>>)
    BY <1>3, <2>1, StepOfPush
  <2>. QED
    BY <2>1, <2>2, <2>3, ReplacesNumeral
<1>. QED
  BY <1>1, <1>2, <1>3

LEMMA SizesReplace ==
    ASSUME NEW s, s.ok, NEW st, Agree(st, s.stack), Len(st) <= 128, NEW f, NEW frame
    PROVE  /\ f.op = "OP_DEPTH" => Replaces(s, f, 0, NumericalFrame((Len(st) % 256)))
           /\ f.op = "OP_SIZE" => Replaces(s, f, 0, frame)
<1>1. Len(st) \in Nat /\ Len(s.stack) = Len(st)
  BY DEF Agree
<1>2. ASSUME f.op = "OP_DEPTH" PROVE Replaces(s, f, 0, NumericalFrame((Len(st) % 256)))
  <2>1. PICK v : v = Len(st)
    OBVIOUS
  <2>2. v \in Int /\ (v % 256) = v /\ 0 <= v
    <3>1. v \in Nat /\ v <= 128
      BY <1>1, <2>1
    <3>. QED
      BY <3>1
  <2>3. NumberStep(s, f) = To(s, 0, <<v>>)
    BY <1>1, <1>2, <2>1, StepOfPush
  <2>4. Replaces(s, f, 0, NumericalFrame(v))
    BY <1>1, <2>1, <2>2, <2>3, ReplacesNumeral
  <2>. QED
    BY <2>1, <2>2, <2>4
<1>3. ASSUME f.op = "OP_SIZE" PROVE Replaces(s, f, 0, frame)
  BY <1>3, StepOfPush DEF Replaces
<1>. QED
  BY <1>2, <1>3

LEMMA GoodMove ==
    ASSUME NEW s, NEW st, NEW al, NEW n \in Int, Good(st, al, s, n),
           NEW f, f.op \in Moves
    PROVE  Good(Moved(st, f.op, EmptyFrame), al, NumberStep(s, f), n + 2)
<1>. DEFINE moved == Moved(st, f.op, EmptyFrame)
            ints == Moved(s.stack, f.op, 0)
<1>1. CASE ~ s.ok
  BY <1>1, GoodOld DEF Good
<1>2. CASE s.ok
  <2>1. Record(s) /\ Agree(st, s.stack) /\ Agree(al, s.alt) /\ Len(st) <= n
    BY <1>2 DEF Good
  <2>2. CASE Has(s, Move(f.op).pops)
    <3>1. Move(f.op).pops <= Len(s.stack)
      <4>1. Move(f.op).pops \in Nat /\ Len(s.stack) \in Nat
        BY <2>1, MovePushes DEF PushesFit, Agree
      <4>. QED
        BY <2>2, <4>1 DEF Has
    <3>2. Agree(moved, ints) /\ Len(moved) <= Len(st) + 2
      BY <2>1, <3>1, AgreeMoved
    <3>3. Len(moved) \in Nat /\ Len(st) \in Nat
      BY <2>1, <3>2 DEF Agree
    <3>4. NumberStep(s, f) = [s EXCEPT !.stack = ints]
      BY <1>2, <2>2, StepOfMove
    <3>. HIDE DEF moved, ints
    <3>5. Len(moved) <= n + 2
      BY <2>1, <3>2, <3>3
    <3>6. NumberStep(s, f) = [ok |-> s.ok, stack |-> ints, alt |-> s.alt]
      BY <2>1, <3>4 DEF Record
    <3>7. Good(moved, al, NumberStep(s, f), n + 2)
      BY <2>1, <3>2, <3>5, <3>6 DEF Good, Record
    <3>. QED
      BY <3>7 DEF moved
  <2>3. CASE ~ Has(s, Move(f.op).pops)
    <3>1. NumberStep(s, f) = Out(s)
      BY <1>2, <2>3, StepOfMove
    <3>. QED
      BY <2>1, <3>1, GoodOut
  <2>. QED
    BY <2>2, <2>3
<1>. QED
  BY <1>1, <1>2

LEMMA ComputeReplaces ==
    ASSUME NEW s, s.ok, NEW st, Agree(st, s.stack), NEW f
    PROVE  /\ f.op \in Unaries =>
                Replaces(s, f, 1, NumericalFrame(Unary(f.op, BytesToBignum(Popped(st, 1, EmptyFrame).data))))
           /\ f.op \in Binaries =>
                Replaces(s, f, 2, NumericalFrame(Binary(f.op, BytesToBignum(Popped(st, 2, EmptyFrame).data),
                                                              BytesToBignum(Popped(st, 1, EmptyFrame).data))))
           /\ f.op = "OP_WITHIN" =>
                Replaces(s, f, 3, NumericalFrame(Within(BytesToBignum(Popped(st, 3, EmptyFrame).data),
                                                        BytesToBignum(Popped(st, 2, EmptyFrame).data),
                                                        BytesToBignum(Popped(st, 1, EmptyFrame).data))))
<1>. DEFINE num(k) == BytesToBignum(Popped(st, k, EmptyFrame).data)
<1>1. Len(s.stack) \in Nat
  BY DEF Agree
<1>2. ASSUME NEW k \in Nat, k > 0, Has(s, k)
      PROVE  num(k) = X(s, k) /\ X(s, k) \in Int
  <2>1. k \in 1 .. Len(s.stack)
    BY <1>1, <1>2 DEF Has
  <2>2. Reads(Popped(st, k, EmptyFrame), Popped(s.stack, k, 0)) /\ Popped(s.stack, k, 0) \in Int
    BY <2>1, AgreePopped
  <2>. QED
    BY <2>2 DEF Reads, X
<1>3. ASSUME NEW k \in Nat, NEW frame, ~ Has(s, k), NumberStep(s, f) = Out(s)
      PROVE  Replaces(s, f, k, frame)
  BY <1>3 DEF Replaces
<1>4. \A k \in Nat, j \in Nat : Has(s, k) /\ j <= k => Has(s, j) /\ j <= Len(s.stack)
  BY <1>1 DEF Has
<1>5. ASSUME f.op \in Unaries PROVE Replaces(s, f, 1, NumericalFrame(Unary(f.op, num(1))))
  <2>1. CASE ~ Has(s, 1)
    BY <1>3, <1>5, <2>1, StepOfCompute
  <2>2. CASE Has(s, 1)
    <3>1. num(1) = X(s, 1) /\ X(s, 1) \in Int /\ 1 <= Len(s.stack)
      BY <1>2, <1>4, <2>2
    <3>2. PICK v : v = Unary(f.op, X(s, 1))
      OBVIOUS
    <3>3. v \in Int
      <4>1. PICK x, op : x = X(s, 1) /\ op = f.op
        OBVIOUS
      <4>2. x \in Int /\ op \in Unaries
        BY <1>5, <3>1, <4>1
      <4>3. Unary(op, x) \in Int
        BY <4>2 DEF Unary, Unaries, Abs
      <4>. QED
        BY <3>2, <4>1, <4>3
    <3>4. NumberStep(s, f) = To(s, 1, <<v>>)
      BY <1>5, <2>2, <3>2, StepOfCompute
    <3>5. Replaces(s, f, 1, NumericalFrame(v))
      BY <3>1, <3>3, <3>4, ReplacesNumeral
    <3>. QED
      BY <3>1, <3>2, <3>5
  <2>. QED
    BY <2>1, <2>2
<1>6. ASSUME f.op \in Binaries PROVE Replaces(s, f, 2, NumericalFrame(Binary(f.op, num(2), num(1))))
  <2>1. CASE ~ Has(s, 2)
    BY <1>3, <1>6, <2>1, StepOfCompute
  <2>2. CASE Has(s, 2)
    <3>1. num(1) = X(s, 1) /\ X(s, 1) \in Int /\ num(2) = X(s, 2) /\ X(s, 2) \in Int /\ 2 <= Len(s.stack)
      BY <1>2, <1>4, <2>2
    <3>2. PICK v : v = Binary(f.op, X(s, 2), X(s, 1))
      OBVIOUS
    <3>3. v \in Int
      <4>1. PICK x, y, op : x = X(s, 1) /\ y = X(s, 2) /\ op = f.op
        OBVIOUS
      <4>2. x \in Int /\ y \in Int /\ op \in Binaries
        BY <1>6, <3>1, <4>1
      <4>3. Binary(op, y, x) \in Int
        BY <4>2 DEF Binary, Binaries, Bit
      <4>. QED
        BY <3>2, <4>1, <4>3
    <3>4. NumberStep(s, f) = To(s, 2, <<v>>)
      BY <1>6, <2>2, <3>2, StepOfCompute
    <3>5. Replaces(s, f, 2, NumericalFrame(v))
      BY <3>1, <3>3, <3>4, ReplacesNumeral
    <3>. QED
      BY <3>1, <3>2, <3>5
  <2>. QED
    BY <2>1, <2>2
<1>7. ASSUME f.op = "OP_WITHIN" PROVE Replaces(s, f, 3, NumericalFrame(Within(num(3), num(2), num(1))))
  <2>1. CASE ~ Has(s, 3)
    BY <1>3, <1>7, <2>1, StepOfCompute
  <2>2. CASE Has(s, 3)
    <3>1. num(1) = X(s, 1) /\ num(2) = X(s, 2) /\ num(3) = X(s, 3) /\ 3 <= Len(s.stack)
      BY <1>2, <1>4, <2>2
    <3>2. PICK v : v = Within(X(s, 3), X(s, 2), X(s, 1))
      OBVIOUS
    <3>3. v \in Int
      BY <3>2 DEF Within, Bit
    <3>4. NumberStep(s, f) = To(s, 3, <<v>>)
      BY <1>7, <2>2, <3>2, StepOfCompute
    <3>5. Replaces(s, f, 3, NumericalFrame(v))
      BY <3>1, <3>3, <3>4, ReplacesNumeral
    <3>. QED
      BY <3>1, <3>2, <3>5
  <2>. QED
    BY <2>1, <2>2
<1>. QED
  BY <1>5, <1>6, <1>7

LEMMA OthersReplace ==
    ASSUME NEW s, s.ok, NEW st, Agree(st, s.stack), NEW f
    PROVE  /\ f.op \in {"OP_MIN", "OP_EQUAL", "OP_HASH160", "OP_CHECKSIG", "OP_CHECKMULTISIG"} =>
                \A k, frame : Replaces(s, f, k, frame)
           /\ f.op = "OP_NOT" =>
                LET top == Popped(st, 1, EmptyFrame)
                IN  Replaces(s, f, 0, NumericalFrame(Bit(top.op = "" /\ BytesToBignum(top.data) = 0)))
<1>1. f.op \in {"OP_MIN", "OP_EQUAL", "OP_HASH160", "OP_CHECKSIG", "OP_CHECKMULTISIG"} =>
        NumberStep(s, f) = Out(s)
  BY StepOfCompute, StepOfOther
<1>2. NumberStep(s, f) = Out(s) => \A k, frame : Replaces(s, f, k, frame)
  BY DEF Replaces
<1>3. ASSUME f.op = "OP_NOT", NEW top, top = Popped(st, 1, EmptyFrame)
      PROVE  Replaces(s, f, 0, NumericalFrame(Bit(top.op = "" /\ BytesToBignum(top.data) = 0)))
  <2>1. CASE ~ Has(s, 1)
    BY <1>2, <1>3, <2>1, StepOfCompute
  <2>2. CASE Has(s, 1)
    <3>1. Len(s.stack) \in Nat /\ 1 \in 1 .. Len(s.stack) /\ 0 <= Len(s.stack)
      BY <2>2 DEF Agree, Has
    <3>2. Reads(top, X(s, 1))
      BY <1>3, <3>1, AgreePopped DEF X
    <3>3. top.op = "" /\ BytesToBignum(top.data) = X(s, 1)
      BY <3>2 DEF Reads, DataFrames
    <3>4. PICK v : v = Bit(X(s, 1) = 0)
      OBVIOUS
    <3>5. v \in Int
      BY <3>4 DEF Bit
    <3>6. NumberStep(s, f) = To(s, 0, <<v>>)
      BY <1>3, <2>2, <3>4, StepOfCompute
    <3>7. Replaces(s, f, 0, NumericalFrame(v))
      BY <3>1, <3>5, <3>6, ReplacesNumeral
    <3>8. v = Bit(top.op = "" /\ BytesToBignum(top.data) = 0)
      BY <3>3, <3>4 DEF Bit
    <3>. QED
      BY <3>7, <3>8
  <2>. QED
    BY <2>1, <2>2
<1>. QED
  BY <1>1, <1>2, <1>3

LEMMA PopNone ==
    ASSUME NEW S, NEW seq \in Seq(S) PROVE Pop(seq, 0) = seq
<1>1. PICK n : n = Len(seq)
  OBVIOUS
<1>2. n \in Nat /\ n - 0 = n
  BY <1>1
<1>3. SubSeq(seq, 1, n) = seq
  BY <1>1
<1>. QED
  BY <1>1, <1>2, <1>3 DEF Pop

LEMMA GoodAlternate ==
    ASSUME NEW s, NEW st, NEW al, NEW n \in Int, Good(st, al, s, n), NEW f
    PROVE  /\ f.op = "OP_TOALTSTACK" =>
                Good(Pop(st, 1), Append(al, Popped(st, 1, EmptyFrame)), NumberStep(s, f), n + 2)
           /\ f.op = "OP_FROMALTSTACK" =>
                Good(Append(st, Popped(al, 1, EmptyFrame)), Pop(al, 1), NumberStep(s, f), n + 2)
<1>1. Record(s)
  BY DEF Good
<1>2. CASE ~ s.ok
  BY <1>1, <1>2, GoodOld
<1>3. CASE s.ok
  <2>1. Agree(st, s.stack) /\ Agree(al, s.alt) /\ Len(st) <= n
    BY <1>3 DEF Good
  <2>2. /\ Len(s.stack) \in Nat /\ Len(st) = Len(s.stack) /\ s.stack \in Seq(Int)
        /\ Len(s.alt) \in Nat /\ Len(al) = Len(s.alt) /\ s.alt \in Seq(Int)
    BY <2>1 DEF Agree
  <2>3. PICK ok, stack, alt : s = [ok |-> ok, stack |-> stack, alt |-> alt] /\ ok \in BOOLEAN
    BY <1>1 DEF Record
  <2>4. s.stack = stack /\ s.alt = alt
    BY <2>3
  <2>5. ASSUME f.op = "OP_TOALTSTACK"
        PROVE  Good(Pop(st, 1), Append(al, Popped(st, 1, EmptyFrame)), NumberStep(s, f), n + 2)
    <3>1. CASE ~ Has(s, 1)
      BY <1>1, <1>3, <2>5, <3>1, GoodOut, StepOfAlt
    <3>2. CASE Has(s, 1)
      <4>1. 1 \in 1 .. Len(s.stack) /\ 1 \in Nat /\ 1 <= Len(s.stack)
        BY <2>2, <3>2 DEF Has
      <4>2. Reads(Popped(st, 1, EmptyFrame), X(s, 1)) /\ X(s, 1) \in Int
        BY <2>1, <4>1, AgreePopped DEF X
      <4>3. Agree(Pop(st, 1), Pop(stack, 1) \o << >>) /\ Len(Pop(st, 1)) <= Len(st)
        BY <2>1, <2>4, <4>1, AgreeDrop
      <4>4. Agree(Append(al, Popped(st, 1, EmptyFrame)), Append(alt, X(s, 1)))
        BY <2>1, <2>4, <4>2, AgreePush
      <4>5. NumberStep(s, f) = [To(s, 1, << >>) EXCEPT !.alt = Append(@, X(s, 1))]
        BY <1>3, <2>5, <3>2, StepOfAlt
      <4>6. PICK x : x = X(s, 1)
        OBVIOUS
      <4>7. NumberStep(s, f) = [ok |-> ok, stack |-> Pop(stack, 1) \o << >>, alt |-> Append(alt, x)]
        BY <2>3, <4>5, <4>6 DEF To
      <4>8. Len(Pop(st, 1)) <= n + 2
        <5>1. Len(Pop(st, 1)) \in Nat
          BY <4>3 DEF Agree
        <5>. QED
          BY <2>1, <2>2, <4>3, <5>1
      <4>. QED
        BY <2>3, <4>3, <4>4, <4>6, <4>7, <4>8, GoodFields
    <3>. QED
      BY <3>1, <3>2
  <2>6. ASSUME f.op = "OP_FROMALTSTACK"
        PROVE  Good(Append(st, Popped(al, 1, EmptyFrame)), Pop(al, 1), NumberStep(s, f), n + 2)
    <3>1. CASE s.alt = << >>
      BY <1>1, <1>3, <2>6, <3>1, GoodOut, StepOfAlt
    <3>2. CASE s.alt # << >>
      <4>1. 1 \in 1 .. Len(s.alt) /\ 1 \in Nat /\ 1 <= Len(s.alt)
        BY <2>2, <3>2
      <4>2. PICK x : x = Popped(s.alt, 1, 0)
        OBVIOUS
      <4>3. Reads(Popped(al, 1, EmptyFrame), x) /\ x \in Int
        BY <2>1, <4>1, <4>2, AgreePopped
      <4>4. x = Last(s.alt)
        BY <2>2, <4>1, <4>2 DEF Popped, Last
      <4>5. Agree(Append(st, Popped(al, 1, EmptyFrame)), stack \o <<x>>)
            /\ Len(Append(st, Popped(al, 1, EmptyFrame))) = Len(st) + 1
        BY <2>1, <2>4, <4>3, AgreePush
      <4>6. Agree(Pop(al, 1), Pop(alt, 1))
        BY <2>1, <2>4, <4>1, AgreePop
      <4>7. Pop(stack, 0) = stack
        BY <2>2, <2>4, PopNone
      <4>8. NumberStep(s, f) = [To(s, 0, <<x>>) EXCEPT !.alt = Front(@)]
        BY <1>3, <2>6, <3>2, <4>4, StepOfAlt
      <4>9. Front(alt) = Pop(alt, 1)
        BY DEF Front, Pop
      <4>10. To(s, 0, <<x>>) = [s EXCEPT !.stack = Pop(stack, 0) \o <<x>>]
        BY <2>4, Zenon DEF To
      <4>11. PICK p, q : p = Pop(stack, 0) \o <<x>> /\ q = Front(alt)
        OBVIOUS
      <4>13. [s EXCEPT !.stack = p] = [ok |-> ok, stack |-> p, alt |-> alt]
        BY <2>3
      <4>14. NumberStep(s, f) = [[ok |-> ok, stack |-> p, alt |-> alt] EXCEPT !.alt = Front(@)]
        BY <4>8, <4>10, <4>11, <4>13, Zenon
      <4>15. NumberStep(s, f) = [ok |-> ok, stack |-> p, alt |-> q]
        BY <4>11, <4>14
      <4>16. p = stack \o <<x>> /\ q = Pop(alt, 1)
        BY <4>7, <4>9, <4>11
      <4>12. Len(Append(st, Popped(al, 1, EmptyFrame))) <= n + 2
        BY <2>1, <2>2, <4>5
      <4>. QED
        BY <2>3, <4>5, <4>6, <4>12, <4>15, <4>16, GoodFields
    <3>. QED
      BY <3>1, <3>2
  <2>. QED
    BY <2>5, <2>6
<1>. QED
  BY <1>2, <1>3

LEMMA GoodVerify ==
    ASSUME NEW s, NEW st, NEW al, NEW n \in Int, Good(st, al, s, n), NEW f, NEW k
    PROVE  /\ f.op = "OP_VERIFY" => Good(Pop(st, 1), al, NumberStep(s, f), n + 2)
           /\ f.op \in {"OP_EQUALVERIFY", "OP_CHECKSIGVERIFY", "OP_HASH160"} =>
                \A any : Good(any, al, NumberStep(s, f), n + 2)
<1>1. Record(s)
  BY DEF Good
<1>2. CASE ~ s.ok
  BY <1>1, <1>2, GoodOld
<1>3. CASE s.ok
  <2>1. ASSUME f.op = "OP_VERIFY" PROVE Good(Pop(st, 1), al, NumberStep(s, f), n + 2)
    <3>1. CASE ~ Has(s, 1)
      BY <1>1, <1>3, <2>1, <3>1, GoodOut, StepOfOther
    <3>2. CASE Has(s, 1)
      <4>1. 1 \in Nat /\ 1 <= Len(s.stack)
        BY <3>2 DEF Has
      <4>2. Good(Pop(st, 1), al, To(s, 1, << >>), n + 2)
        BY <1>3, <4>1, GoodDrop
      <4>. QED
        BY <1>3, <2>1, <3>2, <4>2, StepOfOther
    <3>. QED
      BY <3>1, <3>2
  <2>2. ASSUME f.op \in {"OP_EQUALVERIFY", "OP_CHECKSIGVERIFY", "OP_HASH160"}, NEW any
        PROVE  Good(any, al, NumberStep(s, f), n + 2)
    <3>1. NumberStep(s, f) = Out(s)
      BY <1>3, <2>2, StepOfOther
    <3>. QED
      BY <1>1, <3>1, GoodOut
  <2>. QED
    BY <2>1, <2>2
<1>. QED
  BY <1>2, <1>3

(* The index of a frame that is picked or rolled counts from the bottom.   *)
LEMMA GoodPick ==
    ASSUME NEW s, NEW st, NEW al, NEW n \in Int, n <= 128, Good(st, al, s, n),
           NEW f, f.op \in {"OP_PICK", "OP_ROLL"}, NEW index, NEW rest,
           index = Len(st) - 2 - FirstByte(Popped(st, 1, EmptyFrame)),
           rest = Pop(st, 1), index >= 0
    PROVE  Good(IF f.op = "OP_PICK" THEN Append(rest, rest[index + 1]) ELSE Rolled(rest, index),
                al, NumberStep(s, f), n + 2)
<1>. DEFINE stack == IF f.op = "OP_PICK" THEN Append(rest, rest[index + 1]) ELSE Rolled(rest, index)
            i == Index(s)
            applies == /\ Has(s, 1) /\ i \in 1 .. Len(s.stack) - 1
                       /\ f.op = "OP_ROLL" => i <= 3
<1>1. Record(s)
  BY DEF Good
<1>2. CASE ~ s.ok
  BY <1>1, <1>2, GoodOld
<1>3. CASE s.ok /\ ~ applies
  <2>1. NumberStep(s, f) = Out(s)
    BY <1>3, StepOfPick
  <2>. QED
    BY <1>1, <2>1, GoodOut
<1>4. CASE s.ok /\ applies
  <2>1. /\ Agree(st, s.stack) /\ Agree(al, s.alt) /\ Len(st) <= n
        /\ Len(s.stack) \in Nat /\ Len(st) = Len(s.stack) /\ s.stack \in Seq(Int)
        /\ st \in Seq(DataFrames)
    BY <1>4 DEF Good, Agree
  <2>2. PICK ok, ints, alt : s = [ok |-> ok, stack |-> ints, alt |-> alt] /\ ok \in BOOLEAN
    BY <1>1 DEF Record
  <2>3. s.stack = ints /\ s.alt = alt
    BY <2>2
  <2>4. PICK m, x : m = Len(ints) /\ x = X(s, 1)
    OBVIOUS
  <2>5. 1 \in 1 .. Len(ints)
    BY <1>4, <2>1, <2>3 DEF Has
  <2>6. Reads(Popped(st, 1, EmptyFrame), x) /\ x \in Int
    BY <2>1, <2>3, <2>4, <2>5, AgreePopped DEF X
  <2>7. m \in Nat /\ m <= 128 /\ i = m - 1 - x /\ i \in 1 .. m - 1
    <3>1. m \in Nat /\ m <= n
      BY <2>1, <2>3, <2>4
    <3>2. i = m - 1 - x
      BY <2>3, <2>4 DEF Index
    <3>. QED
      BY <1>4, <2>3, <2>4, <3>1, <3>2
  <2>. HIDE DEF i
  <2>8. x \in 0 .. 255
    BY <2>6, <2>7
  <2>9. index = i - 1 /\ index + 1 = i
    <3>1. FirstByte(Popped(st, 1, EmptyFrame)) = x
      BY <2>6, <2>8 DEF Reads
    <3>2. index = m - 2 - x
      BY <2>1, <2>3, <2>4, <3>1
    <3>. QED
      BY <2>6, <2>7, <3>2
  <2>10. PICK below : below = Pop(ints, 1)
    OBVIOUS
  <2>11. Agree(rest, below) /\ Len(rest) = m - 1
    <3>1. 1 \in Nat /\ 1 <= Len(ints)
      BY <2>4, <2>7
    <3>. QED
      BY <2>1, <2>3, <2>4, <2>10, <3>1, AgreePop
  <2>12. Len(below) = m - 1 /\ below \in Seq(Int)
    BY <2>11 DEF Agree
  <2>13. below[i] = ints[i]
    <3>1. below = SubSeq(ints, 1, m - 1)
      BY <2>4, <2>10 DEF Pop
    <3>. QED
      BY <2>1, <2>3, <2>4, <2>7, <3>1
  <2>14. CASE f.op = "OP_PICK"
    <3>1. stack = Append(rest, rest[i])
      BY <2>9, <2>14
    <3>2. Reads(rest[i], ints[i]) /\ ints[i] \in Int
      <4>1. Reads(rest[i], below[i]) /\ below[i] \in Int
        BY <2>7, <2>11, <2>12 DEF Agree
      <4>. QED
        BY <2>13, <4>1
    <3>3. Agree(stack, below \o <<ints[i]>>) /\ Len(stack) = (m - 1) + 1
      BY <2>11, <3>1, <3>2, AgreePush
    <3>4. NumberStep(s, f) = To(s, 1, <<ints[i]>>)
      BY <1>4, <2>3, <2>14, StepOfPick DEF i
    <3>5. Len(stack) <= n + 2
      BY <2>1, <2>3, <2>4, <2>7, <3>3
    <3>6. Agree(stack, Pop(s.stack, 1) \o <<ints[i]>>) /\ n + 2 \in Int
      BY <2>3, <2>10, <3>3
    <3>. HIDE DEF stack
    <3>7. Good(stack, al, NumberStep(s, f), n + 2)
      BY <1>1, <2>1, <3>4, <3>5, <3>6, GoodTo
    <3>. QED
      BY <3>7 DEF stack
  <2>15. CASE f.op = "OP_ROLL"
    <3>1. stack = Rolled(rest, i - 1)
      BY <2>9, <2>15
    <3>2. PICK rolled : rolled = Append(RemoveAt(below, i), ints[i])
      OBVIOUS
    <3>3. Agree(stack, rolled) /\ Len(stack) = m - 1
      <4>1. i \in 1 .. Len(below) /\ i <= 3
        BY <1>4, <2>7, <2>12, <2>15
      <4>2. /\ Agree(Rolled(rest, i - 1), Append(RemoveAt(below, i), below[i]))
            /\ Len(Rolled(rest, i - 1)) = Len(rest)
        BY <2>11, <4>1, AgreeRolled
      <4>. QED
        BY <2>11, <2>13, <3>1, <3>2, <4>2
    <3>4. NumberStep(s, f) = [s EXCEPT !.stack = Append(RemoveAt(Front(@), i), @[i])]
      BY <1>4, <2>15, StepOfPick DEF i
    <3>5. Front(ints) = below
      BY <2>10 DEF Front, Pop
    <3>6. rolled = Append(RemoveAt(Front(ints), i), ints[i])
      BY <3>2, <3>5
    <3>7. NumberStep(s, f) = [ok |-> ok, stack |-> rolled, alt |-> alt]
      BY <2>2, <3>4, <3>6
    <3>8. Len(stack) <= n + 2
      BY <2>1, <2>3, <2>4, <2>7, <3>3
    <3>. HIDE DEF stack
    <3>9. Good(stack, al, NumberStep(s, f), n + 2)
      BY <2>1, <2>2, <2>3, <3>3, <3>7, <3>8, GoodFields
    <3>. QED
      BY <3>9 DEF stack
  <2>. QED
    BY <2>14, <2>15
<1>. QED
  BY <1>2, <1>3, <1>4

-----------------------------------------------------------------------------
(* The program.                                                            *)

(* The inductive invariant: as long as the program runs, both stacks read  *)
(* as the integers, and there are fewer frames than a byte can count.      *)
NumbersInv ==
    /\ length \in 0 .. MaxLength
    /\ outcome = "running" => Good(runtimeStack, altRuntimeStack, numbers, 2 * length)

LEMMA NumbersInit == ASSUME Init PROVE NumbersInv
<1>1. length = 0 /\ 0 \in 0 .. MaxLength
  BY ScriptAssumption DEF Init
<1>2. Good(<< >>, << >>, [ok |-> TRUE, stack |-> << >>, alt |-> << >>], 0)
  <2>1. TRUE \in BOOLEAN /\ Len(<< >>) <= 0
    OBVIOUS
  <2>. QED
    BY <2>1, AgreeNone, GoodFields
<1>3. 2 * length = 0
  BY <1>1
<1>. QED
  BY <1>1, <1>2, <1>3 DEF NumbersInv, Init

(* What every step that executes a frame starts from, and what it has to   *)
(* establish.                                                              *)
LEMMA Started ==
    ASSUME NumbersInv, outcome = "running", length < MaxLength, length' = length + 1
    PROVE  /\ Good(runtimeStack, altRuntimeStack, numbers, 2 * length)
           /\ 2 * length \in Int /\ 2 * length <= 128
           /\ 2 * length' = 2 * length + 2
           /\ length' \in 0 .. MaxLength
<1>1. length \in Nat /\ MaxLength \in Nat /\ MaxLength <= 64
  BY ScriptAssumption DEF NumbersInv
<1>2. 2 * length' = 2 * length + 2
  BY <1>1
<1>. QED
  BY <1>1, <1>2 DEF NumbersInv

LEMMA Finished ==
    ASSUME length' \in 0 .. MaxLength, 2 * length' = 2 * length + 2,
           outcome' # "running"
             \/ Good(runtimeStack', altRuntimeStack', numbers', 2 * length + 2)
    PROVE  NumbersInv'
  BY DEF NumbersInv

LEMMA NumbersWorks ==
    ASSUME NumbersInv, NEW f, Works(f)
    PROVE  /\ outcome = "running" /\ length < MaxLength /\ length' = length + 1
           /\ numbers' = NumberStep(numbers, f)
  BY DEF Works, Executes

LEMMA NumbersReplace ==
    ASSUME NumbersInv, NEW f, Works(f), NEW k \in Nat, NEW frame, Replace(k, frame),
           numbers.ok => Replaces(numbers, f, k, frame)
    PROVE  NumbersInv'
<1>1. /\ Good(runtimeStack, altRuntimeStack, numbers, 2 * length)
      /\ 2 * length \in Int
      /\ 2 * length' = 2 * length + 2 /\ length' \in 0 .. MaxLength
      /\ numbers' = NumberStep(numbers, f)
  BY NumbersWorks, Started
<1>2. Good(Append(Pop(runtimeStack, k), frame), altRuntimeStack, NumberStep(numbers, f), 2 * length + 2)
  BY <1>1, GoodReplaces
<1>3. runtimeStack' = Append(Pop(runtimeStack, k), frame) /\ altRuntimeStack' = altRuntimeStack
  BY DEF Replace
<1>. QED
  BY <1>1, <1>2, <1>3, Finished

LEMMA NumbersPush ==
    ASSUME NumbersInv, NEW f \in Frames, PushFrame(f)
    PROVE  NumbersInv'
<1>1. Works(f)
  BY DEF PushFrame
<1>2. /\ Good(runtimeStack, altRuntimeStack, numbers, 2 * length)
      /\ 2 * length \in Int /\ 2 * length <= 128
  BY <1>1, NumbersWorks, Started
<1>3. numbers.ok => /\ Agree(runtimeStack, numbers.stack) /\ Len(runtimeStack) <= 128
                    /\ 0 <= Len(numbers.stack)
  <2>. HAVE numbers.ok
  <2>1. Agree(runtimeStack, numbers.stack) /\ Len(runtimeStack) <= 2 * length
    BY <1>2 DEF Good
  <2>2. PICK m, n : m = 2 * length /\ n = Len(runtimeStack)
    OBVIOUS
  <2>3. n \in Nat /\ n <= m /\ m \in Int /\ m <= 128 /\ n = Len(numbers.stack)
    BY <1>2, <2>1, <2>2 DEF Agree
  <2>4. n <= 128 /\ 0 <= n
    BY <2>3
  <2>. QED
    BY <2>1, <2>2, <2>3, <2>4
<1>4. 0 \in Nat
  OBVIOUS
<1>5. CASE f.op = "" /\ Replace(0, f)
  <2>1. numbers.ok => Replaces(numbers, f, 0, f)
    BY <1>3, <1>5, PushReplaces
  <2>. QED
    BY <1>1, <1>4, <1>5, <2>1, NumbersReplace
<1>6. CASE f.op = "OP_1" /\ Replace(0, NumericalFrame(f.data[1]))
  <2>1. numbers.ok => Replaces(numbers, f, 0, NumericalFrame(f.data[1]))
    BY <1>3, <1>6, PushReplaces
  <2>. QED
    BY <1>1, <1>4, <1>6, <2>1, NumbersReplace
<1>7. CASE f.op = "OP_1NEGATE" /\ Replace(0, NumericalFrame(-1))
  <2>1. numbers.ok => Replaces(numbers, f, 0, NumericalFrame(-1))
    BY <1>3, <1>7, PushReplaces
  <2>. QED
    BY <1>1, <1>4, <1>7, <2>1, NumbersReplace
<1>8. CASE f.op = "OP_DEPTH" /\ Replace(0, NumericalFrame(Len(runtimeStack) % 256))
  <2>1. numbers.ok => Replaces(numbers, f, 0, NumericalFrame((Len(runtimeStack) % 256)))
    BY <1>3, <1>8, SizesReplace
  <2>. QED
    BY <1>1, <1>4, <1>8, <2>1, NumbersReplace
<1>9. CASE f.op = "OP_SIZE" /\ Replace(0, NumericalFrame(Len(Top(1).data)))
  <2>1. numbers.ok => Replaces(numbers, f, 0, NumericalFrame(Len(Top(1).data)))
    BY <1>3, <1>9, SizesReplace
  <2>. QED
    BY <1>1, <1>4, <1>9, <2>1, NumbersReplace
<1>. QED
  BY <1>5, <1>6, <1>7, <1>8, <1>9 DEF PushFrame

LEMMA NumbersMove ==
    ASSUME NumbersInv, NEW f \in Frames, MoveFrames(f)
    PROVE  NumbersInv'
<1>1. /\ Works(f) /\ f.op \in Moves
      /\ runtimeStack' = Moved(runtimeStack, f.op, EmptyFrame)
      /\ altRuntimeStack' = altRuntimeStack
  BY DEF MoveFrames
<1>2. /\ Good(runtimeStack, altRuntimeStack, numbers, 2 * length)
      /\ 2 * length \in Int
      /\ 2 * length' = 2 * length + 2 /\ length' \in 0 .. MaxLength
      /\ numbers' = NumberStep(numbers, f)
  BY <1>1, NumbersWorks, Started
<1>3. Good(Moved(runtimeStack, f.op, EmptyFrame), altRuntimeStack, NumberStep(numbers, f), 2 * length + 2)
  BY <1>1, <1>2, GoodMove
<1>. QED
  BY <1>1, <1>2, <1>3, Finished

LEMMA NumbersAlternate ==
    ASSUME NumbersInv, NEW f \in Frames, Alternate(f)
    PROVE  NumbersInv'
<1>1. Works(f)
  BY DEF Alternate
<1>2. /\ Good(runtimeStack, altRuntimeStack, numbers, 2 * length)
      /\ 2 * length \in Int
      /\ 2 * length' = 2 * length + 2 /\ length' \in 0 .. MaxLength
      /\ numbers' = NumberStep(numbers, f)
  BY <1>1, NumbersWorks, Started
<1>3. CASE /\ f.op = "OP_TOALTSTACK"
           /\ runtimeStack' = Pop(runtimeStack, 1)
           /\ altRuntimeStack' = Append(altRuntimeStack, Top(1))
  <2>1. Good(Pop(runtimeStack, 1), Append(altRuntimeStack, Top(1)), NumberStep(numbers, f), 2 * length + 2)
    BY <1>2, <1>3, GoodAlternate DEF Top
  <2>. QED
    BY <1>2, <1>3, <2>1, Finished
<1>4. CASE /\ f.op = "OP_FROMALTSTACK"
           /\ runtimeStack' = Append(runtimeStack, Popped(altRuntimeStack, 1, EmptyFrame))
           /\ altRuntimeStack' = Pop(altRuntimeStack, 1)
  <2>1. Good(Append(runtimeStack, Popped(altRuntimeStack, 1, EmptyFrame)), Pop(altRuntimeStack, 1),
             NumberStep(numbers, f), 2 * length + 2)
    BY <1>2, <1>4, GoodAlternate
  <2>. QED
    BY <1>2, <1>4, <2>1, Finished
<1>. QED
  BY <1>3, <1>4 DEF Alternate

LEMMA NumbersCompute ==
    ASSUME NumbersInv, NEW f \in Frames, Compute(f)
    PROVE  NumbersInv'
<1>1. Works(f)
  BY DEF Compute
<1>2. numbers.ok => Agree(runtimeStack, numbers.stack)
  <2>1. Good(runtimeStack, altRuntimeStack, numbers, 2 * length)
    BY <1>1, NumbersWorks, Started
  <2>. QED
    BY <2>1 DEF Good
<1>3. 0 \in Nat /\ 1 \in Nat /\ 2 \in Nat /\ 3 \in Nat
  OBVIOUS
<1>4. CASE f.op \in Unaries /\ Replace(1, NumericalFrame(Unary(f.op, Num(1))))
  <2>1. numbers.ok => Replaces(numbers, f, 1, NumericalFrame(Unary(f.op, Num(1))))
    BY <1>2, <1>4, ComputeReplaces DEF Num, Top
  <2>. QED
    BY <1>1, <1>3, <1>4, <2>1, NumbersReplace
<1>5. CASE f.op \in Binaries /\ Replace(2, NumericalFrame(Binary(f.op, Num(2), Num(1))))
  <2>1. numbers.ok => Replaces(numbers, f, 2, NumericalFrame(Binary(f.op, Num(2), Num(1))))
    BY <1>2, <1>5, ComputeReplaces DEF Num, Top
  <2>. QED
    BY <1>1, <1>3, <1>5, <2>1, NumbersReplace
<1>6. CASE f.op = "OP_WITHIN" /\ Replace(3, NumericalFrame(Within(Num(3), Num(2), Num(1))))
  <2>1. numbers.ok => Replaces(numbers, f, 3, NumericalFrame(Within(Num(3), Num(2), Num(1))))
    BY <1>2, <1>6, ComputeReplaces DEF Num, Top
  <2>. QED
    BY <1>1, <1>3, <1>6, <2>1, NumbersReplace
<1>7. CASE f.op = "OP_MIN" /\ Replace(2, MinFrame(Top(1), Top(2)))
  <2>1. numbers.ok => Replaces(numbers, f, 2, MinFrame(Top(1), Top(2)))
    BY <1>2, <1>7, OthersReplace
  <2>. QED
    BY <1>1, <1>3, <1>7, <2>1, NumbersReplace
<1>8. CASE f.op = "OP_EQUAL" /\ Replace(2, NumericalFrame(Bit(Top(1) = Top(2))))
  <2>1. numbers.ok => Replaces(numbers, f, 2, NumericalFrame(Bit(Top(1) = Top(2))))
    BY <1>2, <1>8, OthersReplace
  <2>. QED
    BY <1>1, <1>3, <1>8, <2>1, NumbersReplace
<1>9. CASE f.op = "OP_NOT" /\ Replace(0, NumericalFrame(Bit(Top(1).op = "" /\ Num(1) = 0)))
  <2>1. numbers.ok => Replaces(numbers, f, 0, NumericalFrame(Bit(Top(1).op = "" /\ Num(1) = 0)))
    BY <1>2, <1>9, OthersReplace DEF Num, Top
  <2>. QED
    BY <1>1, <1>3, <1>9, <2>1, NumbersReplace
<1>. QED
  BY <1>4, <1>5, <1>6, <1>7, <1>8, <1>9 DEF Compute

LEMMA NumbersPick ==
    ASSUME NumbersInv, NEW f \in Frames, PickOrRoll(f)
    PROVE  NumbersInv'
<1>. DEFINE index == Len(runtimeStack) - 2 - FirstByte(Top(1))
            rest == Pop(runtimeStack, 1)
<1>1. /\ f.op \in {"OP_PICK", "OP_ROLL"}
      /\ Executes(f)
      /\ numbers' = NumberStep(numbers, f)
      /\ altRuntimeStack' = altRuntimeStack
      /\ index >= 0 => runtimeStack' = IF f.op = "OP_PICK" THEN Append(rest, rest[index + 1])
                                       ELSE Rolled(rest, index)
      /\ ~ (index >= 0) => outcome' = "undefined"
  BY DEF PickOrRoll
<1>2. /\ Good(runtimeStack, altRuntimeStack, numbers, 2 * length)
      /\ 2 * length \in Int /\ 2 * length <= 128
      /\ 2 * length' = 2 * length + 2 /\ length' \in 0 .. MaxLength
  BY <1>1, Started DEF Executes
<1>3. CASE index >= 0
  <2>1. Good(IF f.op = "OP_PICK" THEN Append(rest, rest[index + 1]) ELSE Rolled(rest, index),
             altRuntimeStack, NumberStep(numbers, f), 2 * length + 2)
    BY <1>1, <1>2, <1>3, GoodPick DEF Top
  <2>. HIDE DEF index, rest
  <2>. QED
    BY <1>1, <1>2, <1>3, <2>1, Finished
<1>4. CASE ~ (index >= 0)
  <2>1. outcome' # "running"
    BY <1>1, <1>4
  <2>. QED
    BY <1>2, <2>1, Finished
<1>. QED
  BY <1>3, <1>4

LEMMA NumbersVerify ==
    ASSUME NumbersInv, NEW f \in Frames, Verify(f)
    PROVE  NumbersInv'
<1>1. /\ Works(f) /\ f.op \in {"OP_VERIFY", "OP_EQUALVERIFY"}
      /\ runtimeStack' = Pop(runtimeStack, Needed(f.op))
      /\ altRuntimeStack' = altRuntimeStack
  BY DEF Verify
<1>2. /\ Good(runtimeStack, altRuntimeStack, numbers, 2 * length)
      /\ 2 * length \in Int
      /\ 2 * length' = 2 * length + 2 /\ length' \in 0 .. MaxLength
      /\ numbers' = NumberStep(numbers, f)
  BY <1>1, NumbersWorks, Started
<1>3. Good(Pop(runtimeStack, Needed(f.op)), altRuntimeStack, NumberStep(numbers, f), 2 * length + 2)
  <2>1. CASE f.op = "OP_VERIFY"
    <3>1. Needed(f.op) = 1
      BY <2>1 DEF Needed
    <3>. QED
      BY <1>2, <2>1, <3>1, GoodVerify
  <2>2. CASE f.op = "OP_EQUALVERIFY"
    BY <1>2, <2>2, GoodVerify
  <2>. QED
    BY <1>1, <2>1, <2>2
<1>. QED
  BY <1>1, <1>2, <1>3, Finished

LEMMA NumbersHash ==
    ASSUME NumbersInv, NEW f \in Frames, Hash(f)
    PROVE  NumbersInv'
<1>1. Works(f) /\ f.op = "OP_HASH160" /\ altRuntimeStack' = altRuntimeStack
  BY DEF Hash, Replace
<1>2. /\ Good(runtimeStack, altRuntimeStack, numbers, 2 * length)
      /\ 2 * length \in Int
      /\ 2 * length' = 2 * length + 2 /\ length' \in 0 .. MaxLength
      /\ numbers' = NumberStep(numbers, f)
  BY <1>1, NumbersWorks, Started
<1>3. \A any : Good(any, altRuntimeStack, NumberStep(numbers, f), 2 * length + 2)
  BY <1>1, <1>2, GoodVerify
<1>. QED
  BY <1>1, <1>2, <1>3, Finished

(* What the digests and signatures answer is no number of the program.     *)
LEMMA NumbersSignatures ==
    ASSUME NumbersInv, NEW f \in Frames, CheckSignatures(f)
    PROVE  NumbersInv'
<1>1. /\ Works(f) /\ altRuntimeStack' = altRuntimeStack
      /\ f.op \in {"OP_CHECKSIG", "OP_CHECKSIGVERIFY", "OP_CHECKMULTISIG"}
  BY DEF CheckSignatures, Replace
<1>2. /\ Good(runtimeStack, altRuntimeStack, numbers, 2 * length)
      /\ 2 * length' = 2 * length + 2 /\ length' \in 0 .. MaxLength
      /\ numbers' = NumberStep(numbers, f)
  BY <1>1, NumbersWorks, Started
<1>3. Record(numbers)
  BY <1>2 DEF Good
<1>4. Good(runtimeStack', altRuntimeStack, NumberStep(numbers, f), 2 * length + 2)
  <2>1. CASE ~ numbers.ok
    BY <1>3, <2>1, GoodOld
  <2>2. CASE numbers.ok
    <3>1. NumberStep(numbers, f) = Out(numbers)
      BY <1>1, <2>2, StepOfOther
    <3>. QED
      BY <1>3, <3>1, GoodOut
  <2>. QED
    BY <2>1, <2>2
<1>. QED
  BY <1>1, <1>2, <1>4, Finished

LEMMA NumbersBranch ==
    ASSUME NumbersInv, NEW f \in Frames, SkipFrame(f) \/ If(f) \/ Else(f) \/ EndIf(f) \/ Fail(f)
    PROVE  NumbersInv'
<1>1. outcome = "running" /\ length < MaxLength /\ length' = length + 1
  BY DEF SkipFrame, If, Else, EndIf, Fail, Executes
<1>2. /\ Good(runtimeStack, altRuntimeStack, numbers, 2 * length)
      /\ 2 * length \in Int
      /\ 2 * length' = 2 * length + 2 /\ length' \in 0 .. MaxLength
  BY <1>1, Started
<1>3. CASE SkipFrame(f) \/ Else(f) \/ EndIf(f)
  <2>1. runtimeStack' = runtimeStack /\ altRuntimeStack' = altRuntimeStack /\ numbers' = numbers
    BY <1>3 DEF SkipFrame, Else, EndIf
  <2>2. Good(runtimeStack, altRuntimeStack, numbers, 2 * length + 2)
    <3>1. PICK n : n = 2 * length
      OBVIOUS
    <3>2. numbers.ok => Len(runtimeStack) \in Nat /\ Len(runtimeStack) <= n
      BY <1>2, <3>1 DEF Good, Agree
    <3>3. n \in Int
      BY <1>2, <3>1
    <3>4. numbers.ok => Len(runtimeStack) <= n + 2
      BY <3>2, <3>3
    <3>. QED
      BY <1>2, <3>1, <3>4 DEF Good
  <2>. QED
    BY <1>2, <2>1, <2>2, Finished
<1>4. CASE If(f)
  <2>1. numbers' = Out(numbers)
    BY <1>4 DEF If, Out
  <2>2. Record(numbers)
    BY <1>2 DEF Good
  <2>3. Good(runtimeStack', altRuntimeStack', Out(numbers), 2 * length + 2)
    BY <2>2, GoodOut
  <2>. QED
    BY <1>2, <2>1, <2>3, Finished
<1>5. CASE Fail(f)
  <2>1. outcome' # "running"
    BY <1>5 DEF Fail
  <2>. QED
    BY <1>2, <2>1, Finished
<1>. QED
  BY <1>3, <1>4, <1>5

LEMMA NumbersNext == ASSUME NumbersInv, [Next]_vars PROVE NumbersInv'
<1>1. ASSUME NEW f \in Frames, Step(f) PROVE NumbersInv'
  BY <1>1, NumbersPush, NumbersMove, NumbersAlternate, NumbersCompute, NumbersPick,
     NumbersVerify, NumbersHash, NumbersSignatures, NumbersBranch DEF Step
<1>2. CASE End
  BY <1>2 DEF NumbersInv, End
<1>3. CASE UNCHANGED vars
  BY <1>3 DEF NumbersInv, vars
<1>. QED
  BY <1>1, <1>2, <1>3 DEF Next

LEMMA NumbersImply == ASSUME NumbersInv PROVE NumbersExact
<1>. SUFFICES ASSUME numbers.ok, outcome = "running"
              PROVE  /\ Len(runtimeStack) = Len(numbers.stack)
                     /\ \A k \in DOMAIN runtimeStack :
                           BytesToBignum(runtimeStack[k].data) = numbers.stack[k]
  BY DEF NumbersExact
<1>1. Agree(runtimeStack, numbers.stack)
  BY DEF NumbersInv, Good
<1>2. DOMAIN runtimeStack = 1 .. Len(numbers.stack)
  BY <1>1 DEF Agree
<1>. QED
  BY <1>1, <1>2 DEF Agree, Reads

(* Whatever a program computes, its frames read as the integers they mean. *)
THEOREM NumbersAreExact == Spec => []NumbersExact
<1>1. Init => NumbersInv
  BY NumbersInit
<1>2. NumbersInv /\ [Next]_vars => NumbersInv'
  BY NumbersNext
<1>3. NumbersInv => NumbersExact
  BY NumbersImply
<1>. QED
  BY <1>1, <1>2, <1>3, PTL DEF Spec

-----------------------------------------------------------------------------
(* The pairing loop of OP_CHECKMULTISIG, for any number of keys and        *)
(* signatures and any outcome of their checks.                             *)

USE CountsAssumption

(* At the start nothing is paired, and nothing is passed.                  *)
LEMMA InitGreedy == PairingInit => GreedyInv
<1> SUFFICES ASSUME PairingInit PROVE GreedyInv
  OBVIOUS
<1>1. PairingTypeOK
  BY DEF PairingInit, PairingTypeOK
<1>2. ASSUME result = "none"
      PROVE  /\ si < signatureCount
             /\ \E f \in [1 .. si -> 1 .. pki] : IsPairing(f, si, pki)
             /\ \A g \in Pairings : \A i \in Signatures : i > si => g[i] > pki
  <2>1. IsPairing([i \in 1 .. si |-> 1], si, pki)
    BY DEF PairingInit, IsPairing
  <2>2. [i \in 1 .. si |-> 1] \in [1 .. si -> 1 .. pki]
    BY DEF PairingInit
  <2>3. ASSUME NEW g \in Pairings, NEW i \in Signatures
        PROVE  g[i] > pki
    BY DEF PairingInit, Pairings, Signatures, Keys
  <2>4. si < signatureCount
    BY <1>2 DEF PairingInit
  <2> QED
    BY <2>1, <2>2, <2>3, <2>4
<1>3. ResultIsPairing
  <2>1. CASE signatureCount = 0
    <3> DEFINE none == [i \in Signatures |-> 1]
    <3>1. Signatures = {}
      BY <2>1 DEF Signatures
    <3>2. none \in [Signatures -> Keys]
      BY <3>1
    <3>3. IsPairing(none, signatureCount, publicKeyCount)
      BY <2>1, <3>1, <3>2 DEF IsPairing, Signatures, Keys
    <3>4. none \in Pairings
      BY <3>2, <3>3 DEF Pairings
    <3> QED
      BY <2>1, <3>4 DEF PairingInit, ResultIsPairing
  <2>2. CASE signatureCount # 0
    BY <2>2 DEF PairingInit, ResultIsPairing
  <2> QED
    BY <2>1, <2>2
<1> QED
  BY <1>1, <1>2, <1>3 DEF GreedyInv

(* The loop never writes what it was given.                                *)
LEMMA InputsStay ==
    ASSUME [PairingNext]_pairingVars
    PROVE  /\ UNCHANGED <<publicKeyCount, signatureCount, valid>>
           /\ Signatures' = Signatures
           /\ Keys' = Keys
           /\ Pairings' = Pairings
<1>1. UNCHANGED <<publicKeyCount, signatureCount, valid>>
  BY DEF PairingNext, pairingVars, GiveUp, PairLast, Pair, SkipKey
<1>2. Signatures' = Signatures /\ Keys' = Keys
  BY <1>1 DEF Signatures, Keys
<1>3. \A f : IsPairing(f, signatureCount, publicKeyCount)'
               <=> IsPairing(f, signatureCount, publicKeyCount)
  BY <1>1 DEF IsPairing
<1> QED
  BY <1>1, <1>2, <1>3 DEF Pairings

(* The counters stay within the counts.                                    *)
LEMMA TypeStays == PairingTypeOK /\ [PairingNext]_pairingVars => PairingTypeOK'
<1> SUFFICES ASSUME PairingTypeOK, [PairingNext]_pairingVars PROVE PairingTypeOK'
  OBVIOUS
<1>1. CASE GiveUp
  BY <1>1 DEF GiveUp, PairingTypeOK, Signatures, Keys
<1>2. CASE PairLast
  BY <1>2 DEF PairLast, PairingTypeOK, Signatures, Keys
<1>3. CASE Pair
  BY <1>3 DEF Pair, Looping, PairingTypeOK, Signatures, Keys
<1>4. CASE SkipKey
  BY <1>4 DEF SkipKey, Looping, PairingTypeOK, Signatures, Keys
<1>5. CASE UNCHANGED pairingVars
  BY <1>5 DEF pairingVars, PairingTypeOK, Signatures, Keys
<1> QED
  BY <1>1, <1>2, <1>3, <1>4, <1>5 DEF PairingNext

(* A pairing of the first signatures takes the next of each.               *)
LEMMA PairingGrows ==
    ASSUME PairingTypeOK, Looping, Checked \in valid,
           NEW f \in [1 .. si -> 1 .. pki], IsPairing(f, si, pki)
    PROVE  \E h \in [1 .. si + 1 -> 1 .. pki + 1] : IsPairing(h, si + 1, pki + 1)
<1> DEFINE h == [i \in 1 .. si + 1 |-> IF i = si + 1 THEN pki + 1 ELSE f[i]]
<1>1. pki \in Nat /\ si \in Nat
  BY DEF PairingTypeOK
<1>2. h \in [1 .. si + 1 -> 1 .. pki + 1]
  BY <1>1
<1>3. ASSUME NEW i \in 1 .. si + 1 PROVE <<i, h[i]>> \in valid
  <2>1. CASE i = si + 1
    <3>1. h[i] = pki + 1
      BY <2>1
    <3> QED
      BY <2>1, <3>1 DEF Checked
  <2>2. CASE i \in 1 .. si
    <3>1. h[i] = f[i]
      BY <2>2, <1>1
    <3> QED
      BY <2>2, <3>1 DEF IsPairing
  <2> QED
    BY <1>1, <2>1, <2>2
<1>4. \A i, j \in 1 .. si + 1 : i < j => h[i] < h[j]
  BY <1>1 DEF IsPairing
<1>5. IsPairing(h, si + 1, pki + 1)
  BY <1>2, <1>3, <1>4 DEF IsPairing
<1> QED
  BY <1>2, <1>5

(* It remains a pairing if more keys are allowed.                          *)
LEMMA PairingWidens ==
    ASSUME NEW n \in Nat, NEW m \in Nat, NEW k \in Nat, m <= k,
           NEW f, IsPairing(f, n, m)
    PROVE  f \in [1 .. n -> 1 .. k] /\ IsPairing(f, n, k)
BY DEF IsPairing

(* While the loop runs, a pairing of all pairs the next signature with a   *)
(* key not yet passed.                                                     *)
LEMMA NextKeyAhead ==
    ASSUME GreedyInv, result = "none", NEW g \in Pairings
    PROVE  /\ g[si + 1] \in Nat
           /\ pki < g[si + 1] /\ g[si + 1] <= publicKeyCount
           /\ <<si + 1, g[si + 1]>> \in valid
           /\ \A i \in Signatures : i > si + 1 => g[i] > g[si + 1]
<1>1. si \in Nat /\ signatureCount \in Nat /\ publicKeyCount \in Nat
  BY DEF GreedyInv, PairingTypeOK
<1>2. si + 1 \in Signatures
  BY <1>1 DEF GreedyInv, Signatures
<1>3. g \in [Signatures -> Keys] /\ IsPairing(g, signatureCount, publicKeyCount)
  BY DEF Pairings
<1>4. g[si + 1] > pki
  BY <1>1, <1>2 DEF GreedyInv
<1>5. g[si + 1] \in 1 .. publicKeyCount
  BY <1>2, <1>3 DEF Keys
<1>6. <<si + 1, g[si + 1]>> \in valid
  BY <1>2, <1>3 DEF IsPairing, Signatures
<1>7. \A i \in Signatures : i > si + 1 => g[i] > g[si + 1]
  <2> SUFFICES ASSUME NEW i \in Signatures, i > si + 1 PROVE g[i] > g[si + 1]
    OBVIOUS
  <2>1. g[si + 1] < g[i]
    BY <1>1, <1>2, <1>3 DEF IsPairing, Signatures
  <2>2. g[i] \in Nat /\ g[si + 1] \in Nat
    BY <1>2, <1>3 DEF Keys
  <2> QED
    BY <2>1, <2>2
<1>8. pki \in Nat
  BY DEF GreedyInv, PairingTypeOK
<1> QED
  BY <1>1, <1>4, <1>5, <1>6, <1>7, <1>8

(* Every step keeps the invariant.                                         *)
LEMMA GreedyStays == GreedyInv /\ [PairingNext]_pairingVars => GreedyInv'
<1> SUFFICES ASSUME GreedyInv, [PairingNext]_pairingVars PROVE GreedyInv'
  OBVIOUS
<1>1. PairingTypeOK /\ PairingTypeOK'
  BY TypeStays DEF GreedyInv
<1>2. /\ UNCHANGED <<publicKeyCount, signatureCount, valid>>
      /\ Signatures' = Signatures
      /\ Pairings' = Pairings
  BY InputsStay
<1>3. pki \in Nat /\ si \in Nat /\ publicKeyCount \in Nat /\ signatureCount \in Nat
  BY <1>1 DEF PairingTypeOK
<1>4. CASE GiveUp
  <2>1. result = "none" /\ result' = "false"
    BY <1>4 DEF GiveUp
  <2>2. pki >= publicKeyCount
    BY <1>3, <1>4, <2>1 DEF GiveUp, GreedyInv
  <2>3. ASSUME NEW g \in Pairings PROVE FALSE
    <3>1. g[si + 1] \in Nat /\ pki < g[si + 1] /\ g[si + 1] <= publicKeyCount
      BY <2>1, NextKeyAhead
    <3> QED
      BY <1>3, <2>2, <3>1
  <2>4. Pairings = {}
    BY <2>3
  <2> QED
    BY <1>1, <1>2, <2>1, <2>4 DEF GreedyInv, ResultIsPairing
<1>5. CASE PairLast
  <2>1. Looping /\ Checked \in valid /\ si + 1 = signatureCount /\ result' = "true"
    BY <1>5 DEF PairLast
  <2>2. PICK f \in [1 .. si -> 1 .. pki] : IsPairing(f, si, pki)
    BY <2>1 DEF GreedyInv, Looping
  <2>3. PICK h \in [1 .. si + 1 -> 1 .. pki + 1] : IsPairing(h, si + 1, pki + 1)
    BY <1>1, <2>1, <2>2, PairingGrows
  <2>4. si + 1 \in Nat /\ pki + 1 \in Nat /\ pki + 1 <= publicKeyCount
    BY <1>3, <2>1 DEF Looping
  <2>5. /\ h \in [1 .. si + 1 -> 1 .. publicKeyCount]
        /\ IsPairing(h, si + 1, publicKeyCount)
    BY <1>3, <2>3, <2>4, PairingWidens
  <2>6. h \in Pairings
    BY <2>1, <2>5 DEF Pairings, Signatures, Keys
  <2> QED
    BY <1>1, <1>2, <2>1, <2>6 DEF GreedyInv, ResultIsPairing
<1>6. CASE Pair
  <2>1. /\ Looping /\ Checked \in valid /\ si + 1 # signatureCount
        /\ pki' = pki + 1 /\ si' = si + 1 /\ result' = result
    BY <1>6 DEF Pair
  <2>2. result = "none"
    BY <2>1 DEF Looping
  <2>3. PICK f \in [1 .. si -> 1 .. pki] : IsPairing(f, si, pki)
    BY <2>2 DEF GreedyInv
  <2>4. \E h \in [1 .. si + 1 -> 1 .. pki + 1] : IsPairing(h, si + 1, pki + 1)
    BY <1>1, <2>1, <2>3, PairingGrows
  <2>5. \E h \in [1 .. si' -> 1 .. pki'] : IsPairing(h, si, pki)'
    BY <1>2, <2>1, <2>4 DEF IsPairing
  <2>6. ASSUME NEW g \in Pairings, NEW i \in Signatures, i > si + 1
        PROVE  g[i] > pki + 1
    <3>1. g[i] > g[si + 1] /\ g[si + 1] > pki
      BY <2>2, <2>6, NextKeyAhead
    <3>2. g[i] \in Int /\ g[si + 1] \in Int
      BY <1>3, <2>1, <2>6 DEF Looping, Pairings, Signatures, Keys
    <3> QED
      BY <1>3, <3>1, <3>2
  <2>7. si' < signatureCount'
    BY <1>2, <1>3, <2>1 DEF Looping
  <2>8. ResultIsPairing'
    BY <2>1, <2>2 DEF ResultIsPairing
  <2> QED
    BY <1>1, <1>2, <2>1, <2>5, <2>6, <2>7, <2>8 DEF GreedyInv
<1>7. CASE SkipKey
  <2>1. /\ Looping /\ Checked \notin valid
        /\ pki' = pki + 1 /\ si' = si /\ result' = result
    BY <1>7 DEF SkipKey
  <2>2. result = "none"
    BY <2>1 DEF Looping
  <2>3. PICK f \in [1 .. si -> 1 .. pki] : IsPairing(f, si, pki)
    BY <2>2 DEF GreedyInv
  <2>4. f \in [1 .. si -> 1 .. pki + 1] /\ IsPairing(f, si, pki + 1)
    BY <1>3, <2>3, PairingWidens
  <2>5. \E h \in [1 .. si' -> 1 .. pki'] : IsPairing(h, si, pki)'
    BY <1>2, <2>1, <2>4 DEF IsPairing
  <2>6. ASSUME NEW g \in Pairings, NEW i \in Signatures, i > si
        PROVE  g[i] > pki + 1
    <3>1. /\ pki < g[si + 1]
          /\ <<si + 1, g[si + 1]>> \in valid
          /\ i > si + 1 => g[i] > g[si + 1]
      BY <2>2, <2>6, NextKeyAhead
    <3>2. g[si + 1] # pki + 1
      BY <2>1, <3>1 DEF Checked
    <3>3. g[i] \in Int /\ g[si + 1] \in Int /\ i \in Int
      BY <1>3, <2>1, <2>6 DEF Looping, Pairings, Signatures, Keys
    <3> QED
      BY <1>3, <2>6, <3>1, <3>2, <3>3
  <2>7. si' < signatureCount'
    BY <1>2, <1>3, <2>1 DEF Looping
  <2>8. ResultIsPairing'
    BY <2>1, <2>2 DEF ResultIsPairing
  <2> QED
    BY <1>1, <1>2, <2>1, <2>5, <2>6, <2>7, <2>8 DEF GreedyInv
<1>8. CASE UNCHANGED pairingVars
  <2>1. /\ UNCHANGED <<pki, si, result>>
        /\ \A f : IsPairing(f, si, pki)' <=> IsPairing(f, si, pki)
    BY <1>8 DEF pairingVars, IsPairing
  <2> QED
    BY <1>1, <1>2, <2>1 DEF GreedyInv, ResultIsPairing
<1> QED
  BY <1>4, <1>5, <1>6, <1>7, <1>8 DEF PairingNext

(* The inductive invariant: what is paired has its keys, in order, and no  *)
(* pairing of all needs a key that was passed (script.c:1047-1067).        *)
THEOREM GreedyCorrect == PairingSpec => []GreedyInv
BY InitGreedy, GreedyStays, PTL DEF PairingSpec

(* The result is true exactly if all signatures can be paired with keys in *)
(* order (script.c:1036-1067).                                             *)
THEOREM ResultCorrect == PairingSpec => []ResultIsPairing
<1>1. GreedyInv => ResultIsPairing
  BY DEF GreedyInv
<1> QED
  BY <1>1, GreedyCorrect, PTL

=============================================================================
