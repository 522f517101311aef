------------------------------ MODULE Ieee754 -------------------------------
(***************************************************************************)
(* What IEEE 754 and the RISC-V F and D extensions say of an operation: an *)
(* exact result is rounded once, and the flags tell what the rounding did. *)
(* The reference SoftFloat is checked against.                             *)
(*                                                                         *)
(* A format has a sign, ExpSize bits of exponent and MantSize of fraction. *)
(* A finite number is n * 2^e; a result is [bits, flags].                  *)
(***************************************************************************)
EXTENDS Integers, FiniteSets

CONSTANTS MantSize, ExpSize

Modes == {"RNE", "RTZ", "RDN", "RUP", "RMM"}

ExpMask == 2^ExpSize - 1
Bias == ExpMask \div 2
Bits == 0 .. 2^(1 + ExpSize + MantSize) - 1

Sign(a) == a \div 2^(ExpSize + MantSize)
Exp(a) == (a \div 2^MantSize) % 2^ExpSize
Mant(a) == a % 2^MantSize
Encode(s, e, m) == (s * 2^ExpSize + e) * 2^MantSize + m

IsNaN(a) == Exp(a) = ExpMask /\ Mant(a) # 0
IsSignalling(a) == IsNaN(a) /\ Mant(a) < 2^(MantSize - 1)
IsInf(a) == Exp(a) = ExpMask /\ Mant(a) = 0
IsZero(a) == Exp(a) = 0 /\ Mant(a) = 0
CanonicalNaN == Encode(0, ExpMask, 2^(MantSize - 1))
Inf(s) == Encode(s, ExpMask, 0)

Plain(bits) == [bits |-> bits, flags |-> {}]
Invalid == [bits |-> CanonicalNaN, flags |-> {"NV"}]

(* A NaN operand makes a NaN, and is an error if it is a signalling one.   *)
NaNOf(operands) ==
  [bits |-> CanonicalNaN,
   flags |-> IF \E a \in operands : IsSignalling(a) THEN {"NV"} ELSE {}]

(* Magnitude and exponent of a finite number.                              *)
Significand(a) == IF Exp(a) = 0 THEN Mant(a) ELSE Mant(a) + 2^MantSize
Scale(a) == (IF Exp(a) = 0 THEN 1 ELSE Exp(a)) - Bias - MantSize
Signed(a) == IF Sign(a) = 1 THEN -Significand(a) ELSE Significand(a)

Abs(n) == IF n < 0 THEN -n ELSE n
Larger(a, b) == IF a >= b THEN a ELSE b
Smaller(a, b) == IF a <= b THEN a ELSE b

(* The number of binary digits of n.                                       *)
Digits(n) == Cardinality({i \in 0 .. 30 : 2^i <= n})

(* floor(log2(n / d)) for positive n and d.                                *)
Log2(n, d) ==
  IF n >= d THEN Digits(n \div d) - 1
  ELSE -(CHOOSE k \in 1 .. 30 : n * 2^k >= d /\ n * 2^(k - 1) < d)

(* A magnitude lies at or above k * 2^q: how far above, in thirds "low",   *)
(* "half", "high" or not at all, and the sign and mode decide on k or k+1. *)
Chosen(k, place, s, rm) ==
  LET up == \/ rm \in {"RNE", "RMM"} /\ place = "high"
            \/ rm = "RMM" /\ place = "half"
            \/ rm = "RNE" /\ place = "half" /\ k % 2 = 1
            \/ rm = "RDN" /\ s = 1 /\ place # "exact"
            \/ rm = "RUP" /\ s = 0 /\ place # "exact"
  IN  IF up THEN k + 1 ELSE k

Place(rem, d) ==
  CASE rem = 0 -> "exact"
    [] 2 * rem = d -> "half"
    [] 2 * rem < d /\ rem # 0 -> "low"
    [] OTHER -> "high"

EMin == 1 - Bias - MantSize         \* the exponent of the last subnormal place
EMax == ExpMask - 1 - Bias - MantSize

(* A magnitude rounded at the places free (unbounded exponent) and bound   *)
(* (this format): the result and its flags.  Tininess is detected after    *)
(* rounding.                                                               *)
Finish(s, rm, qFree, kFree, q, k, inexact) ==
  LET tiny == qFree < EMin /\ (qFree < EMin - 1 \/ kFree < 2^(MantSize + 1))
      carry == k = 2^(MantSize + 1)
      e == IF carry THEN q + 1 ELSE q
      over == e > EMax
      away == rm \in {"RNE", "RMM"} \/ (rm = "RUP" /\ s = 0) \/ (rm = "RDN" /\ s = 1)
  IN  IF over
      THEN [bits |-> IF away THEN Inf(s) ELSE Inf(s) - 1, flags |-> {"OF", "NX"}]
      ELSE [bits |-> IF k < 2^MantSize THEN Encode(s, 0, k)
                     ELSE Encode(s, e + Bias + MantSize, IF carry THEN 0 ELSE k - 2^MantSize),
            flags |-> IF ~inexact THEN {} ELSE IF tiny THEN {"UF", "NX"} ELSE {"NX"}]

(* The magnitude (n / d) * 2^e at the place 2^q, which is no higher than   *)
(* what n cannot reach.                                                    *)
Unit(d, e, q) == d * 2^Smaller(q - e, 30 - Digits(d))
Floor(n, d, e, q) == IF e >= q THEN (n * 2^(e - q)) \div d ELSE n \div Unit(d, e, q)
PlaceAt(n, d, e, q) ==
  IF e >= q THEN Place((n * 2^(e - q)) % d, d) ELSE Place(n % Unit(d, e, q), Unit(d, e, q))

Round(s, n, d, e, rm) ==
  LET qFree == Log2(n, d) + e - MantSize
      q == Larger(qFree, EMin)
      at(p) == Chosen(Floor(n, d, e, p), PlaceAt(n, d, e, p), s, rm)
  IN  Finish(s, rm, qFree, at(qFree), q, at(q), PlaceAt(n, d, e, q) # "exact")

-----------------------------------------------------------------------------
(* The sum of two scaled integers; an exact zero has the sign of the mode. *)
(* Of a term that begins three places below the other's last one only the  *)
(* sign matters.                                                           *)
RoundSum(n1, e1, n2, e2, zeroSign, rm) ==
  LET below(m, f, g) == f + Digits(Abs(m)) <= g - 3
      e == CASE n1 = 0 -> e2
             [] n2 = 0 -> e1
             [] n1 # 0 /\ n2 # 0 -> IF below(n2, e2, e1) THEN e1 - 3
                                    ELSE IF below(n1, e1, e2) THEN e2 - 3 ELSE Smaller(e1, e2)
      part(m, f) == IF m = 0 THEN 0 ELSE IF f >= e THEN m * 2^(f - e)
                    ELSE IF m > 0 THEN 1 ELSE -1
      n == part(n1, e1) + part(n2, e2)
  IN  IF n = 0 THEN Plain(Encode(zeroSign, 0, 0))
      ELSE Round(IF n < 0 THEN 1 ELSE 0, Abs(n), 1, e, rm)

ZeroSum(s, t, rm) == IF s = t THEN s ELSE IF rm = "RDN" THEN 1 ELSE 0

RefAdd(a, b, rm) ==
  CASE IsNaN(a) \/ IsNaN(b) -> NaNOf({a, b})
    [] IsInf(a) /\ IsInf(b) /\ Sign(a) # Sign(b) -> Invalid
    [] IsInf(a) /\ ~IsNaN(b) /\ ~(IsInf(b) /\ Sign(a) # Sign(b)) -> Plain(a)
    [] IsInf(b) /\ ~IsNaN(a) /\ ~IsInf(a) -> Plain(b)
    [] OTHER -> RoundSum(Signed(a), Scale(a), Signed(b), Scale(b),
                         ZeroSum(Sign(a), Sign(b), rm), rm)

RefMul(a, b, rm) ==
  LET s == (Sign(a) + Sign(b)) % 2 IN
  IF IsNaN(a) \/ IsNaN(b) THEN NaNOf({a, b})
  ELSE IF (IsInf(a) /\ IsZero(b)) \/ (IsInf(b) /\ IsZero(a)) THEN Invalid
  ELSE IF IsInf(a) \/ IsInf(b) THEN Plain(Inf(s))
  ELSE IF IsZero(a) \/ IsZero(b) THEN Plain(Encode(s, 0, 0))
  ELSE Round(s, Significand(a) * Significand(b), 1, Scale(a) + Scale(b), rm)

RefFma(a, b, c, rm) ==
  LET s == (Sign(a) + Sign(b)) % 2
      product == (IF s = 1 THEN -1 ELSE 1) * Significand(a) * Significand(b)
  IN
  IF IsNaN(a) \/ IsNaN(b) \/ IsNaN(c) THEN NaNOf({a, b, c})
  ELSE IF (IsInf(a) /\ IsZero(b)) \/ (IsInf(b) /\ IsZero(a)) THEN Invalid
  ELSE IF IsInf(a) \/ IsInf(b)
    THEN IF IsInf(c) /\ Sign(c) # s THEN Invalid ELSE Plain(Inf(s))
  ELSE IF IsInf(c) THEN Plain(c)
  ELSE RoundSum(product, Scale(a) + Scale(b), Signed(c), Scale(c),
                ZeroSum(s, Sign(c), rm), rm)

RefDiv(a, b, rm) ==
  LET s == (Sign(a) + Sign(b)) % 2 IN
  IF IsNaN(a) \/ IsNaN(b) THEN NaNOf({a, b})
  ELSE IF (IsInf(a) /\ IsInf(b)) \/ (IsZero(a) /\ IsZero(b)) THEN Invalid
  ELSE IF IsInf(a) THEN Plain(Inf(s))
  ELSE IF IsZero(b) THEN [bits |-> Inf(s), flags |-> {"DZ"}]
  ELSE IF IsInf(b) \/ IsZero(a) THEN Plain(Encode(s, 0, 0))
  ELSE Round(s, Significand(a), Significand(b), Scale(a) - Scale(b), rm)

(* The root of n * 2^e, with n made so large that e is even and the root   *)
(* an integer of the right length.                                         *)
RefSqrt(a, rm) ==
  IF IsNaN(a) THEN NaNOf({a})
  ELSE IF IsZero(a) THEN Plain(a)
  ELSE IF Sign(a) = 1 THEN Invalid
  ELSE IF IsInf(a) THEN Plain(a)
  ELSE LET up == CHOOSE u \in 0 .. 2 * MantSize + 4 :
                   /\ (Scale(a) - u) % 2 = 0
                   /\ 4^MantSize <= Significand(a) * 2^u
                   /\ Significand(a) * 2^u < 4^(MantSize + 1)
           n == Significand(a) * 2^up
           k == CHOOSE r \in 0 .. 2^(MantSize + 1) : r * r <= n /\ (r + 1) * (r + 1) > n
           q == (Scale(a) - up) \div 2
           place == IF k * k = n THEN "exact" ELSE IF (2 * k + 1) * (2 * k + 1) > 4 * n THEN "low" ELSE "high"
           r == Chosen(k, place, 0, rm)
       IN  Finish(0, rm, q, r, q, r, place # "exact")

(* Conversion to an integer of size bits: what does not fit, after         *)
(* rounding, is invalid and saturates.                                     *)
RefToInt(a, size, unsigned, rm) ==
  LET low == IF unsigned THEN 0 ELSE -(2^(size - 1))
      high == IF unsigned THEN 2^size - 1 ELSE 2^(size - 1) - 1
      e == Larger(Scale(a), -2 * MantSize - 4)   \* below that all are less than a quarter
      place == PlaceAt(Significand(a), 1, e, 0)
      m == Chosen(Floor(Significand(a), 1, e, 0), place, Sign(a), rm)
      v == IF Sign(a) = 1 THEN -m ELSE m
      saturated == IF IsNaN(a) \/ Sign(a) = 0 THEN high ELSE low
  IN  IF IsNaN(a) \/ IsInf(a) \/ Scale(a) > size \/ v < low \/ v > high
      THEN [bits |-> saturated % 2^size, flags |-> {"NV"}]
      ELSE [bits |-> v % 2^size,
            flags |-> IF place = "exact" THEN {} ELSE {"NX"}]

RefFromInt(i, size, unsigned, rm) ==
  LET v == IF ~unsigned /\ i >= 2^(size - 1) THEN i - 2^size ELSE i IN
  IF v = 0 THEN Plain(0) ELSE Round(IF v < 0 THEN 1 ELSE 0, Abs(v), 1, 0, rm)

(* Order of the numbers; the two zeros are equal.  A longer exponent, then *)
(* a larger significand, is a larger magnitude.                            *)
RefLess(a, b) ==
  LET smaller(x, y) == Exp(x) < Exp(y) \/ (Exp(x) = Exp(y) /\ Mant(x) < Mant(y))
  IN  CASE IsZero(a) /\ IsZero(b) -> FALSE
        [] Sign(a) # Sign(b) /\ ~(IsZero(a) /\ IsZero(b)) -> Sign(a) = 1
        [] Sign(a) = 0 /\ Sign(b) = 0 /\ ~(IsZero(a) /\ IsZero(b)) -> smaller(a, b)
        [] Sign(a) = 1 /\ Sign(b) = 1 /\ ~(IsZero(a) /\ IsZero(b)) -> smaller(b, a)
=============================================================================
