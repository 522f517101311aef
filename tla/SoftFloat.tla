----------------------------- MODULE SoftFloat ------------------------------
(***************************************************************************)
(* The soft floating point of rv64-core/src/softfp.rs, one definition per  *)
(* function of its macro, for any width of the exponent and the mantissa.  *)
(* A result is [bits, flags], flags being what the call adds to fflags.    *)
(* A double word (hi, lo) of the code is one integer of 2 * F_SIZE bits.   *)
(***************************************************************************)
EXTENDS Integers, FiniteSets

CONSTANTS MANT_SIZE, EXP_SIZE    \* at least 2 and 4: two guard bits and a sticky one

F_SIZE == 1 + EXP_SIZE + MANT_SIZE
EXP_MASK == 2^EXP_SIZE - 1
MANT_MASK == 2^MANT_SIZE - 1
SIGN_MASK == 2^(F_SIZE - 1)
RND_SIZE == F_SIZE - 2 - MANT_SIZE
QNAN == EXP_MASK * 2^MANT_SIZE + 2^(MANT_SIZE - 1)

sign(a) == a \div SIGN_MASK
exp(a) == (a \div 2^MANT_SIZE) % 2^EXP_SIZE
mant(a) == a % 2^MANT_SIZE
magnitude(a) == a % SIGN_MASK
is_zero(a) == magnitude(a) = 0
xor(s, t) == (s + t) % 2

(* The number of bits of a: F_SIZE less its leading zeros.                 *)
bits(a) == Cardinality({i \in 0 .. 2 * F_SIZE : 2^i <= a})

(* a with its lowest bit set when something was shifted out of it.         *)
sticky(a, lost) == IF lost THEN (a \div 2) * 2 + 1 ELSE a

plain(v) == [bits |-> v, flags |-> {}]
nan(invalid) == [bits |-> QNAN, flags |-> IF invalid THEN {"NV"} ELSE {}]

pack(s, e, m) == s * SIGN_MASK + e * 2^MANT_SIZE + (m % 2^MANT_SIZE)

rshift_rnd(a, d) ==
  IF d >= F_SIZE THEN sticky(0, a # 0) ELSE sticky(a \div 2^d, a % 2^d # 0)

(* Mutant: the two directed modes are taken by magnitude, not by value.    *)
addend_unsigned(s, rm) ==
  CASE rm \in {"RNE", "RMM"} -> 2^(RND_SIZE - 1)
    [] rm \in {"RTZ", "RDN"} -> 0
    [] rm = "RUP" -> 2^RND_SIZE - 1

addend(s, rm) ==
  CASE rm \in {"RNE", "RMM"} -> 2^(RND_SIZE - 1)
    [] rm = "RTZ" -> 0
    [] rm = "RDN" -> IF s = 1 THEN 2^RND_SIZE - 1 ELSE 0
    [] rm = "RUP" -> IF s = 0 THEN 2^RND_SIZE - 1 ELSE 0

(* Adds the addend and drops the guard bits; a tie goes to the even one.   *)
rounded(m, s, rm) ==
  LET r == ((m + addend(s, rm)) % 2^F_SIZE) \div 2^RND_SIZE
      tie == rm = "RNE" /\ m % 2^RND_SIZE = 2^(RND_SIZE - 1)
  IN  IF tie THEN r - (r % 2) ELSE r

round_pack(s, e0, m0, rm) ==
  LET small == e0 <= 0
      subnormal == small /\ (e0 < 0 \/ (m0 + addend(s, rm)) % 2^F_SIZE < SIGN_MASK)
      m1 == IF small THEN rshift_rnd(m0, 1 - e0) ELSE m0
      inexact == m1 % 2^RND_SIZE # 0
      m == rounded(m1, s, rm)
      e == (IF small THEN 1 ELSE e0) + m \div 2^(MANT_SIZE + 1)
      over == m > MANT_MASK /\ e >= EXP_MASK
      v == CASE m <= MANT_MASK -> pack(s, 0, m)
             [] over /\ addend(s, rm) = 0 -> pack(s, EXP_MASK - 1, MANT_MASK)
             [] over /\ addend(s, rm) # 0 -> pack(s, EXP_MASK, 0)
             [] OTHER -> pack(s, e, m)
  IN  [bits |-> v,
       flags |-> (IF subnormal /\ inexact THEN {"UF"} ELSE {})
                   \cup (IF inexact THEN {"NX"} ELSE {})
                   \cup (IF over THEN {"OF", "NX"} ELSE {})]

normalize(s, e, m, rm) ==
  LET shift == F_SIZE - bits(m) - 1 IN round_pack(s, e - shift, m * 2^shift, rm)

normalize2(s, e, wide, rm) ==
  LET shift == 2 * F_SIZE - bits(wide) - 1
      w == wide * 2^shift
  IN  round_pack(s, e - shift, sticky(w \div 2^F_SIZE, w % 2^F_SIZE # 0), rm)

is_nan(a) == exp(a) = EXP_MASK /\ mant(a) # 0
is_signan(a) == is_nan(a) /\ mant(a) < 2^(MANT_SIZE - 1)
is_inf(a) == exp(a) = EXP_MASK /\ mant(a) = 0

(* normalize_subnormal, and the hidden bit of a normal number.             *)
lift(a) == MANT_SIZE + 1 - bits(mant(a))
nexp(a) == IF exp(a) = 0 THEN 1 - lift(a) ELSE exp(a)
nmant(a) == IF exp(a) = 0 THEN mant(a) * 2^lift(a) ELSE mant(a) + 2^MANT_SIZE

add(x, y, rm) ==
  LET swap == magnitude(x) < magnitude(y)
      a == IF swap THEN y ELSE x
      b == IF swap THEN x ELSE y
      e(v) == IF exp(v) = 0 THEN 1 ELSE exp(v)
      m(v) == 8 * (IF exp(v) = 0 THEN mant(v) ELSE mant(v) + 2^MANT_SIZE)
      mb == rshift_rnd(m(b), e(a) - e(b))
      sum == IF sign(a) = sign(b) THEN m(a) + mb ELSE m(a) - mb
      s == IF sign(a) # sign(b) /\ sum = 0 THEN (IF rm = "RDN" THEN 1 ELSE 0) ELSE sign(a)
  IN  CASE is_nan(a) -> nan(is_signan(a) \/ is_signan(b))
        [] is_inf(a) /\ exp(b) = EXP_MASK /\ sign(a) # sign(b) -> nan(TRUE)
        [] is_inf(a) /\ ~(exp(b) = EXP_MASK /\ sign(a) # sign(b)) -> plain(a)
        [] OTHER -> normalize(s, e(a) + RND_SIZE - 3, sum, rm)

sub(a, b, rm) == add(a, (b + SIGN_MASK) % 2^F_SIZE, rm)

mul(a, b, rm) ==
  LET s == xor(sign(a), sign(b))
      e == nexp(a) + nexp(b) - 2^(EXP_SIZE - 1) + 2
      w == nmant(a) * 2^RND_SIZE * nmant(b) * 2^(RND_SIZE + 1)
  IN  IF exp(a) = EXP_MASK \/ exp(b) = EXP_MASK
      THEN IF is_nan(a) \/ is_nan(b) THEN nan(is_signan(a) \/ is_signan(b))
           ELSE IF is_zero(a) \/ is_zero(b) THEN nan(TRUE)
           ELSE plain(pack(s, EXP_MASK, 0))
      ELSE IF is_zero(a) \/ is_zero(b) THEN plain(pack(s, 0, 0))
      ELSE normalize(s, e, sticky(w \div 2^F_SIZE, w % 2^F_SIZE # 0), rm)

(* The addend c of fma shifted right over the double word; beyond one word *)
(* only its high word counts.                                              *)
fma_shift(c, shift) ==
  CASE shift >= 2 * F_SIZE -> sticky(0, c # 0)
    [] shift > F_SIZE /\ shift < 2 * F_SIZE -> rshift_rnd(c \div 2^F_SIZE, shift - F_SIZE)
    [] OTHER -> sticky(c \div 2^shift, c % 2^shift # 0)

(* The finite case of fma: a product and an addend, [s, w, e], each a      *)
(* double word; the smaller one is moved to the larger one.                *)
fma_first(product, third) ==
  \/ product.e > third.e
  \/ product.e = third.e /\ product.w \div 2^F_SIZE >= third.w \div 2^F_SIZE
fma_round(big, sum, alike, rm) ==
  normalize2(IF alike \/ sum # 0 THEN big.s ELSE IF rm = "RDN" THEN 1 ELSE 0, big.e, sum, rm)
fma_moved(big, w, alike, rm) ==
  fma_round(big, (IF alike THEN big.w + w ELSE big.w - w) % 4^F_SIZE, alike, rm)
fma_ordered(big, little, rm) ==
  fma_moved(big, fma_shift(little.w, big.e - little.e), big.s = little.s, rm)

fma_addend(product, third, rm) ==
  IF third.w = 0
  THEN normalize(product.s, product.e,
                 sticky(product.w \div 2^F_SIZE, product.w % 2^F_SIZE # 0), rm)
  ELSE IF fma_first(product, third) THEN fma_ordered(product, third, rm)
  ELSE fma_ordered(third, product, rm)

fma_finite(s, a, b, c, rm) ==
  LET p == nmant(a) * 2^RND_SIZE * nmant(b) * 2^RND_SIZE
      short == p \div 2^F_SIZE < 2^(F_SIZE - 3)
  IN  fma_addend([s |-> s, w |-> IF short THEN 2 * p ELSE p,
                  e |-> nexp(a) + nexp(b) - 2^(EXP_SIZE - 1) + (IF short THEN 2 ELSE 3)],
                 [s |-> sign(c), e |-> nexp(c) + 1,
                  w |-> IF is_zero(c) THEN 0 ELSE nmant(c) * 2^(RND_SIZE - 1) * 2^F_SIZE],
                 rm)

fma(a, b, c, rm) ==
  LET s == xor(sign(a), sign(b))
      inf == is_inf(a) \/ is_inf(b)
  IN  IF {exp(a), exp(b), exp(c)} \cap {EXP_MASK} # {}
      THEN IF is_nan(a) \/ is_nan(b) \/ is_nan(c)
           THEN nan(is_signan(a) \/ is_signan(b) \/ is_signan(c))
           ELSE IF (inf /\ (is_zero(a) \/ is_zero(b))) \/ (inf /\ is_inf(c) /\ s # sign(c))
           THEN nan(TRUE)
           ELSE plain(pack(IF is_inf(c) THEN sign(c) ELSE s, EXP_MASK, 0))
      ELSE IF is_zero(a) \/ is_zero(b)
      THEN IF ~is_zero(c) THEN plain(c)
           ELSE plain(pack(IF sign(c) = s THEN s ELSE IF rm = "RDN" THEN 1 ELSE 0, 0, 0))
      ELSE fma_finite(s, a, b, c, rm)

div(a, b, rm) ==
  LET s == xor(sign(a), sign(b))
      w == nmant(a) * 2^F_SIZE
      d == nmant(b) * 4
  IN  IF is_nan(a) \/ is_nan(b) THEN nan(is_signan(a) \/ is_signan(b))
      ELSE IF is_inf(a) THEN IF is_inf(b) THEN nan(TRUE) ELSE plain(pack(s, EXP_MASK, 0))
      ELSE IF is_inf(b) THEN plain(pack(s, 0, 0))
      ELSE IF is_zero(b) THEN IF is_zero(a) THEN nan(TRUE)
                              ELSE [bits |-> pack(s, EXP_MASK, 0), flags |-> {"DZ"}]
      ELSE IF is_zero(a) THEN plain(pack(s, 0, 0))
      ELSE normalize(s, nexp(a) - nexp(b) + 2^(EXP_SIZE - 1) - 1,
                     sticky(w \div d, w % d # 0), rm)

(* Newton's iteration down to the integer root, from a power of two above. *)
newton[s \in 1 .. 2^(F_SIZE + 1), w \in 1 .. 4^F_SIZE] ==
  LET u == (w \div s + s) \div 2 IN IF u >= s THEN s ELSE newton[u, w]

sqrtrem_u(ah) ==
  LET w == ah * 2^F_SIZE
      l == F_SIZE + bits(ah - 1)
      root == newton[2^((l + 1) \div 2), w]
  IN  [root |-> root, inexact |-> w # root * root]

sqrt(a, rm) ==
  LET unbiased == nexp(a) - EXP_MASK \div 2
      odd == unbiased % 2
      r == sqrtrem_u(nmant(a) * 2^odd * 2^(F_SIZE - 4 - MANT_SIZE))
  IN  CASE is_nan(a) -> nan(is_signan(a))
        [] is_zero(a) -> plain(a)
        [] sign(a) = 1 /\ ~is_nan(a) /\ ~is_zero(a) -> nan(TRUE)
        [] is_inf(a) /\ sign(a) = 0 -> plain(a)
        [] OTHER -> normalize(0, (unbiased - odd) \div 2 + EXP_MASK \div 2,
                              sticky(r.root, r.inexact), rm)

min_max_nan(a, b) ==
  [bits |-> IF ~is_nan(a) THEN a ELSE IF is_nan(b) THEN QNAN ELSE b,
   flags |-> IF is_signan(a) \/ is_signan(b) THEN {"NV"} ELSE {}]

(* The order of two numbers by sign, then by bits: is a the lower one?     *)
lower(a, b) ==
  IF sign(a) # sign(b) THEN sign(a) = 1
  ELSE IF sign(a) = 1 THEN ~(a < b) ELSE a < b

min(a, b) ==
  IF is_nan(a) \/ is_nan(b) THEN min_max_nan(a, b) ELSE plain(IF lower(a, b) THEN a ELSE b)
max(a, b) ==
  IF is_nan(a) \/ is_nan(b) THEN min_max_nan(a, b) ELSE plain(IF lower(a, b) THEN b ELSE a)

truth(p) == plain(IF p THEN 1 ELSE 0)
both_zero(a, b) == is_zero(a) /\ is_zero(b)

eq_quiet(a, b) ==
  IF is_nan(a) \/ is_nan(b)
  THEN [bits |-> 0, flags |-> IF is_signan(a) \/ is_signan(b) THEN {"NV"} ELSE {}]
  ELSE truth(both_zero(a, b) \/ a = b)

le(a, b) ==
  IF is_nan(a) \/ is_nan(b) THEN [bits |-> 0, flags |-> {"NV"}]
  ELSE truth(IF sign(a) # sign(b) THEN sign(a) = 1 \/ both_zero(a, b)
             ELSE IF sign(a) = 1 THEN a >= b ELSE a <= b)

lt(a, b) ==
  IF is_nan(a) \/ is_nan(b) THEN [bits |-> 0, flags |-> {"NV"}]
  ELSE truth(IF sign(a) # sign(b) THEN sign(a) = 1 /\ ~both_zero(a, b)
             ELSE IF sign(a) = 1 THEN a > b ELSE a < b)

(* The number of the one bit of the class that fclass sets.                *)
fclass(a) ==
  CASE exp(a) = EXP_MASK /\ mant(a) # 0 -> IF mant(a) \div 2^(MANT_SIZE - 1) = 1 THEN 9 ELSE 8
    [] exp(a) = EXP_MASK /\ mant(a) = 0 -> IF sign(a) = 1 THEN 0 ELSE 7
    [] exp(a) = 0 /\ mant(a) = 0 -> IF sign(a) = 1 THEN 3 ELSE 4
    [] exp(a) = 0 /\ mant(a) # 0 -> IF sign(a) = 1 THEN 2 ELSE 5
    [] OTHER -> IF sign(a) = 1 THEN 1 ELSE 6

(* To an integer of isz bits; a NaN behaves like plus infinity.            *)
cvt_to_i(a, isz, unsigned, rm) ==
  LET s == IF is_nan(a) THEN 0 ELSE sign(a)
      m == (IF exp(a) = 0 THEN mant(a) ELSE mant(a) + 2^MANT_SIZE) * 2^RND_SIZE
      e == (IF exp(a) = 0 THEN 1 ELSE exp(a)) - EXP_MASK \div 2 - MANT_SIZE
      r_max == IF unsigned THEN (IF s = 1 THEN 0 ELSE 2^isz - 1)
                           ELSE (IF s = 1 THEN 2^(isz - 1) ELSE 2^(isz - 1) - 1)
      fits == e <= isz - 1 - MANT_SIZE
      guard == rshift_rnd(m, -e)
      r == IF e >= 0 THEN ((m \div 2^RND_SIZE) * 2^e) % 2^isz ELSE rounded(guard, s, rm)
  IN  IF (e >= 0 /\ ~fits) \/ r > r_max THEN [bits |-> r_max, flags |-> {"NV"}]
      ELSE [bits |-> (IF s = 1 THEN -r ELSE r) % 2^isz,
            flags |-> IF e < 0 /\ guard % 2^RND_SIZE # 0 THEN {"NX"} ELSE {}]

cvt_from_i(i, isz, unsigned, rm) ==
  LET s == IF ~unsigned /\ i >= 2^(isz - 1) THEN 1 ELSE 0
      r == IF s = 1 THEN 2^isz - i ELSE i
      l == bits(r) - (F_SIZE - 1)
      m == IF l > 0 THEN sticky(r \div 2^l, r % 2^l # 0) ELSE r
  IN  normalize(s, EXP_MASK \div 2 + F_SIZE - 2 + (IF l > 0 THEN l ELSE 0), m, rm)
=============================================================================
