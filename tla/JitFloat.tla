------------------------------ MODULE JitFloat ------------------------------
(***************************************************************************)
(* The shortcuts past SoftFloat: the host's own arithmetic, guarded so     *)
(* that no flag but a sticky inexact can be due.  The interpreter takes    *)
(* fp_fast32/fp_fast64 (rv64-core/src/cpu.rs), compiled code the fp_*      *)
(* emitters of rv64-jit/src/lib.rs, whose guards bail to the interpreter.  *)
(* A shortcut is [taken, bits]; FALSE leaves the operation to SoftFloat.   *)
(* Both run only when the rounding mode is RNE and NX is already set.      *)
(***************************************************************************)
EXTENDS SoftFloat

CONSTANTS
  BandLow, BandHigh,  \* the exponents fp_fmadd_d works on, 0x100 and 0x6ff in the code
  SplitBits           \* Dekker's split, 27 for a double

(* The host: WebAssembly's f32 and f64 instructions round to nearest.      *)
host == INSTANCE Ieee754 WITH MantSize <- MANT_SIZE, ExpSize <- EXP_SIZE
hadd(a, b) == host!RefAdd(a, b, "RNE").bits
hsub(a, b) == host!RefAdd(a, (b + SIGN_MASK) % 2^F_SIZE, "RNE").bits
hmul(a, b) == host!RefMul(a, b, "RNE").bits
hless(a, b) == ~is_nan(a) /\ ~is_nan(b) /\ host!RefLess(a, b)
hequal(a, b) == ~is_nan(a) /\ ~is_nan(b) /\ ~host!RefLess(a, b) /\ ~host!RefLess(b, a)

Ops == {"add", "sub", "mul", "div"}
hostop(op, a, b) ==
  CASE op = "add" -> hadd(a, b)
    [] op = "sub" -> hsub(a, b)
    [] op = "mul" -> hmul(a, b)
    [] op = "div" -> host!RefDiv(a, b, "RNE").bits

softop(op, a, b, rm) ==
  CASE op = "add" -> add(a, b, rm)
    [] op = "sub" -> sub(a, b, rm)
    [] op = "mul" -> mul(a, b, rm)
    [] op = "div" -> div(a, b, rm)

finite(a) == exp(a) # EXP_MASK
normal(a) == exp(a) \in 1 .. EXP_MASK - 1
take(guard, v) == [taken |-> guard, bits |-> v]

(* Mutant: a product or a quotient may be subnormal, too.                  *)
finite_guard(op, a, b, r) == finite(r)

(* The results a shortcut of op may deliver: any finite sum, and a product *)
(* or a quotient that is normal or a zero that an operand forced.          *)
fp_result_guard(op, a, b, r) ==
  IF op \in {"add", "sub"} THEN finite(r)
  ELSE normal(r) \/ (is_zero(r) /\ (is_zero(a) \/ (op = "mul" /\ is_zero(b))))

guarded(op, a, b, r) == take(fp_result_guard(op, a, b, r), r)
guarded_operands(op, a, b, r) ==
  take(finite(a) /\ finite(b) /\ ~(op = "div" /\ is_zero(b)) /\ fp_result_guard(op, a, b, r), r)

fp_fast(op, a, b) == guarded_operands(op, a, b, hostop(op, a, b))
fp_arith_d(op, a, b) == guarded(op, a, b, hostop(op, a, b))
fp_arith_s(op, a, b) == guarded_operands(op, a, b, hostop(op, a, b))

(* FSQRT: the single form asks for a finite operand first.                 *)
guarded_root(asked, r) == take(asked /\ normal(r), r)
fp_sqrt(a, single) ==
  guarded_root(single => finite(a), host!RefSqrt(a, "RNE").bits)

(* FLE, FLT and FEQ.                                                       *)
fp_cmp(f3, a, b) ==
  take(finite(a) /\ finite(b),
       IF CASE f3 = "le" -> hless(a, b) \/ hequal(a, b)
            [] f3 = "lt" -> hless(a, b)
            [] f3 = "eq" -> hequal(a, b)
       THEN 1 ELSE 0)

softcmp(f3, a, b) ==
  CASE f3 = "le" -> le(a, b) [] f3 = "lt" -> lt(a, b) [] f3 = "eq" -> eq_quiet(a, b)

(* FSGNJ, FSGNJN, FSGNJX on the bits.                                      *)
sgnj(f3, a, b) ==
  CASE f3 = "sgnj" -> magnitude(a) + sign(b) * SIGN_MASK
    [] f3 = "sgnjn" -> magnitude(a) + (1 - sign(b)) * SIGN_MASK
    [] f3 = "sgnjx" -> magnitude(a) + xor(sign(a), sign(b)) * SIGN_MASK

(* FCVT.W truncating to isz bits; the double form compares with the float  *)
(* one below the least integer, the single form with the least integer.    *)
f_const(v, isz) == cvt_from_i(v % 2^(isz + 1), isz + 1, FALSE, "RNE").bits
at_least(a, v, single) == hless(v, a) \/ (single /\ hequal(v, a))
fp_cvt_w(a, isz, single) ==
  take(/\ single => finite(a)
       /\ at_least(a, f_const(-(2^(isz - 1)) - (IF single THEN 0 ELSE 1), isz), single)
       /\ hless(a, f_const(2^(isz - 1), isz)),
       host!RefToInt(a, isz, FALSE, "RTZ").bits)

(* FCVT from an integer: no guard beyond the gate.                         *)
fp_cvt_int(i, isz, unsigned) == take(TRUE, host!RefFromInt(i, isz, unsigned, "RNE").bits)

-----------------------------------------------------------------------------
(* FMADD without a fused host instruction (fma_fastpath_ref): the product  *)
(* as p + e by Dekker's split, p + c as s + t and t + e as u + d by        *)
(* TwoSum, and u made odd towards d before the last addition.              *)
in_band(a) == exp(a) \in BandLow .. BandHigh \/ is_zero(a)
CSPLIT == pack(0, EXP_MASK \div 2 + SplitBits, 2^(MANT_SIZE - SplitBits))

high_part(a, a1) == hsub(a1, hsub(a1, a))
high(a) == high_part(a, hmul(a, CSPLIT))

(* What x + y leaves of s, and what ah + al times bh + bl leaves of p.     *)
two_sum_rest(x, y, s, z) == hadd(hsub(x, hsub(s, z)), hsub(y, z))
two_sum_tail(x, y, s) == two_sum_rest(x, y, s, hsub(s, x))
dekker_rest(ah, al, bh, bl, p) ==
  hadd(hadd(hadd(hsub(hmul(ah, bh), p), hmul(ah, bl)), hmul(al, bh)), hmul(al, bl))
dekker_split(a, b, ah, bh, p) == dekker_rest(ah, hsub(a, ah), bh, hsub(b, bh), p)
product_tail(a, b, p) == dekker_split(a, b, high(a), high(b), p)

round_to_odd(u, d) ==
  IF is_zero(d) \/ u % 2 = 1 THEN u
  ELSE IF (sign(d) = 0) # (sign(u) = 1) THEN u + 1 ELSE u - 1

fma_guard(u, d, r) == take(~(~is_zero(d) /\ is_zero(u)) /\ (normal(r) \/ is_zero(r)), r)
fma_last(s, v) == IF is_zero(v) THEN s ELSE hadd(s, v)
fma_odd(s, u, d) == fma_guard(u, d, fma_last(s, round_to_odd(u, d)))
fma_tails(s, t, e, u) == fma_odd(s, u, two_sum_tail(t, e, u))
fma_sum(s, t, e) == fma_tails(s, t, e, hadd(t, e))
fma_split(p, e, c, s) == fma_sum(s, two_sum_tail(p, c, s), e)

fma_product(a, b, c, p) ==
  IF \A v \in {a, b, c, p} : in_band(v)
  THEN fma_split(p, product_tail(a, b, p), c, hadd(p, c))
  ELSE take(FALSE, 0)
fma_fastpath(a, b, c) == fma_product(a, b, c, hmul(a, b))

(* With a fused host instruction the guards stay and one rounding is left. *)
fma_relaxed(a, b, c) ==
  LET r == host!RefFma(a, b, c, "RNE").bits
  IN  take(in_band(a) /\ in_band(b) /\ in_band(c) /\ (normal(r) \/ is_zero(r)), r)
=============================================================================
