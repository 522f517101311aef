----------------------------- MODULE FloatUnit ------------------------------
(***************************************************************************)
(* The F and D instructions on registers: a single is boxed in a register  *)
(* of the width of a double.  The interpreter's side is Cpu::op_fp.        *)
(***************************************************************************)
EXTENDS Integers, FiniteSets, Sequences

CONSTANTS
  SMant, SExp,        \* the single format
  DMant, DExp,        \* the double format
  DBandLow, DBandHigh, DSplitBits

sf32 == INSTANCE JitFloat WITH MANT_SIZE <- SMant, EXP_SIZE <- SExp,
          BandLow <- 0, BandHigh <- 0, SplitBits <- 1
sf64 == INSTANCE JitFloat WITH MANT_SIZE <- DMant, EXP_SIZE <- DExp,
          BandLow <- DBandLow, BandHigh <- DBandHigh, SplitBits <- DSplitBits
ref32 == INSTANCE Ieee754 WITH MantSize <- SMant, ExpSize <- SExp
ref64 == INSTANCE Ieee754 WITH MantSize <- DMant, ExpSize <- DExp

Modes == ref32!Modes

-----------------------------------------------------------------------------
(* Registers and the conversions between the two formats.                  *)
Boxes == 2^(sf64!F_SIZE - sf32!F_SIZE) - 1
ub32(r) == IF r \div 2^sf32!F_SIZE = Boxes THEN r % 2^sf32!F_SIZE ELSE sf32!QNAN
bx32(v) == Boxes * 2^sf32!F_SIZE + v

Rebias == sf64!EXP_MASK \div 2 - sf32!EXP_MASK \div 2

cvt_sf32_sf64(v) ==
  LET s == sf32!sign(v)
      m == sf32!nmant(v) % 2^SMant
  IN  CASE sf32!is_nan(v) -> sf64!nan(sf32!is_signan(v))
        [] sf32!is_inf(v) -> sf64!plain(sf64!pack(s, sf64!EXP_MASK, 0))
        [] sf32!is_zero(v) -> sf64!plain(sf64!pack(s, 0, 0))
        [] OTHER -> sf64!plain(sf64!pack(s, sf32!nexp(v) + Rebias, m * 2^(DMant - SMant)))

(* The narrowing has a copy of normalize and round_pack of its own, with   *)
(* the same text.                                                          *)
cvt_sf64_sf32(v, rm) ==
  LET s == sf64!sign(v)
      drop == DMant - (sf32!F_SIZE - 2)
      m == sf64!sticky(sf64!nmant(v) \div 2^drop, sf64!nmant(v) % 2^drop # 0)
  IN  CASE sf64!is_nan(v) -> sf32!nan(sf64!is_signan(v))
        [] sf64!is_inf(v) -> sf32!plain(sf32!pack(s, sf32!EXP_MASK, 0))
        [] sf64!is_zero(v) -> sf32!plain(sf32!pack(s, 0, 0))
        [] OTHER -> sf32!normalize(s, sf64!nexp(v) - Rebias, m, rm)

-----------------------------------------------------------------------------
(* What a compiled block asks before it runs: an instruction that rounds   *)
(* needs frm at RNE and NX already set; moves of bits need neither.        *)
fp_gate(round, frm, fflags) == round => "NX" \in fflags /\ frm = "RNE"

(* The rounding mode of an instruction, static RNE or dynamic.             *)
get_rm(dyn, frm) == IF dyn THEN frm ELSE "RNE"

boxed(r) == r \div 2^sf32!F_SIZE = Boxes
low(r) == r % 2^sf32!F_SIZE

(* The single instructions of compiled code: a register that does not hold *)
(* a box is the interpreter's, which reads a NaN.                          *)
store_boxed32(f) == sf32!take(f.taken, bx32(f.bits))
push_f32(r1, r2, f) == sf32!take(f.taken /\ boxed(r1) /\ boxed(r2), f.bits)

arith_s(op, r1, r2) == store_boxed32(push_f32(r1, r2, sf32!fp_arith_s(op, low(r1), low(r2))))
cmp_s(f3, r1, r2) == push_f32(r1, r2, sf32!fp_cmp(f3, low(r1), low(r2)))

(* FSGNJ.S asks for the box of its first operand only.                     *)
fp_sgnj_s(f3, r1, r2) == sf32!take(boxed(r1), bx32(sf32!sgnj(f3, low(r1), low(r2))))

fp_cvt_s_d(v) ==
  LET r == IF sf64!is_zero(v) \/ ~sf64!finite(v) THEN 0
           ELSE ref32!Round(sf64!sign(v), ref64!Significand(v), 1, ref64!Scale(v), "RNE").bits
  IN  sf32!take(sf64!finite(v) /\ sf32!normal(r), r)
fp_cvt_d_s(r) ==
  sf64!take(sf32!finite(low(r)) /\ boxed(r), cvt_sf32_sf64(low(r)).bits)
=============================================================================
