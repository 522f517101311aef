---------------------------- MODULE IntegerUnit -----------------------------
(***************************************************************************)
(* Integer instructions twice: as Cpu::execute_decoded computes them       *)
(* (rv64-core/src/cpu.rs) and as the WebAssembly that emit_simple makes of *)
(* them (rv64-jit/src/lib.rs), for registers of XLEN bits with words of    *)
(* half that.  An encoding is <<opcode, funct7, funct3>> and b the second  *)
(* register or the immediate.                                              *)
(***************************************************************************)
EXTENDS Integers, Bitwise

CONSTANT XLEN         \* 64 in the code: a power of two, its half again one

WLEN == XLEN \div 2
wrap(v) == v % 2^XLEN
signed(v, n) == IF v % 2^n >= 2^(n - 1) THEN (v % 2^n) - 2^n ELSE v % 2^n
sext(v) == wrap(signed(v, WLEN))        \* as i32 as i64
zext(v) == v % 2^WLEN
MIN(n) == -(2^(n - 1))
truth(p) == IF p THEN 1 ELSE 0

(* Division towards zero, and the remainder with the dividend's sign.      *)
abs(v) == IF v < 0 THEN -v ELSE v
quotient(x, y) == IF (x < 0) = (y < 0) THEN abs(x) \div abs(y) ELSE -(abs(x) \div abs(y))
remainder(x, y) == x - y * quotient(x, y)

bitop(f3, x, y) == CASE f3 = 4 -> x ^^ y [] f3 = 6 -> x | y [] f3 = 7 -> x & y

-----------------------------------------------------------------------------
(* The interpreter.                                                        *)
Illegal == -1

op_imm(f7, f3, x, imm) ==
  LET k == imm % XLEN IN
  CASE f3 = 0 -> wrap(x + imm)
    [] f3 = 1 -> wrap(x * 2^k)
    [] f3 = 2 -> truth(signed(x, XLEN) < signed(imm, XLEN))
    [] f3 = 3 -> truth(x < imm)
    [] f3 = 5 -> IF f7 \in {32, 33} THEN wrap(signed(x, XLEN) \div 2^k) ELSE x \div 2^k
    [] OTHER -> bitop(f3, x, imm)

op_imm_32(f7, f3, x, imm) ==
  LET k == imm % WLEN
      w == zext(x)
  IN  CASE f3 = 0 -> sext(w + imm)
        [] f3 = 1 -> sext(w * 2^k)
        [] f3 = 5 -> IF f7 = 32 THEN sext(signed(w, WLEN) \div 2^k) ELSE sext(w \div 2^k)
        [] OTHER -> Illegal

(* DIV, DIVU, REM, REMU of n bits.                                         *)
muldiv(f3, x, y, n) ==
  CASE f3 = 4 -> IF y = 0 THEN -1 ELSE quotient(signed(x, n), signed(y, n))
    [] f3 = 5 -> IF y = 0 THEN -1 ELSE x \div y
    [] f3 = 6 -> IF y = 0 THEN x ELSE remainder(signed(x, n), signed(y, n))
    [] f3 = 7 -> IF y = 0 THEN x ELSE x % y

op_reg(f7, f3, x, y) ==
  LET k == y % XLEN
      sx == signed(x, XLEN)
      sy == signed(y, XLEN)
  IN  CASE f7 = 0 /\ f3 = 0 -> wrap(x + y)
        [] f7 = 32 /\ f3 = 0 -> wrap(x - y)
        [] f7 = 0 /\ f3 = 1 -> wrap(x * 2^k)
        [] f7 = 0 /\ f3 = 2 -> truth(sx < sy)
        [] f7 = 0 /\ f3 = 3 -> truth(x < y)
        [] f7 = 0 /\ f3 = 5 -> x \div 2^k
        [] f7 = 32 /\ f3 = 5 -> wrap(sx \div 2^k)
        [] f7 = 0 /\ f3 \in {4, 6, 7} -> bitop(f3, x, y)
        [] f7 = 1 /\ f3 = 0 -> wrap(x * y)
        [] f7 = 1 /\ f3 = 1 -> wrap((sx * sy) \div 2^XLEN)
        [] f7 = 1 /\ f3 = 2 -> wrap((sx * y) \div 2^XLEN)
        [] f7 = 1 /\ f3 = 3 -> (x * y) \div 2^XLEN
        [] f7 = 1 /\ f3 \in 4 .. 7 -> wrap(muldiv(f3, x, y, XLEN))
        [] OTHER -> Illegal

op_reg_32(f7, f3, x, y) ==
  LET w == zext(x)
      v == zext(y)
      k == y % WLEN
  IN  CASE f7 = 0 /\ f3 = 0 -> sext(w + v)
        [] f7 = 32 /\ f3 = 0 -> sext(w - v)
        [] f7 = 0 /\ f3 = 1 -> sext(w * 2^k)
        [] f7 = 0 /\ f3 = 5 -> sext(w \div 2^k)
        [] f7 = 32 /\ f3 = 5 -> sext(signed(w, WLEN) \div 2^k)
        [] f7 = 1 /\ f3 = 0 -> sext(w * v)
        [] f7 = 1 /\ f3 \in 4 .. 7 -> sext(muldiv(f3, w, v, WLEN))
        [] OTHER -> Illegal

execute(op, f7, f3, x, y) ==
  CASE op = 19 -> op_imm(f7, f3, x, y)
    [] op = 27 -> op_imm_32(f7, f3, x, y)
    [] op = 51 -> op_reg(f7, f3, x, y)
    [] op = 59 -> op_reg_32(f7, f3, x, y)

-----------------------------------------------------------------------------
(* Compiled code.  div and rem of the host trap on a zero divisor, and div *)
(* on the one quotient that does not fit.                                  *)
Trap == -2
select(v1, v2, p) == IF p THEN v1 ELSE v2
i64_div_s(x, y) ==
  IF y = 0 \/ (signed(x, XLEN) = MIN(XLEN) /\ signed(y, XLEN) = -1) THEN Trap
  ELSE wrap(quotient(signed(x, XLEN), signed(y, XLEN)))
i64_div_u(x, y) == IF y = 0 THEN Trap ELSE x \div y
i64_rem_s(x, y) == IF y = 0 THEN Trap ELSE wrap(remainder(signed(x, XLEN), signed(y, XLEN)))
i64_rem_u(x, y) == IF y = 0 THEN Trap ELSE x % y
i64_shl(x, k) == wrap(x * 2^(k % XLEN))
i64_shr_u(x, k) == x \div 2^(k % XLEN)
i64_shr_s(x, k) == wrap(signed(x, XLEN) \div 2^(k % XLEN))

alu_handled(op, f7, f3) ==
  CASE op = 19 -> CASE f3 = 1 -> f7 \in {0, 1} [] f3 = 5 -> f7 \in {0, 1, 32, 33} [] OTHER -> TRUE
    [] op = 51 -> f7 = 0 \/ (f7 = 32 /\ f3 \in {0, 5}) \/ f7 = 1
    [] op = 27 -> f3 = 0 \/ (f3 = 1 /\ f7 = 0) \/ (f3 = 5 /\ f7 \in {0, 32})
    [] op = 59 -> \/ f7 = 0 /\ f3 \in {0, 1, 5}
                  \/ f7 = 32 /\ f3 \in {0, 5}
                  \/ f7 = 1 /\ f3 \in {0, 4, 5, 6, 7}

(* The high half of a product from limbs of half the width, corrected for  *)
(* the signs that f3 asks for.                                             *)
push_mul_high(f3, x, y) ==
  LET a_lo == zext(x)
      b_lo == zext(y)
      mid1 == wrap(wrap(a_lo * b_lo) \div 2^WLEN + wrap((x \div 2^WLEN) * b_lo))
      carry == mid1 \div 2^WLEN
      mid2 == wrap(zext(mid1) + wrap(a_lo * (y \div 2^WLEN)))
      unsigned == wrap(wrap((x \div 2^WLEN) * (y \div 2^WLEN)) + carry + mid2 \div 2^WLEN)
      negative(v) == signed(v, XLEN) < 0
  IN  wrap(unsigned - (IF f3 \in {1, 2} /\ negative(x) THEN y ELSE 0)
                    - (IF f3 = 1 /\ negative(y) THEN x ELSE 0))

(* Mutant: only a zero divisor is made safe.                               *)
emit_div_s_zero(x, y, n) == select(i64_div_s(x, select(1, y, y = 0)), wrap(-1), y # 0)

(* Division by a divisor made safe first, the architected result selected  *)
(* after.  s and n are the operands as the width in question reads them.   *)
emit_div_s(x, y, n) ==
  LET over == signed(x, XLEN) = MIN(n) /\ signed(y, XLEN) = -1
      q == i64_div_s(x, select(1, y, y = 0 \/ over))
  IN  select(select(q, wrap(MIN(n)), ~over), wrap(-1), y # 0)
emit_div_u(x, y) == select(i64_div_u(x, select(1, y, y = 0)), wrap(-1), y # 0)
emit_rem_s(x, y) == select(i64_rem_s(x, select(1, y, y = 0)), x, y # 0)
emit_rem_u(x, y) == select(i64_rem_u(x, select(1, y, y = 0)), x, y # 0)

emit_imm(f7, f3, x, imm) ==
  CASE f3 = 0 -> wrap(x + imm)
    [] f3 = 1 -> i64_shl(x, imm % XLEN)
    [] f3 = 2 -> truth(signed(x, XLEN) < signed(imm, XLEN))
    [] f3 = 3 -> truth(x < imm)
    [] f3 = 5 -> IF f7 \in {32, 33} THEN i64_shr_s(x, imm % XLEN) ELSE i64_shr_u(x, imm % XLEN)
    [] OTHER -> bitop(f3, x, imm)

emit_imm_32(f7, f3, x, imm) ==
  sext(CASE f3 = 0 -> wrap(x + imm)
         [] f3 = 1 -> i64_shl(x, imm % WLEN)
         [] f3 = 5 -> IF f7 = 32 THEN i64_shr_s(sext(zext(x)), imm % WLEN)
                                 ELSE i64_shr_u(zext(x), imm % WLEN))

emit_reg(f7, f3, x, y) ==
  CASE f7 = 0 /\ f3 = 0 -> wrap(x + y)
    [] f7 = 32 /\ f3 = 0 -> wrap(x - y)
    [] f7 = 0 /\ f3 = 1 -> i64_shl(x, y % XLEN)
    [] f7 = 0 /\ f3 = 2 -> truth(signed(x, XLEN) < signed(y, XLEN))
    [] f7 = 0 /\ f3 = 3 -> truth(x < y)
    [] f7 = 0 /\ f3 = 5 -> i64_shr_u(x, y % XLEN)
    [] f7 = 32 /\ f3 = 5 -> i64_shr_s(x, y % XLEN)
    [] f7 = 0 /\ f3 \in {4, 6, 7} -> bitop(f3, x, y)
    [] f7 = 1 /\ f3 = 0 -> wrap(x * y)
    [] f7 = 1 /\ f3 \in 1 .. 3 -> push_mul_high(f3, x, y)
    [] f7 = 1 /\ f3 = 4 -> emit_div_s(x, y, XLEN)
    [] f7 = 1 /\ f3 = 5 -> emit_div_u(x, y)
    [] f7 = 1 /\ f3 = 6 -> emit_rem_s(x, y)
    [] f7 = 1 /\ f3 = 7 -> emit_rem_u(x, y)

emit_reg_32(f7, f3, x, y) ==
  sext(CASE f7 = 0 /\ f3 = 0 -> wrap(x + y)
         [] f7 = 32 /\ f3 = 0 -> wrap(x - y)
         [] f7 = 1 /\ f3 = 0 -> wrap(x * y)
         [] f7 = 0 /\ f3 = 1 -> i64_shl(x, y % WLEN)
         [] f7 = 0 /\ f3 = 5 -> i64_shr_u(zext(x), y % WLEN)
         [] f7 = 32 /\ f3 = 5 -> i64_shr_s(sext(x), y % WLEN)
         [] f7 = 1 /\ f3 = 4 -> emit_div_s(sext(x), sext(y), WLEN)
         [] f7 = 1 /\ f3 = 5 -> emit_div_u(zext(x), zext(y))
         [] f7 = 1 /\ f3 = 6 -> emit_rem_s(sext(x), sext(y))
         [] f7 = 1 /\ f3 = 7 -> emit_rem_u(zext(x), zext(y)))

emit_simple(op, f7, f3, x, y) ==
  CASE op = 19 -> emit_imm(f7, f3, x, y)
    [] op = 27 -> emit_imm_32(f7, f3, x, y)
    [] op = 51 -> emit_reg(f7, f3, x, y)
    [] op = 59 -> emit_reg_32(f7, f3, x, y)

-----------------------------------------------------------------------------
(* Atomic memory operations on one hart: the new memory word and rd.       *)
AMO_MIN == 16
AMO_MAX == 20
AMO_MINU == 24
AMO_MAXU == 28
Amos == {0, 1, 4, 8, 12, AMO_MIN, AMO_MAX, AMO_MINU, AMO_MAXU}

amo_plain(f5, old, src) ==
  CASE f5 = 0 -> wrap(old + src) [] f5 = 1 -> src [] f5 = 4 -> old ^^ src
    [] f5 = 8 -> old | src [] f5 = 12 -> old & src

interpret_amo(f5, is64, old, src) ==
  LET n == IF is64 THEN XLEN ELSE WLEN
      co == old % 2^n
      cs == src % 2^n
      signed_lt == signed(co, n) < signed(cs, n)
      new == CASE f5 = AMO_MIN -> IF signed_lt THEN old ELSE src
               [] f5 = AMO_MAX -> IF ~signed_lt /\ co # cs THEN old ELSE src
               [] f5 = AMO_MINU -> IF co < cs THEN old ELSE src
               [] f5 = AMO_MAXU -> IF co > cs THEN old ELSE src
               [] OTHER -> amo_plain(f5, old, src)
  IN  [memory |-> new % 2^n, rd |-> old]

emit_amo(f5, is64, old, src) ==
  LET n == IF is64 THEN XLEN ELSE WLEN
      unsigned == f5 \in {AMO_MINU, AMO_MAXU}
      narrow(v) == IF is64 THEN v ELSE IF unsigned THEN zext(v) ELSE sext(v)
      x == IF is64 \/ ~unsigned THEN old ELSE zext(old)
      y == narrow(src)
      less == IF unsigned THEN x < y ELSE signed(x, XLEN) < signed(y, XLEN)
      more == IF unsigned THEN x > y ELSE signed(x, XLEN) > signed(y, XLEN)
      new == CASE f5 \in {AMO_MIN, AMO_MINU} -> select(old, src, less)
               [] f5 \in {AMO_MAX, AMO_MAXU} -> select(old, src, more)
               [] OTHER -> amo_plain(f5, old, src)
  IN  [memory |-> new % 2^n, rd |-> old]
=============================================================================
