----------------------------- MODULE Arithmetic -----------------------------
(***************************************************************************)
(* The instructions' arithmetic on all pairs of operands: softfp against   *)
(* IEEE 754, and the interpreter's and the compiled code's shortcuts       *)
(* against it.  The state walks the operands.                              *)
(***************************************************************************)
EXTENDS FloatUnit, IntegerUnit

CONSTANTS
  IntSizes,           \* widths of the integers converted
  Exponents,          \* of the singles
  Factors,            \* exponents of fma's factors, the ends of its band among them
  Thirds              \* exponents, around the bias, of fma's addend

VARIABLES a, b        \* two singles or two integers; as a pair, also a double

vars == <<a, b>>

Operands == {v \in ref32!Bits : sf32!exp(v) \in Exponents}

Init == a \in Operands /\ b = 0
Next == b = 0 /\ b' \in Operands /\ UNCHANGED a
Spec == Init /\ [][Next]_vars

-----------------------------------------------------------------------------
(* The double the pair of operands stands for, and a double in fma's band. *)
Double == a * 2^(sf64!F_SIZE - sf32!F_SIZE) + (b % 2^(sf64!F_SIZE - sf32!F_SIZE))
InBand(v) == sf64!pack(sf32!sign(v), Factors[(v % Len(Factors)) + 1], (37 * v) % 2^DMant)
Addends == {sf64!pack(s, sf64!EXP_MASK \div 2 + Thirds[((a + b) % Len(Thirds)) + 1], m) :
              s \in {0, 1}, m \in {<<0, 1, 2^DMant - 1>>[((a + 2 * b) % 3) + 1]}} \cup {0}
Registers(v) == {bx32(v), v}
FewSingles == {v \in ref32!Bits : /\ sf32!exp(v) \in {0, 15, 2^SExp - 1} /\ sf32!mant(v) # 2
                                   /\ sf32!sign(v) = (a + b) % 2}

(* What cvt_sf64_sf32 should give.                                         *)
Narrowed(rm) ==
  IF ref64!IsNaN(Double) THEN [bits |-> ref32!CanonicalNaN,
                               flags |-> IF ref64!IsSignalling(Double) THEN {"NV"} ELSE {}]
  ELSE IF ref64!IsInf(Double) THEN ref32!Plain(ref32!Inf(ref64!Sign(Double)))
  ELSE IF ref64!IsZero(Double) THEN ref32!Plain(ref32!Encode(ref64!Sign(Double), 0, 0))
  ELSE ref32!Round(ref64!Sign(Double), ref64!Significand(Double), 1, ref64!Scale(Double), rm)

OrderKept ==
  LET numbers == ~ref32!IsNaN(a) /\ ~ref32!IsNaN(b)
      less == numbers /\ ref32!RefLess(a, b)
      more == numbers /\ ref32!RefLess(b, a)
      signalling == ref32!IsSignalling(a) \/ ref32!IsSignalling(b)
      answer(p, nv) == [bits |-> IF p THEN 1 ELSE 0, flags |-> IF nv THEN {"NV"} ELSE {}]
  IN  /\ sf32!lt(a, b) = answer(less, ~numbers)
      /\ sf32!le(a, b) = answer(numbers /\ ~more, ~numbers)
      /\ sf32!eq_quiet(a, b) = answer(numbers /\ ~less /\ ~more, signalling)
      /\ less => sf32!min(a, b).bits = a /\ sf32!max(a, b).bits = b
      /\ more => sf32!min(a, b).bits = b /\ sf32!max(a, b).bits = a
      /\ ~numbers => /\ sf32!min(a, b) = sf32!max(a, b)
                     /\ sf32!min(a, b).flags = IF signalling THEN {"NV"} ELSE {}
                     /\ ref32!IsNaN(sf32!min(a, b).bits) <=> ref32!IsNaN(a) /\ ref32!IsNaN(b)
      /\ numbers /\ sf32!fclass(a) < sf32!fclass(b) /\ ~(ref32!IsZero(a) /\ ref32!IsZero(b))
           => less

ArithmeticExact ==
  \A rm \in Modes :
    /\ sf32!add(a, b, rm) = ref32!RefAdd(a, b, rm)
    /\ sf32!mul(a, b, rm) = ref32!RefMul(a, b, rm)
    /\ sf32!div(a, b, rm) = ref32!RefDiv(a, b, rm)
    /\ b = 0 => sf32!sqrt(a, rm) = ref32!RefSqrt(a, rm)
    /\ \A c \in FewSingles : sf32!fma(a, b, c, rm) = ref32!RefFma(a, b, c, rm)

ConversionsExact ==
  /\ \A rm \in Modes, isz \in IntSizes, unsigned \in BOOLEAN :
       /\ b = 0 => sf32!cvt_to_i(a, isz, unsigned, rm) = ref32!RefToInt(a, isz, unsigned, rm)
       /\ b = 0 => sf32!cvt_from_i(a, 8, unsigned, rm) = ref32!RefFromInt(a, 8, unsigned, rm)
       /\ sf32!cvt_from_i((257 * a + b) % 2^isz, isz, unsigned, rm)
            = ref32!RefFromInt((257 * a + b) % 2^isz, isz, unsigned, rm)
  /\ \A rm \in Modes : cvt_sf64_sf32(Double, rm) = Narrowed(rm)
  /\ cvt_sf64_sf32(cvt_sf32_sf64(a).bits, "RNE").bits = IF sf32!is_nan(a) THEN sf32!QNAN ELSE a
  /\ cvt_sf32_sf64(a).flags = IF sf32!is_signan(a) THEN {"NV"} ELSE {}
  /\ OrderKept

(* softfp.rs computes what IEEE 754 says, result and flags, in every mode: *)
(* the operations and the conversions round once, conversions to integers  *)
(* saturate, and min, max, comparisons and fclass follow the numbers.      *)
FloatsExact == ArithmeticExact /\ ConversionsExact

-----------------------------------------------------------------------------
Same(f, r, least) ==
  f.taken => /\ f.bits = r.bits
             /\ r.flags \subseteq {"NX"} \/ (r.flags = {"UF", "NX"} /\ least)

FastPathAgrees ==
  \A op \in sf32!Ops : \A r \in {sf32!softop(op, a, b, "RNE")} :
    LET least == op \in {"mul", "div"} /\ sf32!magnitude(r.bits) = 2^SMant
    IN  Same(sf32!fp_fast(op, a, b), r, least) /\ Same(sf32!fp_arith_d(op, a, b), r, least)

(* The instructions that round, in a block whose gate let them run.        *)
RoundingAgrees(rm, fflags) ==
  LET agrees(f, r, least) ==
        f.taken => /\ f.bits = r.bits
                   /\ r.flags \subseteq fflags \/ (least /\ r.flags = {"UF", "NX"})
      box(r) == [r EXCEPT !.bits = bx32(@)]
      tiny(v) == sf32!magnitude(v) = 2^SMant
      underflown(z, r) ==
        sf64!is_zero(z) /\ (sf64!is_zero(r.bits) \/ sf64!magnitude(r.bits) = 2^DMant)
      narrow == cvt_sf64_sf32(Double, rm)
      x == InBand(a)
      y == InBand(b)
  IN  /\ \A r1 \in Registers(a), r2 \in Registers(b) :
           /\ \A op \in sf32!Ops : \A r \in {sf32!softop(op, ub32(r1), ub32(r2), rm)} :
                agrees(arith_s(op, r1, r2), box(r), op \in {"mul", "div"} /\ tiny(r.bits))
           /\ \A f3 \in {"le", "lt", "eq"} :
                agrees(cmp_s(f3, r1, r2), sf32!softcmp(f3, ub32(r1), ub32(r2)), FALSE)
      /\ b = 0 => /\ agrees(sf32!fp_sqrt(a, TRUE), sf32!sqrt(a, rm), FALSE)
                  /\ agrees(sf32!fp_sqrt(a, FALSE), sf32!sqrt(a, rm), FALSE)
                  /\ \A isz \in IntSizes, unsigned \in BOOLEAN :
                       agrees(sf32!fp_cvt_int(a % 2^isz, isz, unsigned),
                              sf32!cvt_from_i(a % 2^isz, isz, unsigned, rm), FALSE)
                  /\ agrees(sf32!fp_cvt_w(a, 5, TRUE), sf32!cvt_to_i(a, 5, FALSE, "RTZ"), FALSE)
      /\ agrees(sf64!fp_cvt_w(Double, 5, FALSE), sf64!cvt_to_i(Double, 5, FALSE, "RTZ"), FALSE)
      /\ agrees(fp_cvt_s_d(Double), narrow, tiny(narrow.bits))
      /\ agrees(fp_cvt_d_s(bx32(a)), cvt_sf32_sf64(ub32(bx32(a))), FALSE)
      /\ \A z \in Addends : \A r \in {sf64!fma(x, y, z, rm)} :
           /\ underflown(z, r) \/ agrees(sf64!fma_fastpath(x, y, z), r, FALSE)
           /\ agrees(sf64!fma_relaxed(x, y, z), r, underflown(z, r))

SignsAgree ==
  \A r1 \in Registers(a), r2 \in Registers(b), f3 \in {"sgnj", "sgnjn", "sgnjx"} :
    LET f == fp_sgnj_s(f3, r1, r2)
    IN  f.taken /\ boxed(r2) => f.bits = bx32(sf32!sgnj(f3, ub32(r1), ub32(r2)))

CompiledAgrees ==
  \A frm \in Modes, fflags \in {{}, {"NX"}} :
    /\ fp_gate(TRUE, frm, fflags) =>
         \A rm \in {get_rm(dyn, frm) : dyn \in BOOLEAN} : RoundingAgrees(rm, fflags)
    /\ fp_gate(FALSE, frm, fflags) => SignsAgree

(* A fast path of the interpreter, and an instruction of a compiled block, *)
(* for boxed and unboxed operands and whatever frm and NX are when the     *)
(* block is entered, leave the register and the fcsr that softfp would.    *)
(* Four cases are excepted, where the code differs.  UF is lost by a       *)
(* product or a quotient that rounds up to the least normal number, which  *)
(* cpu.rs:1515 takes for a normal result, by an FCVT.S.D that does the     *)
(* same (rv64-jit lib.rs:897), and by an FMADD with a zero addend whose    *)
(* product rounds to zero or to the least normal number: without a fused   *)
(* host instruction the zero has lost its sign, too.  lib.rs:1370 and 1419 *)
(* say that operands in the band cannot underflow.  And an unboxed second  *)
(* operand gives FSGNJ.S its sign (fp_sgnj_s).                             *)
ShortcutsAgree == FastPathAgrees /\ CompiledAgrees

(* Compiled integer instructions and atomics never trap the host and give  *)
(* what the interpreter gives, and no encoding is compiled that the        *)
(* interpreter would refuse (emit_simple, alu_handled).                    *)
IntegersAgree ==
  /\ \A op \in {19, 27, 51, 59}, f7 \in {0, 1, 2, 32, 33}, f3 \in 0 .. 7 :
       alu_handled(op, f7, f3) => emit_simple(op, f7, f3, a, b) = execute(op, f7, f3, a, b)
  /\ \A f5 \in Amos, is64 \in BOOLEAN :
       LET old == IF is64 THEN a ELSE sext(a)
       IN  emit_amo(f5, is64, old, b) = interpret_amo(f5, is64, old, b)
=============================================================================
