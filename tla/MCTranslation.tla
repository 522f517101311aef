---------------------------- MODULE MCTranslation ---------------------------
(* Compiled code at both its levels: a behaviour walks the operands of one *)
(* instruction (Arithmetic; singles and registers of 8 bits, doubles of    *)
(* 14) or runs the units of one window (JitTranslator).                    *)
EXTENDS MCJitTranslator

CONSTANTS
  SMant, SExp, DMant, DExp, DBandLow, DBandHigh, DSplitBits, XLEN,
  IntSizes, Exponents, Factors, Thirds
VARIABLES a, b

Insn == INSTANCE Arithmetic

ThirdsDef == <<-9, -4, 0, 3>>
FactorsDef == <<10, 15, 31, 32, 55>>

NoOperand == -1
NoWindow ==
  /\ prog = <<>> /\ cfg = Plain /\ over = Idle
  /\ cpu = [pc |-> 0, x |-> File(0, 0, 0, 0), mem |-> Memory0, nx |-> FALSE, rm |-> "RNE", fs |-> "off"]
  /\ ref = cpu

TranslationInit ==
  \/ Insn!Init /\ NoWindow
  \/ Init /\ a = NoOperand /\ b = NoOperand
NextOperand == a # NoOperand /\ Insn!Next /\ UNCHANGED vars
NextUnit == a = NoOperand /\ Next /\ UNCHANGED <<a, b>>
TranslationSpec == TranslationInit /\ [][NextOperand \/ NextUnit]_<<vars, a, b>>

(* SoftFloat, the shortcuts and the compiled integer instructions give the *)
(* right result and flags for every pair of operands (Arithmetic).         *)
FloatsExact == a # NoOperand => Insn!FloatsExact
ShortcutsAgree == a # NoOperand => Insn!ShortcutsAgree
IntegersAgree == a # NoOperand => Insn!IntegersAgree
=============================================================================
