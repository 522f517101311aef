------------------------------ MODULE GuestCode -----------------------------
(***************************************************************************)
(* Guest code as the translator of rv64-jit sees it: a window of           *)
(* instructions, and what the interpreter (rv64-core/src/cpu.rs) does with *)
(* one of them.  An instruction is [op, d, s, t, k]: a destination, two    *)
(* sources and an immediate, an address offset or a target.  What an       *)
(* operation computes is IntegerUnit's and FloatUnit's subject; here one   *)
(* operation stands for each way to read and write registers, memory, the  *)
(* pc and the floating point state.                                        *)
(***************************************************************************)
EXTENDS Integers, Sequences, FiniteSets

CONSTANTS
  Word,     \* values, addresses and pcs are 0 .. Word - 1
  Gprs      \* x1 .. xGprs; 1 is the link register, 2 the stack pointer

RA == 1
SP == 2
F == Gprs + 1               \* the one floating point register
Regs == 0 .. F

Branches == {"beq", "bne", "bltu"}
FpOps == {"fld", "fmv", "fadd"}
Simple == {"lui", "add", "addi", "load", "lhu", "store", "amo"} \cup FpOps

Ins(op, d, s, t, k) == [op |-> op, d |-> d, s |-> s, t |-> t, k |-> k]

In(p, pc) == pc \in 1 .. Len(p)
Taken(i, a, b) ==
  CASE i.op = "beq" -> a = b [] i.op = "bne" -> a # b [] i.op = "bltu" -> a < b

(* What an FP operation gives: fadd rounds, so that its result depends on  *)
(* the rounding mode, and it is inexact.                                   *)
FpResult(i, c, f, a, at) ==
  CASE i.op = "fld" -> c.mem[at]
    [] i.op = "fmv" -> a
    [] i.op = "fadd" -> (f + (IF c.rm = "RNE" THEN 1 ELSE 2)) % Word

(* One instruction.  FP and its csr with FS off trap out of the window,    *)
(* else they leave FS dirty; csr clears the flags and sets the mode.       *)
Step(p, c) ==
  LET i == p[c.pc]
      a == c.x[i.s]
      b == c.x[i.t]
      at == (a + i.k) % Word
      write(r, v, pc) == [c EXCEPT !.x = IF r = 0 THEN c.x ELSE [c.x EXCEPT ![r] = v], !.pc = pc]
      next(r, v) == write(r, v, c.pc + 1)
  IN  CASE i.op = "lui" -> next(i.d, i.k)
        [] i.op = "add" -> next(i.d, (a + b) % Word)
        [] i.op = "addi" -> next(i.d, at)
        [] i.op = "load" -> next(i.d, c.mem[at])
        [] i.op = "lhu" -> next(i.d, c.mem[at] % 4)
        [] i.op = "store" -> [c EXCEPT !.mem[at] = b, !.pc = @ + 1]
        [] i.op = "amo" -> [next(i.d, c.mem[a]) EXCEPT !.mem[a] = b]
        [] i.op \in Branches -> write(0, 0, IF Taken(i, a, b) THEN i.k ELSE c.pc + 1)
        [] i.op = "jal" -> write(i.d, c.pc + 1, i.k)
        [] i.op = "jalr" -> write(i.d, c.pc + 1, a)
        [] i.op \in FpOps \cup {"csr"} /\ c.fs = "off" -> [c EXCEPT !.pc = 0]
        [] i.op \in FpOps /\ c.fs # "off" ->
             [next(F, FpResult(i, c, c.x[F], a, at))
                EXCEPT !.fs = "dirty", !.nx = c.nx \/ i.op = "fadd"]
        [] i.op = "csr" /\ c.fs # "off" ->
             [c EXCEPT !.nx = FALSE, !.rm = i.k, !.fs = "dirty", !.pc = @ + 1]

(* n instructions, or fewer when the pc leaves the window.                 *)
RECURSIVE Steps(_, _, _)
Steps(p, c, n) == IF n = 0 \/ ~In(p, c.pc) THEN c ELSE Steps(p, Step(p, c), n - 1)
=============================================================================
