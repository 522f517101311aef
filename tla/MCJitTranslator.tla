--------------------------- MODULE MCJitTranslator --------------------------
(* Windows with each shape the translator treats specially.  Registers: x1 *)
(* the link, x2 the stack pointer, x3 .. x6 the program's.                 *)
EXTENDS JitTranslator

Never == [pc \in 0 .. Word - 1 |-> 0]
Plain ==
  [detect |-> TRUE, level |-> 3, follow |-> TRUE, edges |-> FALSE, stop |-> FALSE, hot |-> {},
   link |-> {}, next |-> Never, rotated |-> TRUE, multi_latch |-> FALSE, super |-> FALSE,
   in_memory |-> FALSE]
Traces == {[Plain EXCEPT !.level = n, !.follow = n > 0] : n \in 0 .. 3}
Supers == {[Plain EXCEPT !.super = TRUE, !.in_memory = b] : b \in BOOLEAN}

Fcsr(fs, nx, rm) == [fs |-> fs, nx |-> nx, rm |-> rm]
AnyFp == {Fcsr("off", TRUE, "RNE"), Fcsr("clean", TRUE, "RNE"), Fcsr("dirty", FALSE, "RNE"),
          Fcsr("dirty", TRUE, "RTZ"), Fcsr("dirty", TRUE, "RNE")}
NoFp == {Fcsr("off", FALSE, "RNE")}

File(a, b, c, d) == [r \in Regs |-> <<0, 9, 12, a, b, c, d, 5>>[r + 1]]

(* A call with a frame whose callee may overwrite the saved link.          *)
CallCode == <<
  Ins("addi", 2, 2, 0, -2), Ins("store", 0, 2, 1, 0), Ins("jal", 1, 0, 0, 7),
  Ins("load", 1, 2, 0, 0), Ins("addi", 2, 2, 0, 2), Ins("jalr", 0, 1, 0, 0),
  Ins("add", 3, 3, 4, 0), Ins("bne", 0, 3, 4, 10), Ins("store", 0, 5, 6, 0),
  Ins("jalr", 0, 1, 0, 0)>>
Call == [code |-> CallCode, fp |-> NoFp, cfgs |-> Traces \cup Supers,
         x |-> {File(0, 4, 10, 8), File(1, 4, 10, 8), File(0, 4, 3, 8)}]

(* An indirect jump through the inline cache, an atomic, a hot branch and  *)
(* an entry to link to.                                                    *)
CacheCode == <<
  Ins("amo", 3, 4, 5, 0), Ins("jalr", 1, 6, 0, 0), Ins("jal", 0, 0, 0, 8),
  Ins("addi", 3, 3, 0, 1), Ins("beq", 0, 3, 5, 7), Ins("lui", 5, 0, 0, 9),
  Ins("jal", 1, 0, 0, 1), Ins("lui", 6, 0, 0, 6), Ins("jalr", 3, 1, 0, 0)>>
Cache == [code |-> CacheCode, fp |-> NoFp,
          cfgs |-> {[Plain EXCEPT !.next = [Never EXCEPT ![1] = 4, ![4] = n], !.hot = h,
                                  !.link = {4, 8}, !.stop = n = 0, !.edges = h = {}] :
                      n \in {0, 4, 8}, h \in {{}, {7}}} \cup Supers,
          x |-> {File(1, 4, 14, 4), File(1, 6, 4, 8)}]

(* FP before and after the flags are cleared.                              *)
FpCode == <<
  Ins("fmv", 0, 3, 0, 0), Ins("fadd", 0, 0, 0, 0), Ins("addi", 3, 3, 0, 1), Ins("csr", 0, 0, 0, "RNE"),
  Ins("fld", 0, 4, 0, 0), Ins("fadd", 0, 0, 0, 0), Ins("beq", 0, 3, 5, 1), Ins("fmv", 0, 5, 0, 0)>>
Fp == [code |-> FpCode, fp |-> AnyFp, cfgs |-> Traces \cup Supers, x |-> {File(14, 4, 15, 0), File(3, 6, 5, 0)}]

(* Loops: nested with a break, an if and an exit; FP in a loop; one that   *)
(* continues from several places; one entered after its header.            *)
NestCode == <<
  Ins("lui", 4, 0, 0, 2), Ins("addi", 3, 3, 0, 1), Ins("load", 6, 3, 0, 0), Ins("beq", 0, 6, 0, 9),
  Ins("bltu", 0, 6, 5, 7), Ins("add", 5, 5, 6, 0), Ins("addi", 5, 5, 0, -1), Ins("bne", 0, 5, 0, 3),
  Ins("beq", 0, 3, 6, 12), Ins("addi", 4, 4, 0, -1), Ins("bne", 0, 4, 0, 2), Ins("store", 0, 3, 5, 1)>>
Nest == [code |-> NestCode, fp |-> NoFp, cfgs |-> {Plain, [Plain EXCEPT !.detect = FALSE, !.level = 1]} \cup Supers,
         x |-> {File(0, 0, 2, 0), File(4, 0, 3, 0)}]

FpLoopCode == <<
  Ins("fld", 0, 3, 0, 0), Ins("bltu", 0, 3, 4, 4), Ins("fadd", 0, 0, 0, 0), Ins("addi", 3, 3, 0, 1),
  Ins("bne", 0, 3, 5, 1)>>
FpLoop == [code |-> FpLoopCode, fp |-> AnyFp, cfgs |-> {Plain} \cup Supers, x |-> {File(0, 2, 6, 0)}]

LatchCode == <<
  Ins("load", 3, 4, 0, 0), Ins("addi", 4, 4, 0, 1), Ins("beq", 0, 3, 5, 1), Ins("lhu", 5, 4, 0, 0),
  Ins("bne", 0, 5, 3, 1), Ins("bltu", 0, 6, 4, 8), Ins("jal", 0, 0, 0, 1), Ins("addi", 6, 6, 0, 1)>>
Latch == [code |-> LatchCode, fp |-> NoFp, cfgs |-> {[Plain EXCEPT !.multi_latch = b] : b \in BOOLEAN},
          x |-> {File(0, 0, 0, 7), File(0, 5, 1, 15)}]

RotatedCode == <<
  Ins("addi", 3, 3, 0, 3), Ins("addi", 4, 4, 0, 1), Ins("bltu", 0, 4, 3, 1), Ins("addi", 3, 3, 0, -1),
  Ins("bne", 0, 3, 5, 2)>>
Rotated == [code |-> RotatedCode, fp |-> NoFp, cfgs |-> {[Plain EXCEPT !.rotated = b] : b \in BOOLEAN},
            x |-> {File(0, 0, 2, 0), File(6, 2, 1, 0)}]

(* Copies: ascending with a limit, two cells at a time, and descending;    *)
(* the pointers overlap in both directions, and across pages.              *)
CopyFiles == {File(at[1], at[2], n, 1) : at \in {<<0, 1>>, <<0, 9>>, <<5, 1>>, <<5, 6>>}, n \in {0, 6}}
UpCode == <<
  Ins("load", 1, 3, 0, 0), Ins("addi", 3, 3, 0, 1), Ins("store", 0, 4, 1, 0), Ins("addi", 4, 4, 0, 1),
  Ins("addi", 5, 5, 0, -1), Ins("bltu", 0, 6, 5, 1)>>
PairCode == <<
  Ins("load", 1, 3, 0, 0), Ins("load", 2, 3, 0, 1), Ins("store", 0, 4, 1, 0), Ins("store", 0, 4, 2, 1),
  Ins("addi", 3, 3, 0, 2), Ins("addi", 4, 4, 0, 2), Ins("addi", 5, 5, 0, -2), Ins("bltu", 0, 6, 5, 1)>>
DownCode == <<
  Ins("addi", 3, 3, 0, -1), Ins("addi", 4, 4, 0, -1), Ins("load", 1, 3, 0, 0), Ins("store", 0, 4, 1, 0),
  Ins("addi", 5, 5, 0, -1), Ins("bne", 0, 5, 0, 1)>>
Copies == {[code |-> c, fp |-> NoFp, cfgs |-> {Plain}, x |-> CopyFiles] : c \in {UpCode, PairCode}}
          \cup {[code |-> DownCode, fp |-> NoFp, cfgs |-> {Plain},
                 x |-> {f \in CopyFiles : f[5] # 0}]}

(* The shapes Mistranslated names: a lock taken in a loop, a copy that     *)
(* counts its iterations in a temporary, FP after a jump.                  *)
SpinCode == <<
  Ins("amo", 3, 4, 5, 0), Ins("bne", 0, 3, 0, 1), Ins("add", 6, 3, 5, 0)>>
Spin == [code |-> SpinCode, fp |-> NoFp, cfgs |-> {Plain}, x |-> {File(7, 1, 0, 0), File(7, 2, 3, 1)}]
CarriedCode == <<
  Ins("load", 1, 3, 0, 0), Ins("addi", 3, 3, 0, 1), Ins("store", 0, 4, 1, 0), Ins("addi", 4, 4, 0, 1),
  Ins("addi", 6, 6, 0, 1), Ins("addi", 5, 5, 0, -1), Ins("bne", 0, 5, 0, 1)>>
Carried == [code |-> CarriedCode, fp |-> NoFp, cfgs |-> {Plain}, x |-> {File(0, 9, 5, 0)}]
JumpFpCode == <<
  Ins("fmv", 0, 3, 0, 0), Ins("jal", 0, 0, 0, 4), Ins("addi", 3, 3, 0, 1), Ins("fadd", 0, 0, 0, 0)>>
JumpFp == [code |-> JumpFpCode, fp |-> AnyFp, cfgs |-> {Plain}, x |-> {File(3, 0, 0, 0)}]

WindowsDef == {Call, Cache, Fp, Nest, FpLoop, Latch, Rotated, Spin, Carried, JumpFp} \cup Copies
Grant(fuel, before) == [fuel |-> fuel, before |-> before]
GrantsDef == {Grant(2, 0), Grant(5, 0), Grant(5, 4), Grant(24, 0)}
CarriedDef == {Carried}
AmpleDef == {Grant(60, 0)}
RefusalsDef == {{}, {2, 5, 6, 9}}
=============================================================================
