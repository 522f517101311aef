---------------------------- MODULE JitTranslator ---------------------------
(***************************************************************************)
(* Compiled code beside the interpreter.  cpu is the machine that runs a   *)
(* window of guest code in any mix of compiled units and single            *)
(* interpreted instructions, ref is a machine that interprets the same     *)
(* number of instructions.                                                 *)
(***************************************************************************)
EXTENDS JitRegion

CONSTANTS
  Windows,    \* the guest code: [code, cfgs, x, fp], with its configurations and entry states
  Grants,     \* the fuel of a call and what its chain retired before, [fuel, before]
  Refusals    \* sets of addresses the host does not serve inline

VARIABLES
  prog, cfg,  \* the window and how it is translated
  cpu, ref,
  over        \* the last unit that ran: [unit, pc, before], and what the chain overshot, by
vars == <<prog, cfg, cpu, ref, over>>

Idle == [unit |-> "none", pc |-> 0, before |-> 0, by |-> 0]
Memory0 == [a \in 0 .. Word - 1 |-> (3 * a + 1) % Word]

Init ==
  \E w \in Windows, entry \in 1 .. Word - 1 :
    /\ In(w.code, entry)
    /\ prog = w.code
    /\ cfg \in w.cfgs
    /\ \E x \in w.x, f \in w.fp : cpu = [pc |-> entry, x |-> x, mem |-> Memory0,
                                       nx |-> f.nx, rm |-> f.rm, fs |-> f.fs]
    /\ ref = cpu
    /\ over = Idle

(* What stands at a pc: a page's superblock, or the unit the block         *)
(* translator chooses.                                                     *)
translate_block(p, g, pc) ==
  CASE g.super -> IF pc \in discover_page_leaders(p, {1}) THEN "super" ELSE "none"
    [] ~g.super /\ g.detect /\ detect_copy_loop(p, pc) # None -> "copy"
    [] ~g.super /\ g.detect /\ detect_copy_loop(p, pc) = None /\ is_region(p, g, pc) -> "loop"
    [] OTHER -> IF has_trace(p, pc) THEN "trace" ELSE "none"

run_unit(unit, g, refused) ==
  CASE unit = "trace" -> translate_trace(prog, cfg, cpu, g.fuel, refused)
    [] unit = "loop" -> translate_loop(prog, cfg, cpu, g.fuel, g.before, refused)
    [] unit = "copy" -> translate_copy_loop(prog, cpu, g.fuel, g.before, refused)
    [] unit = "super" -> translate_superblock(prog, discover_page_leaders(prog, {1}), cfg.in_memory,
                                              cpu, g.fuel, g.before, refused)

(* The dispatcher calls the unit at the pc, or a chain or a link does,     *)
(* while the grant has fuel left (chain_next, emit_page_link).             *)
call_block(g, refused) ==
  /\ In(prog, cpu.pc)
  /\ g.before < g.fuel
  /\ \E unit \in {translate_block(prog, cfg, cpu.pc)} \ {"none"} :
       \E r \in {run_unit(unit, g, refused)} :
         /\ cpu' = r.cpu
         /\ ref' = Steps(prog, ref, r.retired)
         /\ over' = [unit |-> unit, pc |-> cpu.pc, before |-> g.before,
                     by |-> Max({0, g.before + r.retired - g.fuel})]
  /\ UNCHANGED <<prog, cfg>>

Interpret ==
  /\ In(prog, cpu.pc)
  /\ cpu' = Step(prog, cpu)
  /\ ref' = Step(prog, ref)
  /\ over' = Idle
  /\ UNCHANGED <<prog, cfg>>

Next == (\E g \in Grants, refused \in Refusals : call_block(g, refused)) \/ Interpret
Spec == Init /\ [][Next]_vars
-----------------------------------------------------------------------------
(* A temporary of a copy loop that the rest of the iteration loads before  *)
(* it reads it: a loop that yields between a bulk copy and its tail leaves *)
(* it stale, though lib.rs:3825 says that the tail is always run.          *)
Dead(r) ==
  \E cl \in {detect_copy_loop(prog, start) : start \in 1 .. cpu.pc} :
    /\ cl # None /\ cpu.pc < cl.end /\ r \in cl.temps
    /\ \E q \in cpu.pc .. cl.end - 1 :
         r \in writes(prog[q]) /\ \A o \in cpu.pc .. q : r \notin reads(prog[o])

(* Three shapes of code that the translator gets wrong.  A copy loop with  *)
(* a temporary that takes its value from the iteration before, which the   *)
(* bulk copy skips;                                                        *)
copy_carries(start) ==
  LET cl == detect_copy_loop(prog, start)
      val == symbolic_body(prog, start, symbolic_start).val
  IN  \E r \in cl.temps : val[r].is = "affine" /\ val[r].r \in cl.temps

(* a loop region that reads the result of one of its atomics: scan_regs    *)
(* marks it as written (lib.rs:1946), scan_regs_region does not            *)
(* (lib.rs:2537), so that no exit stores it;                               *)
region_loses_amo(start) ==
  LET g == loop_region(prog, cfg, start)
      m == scan_regs_region(prog, g)
  IN  \E pc \in g.start .. g.end - 1 :
        prog[pc].op = "amo" /\ prog[pc].d \in m.read \ m.write

(* and a trace whose gate stands before a move and so asks for neither NX  *)
(* nor RNE, with an instruction that rounds after a jump the trace follows *)
(* (lib.rs:4620): lib.rs:2824 says that one gate covers them all.          *)
gate_misses(start) ==
  LET path == scan(prog, cfg, start).path
      fp == {n \in DOMAIN path : prog[path[n]].op \in FpOps}
  IN  /\ \E n \in fp : fp_needs_round(prog[path[n]])
      /\ ~body_rounds(prog, path[Min(fp)], Len(prog) + 1, TRUE)

Mistranslated ==
  \E pc \in 1 .. Len(prog) :
    LET unit == translate_block(prog, cfg, pc)
    IN  \/ unit = "copy" /\ copy_carries(pc)
        \/ unit = "loop" /\ region_loses_amo(pc)
        \/ unit = "trace" /\ gate_misses(pc)

(* Wherever compiled units are entered and left, the registers that still  *)
(* matter, the memory, the FP state and the pc are what interpreting the   *)
(* retired instructions gives, unless the code has one of the three shapes.*)
CompiledFaithful ==
  \/ /\ [cpu EXCEPT !.x = 0] = [ref EXCEPT !.x = 0]
     /\ \A r \in Regs : cpu.x[r] # ref.x[r] => Dead(r)
  \/ Mistranslated

(* Whatever temporaries a copy loop uses, "their final values are          *)
(* reproduced by the real tail iterations" (lib.rs:3825): where the loop   *)
(* ends they are what interpreting it gives.                               *)
TailReproducesTemps ==
  \A start \in 1 .. Len(prog) :
    \A cl \in {detect_copy_loop(prog, start)} \ {None} :
      cpu.pc = cl.end => \A r \in cl.temps : cpu.x[r] = ref.x[r]

(* Compiled code gives the hart back in time: what a chain retires beyond  *)
(* its grant is at most a pass of the unit that was running.  lib.rs:364   *)
(* says an iteration or a basic block, at most MAX_BLOCK.  Two units take  *)
(* longer.  A copy moves up to a page between two looks at its fuel.  A    *)
(* trace's guard (lib.rs:4562) stands only before a long trace, leaves out *)
(* the jump that ends it and looks at the whole grant, not at what is left *)
(* of it: a short trace overshoots by its length, a long one by that jump  *)
(* and what the chain retired before it.                                   *)
Pass(o) ==
  CASE o.unit = "trace" -> Min({MaxTrace, Max({FuelGuardMin, o.before + 1})})
    [] o.unit = "copy" -> LET cl == detect_copy_loop(prog, o.pc)
                          IN  (PageSize \div cl.w) * cl.body
    [] o.unit \in {"loop", "super"} -> MaxBlock
    [] OTHER -> 0
FuelBounded == over.by <= Pass(over)
=============================================================================
