------------------------------ MODULE JitTrace ------------------------------
(***************************************************************************)
(* The translator's traces (rv64-jit/src/lib.rs): a linear path through    *)
(* the window, past branches with a side exit, followed jumps and calls,   *)
(* and returns whose target the trace knows or predicts.  Registers live   *)
(* in locals that are loaded on entry and stored at every exit.  The       *)
(* emitter's walk and the run of the emitted code go the same way, so that *)
(* one recursion does both: w is what the emitter knows at a pc, s what    *)
(* the code has computed there.                                            *)
(***************************************************************************)
EXTENDS GuestCode

CONSTANTS
  MaxTrace,       \* MAX_TRACE
  FuelGuardMin    \* FUEL_GUARD_MIN

Handled(p, pc) == In(p, pc) /\ p[pc].op \in Simple

-----------------------------------------------------------------------------
(* Registers in locals.                                                    *)
reads(i) ==
  (CASE i.op \in {"addi", "load", "lhu", "jalr", "fld", "fmv"} -> {i.s}
     [] i.op \in {"add", "store", "amo"} \cup Branches -> {i.s, i.t}
     [] i.op = "fadd" -> {F}
     [] OTHER -> {}) \ {0}
writes(i) ==
  (CASE i.op \in FpOps -> {F}
     [] i.op \in {"lui", "add", "addi", "load", "lhu", "amo", "jal", "jalr"} -> {i.d}
     [] OTHER -> {}) \ {0}

(* read and write as the scan found them; the registers in load start with *)
(* their value, the other locals with zero.                                *)
build_ctx(read, write, load) ==
  [local |-> read \cup write, write |-> write, load |-> load \cap (read \cup write)]
enter(ctx, c) ==
  [c |-> c, iter |-> 0, loc |-> [r \in Regs |-> IF r \in ctx.load THEN c.x[r] ELSE 0]]

push_reg(ctx, s, r) ==
  IF r = 0 THEN 0 ELSE IF r \in ctx.local THEN s.loc[r] ELSE s.c.x[r]
store_reg(ctx, s, r, v) ==
  IF r = 0 THEN s
  ELSE IF r \in ctx.local THEN [s EXCEPT !.loc[r] = v] ELSE [s EXCEPT !.c.x[r] = v]

(* Mutant: every exit stores every register the trace writes somewhere.    *)
flush_all(ctx, s, defined) ==
  [r \in Regs |-> IF r \in ctx.write THEN s.loc[r] ELSE s.c.x[r]]
flush_writes(ctx, s, defined) ==
  [r \in Regs |-> IF r \in ctx.write \cap defined \cap ctx.local THEN s.loc[r] ELSE s.c.x[r]]

(* Leaving compiled code at pc with n more instructions retired.           *)
leave(ctx, s, defined, pc, n) ==
  [cpu |-> [s.c EXCEPT !.x = flush_writes(ctx, s, defined), !.pc = pc],
   retired |-> s.iter + n, bailed |-> FALSE]
bail(ctx, s, defined, pc, n) ==
  [leave(ctx, s, defined, pc, n) EXCEPT !.bailed = TRUE]

(* An instruction that is no jump.  An access to an address the host does  *)
(* not serve inline bails, as does an FP result outside the fast path's    *)
(* guard (here zero).                                                      *)
address(ctx, s, i) ==
  IF i.op = "amo" THEN push_reg(ctx, s, i.s) ELSE (push_reg(ctx, s, i.s) + i.k) % Word
Memory == {"load", "lhu", "store", "amo", "fld"}

must_bail(ctx, s, i, refused) ==
  \/ i.op \in Memory /\ address(ctx, s, i) \in refused
  \/ i.op = "fadd" /\ (push_reg(ctx, s, F) + 1) % Word = 0

emit_simple(ctx, s, i) ==
  LET a == push_reg(ctx, s, i.s)
      b == push_reg(ctx, s, i.t)
      at == address(ctx, s, i)
  IN  CASE i.op = "lui" -> store_reg(ctx, s, i.d, i.k)
        [] i.op = "add" -> store_reg(ctx, s, i.d, (a + b) % Word)
        [] i.op = "addi" -> store_reg(ctx, s, i.d, at)
        [] i.op = "load" -> store_reg(ctx, s, i.d, s.c.mem[at])
        [] i.op = "lhu" -> store_reg(ctx, s, i.d, s.c.mem[at] % 4)
        [] i.op = "store" -> [s EXCEPT !.c.mem[at] = b]
        [] i.op = "amo" -> [store_reg(ctx, s, i.d, s.c.mem[at]) EXCEPT !.c.mem[at] = b]
        [] i.op = "fld" -> store_reg(ctx, s, F, s.c.mem[at])
        [] i.op = "fmv" -> store_reg(ctx, s, F, a)
        [] i.op = "fadd" -> store_reg(ctx, s, F, (push_reg(ctx, s, F) + 1) % Word)

-----------------------------------------------------------------------------
(* The gate in front of FP code: FS is dirty and, for code that rounds,    *)
(* the mode is RNE and NX already set.                                     *)
fp_needs_round(i) == i.op = "fadd"
fp_gate_open(c, round) == c.fs = "dirty" /\ (round => c.nx /\ c.rm = "RNE")

(* Does the straight line from pc round?  It ends at a jump or at what the *)
(* emitter does not handle, or runs on to the end of a loop region.        *)
RECURSIVE body_rounds(_, _, _, _)
body_rounds(p, pc, end, stop_at_branch) ==
  /\ In(p, pc) /\ pc < end
  /\ ~(stop_at_branch /\ p[pc].op \notin Simple)
  /\ fp_needs_round(p[pc]) \/ body_rounds(p, pc + 1, end, stop_at_branch)

-----------------------------------------------------------------------------
(* What a trace knows of its registers: values its own code set (proven),  *)
(* and values that came back from a stack slot (predicted).                *)
Unknown == [is |-> "no", v |-> 0]
Proven(v) == [is |-> "proven", v |-> v]
Lost == Word                \* the stack pointer's displacement is not known

TraceFacts ==
  [known |-> [r \in Regs |-> Unknown], sp |-> 0, slots |-> [a \in 0 .. Word - 1 |-> Unknown]]

facts_step(tf, i) ==
  LET slot == (tf.sp + i.k) % Word
      stack == i.s = SP /\ tf.sp # Lost
      value == CASE i.op = "lui" -> Proven(i.k)
                 [] i.op = "load" /\ stack /\ tf.slots[slot].is # "no" ->
                      [tf.slots[slot] EXCEPT !.is = "predicted"]
                 [] OTHER -> Unknown
      moved == i.op = "addi" /\ i.s = SP
  IN  [known |-> IF i.d = 0 THEN tf.known ELSE [tf.known EXCEPT ![i.d] = value],
       sp |-> IF i.d # SP THEN tf.sp ELSE IF moved /\ tf.sp # Lost THEN slot ELSE Lost,
       slots |-> IF i.d = SP /\ ~moved THEN TraceFacts.slots
                 ELSE IF i.op = "store" /\ stack
                 THEN [tf.slots EXCEPT ![slot] = tf.known[i.t]] ELSE tf.slots]

(* The decisions of the walk.  cfg is the configuration and the oracles:   *)
(* the hot pcs, the linked entries, and where the indirect jump of the     *)
(* block entered at a pc went last (0 when never seen).                    *)
follow_jal(p, cfg, pc) ==
  LET i == p[pc]
  IN  In(p, i.k) /\ IF i.d = 0 THEN cfg.follow /\ i.k > pc ELSE cfg.level >= 2 /\ i.k # pc

follow_ret(p, cfg, w) ==
  LET i == p[w.pc]
      fact == w.tf.known[i.s]
  IN  i.d = 0 /\ cfg.level >= 3 /\ fact.is # "no" /\ fact.v # w.pc /\ In(p, fact.v)

follow_cached(p, cfg, w) ==
  cfg.level >= 3 /\ cfg.next[w.seg] # w.pc /\ In(p, cfg.next[w.seg])

branch_follow(p, cfg, pc) ==
  IF In(p, p[pc].k) /\ p[pc].k > pc /\ p[pc].k \in cfg.hot /\ pc + 1 \notin cfg.hot
  THEN p[pc].k ELSE pc + 1

link_fact(i, pc, tf) ==
  LET after == facts_step(tf, i)
  IN  IF i.d = 0 THEN after ELSE [after EXCEPT !.known[i.d] = Proven(pc + 1)]

stops(p, cfg, w) ==
  w.n >= MaxTrace \/ (w.n # 0 /\ cfg.stop /\ w.pc \in cfg.link) \/ ~In(p, w.pc)

(* The scan: the registers of the path, its pcs and its length, before any *)
(* code is emitted.  Its walk is the emitter's, decision for decision.     *)
RECURSIVE scan_regs(_, _, _, _)
scan_regs(p, cfg, w, m) ==
  LET i == p[w.pc]
      both == [m EXCEPT !.read = @ \cup reads(i), !.write = @ \cup writes(i)]
      on(pc, tf) == [w EXCEPT !.pc = pc, !.n = @ + 1, !.tf = tf, !.path = Append(@, w.pc)]
      ends(marks) == [marks EXCEPT !.n = w.n, !.path = w.path]
  IN  CASE stops(p, cfg, w) -> ends(m)
        [] ~stops(p, cfg, w) /\ i.op \in Simple ->
             scan_regs(p, cfg, on(w.pc + 1, facts_step(w.tf, i)), both)
        [] ~stops(p, cfg, w) /\ i.op = "jal" ->
             IF follow_jal(p, cfg, w.pc)
             THEN scan_regs(p, cfg, on(i.k, link_fact(i, w.pc, w.tf)), both) ELSE ends(both)
        [] ~stops(p, cfg, w) /\ i.op = "jalr" ->
             IF follow_ret(p, cfg, w)
             THEN scan_regs(p, cfg, on(w.tf.known[i.s].v, facts_step(w.tf, i)),
                            IF w.tf.known[i.s].is = "predicted" THEN both ELSE m)
             ELSE IF follow_cached(p, cfg, w)
             THEN scan_regs(p, cfg, [on(cfg.next[w.seg], link_fact(i, w.pc, w.tf))
                                       EXCEPT !.seg = cfg.next[w.seg]], both)
             ELSE ends(both)
        [] ~stops(p, cfg, w) /\ i.op \in Branches ->
             IF cfg.level = 0 THEN ends(both)
             ELSE scan_regs(p, cfg, on(branch_follow(p, cfg, w.pc), w.tf), both)
        [] OTHER -> ends(m)

trace_start(pc) ==
  [pc |-> pc, n |-> 0, tf |-> TraceFacts, seg |-> pc, path |-> <<>>, defined |-> {}, gated |-> FALSE]
scan(p, cfg, pc) ==
  scan_regs(p, cfg, trace_start(pc), [read |-> {}, write |-> {}, n |-> 0, path |-> <<>>])

-----------------------------------------------------------------------------
(* The emitted code, run.  defined are the locals with a value here.       *)
trace_jal(p, cfg, w, s, ctx) ==
  LET i == p[w.pc]
  IN  [s |-> store_reg(ctx, s, i.d, w.pc + 1), on |-> follow_jal(p, cfg, w.pc), to |-> i.k]

(* The guard of a predicted return and of an inline cache: on another      *)
(* target the code leaves with the real one.                               *)
trace_jalr(p, cfg, w, s, ctx) ==
  LET i == p[w.pc]
      target == push_reg(ctx, s, i.s)
      fact == w.tf.known[i.s]
      linked == store_reg(ctx, s, i.d, w.pc + 1)
  IN  IF follow_ret(p, cfg, w)
      THEN [s |-> s, on |-> fact.is = "proven" \/ target = fact.v,
            to |-> IF fact.is = "proven" THEN fact.v ELSE target]
      ELSE [s |-> linked, to |-> target,
            on |-> follow_cached(p, cfg, w) /\ target = cfg.next[w.seg]]

trace_branch(p, cfg, w, s, ctx) ==
  LET i == p[w.pc]
      taken == Taken(i, push_reg(ctx, s, i.s), push_reg(ctx, s, i.t))
      to == IF taken THEN i.k ELSE w.pc + 1
  IN  [s |-> s, to |-> to,
       on |-> ~cfg.edges /\ cfg.level >= 1 /\ to = branch_follow(p, cfg, w.pc)]

trace_jump(p, cfg, w, s, ctx) ==
  CASE p[w.pc].op = "jal" -> trace_jal(p, cfg, w, s, ctx)
    [] p[w.pc].op = "jalr" -> trace_jalr(p, cfg, w, s, ctx)
    [] p[w.pc].op \in Branches -> trace_branch(p, cfg, w, s, ctx)

(* What the emitter knows after the instruction, going on at to.           *)
trace_next(p, cfg, w, to) ==
  LET i == p[w.pc]
      cached == i.op = "jalr" /\ ~follow_ret(p, cfg, w)
  IN  [w EXCEPT !.pc = to, !.n = @ + 1,
                !.tf = CASE i.op \in Branches -> w.tf
                         [] i.op = "jal" \/ cached -> link_fact(i, w.pc, w.tf)
                         [] OTHER -> facts_step(w.tf, i),
                !.seg = IF cached THEN to ELSE @,
                !.defined = @ \cup writes(i)]

(* The gate stands at the first FP instruction of the trace.               *)
gate_here(p, w) == In(p, w.pc) /\ p[w.pc].op \in FpOps /\ ~w.gated
gate_holds(p, w, s) == fp_gate_open(s.c, body_rounds(p, w.pc, Len(p) + 1, TRUE))

RECURSIVE run_trace(_, _, _, _, _, _)
run_trace(p, cfg, w, s, ctx, refused) ==
  IF stops(p, cfg, w) \/ p[w.pc].op = "csr" THEN leave(ctx, s, w.defined, w.pc, w.n)
  ELSE IF gate_here(p, w)
  THEN IF gate_holds(p, w, s)
       THEN run_trace(p, cfg, [w EXCEPT !.gated = TRUE], s, ctx, refused)
       ELSE bail(ctx, s, w.defined, w.pc, w.n)
  ELSE IF p[w.pc].op \in Simple
  THEN IF must_bail(ctx, s, p[w.pc], refused) THEN bail(ctx, s, w.defined, w.pc, w.n)
       ELSE run_trace(p, cfg, trace_next(p, cfg, w, w.pc + 1), emit_simple(ctx, s, p[w.pc]),
                      ctx, refused)
  ELSE LET j == trace_jump(p, cfg, w, s, ctx)
       IN  IF j.on THEN run_trace(p, cfg, trace_next(p, cfg, w, j.to), j.s, ctx, refused)
           ELSE leave(ctx, j.s, w.defined \cup writes(p[w.pc]), j.to, w.n + 1)

(* A trace loads what it reads; an FP local always has a value.            *)
trace_ctx(m) == build_ctx(m.read, m.write, m.read \cup ({F} \cap (m.read \cup m.write)))
enter_trace(p, cfg, ctx, c, refused) ==
  run_trace(p, cfg, [trace_start(c.pc) EXCEPT !.defined = ctx.load], enter(ctx, c), ctx, refused)
start_trace(p, cfg, c, refused) ==
  enter_trace(p, cfg, trace_ctx(scan(p, cfg, c.pc)), c, refused)

(* Without the fuel for it a long trace returns at once.  Mutant: it runs. *)
translate_unguarded(p, cfg, c, fuel, refused) == start_trace(p, cfg, c, refused)
translate_trace(p, cfg, c, fuel, refused) ==
  LET n == scan(p, cfg, c.pc).n
  IN  IF n > FuelGuardMin /\ fuel < n THEN [cpu |-> c, retired |-> 0, bailed |-> TRUE]
      ELSE start_trace(p, cfg, c, refused)

has_trace(p, pc) == In(p, pc) /\ p[pc].op # "csr"
=============================================================================
