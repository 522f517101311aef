------------------------------ MODULE JitRegion -----------------------------
(***************************************************************************)
(* The translator's larger units (rv64-jit/src/lib.rs): structured loop    *)
(* regions, page superblocks and bulk copy loops.  Their code keeps its    *)
(* registers in locals across iterations and blocks, counts what it        *)
(* retires in ITER and yields when ITER reaches the fuel.                  *)
(***************************************************************************)
EXTENDS JitTrace, FiniteSetsExt

CONSTANTS
  MaxBlock,     \* MAX_BLOCK
  HoistMin,     \* SB_HOIST_MIN
  PageSize      \* of the guest's data pages, 4096 in the code

(* The fuel of this call: the grant less what the chain retired before.    *)
fuel_base(fuel, before) == IF fuel > before THEN fuel - before ELSE 0

-----------------------------------------------------------------------------
(* Loop regions: [start, end) with properly nested loops, forward branches *)
(* that leave a loop or skip a part of it, and no other jump.              *)
None == [end |-> 0]

branches_in(p, start, end) == {b \in start .. end - 1 : p[b].op \in Branches}
plain(p, start, end) == \A pc \in start .. end - 1 : p[pc].op \in Simple \cup Branches

(* The walk to the latch: the first branch back to start, or, extended, a  *)
(* jump back to it after two such branches and exactly one ld and one lhu. *)
walk_plain(p, start) ==
  LET latches == {b \in branches_in(p, start, Len(p) + 1) : p[b].k = start}
      end == Min(latches) + 1
  IN  IF latches # {} /\ plain(p, start, end) /\ end - start <= MaxBlock
      THEN [end |-> end, latch |-> FALSE] ELSE None

walk_extended(p, start) ==
  LET jumps == {j \in start .. Len(p) : p[j].op = "jal"}
      j == Min(jumps)
      count(ops) == Cardinality({pc \in start .. j - 1 : p[pc].op \in ops})
      continues == {b \in branches_in(p, start, j) : p[b].k = start}
  IN  IF /\ jumps # {} /\ plain(p, start, j) /\ j + 1 - start <= MaxBlock
         /\ p[j].d = 0 /\ p[j].k = start /\ Cardinality(continues) >= 2
         /\ count({"load"}) = 1 /\ count({"lhu"}) = 1 /\ count({"store", "fld"}) = 0
      THEN [end |-> j + 1, latch |-> TRUE] ELSE None

(* The loops of the region: a header and the end of its last back edge.    *)
back_edges(p, cfg, start, end) ==
  {b \in branches_in(p, start, end) : p[b].k < b /\ (p[b].k >= start \/ ~cfg.rotated)}
loops_of(p, cfg, start, g) ==
  {[h |-> h,
    e |-> IF g.latch /\ h = start THEN g.end
          ELSE Max({b + 1 : b \in {e \in back_edges(p, cfg, start, g.end) : p[e].k = h}})] :
     h \in {p[b].k : b \in back_edges(p, cfg, start, g.end)}}

encloses(l, pc) == l.h <= pc /\ pc < l.e
is_break(p, loops, b) == \E l \in loops : encloses(l, b) /\ l.e = p[b].k
if_branches(p, loops, start, end) ==
  {b \in branches_in(p, start, end) : p[b].k > b /\ ~is_break(p, loops, b)}

structured(p, loops, start, end) ==
  /\ loops # {}
  /\ \A l \in loops : l.h >= start
  /\ \A l, k \in loops : l.h < k.h => l.e <= k.h \/ k.e <= l.e
  /\ \A b \in branches_in(p, start, end) : p[b].k <= end
  /\ \A b \in if_branches(p, loops, start, end) :
       /\ \A l \in loops : encloses(l, b) => p[b].k <= l.e
       /\ ~\E l \in loops : b < l.h /\ l.h < p[b].k /\ p[b].k < l.e

with_loops(p, start, g, loops) ==
  IF structured(p, loops, start, g.end)
  THEN [start |-> start, end |-> g.end, latch |-> g.latch, loops |-> loops] ELSE None
loop_region_walk(p, cfg, start, g) ==
  IF g = None THEN None ELSE with_loops(p, start, g, loops_of(p, cfg, start, g))
loop_region_mode(p, cfg, start, extend) ==
  loop_region_walk(p, cfg, start, IF extend THEN walk_extended(p, start) ELSE walk_plain(p, start))

first_region(wide, plain_one) == IF wide # None THEN wide ELSE plain_one
loop_region(p, cfg, start) ==
  first_region(IF cfg.multi_latch THEN loop_region_mode(p, cfg, start, TRUE) ELSE None,
               loop_region_mode(p, cfg, start, FALSE))

(* The emitter's scopes close in the order they opened, or it gives up.    *)
scopes_nest(p, g) ==
  LET ifs == if_branches(p, g.loops, g.start, g.end)
  IN  /\ \A b, c \in ifs : b < c /\ c < p[b].k => p[c].k <= p[b].k
      /\ \A b \in branches_in(p, g.start, g.end) : p[b].k # b

emits(p, g) == g # None /\ scopes_nest(p, g)
is_region(p, cfg, pc) == emits(p, loop_region(p, cfg, pc))

(* The register scan of a region takes an AMO's destination for no write.  *)
region_writes(i) == IF i.op = "amo" THEN {} ELSE writes(i)
scan_regs_region(p, g) ==
  LET body == {p[pc] : pc \in g.start .. g.end - 1}
  IN  [read |-> UNION {reads(i) : i \in body}, write |-> UNION {region_writes(i) : i \in body}]

(* Where the emitter adds the run of instructions before pc to ITER, and   *)
(* how many it holds back at pc.                                           *)
flush_point(p, g, pc) ==
  \/ pc = g.start
  \/ p[pc - 1].op \in Branches \cup {"jal"}
  \/ \E l \in g.loops : l.h = pc
  \/ \E b \in if_branches(p, g.loops, g.start, g.end) : p[b].k = pc
segment(p, g, pc) == pc - Max({q \in g.start .. pc : flush_point(p, g, q)})

add_retired(s, n) == [s EXCEPT !.iter = @ + n]

(* One region, run.  The fuel guard stands at the top of every loop.       *)
RECURSIVE run_loop(_, _, _, _, _, _, _)
run_loop(p, g, ctx, base, refused, pc, s) ==
  LET i == p[pc]
      seg == segment(p, g, pc)
      counted == add_retired(s, seg + 1)
      taken == Taken(i, push_reg(ctx, s, i.s), push_reg(ctx, s, i.t))
      goto(to, t) == run_loop(p, g, ctx, base, refused, to, t)
  IN  IF (\E l \in g.loops : l.h = pc) /\ s.iter >= base THEN leave(ctx, s, Regs, pc, 0)
      ELSE IF pc = g.end THEN leave(ctx, s, Regs, pc, 0)
      ELSE IF i.op = "jal" THEN goto(g.start, counted)
      ELSE IF i.op \in Simple
      THEN IF must_bail(ctx, s, i, refused) THEN bail(ctx, s, Regs, pc, seg)
           ELSE LET t == emit_simple(ctx, s, i)
                IN  goto(pc + 1, IF pc + 1 = g.end \/ flush_point(p, g, pc + 1)
                                 THEN add_retired(t, seg + 1) ELSE t)
      ELSE IF i.k < g.start
      THEN IF taken THEN bail(ctx, counted, Regs, i.k, 0) ELSE goto(pc + 1, counted)
      ELSE goto(IF taken THEN i.k ELSE pc + 1, counted)

enter_loop(p, g, ctx, c, base, refused) ==
  IF F \in ctx.local /\ ~fp_gate_open(c, body_rounds(p, c.pc, g.end, FALSE))
  THEN bail(ctx, enter(ctx, c), Regs, c.pc, 0)
  ELSE run_loop(p, g, ctx, base, refused, c.pc, enter(ctx, c))
region_ctx(m) == build_ctx(m.read, m.write, Regs)
emit_loop(p, g, c, base, refused) ==
  enter_loop(p, g, region_ctx(scan_regs_region(p, g)), c, base, refused)
translate_loop(p, cfg, c, fuel, before, refused) ==
  emit_loop(p, loop_region(p, cfg, c.pc), c, fuel_base(fuel, before), refused)

-----------------------------------------------------------------------------
(* Superblocks: every basic block of a page in one function that dispatches *)
(* on the target pc.                                                       *)
body_end(p, pc) ==
  Min({q \in pc .. Len(p) + 1 : ~Handled(p, q) \/ q = pc + MaxBlock})

(* The leaders the walk of one body finds.                                 *)
leaders_from(p, pc) ==
  LET e == body_end(p, pc)
      i == p[e]
  IN  IF ~In(p, e) \/ e = pc + MaxBlock THEN {}
      ELSE {t \in (CASE i.op \in Branches -> {i.k, e + 1}
                     [] i.op = "jal" -> {i.k} \cup (IF i.d # 0 THEN {e + 1} ELSE {})
                     [] i.op = "jalr" -> IF i.d # 0 THEN {e + 1} ELSE {}
                     [] OTHER -> {e + 1}) : In(p, t)}
RECURSIVE discover_page_leaders(_, _)
discover_page_leaders(p, found) ==
  LET more == found \cup UNION {leaders_from(p, pc) : pc \in found}
  IN  IF more = found THEN found ELSE discover_page_leaders(p, more)

(* Every mark of a register in the bodies; only one that is used often     *)
(* enough is kept in a local.                                              *)
body_pcs(p, pc) ==
  LET e == body_end(p, pc)
  IN  pc .. (IF In(p, e) /\ e < pc + MaxBlock /\ p[e].op # "csr" THEN e ELSE e - 1)
operands(i) ==
  IF i.op \in {"add", "store", "amo"} \cup Branches THEN <<i.s, i.t>> ELSE <<i.s>>
uses(p, entries, r) ==
  LET marked(i) == (IF r \in reads(i) /\ r # F
                    THEN Cardinality({n \in DOMAIN operands(i) : operands(i)[n] = r})
                    ELSE IF r \in reads(i) THEN 1 ELSE 0)
                   + (IF r \in writes(i) THEN 1 ELSE 0)
      body(e) == MapThenSumSet(LAMBDA pc : marked(p[pc]), body_pcs(p, e))
  IN  MapThenSumSet(body, entries)
scan_regs_super(p, entries) ==
  LET insns == {p[pc] : pc \in UNION {body_pcs(p, e) : e \in entries}}
      hoist(rs) == {r \in rs : uses(p, entries, r) >= HoistMin}
  IN  [read |-> hoist(UNION {reads(i) : i \in insns}),
       write |-> hoist(UNION {writes(i) : i \in insns})]

(* The bodies, run.  The gate of a body tests what emit_fp_flags found on  *)
(* entry, which no compiled code changes; a body that can do nothing exits. *)
RECURSIVE run_super(_, _, _, _, _, _, _)
RECURSIVE run_body(_, _, _, _, _, _, _)
run_super(p, entries, ctx, base, refused, tpc, s) ==
  IF s.iter >= base \/ tpc \notin entries THEN leave(ctx, s, Regs, tpc, 0)
  ELSE IF /\ \E pc \in body_pcs(p, tpc) : p[pc].op \in FpOps
          /\ ~fp_gate_open(s.c, body_rounds(p, tpc, Len(p) + 1, TRUE))
  THEN bail(ctx, s, Regs, tpc, 0)
  ELSE run_body(p, entries, ctx, base, refused, [pc |-> tpc, len |-> 0], s)

run_body(p, entries, ctx, base, refused, b, s) ==
  LET i == p[b.pc]
      counted == add_retired(s, b.len + 1)
      target == push_reg(ctx, s, i.s)
      taken == Taken(i, push_reg(ctx, s, i.s), push_reg(ctx, s, i.t))
      goto(tpc, t) == run_super(p, entries, ctx, base, refused, tpc, t)
      over == b.len >= MaxBlock \/ ~In(p, b.pc) \/ i.op = "csr"
  IN  CASE over /\ b.len = 0 -> leave(ctx, s, Regs, b.pc, 0)
        [] over /\ b.len # 0 -> goto(b.pc, add_retired(s, b.len))
        [] ~over /\ i.op \in Simple ->
             IF must_bail(ctx, s, i, refused) THEN bail(ctx, s, Regs, b.pc, b.len)
             ELSE run_body(p, entries, ctx, base, refused,
                           [pc |-> b.pc + 1, len |-> b.len + 1], emit_simple(ctx, s, i))
        [] ~over /\ i.op \in Branches -> goto(IF taken THEN i.k ELSE b.pc + 1, counted)
        [] ~over /\ i.op = "jal" -> goto(i.k, store_reg(ctx, counted, i.d, b.pc + 1))
        [] ~over /\ i.op = "jalr" -> goto(target, store_reg(ctx, counted, i.d, b.pc + 1))

enter_super(p, entries, ctx, c, base, refused) ==
  run_super(p, entries, ctx, base, refused, c.pc, enter(ctx, c))
translate_superblock(p, entries, in_memory, c, fuel, before, refused) ==
  enter_super(p, entries,
              IF in_memory THEN build_ctx({}, {}, {}) ELSE region_ctx(scan_regs_super(p, entries)),
              c, fuel_base(fuel, before), refused)

-----------------------------------------------------------------------------
(* Copy loops: a body that only loads a window off one pointer, stores it  *)
(* off another and moves both pointers and a counter by the window's size. *)
(* One iteration is followed symbolically: a register is its own or        *)
(* another's entry value plus a constant, or the value loaded at an offset.*)
Affine(r, c) == [is |-> "affine", r |-> r, c |-> c]
Loaded(o) == [is |-> "loaded", r |-> 0, c |-> o]
Opaque == [is |-> "unknown", r |-> 0, c |-> 0]
Fail == [ok |-> FALSE]

symbolic_start ==
  [ok |-> TRUE, val |-> [r \in Regs |-> Affine(r, 0)], s |-> 0, d |-> 0,
   loads |-> {}, stores |-> {}, written |-> {}, branch |-> 0]

(* A pointer register may be used if it is the one used before.            *)
pointer(v, old) == v.is = "affine" /\ v.r # 0 /\ (old = 0 \/ v.r = old)

symbolic(m, i) ==
  LET v == m.val[i.s]
      off == v.c + i.k
      set(w) == IF i.d = 0 THEN Fail
                ELSE [m EXCEPT !.val[i.d] = w, !.written = @ \cup {i.d}]
  IN  CASE i.op = "load" /\ pointer(v, m.s) /\ off \notin m.loads /\ i.d # 0 ->
             [set(Loaded(off)) EXCEPT !.s = v.r, !.loads = @ \cup {off}]
        [] i.op = "store" /\ pointer(v, m.d) /\ m.val[i.t] = Loaded(off) /\ off \notin m.stores ->
             [m EXCEPT !.d = v.r, !.stores = @ \cup {off}]
        [] i.op = "addi" -> set(IF v.is = "affine" THEN Affine(v.r, v.c + i.k) ELSE Opaque)
        [] i.op = "add" /\ i.s = 0 -> set(m.val[i.t])
        [] i.op = "add" /\ i.s # 0 /\ i.t = 0 -> set(v)
        [] OTHER -> Fail

RECURSIVE symbolic_body(_, _, _)
symbolic_body(p, pc, m) ==
  IF ~m.ok \/ ~In(p, pc) THEN Fail
  ELSE IF p[pc].op \in Branches THEN [m EXCEPT !.branch = pc]
  ELSE symbolic_body(p, pc + 1, symbolic(m, p[pc]))

(* bltu limit, counter or bne counter, x0.                                 *)
copy_loop(p, start, m) ==
  LET i == p[m.branch]
      l == IF i.op = "bltu" THEN i.s ELSE 0
      n == IF i.op = "bltu" THEN i.t ELSE i.s
      w == Cardinality(m.loads)
      step == m.val[m.s].c
  IN  IF /\ m.ok
         /\ i.op = "bltu" \/ (i.op = "bne" /\ i.t = 0)
         /\ i.k = start
         /\ m.s # 0 /\ m.d # 0 /\ m.s # m.d /\ m.loads # {} /\ w = Cardinality(m.stores)
         /\ m.loads = Min(m.loads) .. Min(m.loads) + w - 1
         /\ step \in {w, -w} /\ m.val[m.s] = Affine(m.s, step) /\ m.val[m.d] = Affine(m.d, step)
         /\ m.val[n] = Affine(n, -w) /\ (l # 0 => m.val[l] = Affine(l, 0))
         /\ n # 0 /\ Cardinality({m.s, m.d, n, l}) = 4 /\ l \notin m.written
      THEN [s |-> m.s, d |-> m.d, n |-> n, l |-> l, w |-> w, w0 |-> Min(m.loads), bwd |-> step < 0,
            temps |-> m.written \ {m.s, m.d, n}, body |-> m.branch + 1 - start,
            start |-> start, end |-> m.branch + 1]
      ELSE None
detect_copy_loop(p, start) == copy_loop(p, start, symbolic_body(p, start, symbolic_start))

(* The bytes one chunk may copy: less than the counter has left, and no    *)
(* further than the page of either pointer.                                *)
room(cl, ptr) ==
  LET anchor == (ptr + cl.w0 + (IF cl.bwd THEN cl.w ELSE 0)) % Word
  IN  (IF cl.bwd THEN ((anchor - 1) % PageSize) + 1 ELSE PageSize - (anchor % PageSize)) \div cl.w
chunk(cl, S, D, N, L) ==
  IF ~(L < N) THEN 0 ELSE cl.w * Min({(N - L - 1) \div cl.w, room(cl, S), room(cl, D)})

first_byte(cl, ptr, bytes) ==
  (ptr + cl.w0 + (IF cl.bwd THEN cl.w - bytes ELSE 0)) % Word
bulk_ok(cl, S, D, bytes, refused) ==
  /\ bytes > 0
  /\ ~(((IF cl.bwd THEN S - D ELSE D - S) % Word) < bytes)
  /\ first_byte(cl, S, bytes) \notin refused /\ first_byte(cl, D, bytes) \notin refused

(* memory.copy: the bytes as they were before.                             *)
memory_copy(mem, from, to, bytes) ==
  [a \in DOMAIN mem |-> IF ((a - to) % Word) < bytes THEN mem[(from + a - to) % Word] ELSE mem[a]]

RECURSIVE run_copy(_, _, _, _, _, _)
RECURSIVE run_copy_body(_, _, _, _, _, _, _)
run_copy(p, cl, ctx, base, refused, s) ==
  LET S == s.loc[cl.s]  D == s.loc[cl.d]  N == s.loc[cl.n]
      L == push_reg(ctx, s, cl.l)
      bytes == chunk(cl, S, D, N, L)
      by == IF cl.bwd THEN -bytes ELSE bytes
  IN  IF s.iter >= base THEN leave(ctx, s, Regs, cl.start, 0)
      ELSE IF bulk_ok(cl, S, D, bytes, refused)
      THEN run_copy(p, cl, ctx, base, refused,
             [s EXCEPT !.c.mem = memory_copy(@, first_byte(cl, S, bytes), first_byte(cl, D, bytes), bytes),
                       !.loc[cl.s] = (@ + by) % Word, !.loc[cl.d] = (@ + by) % Word,
                       !.loc[cl.n] = @ - bytes, !.iter = @ + (bytes \div cl.w) * cl.body])
      ELSE run_copy_body(p, cl, ctx, base, refused, cl.start, s)

(* One iteration as it stands, and the test for another.                   *)
run_copy_body(p, cl, ctx, base, refused, pc, s) ==
  LET counted == add_retired(s, cl.body)
  IN  IF pc < cl.end - 1
      THEN IF must_bail(ctx, s, p[pc], refused) THEN bail(ctx, s, Regs, pc, pc - cl.start)
           ELSE run_copy_body(p, cl, ctx, base, refused, pc + 1, emit_simple(ctx, s, p[pc]))
      ELSE IF push_reg(ctx, s, cl.l) < push_reg(ctx, s, cl.n)
      THEN run_copy(p, cl, ctx, base, refused, counted)
      ELSE leave(ctx, counted, Regs, cl.end, 0)

copy_ctx(cl) ==
  build_ctx(({cl.s, cl.d, cl.n, cl.l} \ {0}) \cup cl.temps, {cl.s, cl.d, cl.n} \cup cl.temps, Regs)
enter_copy(p, cl, ctx, c, base, refused) == run_copy(p, cl, ctx, base, refused, enter(ctx, c))
emit_copy(p, cl, c, base, refused) == enter_copy(p, cl, copy_ctx(cl), c, base, refused)
translate_copy_loop(p, c, fuel, before, refused) ==
  emit_copy(p, detect_copy_loop(p, c.pc), c, fuel_base(fuel, before), refused)
=============================================================================
