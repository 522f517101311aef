-------------------------------- MODULE Hart --------------------------------
(***************************************************************************)
(* The privileged half of the hart (rv64-core/src/cpu.rs, csr.rs): modes,  *)
(* traps and interrupts, translation with its two TLBs, the live context   *)
(* compiled code compares with, and the decoded pages of the interpreter   *)
(* (rv64-system/src/virt.rs).  The guest is any program made   *)
(* of the operations its scope lists; pages stand for addresses, and the   *)
(* CSRs that only hold a value are left out.  All pages are RAM.           *)
(***************************************************************************)
EXTENDS Integers, Sequences, FiniteSets, FiniteSetsExt

CONSTANTS
  Pages,       \* page numbers, virtual and physical
  Line,        \* virtual page -> its line in the TLBs
  Spans,       \* what one leaf may map: virtual pages and their offsets in it
  Guests,      \* what a guest does: [ops, accesses, leaves, status, irqs, boot, interval]: its
               \* operations, kinds of access, leaf PTEs it writes, values for mstatus,
               \* interrupts, first state and IRQ_POLL_INTERVAL
  MaxWrites    \* bound: writes to page tables and to code, and FENCE.Is

VARIABLES
  sys,         \* SysCsrs: mode, the bits of mstatus, satp, mie, mip, delegations
  lines,       \* Bus::irq_lines
  poll,        \* irq_poll_cd, and what is next: the poll, the instruction, or a look by the host
  table,       \* the leaf that maps each virtual page
  recent,      \* the leaves since the last fence: what may still be cached
  tlb, jtlb,   \* [access][line], an entry or NoTag
  context,     \* the context bits of map_gen, as compiled code reads them
  marked,      \* physical pages with compiled code
  code,        \* version of each physical page's bytes, and the one at the last FENCE.I
  decoded,     \* icache_gen and one slot of CodePageCache
  guest,       \* the program's scope
  frame,       \* what the trap into S-mode in progress must restore
  grace        \* instructions and rounds of compiled code left before a deliverable
               \* interrupt must be taken
vars == <<sys, lines, poll, table, recent, tlb, jtlb, context, marked, code, decoded,
          guest, frame, grace>>

User == 0
Supervisor == 1
Machine == 3
Accesses == {"Fetch", "Load", "Store"}
Fused == {"Load", "Store"}
NoTag == [va |-> 0]
Lines == {Line[va] : va \in Pages}
NoSpan == [x \in {} |-> 0]
NoLeaf == [v |-> FALSE, r |-> FALSE, w |-> FALSE, x |-> FALSE, u |-> FALSE, d |-> FALSE, pp |-> 1, span |-> NoSpan]
NoFrame == [mode |-> -1, sie |-> FALSE]
HW == {3, 7, 9, 11}
STI == 5
uses(op) == op \in guest.ops
Interval == guest.interval
left(insns, rounds) == [insns |-> insns, rounds |-> rounds]
Idle == left(Interval + 2, Interval + 2)
Risen == left(Interval + 1, Interval + 1)   \* a line or the timer rose
Enabled == left(0, 1)                       \* the guest made it deliverable

(* The privileged state (SysCsrs), and a leaf PTE.                         *)
SstatusBits == {"SIE", "SPIE", "SPP", "SUM", "MXR"}
MstatusBits == SstatusBits \cup {"MIE", "MPIE", "MPP", "MPRV", "TVM", "TW", "TSR"}
Modes == {User, Supervisor, Machine}
status_field(f) == IF f = "MPP" THEN 0..3 ELSE BOOLEAN
SysCsrs ==
  [mode : Modes, MIE : BOOLEAN, SIE : BOOLEAN, MPIE : BOOLEAN, SPIE : BOOLEAN, MPP : 0..3, SPP : BOOLEAN,
   MPRV : BOOLEAN, SUM : BOOLEAN, MXR : BOOLEAN, TVM : BOOLEAN, TW : BOOLEAN, TSR : BOOLEAN,
   satp : {"bare", "paged"}, mie : SUBSET Nat, mip : SUBSET Nat, mideleg : SUBSET Nat, medeleg : SUBSET Nat]
Leaves == [v : BOOLEAN, r : BOOLEAN, w : BOOLEAN, x : BOOLEAN, u : BOOLEAN, d : BOOLEAN, pp : Nat,
           span : Spans \cup {NoSpan}]

ASSUME HartAssumption ==
  /\ Pages \subseteq Nat \ {0}
  /\ \A span \in Spans : \A x \in DOMAIN span : span[x] \in Nat
  /\ \A g \in Guests :
       /\ g.accesses \subseteq Accesses /\ g.leaves \subseteq Leaves /\ g.irqs \subseteq Nat
       /\ g.boot \in SysCsrs /\ ~g.boot.MPRV /\ g.interval \in Nat
       /\ \A v \in g.status : \A f \in DOMAIN v : f \in MstatusBits /\ v[f] \in status_field(f)
  /\ MaxWrites \in Nat

Init ==
  /\ guest \in Guests
  /\ sys = guest.boot
  /\ lines = {} /\ poll = [cd |-> 0, phase |-> "poll"]
  /\ table = [va \in Pages |-> NoLeaf] /\ recent = [va \in Pages |-> {NoLeaf}]
  /\ tlb = [a \in Accesses |-> [n \in Lines |-> NoTag]]
  /\ jtlb = [a \in Fused |-> [n \in Lines |-> NoTag]]
  /\ context = <<sys.mode, sys.mode, sys.SUM, sys.MXR>>
  /\ marked = {}
  /\ code = [ver |-> [p \in Pages |-> 0], fenced |-> [p \in Pages |-> 0]]
  /\ decoded = [gen |-> 0, page |-> 0, page_gen |-> 0, blocks |-> [o \in {0, 1} |-> -1]]
  /\ frame = NoFrame /\ grace = Idle

-----------------------------------------------------------------------------
(* Translation.                                                            *)
from_bits(b) == IF b = 2 THEN Machine ELSE b
data_mode(s) == IF s.MPRV THEN from_bits(s.MPP) ELSE s.mode
eff_mode(s, a) == IF a = "Fetch" THEN s.mode ELSE data_mode(s)
translation_context(s) == <<s.mode, data_mode(s), s.SUM, s.MXR>>
translation_tag(s, va, pp) == [va |-> va, ctx |-> translation_context(s), pp |-> pp]
tag_is(e, va, ctx) == e # NoTag /\ e.va = va /\ e.ctx = ctx
untranslated(s, a) == s.satp = "bare" \/ eff_mode(s, a) = Machine

permits(leaf, s, a) ==
  /\ leaf.v /\ ~(~leaf.r /\ leaf.w)
  /\ CASE eff_mode(s, a) = User -> leaf.u
       [] eff_mode(s, a) = Supervisor -> ~leaf.u \/ (s.SUM /\ a # "Fetch")
  /\ CASE a = "Fetch" -> leaf.x
       [] a = "Load" -> leaf.r \/ (s.MXR /\ leaf.x)
       [] a = "Store" -> leaf.w

(* A translation: its outcome, the page, the TLBs after it, and whether it *)
(* sets the dirty bit.  A walk fills one entry, of a superpage too, and    *)
(* drops a fused entry whose TLB entry it replaces.                        *)
translate_slow(a, va) ==
  LET n == Line[va]
      leaf == table[va]
      fresh == translation_tag(sys, va, leaf.pp)
      keep == a # "Store" \/ tag_is(jtlb["Store"][n], va, translation_context(sys))
  IN  IF untranslated(sys, a) THEN [ok |-> TRUE, pp |-> va, tlb |-> tlb, jtlb |-> jtlb, dirty |-> FALSE]
      ELSE IF ~permits(leaf, sys, a) THEN [ok |-> FALSE]
      ELSE [ok |-> TRUE, pp |-> leaf.pp, tlb |-> [tlb EXCEPT ![a][n] = fresh], dirty |-> a = "Store",
            jtlb |-> IF keep THEN jtlb ELSE [jtlb EXCEPT !["Store"][n] = NoTag]]
translate(a, va) ==
  LET e == tlb[a][Line[va]]
  IN  IF tag_is(e, va, translation_context(sys))
      THEN [ok |-> TRUE, pp |-> e.pp, tlb |-> tlb, jtlb |-> jtlb, dirty |-> FALSE]
      ELSE translate_slow(a, va)

(* The dirty bit of a superpage is one bit.                                *)
shares(va, x) == x = va \/ (x \in DOMAIN table[va].span /\ table[x].span = table[va].span)
walked_table(va, dirty) ==
  /\ table' = [x \in Pages |-> [table[x] EXCEPT !.d = @ \/ (dirty /\ shares(va, x))]]
  /\ recent' = [x \in Pages |-> recent[x] \cup {table'[x]}]

jit_fast_off(pp, a) == a = "Load" \/ pp \notin marked
fill_jtlb(j, va, pp, a) ==
  IF a \in Fused /\ jit_fast_off(pp, a) THEN [j EXCEPT ![a][Line[va]] = translation_tag(sys, va, pp)] ELSE j

flush_tlb ==
  /\ tlb' = [a \in Accesses |-> [n \in Lines |-> NoTag]]
  /\ jtlb' = [a \in Fused |-> [n \in Lines |-> NoTag]]
flush_rows(rows, va) == [a \in DOMAIN rows |-> [n \in Lines |-> IF rows[a][n].va = va THEN NoTag ELSE rows[a][n]]]
flush_tlb_only(va) == tlb' = flush_rows(tlb, va) /\ jtlb' = jtlb   \* mutant: the fused rows are forgotten
flush_tlb_page(va) == tlb' = flush_rows(tlb, va) /\ jtlb' = flush_rows(jtlb, va)

(* Which page a fused entry leads to is known from the TLB entry it was    *)
(* made with; without one it goes.                                         *)
invalidate_known_store(n, pp) == jtlb["Store"][n].va # 0 /\ tlb["Store"][n].va # 0 /\ tlb["Store"][n].pp = pp   \* mutant
invalidate_store_jtlb(n, pp) ==
  LET j == jtlb["Store"][n]
      t == tlb["Store"][n]
  IN  j # NoTag /\ (t = NoTag \/ ~tag_is(t, j.va, j.ctx) \/ t.pp = pp)

-----------------------------------------------------------------------------
(* Traps.                                                                  *)
take_trap_spp(s, cause, interrupt) ==   \* mutant: SPP is not recorded
  IF s.mode # Machine /\ cause \in (IF interrupt THEN s.mideleg ELSE s.medeleg)
  THEN [s EXCEPT !.SPIE = s.SIE, !.SIE = FALSE, !.mode = Supervisor]
  ELSE [s EXCEPT !.MPIE = s.MIE, !.MIE = FALSE, !.MPP = s.mode, !.mode = Machine]
take_trap(s, cause, interrupt) ==
  LET deleg == IF interrupt THEN s.mideleg ELSE s.medeleg
  IN  IF s.mode # Machine /\ cause \in deleg
      THEN [s EXCEPT !.SPIE = s.SIE, !.SIE = FALSE, !.SPP = (s.mode = Supervisor), !.mode = Supervisor]
      ELSE [s EXCEPT !.MPIE = s.MIE, !.MIE = FALSE, !.MPP = s.mode, !.mode = Machine]
refresh_jit_tlb_context(s) == context' = translation_context(s)

enter(cause, interrupt) ==
  LET s == take_trap(sys, cause, interrupt)
  IN  /\ sys' = s
      /\ refresh_jit_tlb_context(s)
      /\ frame' = IF s.mode = Supervisor THEN [mode |-> sys.mode, sie |-> sys.SIE] ELSE frame

Priority == <<11, 3, 7, 9, 1, 5>>
deliverable(s, mip) ==
  {irq \in mip \cap s.mie :
     IF irq \in s.mideleg THEN s.mode = User \/ (s.mode = Supervisor /\ s.SIE)
     ELSE s.mode # Machine \/ s.MIE}
sampled(s) == (s.mip \ HW) \cup (lines \cap HW)
can_take == deliverable(sys, sampled(sys))
first_irq(set) == Priority[Min({n \in DOMAIN Priority : Priority[n] \in set})]

(* What may still happen before an interrupt that can be delivered is      *)
(* taken, and how much of it is left.                                      *)
counted(s, ls, waiting, fresh) ==
  LET now == deliverable(s, (s.mip \ HW) \cup (ls \cap HW))
  IN  grace' = IF now = {} THEN Idle ELSE IF can_take # {} THEN waiting ELSE fresh

(* check_interrupts: the lines are sampled, and an interrupt is taken.     *)
check_interrupts(next) ==
  IF can_take = {}
  THEN sys' = [sys EXCEPT !.mip = sampled(sys)] /\ UNCHANGED <<context, frame, grace>>
  ELSE LET s == [take_trap(sys, first_irq(can_take), TRUE) EXCEPT !.mip = sampled(sys)]
       IN  /\ sys' = s
           /\ refresh_jit_tlb_context(s)
           /\ frame' = IF s.mode = Supervisor THEN [mode |-> sys.mode, sie |-> sys.SIE] ELSE frame
           /\ grace' = IF deliverable(s, s.mip) = {} THEN Idle ELSE next

(* The interpreter looks every Interval-th instruction.  run() goes on to  *)
(* the first instruction of the handler; run_decoded() looks again first.  *)
Poll ==
  /\ poll.phase \in {"poll", "interpret"}
  /\ IF poll.cd > 0
     THEN /\ poll' = [cd |-> poll.cd - 1, phase |-> "execute"]
          /\ UNCHANGED <<sys, context, frame, grace>>
     ELSE IF can_take = {} THEN check_interrupts(grace) /\ poll' = [cd |-> Interval, phase |-> "execute"]
     ELSE \/ check_interrupts(Enabled) /\ poll' = [cd |-> 0, phase |-> "poll"]
          \/ check_interrupts(left(1, 1)) /\ poll' = [cd |-> 0, phase |-> "execute"]
  /\ UNCHANGED <<lines, table, recent, tlb, jtlb, marked, code, decoded, guest>>

(* run_full_system_jit.  Between two interpreted blocks the dispatcher may *)
(* run a round of compiled code, which no SYSTEM instruction is part of    *)
(* and which does not poll: up to INTERRUPT_QUANTUM instructions or        *)
(* JIT_CHAIN_CAP dispatches, after which the host looks at the interrupts, *)
(* or until a block is missing, and then the interpreter goes on.          *)
between == poll.phase \in {"poll", "boundary", "interpret"}
Round ==
  /\ uses("compiled") /\ poll.phase = "poll"
  /\ \E next \in {"boundary", "interpret"} : poll' = [poll EXCEPT !.phase = next]
  /\ grace' = IF can_take = {} THEN grace ELSE [grace EXCEPT !.rounds = @ - 1]
  /\ UNCHANGED <<sys, lines, table, recent, tlb, jtlb, context, marked, code, decoded, guest, frame>>

(* The look after a round, and at the start of every slice of the host.    *)
Boundary ==
  /\ uses("compiled") /\ between
  /\ check_interrupts(Enabled)
  /\ poll' = [cd |-> IF can_take = {} THEN poll.cd ELSE 0, phase |-> "poll"]
  /\ UNCHANGED <<lines, table, recent, tlb, jtlb, marked, code, decoded, guest>>

SetLine(irq) ==
  /\ uses("irq")
  /\ \E ls \in {lines \cup {irq}, lines \ {irq}} : ls # lines /\ lines' = ls /\ counted(sys, ls, grace, Risen)
  /\ UNCHANGED <<sys, poll, table, recent, tlb, jtlb, context, marked, code, decoded, guest, frame>>

-----------------------------------------------------------------------------
(* Instructions.  After one the poll is next; some make it due.            *)
one_less == [grace EXCEPT !.insns = @ - 1]
retire_later(s, soon) ==   \* mutant: nothing makes the poll due
  /\ poll' = [poll EXCEPT !.phase = "poll"]
  /\ counted(s, lines, one_less, Enabled)
  /\ UNCHANGED <<lines, guest>>
retire(s, soon) ==
  /\ poll' = [cd |-> IF soon THEN 0 ELSE poll.cd, phase |-> "poll"]
  /\ counted(s, lines, one_less, Enabled)
  /\ UNCHANGED <<lines, guest>>
execute == poll.phase = "execute"
trap(cause) == enter(cause, FALSE) /\ retire(sys', TRUE)
PageFault(a) == CASE a = "Fetch" -> 12 [] a = "Load" -> 13 [] a = "Store" -> 15
Illegal == 2

(* Loads and stores (ld, st).                                              *)
Access(a, va) ==
  LET t == translate(a, va)
  IN  /\ execute /\ uses("memory")
      /\ IF t.ok
         THEN /\ tlb' = t.tlb /\ jtlb' = fill_jtlb(t.jtlb, va, t.pp, a) /\ walked_table(va, t.dirty)
              /\ retire(sys, FALSE)
              /\ UNCHANGED <<sys, context, frame>>
         ELSE trap(PageFault(a)) /\ UNCHANGED <<tlb, jtlb, table, recent>>
      /\ UNCHANGED <<marked, code, decoded>>

(* Compiled code that missed asks for an entry, and never traps; the       *)
(* dispatcher translates the address of an entry the same way.             *)
jit_fill_tlb(a, va) ==
  LET t == translate(a, va)
  IN  /\ uses("memory") /\ between /\ t.ok
      /\ tlb' = t.tlb /\ jtlb' = fill_jtlb(t.jtlb, va, t.pp, a) /\ walked_table(va, t.dirty)
      /\ UNCHANGED <<sys, lines, poll, context, marked, code, decoded, guest, frame, grace>>

(* The page table changes.  A leaf maps all the pages of its span; one     *)
(* whose pages would not be RAM (or that is misaligned, and faults) is     *)
(* left out.                                                               *)
table_writes == Cardinality({[l EXCEPT !.d = FALSE, !.pp = 0] : l \in UNION {recent[va] \ {NoLeaf} : va \in Pages}})
mapped(leaf, span, va) == [leaf EXCEPT !.pp = @ + span[va], !.span = span]
WriteLeaf(span, leaf) ==
  /\ execute /\ uses("table") /\ sys.mode # User /\ table_writes < MaxWrites
  /\ \A va \in DOMAIN span : leaf.pp + span[va] \in Pages
  /\ table' = [va \in Pages |-> IF va \in DOMAIN span THEN mapped(leaf, span, va) ELSE table[va]]
  /\ recent' = [va \in Pages |-> recent[va] \cup {table'[va]}]
  /\ retire(sys, FALSE)
  /\ UNCHANGED <<sys, tlb, jtlb, context, marked, code, decoded, frame>>

(* SFENCE.VMA, for everything or for one address (0: everything).  For an  *)
(* address in a superpage it drops the entries of that page only.          *)
SfenceVma(va) ==
  /\ execute /\ uses("table")
  /\ IF sys.mode = User \/ (sys.mode = Supervisor /\ sys.TVM)
     THEN trap(Illegal) /\ UNCHANGED <<tlb, jtlb, table, recent>>
     ELSE /\ IF va = 0 THEN flush_tlb ELSE flush_tlb_page(va)
          /\ recent' = [x \in Pages |-> IF va \in {0, x} THEN {table[x]} ELSE recent[x]]
          /\ retire(sys, FALSE)
          /\ UNCHANGED <<sys, table, context, frame>>
  /\ UNCHANGED <<marked, code, decoded>>

(* A compile marks the page it read; a drain of dirty pages unmarks it.    *)
code_mark_page(pp) ==
  /\ uses("mark") /\ between
  /\ marked' = IF pp \in marked THEN marked \ {pp} ELSE marked \cup {pp}
  /\ jtlb' = IF pp \in marked THEN jtlb
             ELSE [jtlb EXCEPT !["Store"] = [n \in Lines |-> IF invalidate_store_jtlb(n, pp) THEN NoTag ELSE @[n]]]
  /\ UNCHANGED <<sys, lines, poll, table, recent, tlb, context, code, decoded, guest, frame, grace>>

-----------------------------------------------------------------------------
(* The system instructions.                                                *)
fence_i ==
  /\ decoded.gen < MaxWrites
  /\ decoded' = [decoded EXCEPT !.gen = @ + 1]
  /\ code' = [code EXCEPT !.fenced = code.ver]
Ecall ==
  /\ execute /\ uses("trap") /\ ~(uses("sbi") /\ sys.mode = Supervisor)
  /\ trap(CASE sys.mode = User -> 8 [] sys.mode = Supervisor -> 9 [] sys.mode = Machine -> 11)
  /\ UNCHANGED <<table, recent, tlb, jtlb, marked, code, decoded>>

xret(s) == /\ sys' = s /\ refresh_jit_tlb_context(s) /\ retire(s, TRUE)
Mret ==
  LET mpp == from_bits(sys.MPP)
  IN  /\ execute /\ uses("trap")
      /\ IF sys.mode # Machine THEN trap(Illegal)
         ELSE /\ xret([sys EXCEPT !.MIE = sys.MPIE, !.MPIE = TRUE, !.MPP = User, !.mode = mpp,
                                  !.MPRV = @ /\ mpp = Machine])
              /\ UNCHANGED frame
      /\ UNCHANGED <<table, recent, tlb, jtlb, marked, code, decoded>>
Sret ==
  /\ execute /\ uses("trap")
  /\ IF sys.mode = User \/ (sys.mode = Supervisor /\ sys.TSR) THEN trap(Illegal)
     ELSE /\ xret([sys EXCEPT !.SIE = sys.SPIE, !.SPIE = TRUE, !.SPP = FALSE, !.MPRV = FALSE,
                              !.mode = IF sys.SPP THEN Supervisor ELSE User])
          /\ frame' = NoFrame
  /\ UNCHANGED <<table, recent, tlb, jtlb, marked, code, decoded>>

(* With a direct boot the host serves the supervisor's calls: a timer,     *)
(* which sync_devices looks at again now and then, a remote FENCE.I, the   *)
(* end of the machine, and calls that change nothing here.                 *)
timer_interrupt(due) ==
  LET s == [sys EXCEPT !.mip = IF due THEN @ \cup {STI} ELSE @ \ {STI}]
  IN  sys' = s /\ counted(s, lines, grace, Risen)
service_sbi ==
  /\ execute /\ uses("sbi") /\ sys.mode = Supervisor
  /\ \/ /\ \E due \in BOOLEAN : timer_interrupt(due)
        /\ poll' = [poll EXCEPT !.phase = "poll"]
        /\ UNCHANGED <<code, decoded>>
     \/ /\ \/ fence_i
           \/ UNCHANGED <<code, decoded>>
        /\ \E next \in {"poll", "off"} : poll' = [poll EXCEPT !.phase = next]
        /\ counted(sys, lines, one_less, Enabled)
        /\ UNCHANGED sys
  /\ UNCHANGED <<lines, guest, table, recent, tlb, jtlb, context, marked, frame>>
sync_devices ==
  /\ uses("sbi") /\ between
  /\ \E due \in BOOLEAN : timer_interrupt(due)
  /\ UNCHANGED <<lines, poll, guest, table, recent, tlb, jtlb, context, marked, code, decoded, frame>>

(* WFI only reports an idle hart to the host.                              *)
Wfi ==
  /\ execute /\ uses("irq")
  /\ IF sys.mode = User \/ (sys.mode = Supervisor /\ sys.TW) THEN trap(Illegal)
     ELSE retire(sys, FALSE) /\ UNCHANGED <<sys, context, frame>>
  /\ UNCHANGED <<table, recent, tlb, jtlb, marked, code, decoded>>

(* CSR instructions: a register above the mode's privilege, or satp under  *)
(* TVM, is illegal.  The permission bits are part of the live context.     *)
csr_write(level, s, next_context) ==
  /\ execute
  /\ IF sys.mode < level THEN trap(Illegal)
     ELSE /\ sys' = s /\ context' = next_context /\ retire(s, TRUE)
          /\ frame' = IF s.SPIE = sys.SPIE /\ s.SPP = sys.SPP THEN frame ELSE NoFrame
  /\ UNCHANGED <<table, recent, tlb, jtlb, marked, code, decoded>>
status_write(level, s) == uses("status") /\ csr_write(level, s, translation_context(s))
irq_write(level, s) == uses("irq") /\ csr_write(level, s, context)
with_bits(bits, v) == [f \in DOMAIN sys |-> IF f \in bits \cap DOMAIN v THEN v[f] ELSE sys[f]]
WriteSstatus(v) == status_write(Supervisor, with_bits(SstatusBits, v))
WriteMstatus(v) == status_write(Machine, with_bits(MstatusBits, v))
WriteSie(v) == irq_write(Supervisor, [sys EXCEPT !.mie = (@ \ sys.mideleg) \cup (v \cap sys.mideleg)])
WriteMie(v) == irq_write(Machine, [sys EXCEPT !.mie = v])
WriteSip(v) ==
  LET mask == {1} \cap sys.mideleg IN irq_write(Supervisor, [sys EXCEPT !.mip = (@ \ mask) \cup (v \cap mask)])
WriteMip(v) == irq_write(Machine, [sys EXCEPT !.mip = (@ \ {1, 5, 9}) \cup (v \cap {1, 5, 9})])
WriteMideleg(v) == irq_write(Machine, [sys EXCEPT !.mideleg = v \cap {1, 5, 9}])

(* satp: the TLBs go even when the value stays.                            *)
WriteSatp(v) ==
  /\ execute /\ uses("table")
  /\ IF sys.mode < Supervisor \/ (sys.mode = Supervisor /\ sys.TVM)
     THEN trap(Illegal) /\ UNCHANGED <<tlb, jtlb, table, recent>>
     ELSE /\ sys' = [sys EXCEPT !.satp = v]
          /\ flush_tlb
          /\ recent' = [va \in Pages |-> {table[va]}]
          /\ retire(sys', TRUE)
          /\ UNCHANGED <<table, context, frame>>
  /\ UNCHANGED <<marked, code, decoded>>

-----------------------------------------------------------------------------
(* The interpreter's decoded pages.  Code is written by stores; FENCE.I    *)
(* makes the writes visible.  A block is decoded up to its last            *)
(* instruction, and a full arena starts the page over.                     *)
WriteCode(pp) ==
  /\ uses("code") /\ execute /\ code.ver[pp] < MaxWrites
  /\ code' = [code EXCEPT !.ver[pp] = @ + 1]
  /\ retire(sys, FALSE)
  /\ UNCHANGED <<sys, table, recent, tlb, jtlb, context, marked, decoded, frame>>
FenceI ==
  /\ uses("code") /\ execute
  /\ fence_i
  /\ retire(sys, FALSE)
  /\ UNCHANGED <<sys, table, recent, tlb, jtlb, context, marked, frame>>

same_page_only(d, pp) == d.page = pp   \* mutant: the generation is not compared
holds_page(d, pp) == d.page = pp /\ d.page_gen = d.gen
empty == [o \in {0, 1} |-> -1]
block(pp, o) ==
  \E full \in BOOLEAN, last \in o..1 :
    LET d == IF holds_page(decoded, pp) THEN decoded
             ELSE [decoded EXCEPT !.page = pp, !.page_gen = decoded.gen, !.blocks = empty]
        room == IF full /\ d.blocks[o] = -1 THEN empty ELSE d.blocks
    IN  decoded' = [d EXCEPT !.blocks = [n \in {0, 1} |-> IF room[o] = -1 /\ n \in o..last THEN code.ver[pp] ELSE room[n]]]
RunCached(pp, o) ==
  /\ uses("code") /\ execute
  /\ block(pp, o)
  /\ retire(sys, FALSE)
  /\ UNCHANGED <<sys, table, recent, tlb, jtlb, context, marked, code, frame>>

IrqSets == SUBSET guest.irqs
Memory == \/ \E a \in guest.accesses, va \in Pages : Access(a, va)
          \/ \E a \in guest.accesses, va \in Pages : jit_fill_tlb(a, va)
          \/ \E span \in Spans, leaf \in guest.leaves : WriteLeaf(span, leaf)
          \/ \E va \in Pages \cup {0} : SfenceVma(va)
          \/ \E v \in {"bare", "paged"} : WriteSatp(v)
          \/ \E pp \in Pages : code_mark_page(pp)
System == \/ service_sbi \/ sync_devices
          \/ Ecall \/ Mret \/ Sret \/ Wfi
          \/ \E v \in guest.status : WriteSstatus(v) \/ WriteMstatus(v)
          \/ \E v \in IrqSets : WriteSie(v) \/ WriteMie(v) \/ WriteSip(v) \/ WriteMip(v) \/ WriteMideleg(v)
Code == \/ FenceI \/ \E pp \in Pages : WriteCode(pp) \/ \E o \in {0, 1} : RunCached(pp, o)
Next == Poll \/ Round \/ Boundary \/ (\E irq \in guest.irqs \cap HW : SetLine(irq)) \/ Memory \/ System \/ Code
Spec == Init /\ [][Next]_vars

-----------------------------------------------------------------------------
(* A translation that is found in a TLB now, by the interpreter under the  *)
(* current mode or by compiled code under the live context, is one that a  *)
(* page table in force since the last fence grants to this mode and this   *)
(* access, with the dirty bit set for a store: traps, returns and writes   *)
(* to mstatus change what is permitted without a flush.  A fence counts    *)
(* for a page if it named that page or none: one that names another page   *)
(* of the same superpage leaves the page's entry where the ISA would have  *)
(* it gone (flush_tlb_page compares one 4 KiB page number).                *)
granted(va, a, pp) ==
  IF untranslated(sys, a) THEN pp = va
  ELSE \E leaf \in recent[va] : permits(leaf, sys, a) /\ leaf.pp = pp /\ (a = "Store" => leaf.d)
TranslationsPermitted ==
  \A va \in Pages :
    /\ \A a \in Accesses : LET e == tlb[a][Line[va]]
                           IN  tag_is(e, va, translation_context(sys)) => granted(va, a, e.pp)
    /\ \A a \in Fused : LET e == jtlb[a][Line[va]] IN tag_is(e, va, context) => granted(va, a, e.pp)

(* No fused store entry leads to a page that holds compiled code, whatever *)
(* the context it was made in: compiled stores must go to the interpreter  *)
(* there, which notes the write.                                           *)
StoresSeeCode == \A n \in Lines : jtlb["Store"][n] # NoTag => jtlb["Store"][n].pp \notin marked

(* What the interpreter may run from its decoded pages is at least as new  *)
(* as the bytes were at the last FENCE.I.                                  *)
DecodedFresh ==
  decoded.page # 0 /\ holds_page(decoded, decoded.page) =>
    \A o \in {0, 1} : decoded.blocks[o] = -1 \/ decoded.blocks[o] >= code.fenced[decoded.page]

(* An interrupt the guest's own instruction makes deliverable is taken     *)
(* before the interpreter runs another instruction and after at most one   *)
(* round of compiled code, which is not "at once" (cpu.rs:208-212): the    *)
(* interpreter may leave for compiled code before it polls.  One whose     *)
(* line or timer rises is taken within Interval + 1 instructions of the    *)
(* interpreter and Interval + 1 rounds.                                    *)
InterruptsPrompt == grace.insns >= 0 /\ grace.rounds >= 0

(* A return from S-mode restores the mode and the interrupt enable that    *)
(* the trap into it found, whatever traps into M-mode came in between.     *)
ReturnsRestore ==
  [][Sret /\ frame # NoFrame /\ sys.mode = Supervisor /\ ~sys.TSR
       => sys'.mode = frame.mode /\ sys'.SIE = frame.sie]_vars
=============================================================================
