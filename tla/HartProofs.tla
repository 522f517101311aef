------------------------------ MODULE HartProofs ------------------------------
(***************************************************************************)
(* Proofs about Hart for any set of pages and guests, any table they       *)
(* write, any poll interval: translations, compiled stores, decoded code,  *)
(* the polling of interrupts and what a return from S-mode restores.       *)
(***************************************************************************)
EXTENDS Hart, TLAPS

Contexts == Modes \X Modes \X BOOLEAN \X BOOLEAN
Entries == {NoTag} \cup [va : Pages, ctx : Contexts, pp : Nat]

Phases == {"poll", "boundary", "interpret", "execute", "off"}
Graces == [insns : Int, rounds : Int]

TypeOK ==
  /\ guest \in Guests
  /\ sys \in SysCsrs
  /\ lines \subseteq Nat
  /\ poll \in [cd : 0..Interval, phase : Phases]
  /\ table \in [Pages -> Leaves]
  /\ recent \in [Pages -> SUBSET Leaves]
  /\ tlb \in [Accesses -> [Lines -> Entries]]
  /\ jtlb \in [Fused -> [Lines -> Entries]]
  /\ marked \subseteq Pages
  /\ code \in [ver : [Pages -> Nat], fenced : [Pages -> Nat]]
  /\ decoded \in [gen : Nat, page : Pages \cup {0}, page_gen : Nat, blocks : [{0, 1} -> Nat \cup {-1}]]
  /\ frame \in [mode : Modes \cup {-1}, sie : BOOLEAN]
  /\ grace \in Graces

-----------------------------------------------------------------------------
(* The parts of the inductive invariant.                                   *)

(* What a translation may be used for is a matter of the context in its    *)
(* tag, so it can be said of an entry whatever the mode is now.            *)
context_mode(ctx, a) == IF a = "Fetch" THEN ctx[1] ELSE ctx[2]
walks(ctx, a) == sys.satp # "bare" /\ context_mode(ctx, a) # Machine
context_permits(leaf, ctx, a) ==
  /\ leaf.v /\ ~(~leaf.r /\ leaf.w)
  /\ IF context_mode(ctx, a) = User THEN leaf.u ELSE ~leaf.u \/ (ctx[3] /\ a # "Fetch")
  /\ a = "Fetch" => leaf.x
  /\ a = "Load" => leaf.r \/ (ctx[4] /\ leaf.x)
  /\ a = "Store" => leaf.w
context_grants(ctx, va, a, pp) ==
  IF walks(ctx, a)
  THEN \E leaf \in recent[va] : context_permits(leaf, ctx, a) /\ leaf.pp = pp /\ (a = "Store" => leaf.d)
  ELSE pp = va
EntryGranted(e, a) == e # NoTag => context_grants(e.ctx, e.va, a, e.pp)

(* A TLB entry comes from a walk, and every entry is granted.              *)
TlbGranted ==
  /\ \A va \in Pages : table[va] \in recent[va]
  /\ \A a \in Accesses : \A n \in Lines :
       EntryGranted(tlb[a][n], a) /\ (tlb[a][n] # NoTag => walks(tlb[a][n].ctx, a))
  /\ \A a \in Fused : \A n \in Lines : EntryGranted(jtlb[a][n], a)

(* A fused store entry that needed a walk is backed by the TLB entry, so   *)
(* that marking a page finds every entry that leads to it.                 *)
StoresBacked ==
  \A n \in Lines :
    LET j == jtlb["Store"][n]
        t == tlb["Store"][n]
    IN  j # NoTag /\ walks(j.ctx, "Store") => tag_is(t, j.va, j.ctx) /\ t.pp = j.pp

Translation == TlbGranted /\ StoresBacked /\ StoresSeeCode

ContextLive == context = translation_context(sys)

(* The bytes at the last FENCE.I are no newer than the bytes now, and a    *)
(* page decoded since then was decoded from such bytes.                    *)
CodeFresh ==
  /\ \A p \in Pages : code.fenced[p] <= code.ver[p]
  /\ decoded.page_gen <= decoded.gen
  /\ decoded.page # 0 /\ decoded.page_gen = decoded.gen =>
       \A o \in {0, 1} : decoded.blocks[o] = -1 \/ decoded.blocks[o] >= code.fenced[decoded.page]

(* The countdown to the next look at the interrupts never outlasts what a  *)
(* deliverable interrupt may still wait, in instructions and in rounds of  *)
(* compiled code: at most one round comes before each instruction.         *)
PollInTime ==
  /\ grace.insns >= 0 /\ grace.rounds >= 0
  /\ poll.phase = "poll" => grace.insns >= poll.cd /\ grace.rounds > poll.cd
  /\ poll.phase = "interpret" => grace.insns >= poll.cd /\ grace.rounds >= poll.cd
  /\ poll.phase = "execute" => grace.insns > poll.cd /\ grace.rounds > poll.cd
  /\ can_take = {} => grace = Idle

(* SPP and SPIE keep what the trap in progress found.                      *)
FrameKept ==
  frame # NoFrame => /\ frame.mode = IF sys.SPP THEN Supervisor ELSE User
                     /\ frame.sie = sys.SPIE

IInv == TypeOK /\ Translation /\ ContextLive /\ CodeFresh /\ PollInTime /\ FrameKept

-----------------------------------------------------------------------------
(* Lemmas about the operators.                                             *)
LEMMA ContextFacts ==
  ASSUME NEW s \in SysCsrs
  PROVE  /\ translation_context(s) \in Contexts
         /\ \A a \in Accesses : /\ eff_mode(s, a) \in Modes
                                /\ eff_mode(s, a) = context_mode(translation_context(s), a)
  <1>1. s.mode \in Modes /\ data_mode(s) \in Modes /\ s.SUM \in BOOLEAN /\ s.MXR \in BOOLEAN
    BY DEF SysCsrs, data_mode, from_bits, Modes, User, Supervisor, Machine
  <1> QED BY <1>1 DEF translation_context, Contexts, eff_mode, context_mode

(* Whether a leaf permits an access is decided by the context alone.       *)
LEMMA PermitsByContext ==
  ASSUME TypeOK, NEW a \in Accesses, NEW leaf \in Leaves, walks(translation_context(sys), a)
  PROVE  permits(leaf, sys, a) <=> context_permits(leaf, translation_context(sys), a)
  <1> DEFINE ctx == translation_context(sys)
  <1>1. eff_mode(sys, a) = context_mode(ctx, a) /\ context_mode(ctx, a) \in {User, Supervisor}
    BY ContextFacts DEF TypeOK, walks, Modes
  <1>2. ctx[3] = sys.SUM /\ ctx[4] = sys.MXR
    BY DEF translation_context
  <1>3. User # Supervisor
    BY DEF User, Supervisor
  <1>4. /\ leaf.v \in BOOLEAN /\ leaf.r \in BOOLEAN /\ leaf.w \in BOOLEAN
        /\ leaf.x \in BOOLEAN /\ leaf.u \in BOOLEAN /\ sys.SUM \in BOOLEAN /\ sys.MXR \in BOOLEAN
    BY DEF TypeOK, Leaves, SysCsrs
  <1> HIDE DEF ctx
  <1>5. CASE a = "Fetch"
    BY <1>4, <1>1, <1>2, <1>3, <1>5 DEF permits, context_permits, ctx
  <1>6. CASE a = "Load"
    BY <1>4, <1>1, <1>2, <1>3, <1>6 DEF permits, context_permits, ctx
  <1>7. CASE a = "Store"
    BY <1>4, <1>1, <1>2, <1>3, <1>7 DEF permits, context_permits, ctx
  <1> QED BY <1>5, <1>6, <1>7 DEF Accesses, ctx

LEMMA UntranslatedByContext ==
  ASSUME TypeOK, NEW a \in Accesses
  PROVE  untranslated(sys, a) <=> ~walks(translation_context(sys), a)
  BY ContextFacts DEF TypeOK, untranslated, walks

(* A trap, of an exception or an interrupt.                                *)
LEMMA TrapState ==
  ASSUME NEW s \in SysCsrs, NEW cause, NEW interrupt \in BOOLEAN,
         NEW t, t = take_trap(s, cause, interrupt)
  PROVE  /\ t \in SysCsrs /\ t.satp = s.satp /\ t.mode \in {Supervisor, Machine}
         /\ t.mip = s.mip
         /\ t.mode = Supervisor =>
              t.SPIE = s.SIE /\ t.SPP = (s.mode = Supervisor) /\ s.mode \in {User, Supervisor}
         /\ t.mode # Supervisor => t.SPIE = s.SPIE /\ t.SPP = s.SPP
  <1>1. CASE s.mode # Machine /\ cause \in (IF interrupt THEN s.mideleg ELSE s.medeleg)
    <2>1. t = [s EXCEPT !.SPIE = s.SIE, !.SIE = FALSE, !.SPP = (s.mode = Supervisor), !.mode = Supervisor]
      BY <1>1 DEF take_trap
    <2>2. (s.mode = Supervisor) \in BOOLEAN /\ Supervisor \in Modes
      BY DEF Modes
    <2>3. t \in SysCsrs
      BY <2>1, <2>2 DEF SysCsrs
    <2>4. t.satp = s.satp /\ t.mode = Supervisor /\ t.mip = s.mip /\ t.SPIE = s.SIE
      BY <2>1 DEF SysCsrs
    <2>5. t.SPP = (s.mode = Supervisor)
      BY <2>1 DEF SysCsrs
    <2>6. s.mode \in {User, Supervisor}
      BY <1>1 DEF SysCsrs, Modes
    <2> QED BY <2>3, <2>4, <2>5, <2>6
  <1>2. CASE ~(s.mode # Machine /\ cause \in (IF interrupt THEN s.mideleg ELSE s.medeleg))
    <2>1. t = [s EXCEPT !.MPIE = s.MIE, !.MIE = FALSE, !.MPP = s.mode, !.mode = Machine]
      BY <1>2 DEF take_trap
    <2>2. s.mode \in 0..3 /\ Machine \in Modes
      BY DEF SysCsrs, Modes, User, Supervisor, Machine
    <2>3. t \in SysCsrs
      BY <2>1, <2>2 DEF SysCsrs
    <2>4. t.satp = s.satp /\ t.mode = Machine /\ t.mip = s.mip /\ t.SPIE = s.SPIE /\ t.SPP = s.SPP
      BY <2>1 DEF SysCsrs
    <2>5. Machine # Supervisor
      BY DEF Machine, Supervisor
    <2> QED BY <2>3, <2>4, <2>5
  <1> QED BY <1>1, <1>2

-----------------------------------------------------------------------------
LEMMA InitIInv == Init => IInv
  <1> SUFFICES ASSUME Init PROVE IInv
    OBVIOUS
  <1> USE HartAssumption DEF Init, HartAssumption
  <1>1. sys \in SysCsrs /\ Interval \in Nat
    BY DEF Interval
  <1>2. NoTag \in Entries /\ NoLeaf \in Leaves /\ NoFrame \in [mode : Modes \cup {-1}, sie : BOOLEAN]
    BY DEF Entries, NoLeaf, Leaves, NoFrame
  <1>3. Idle \in Graces /\ Idle.insns >= 0 /\ Idle.rounds > 0 /\ Idle.rounds >= 0
    BY <1>1 DEF Idle, left, Graces
  <1>8. TypeOK
    BY <1>1, <1>2, <1>3 DEF TypeOK, Phases
  <1>4. Translation
    BY DEF Translation, TlbGranted, EntryGranted, StoresBacked, StoresSeeCode, Fused
  <1>5. ContextLive
    BY <1>1 DEF ContextLive, translation_context, data_mode
  <1>6. CodeFresh
    BY DEF CodeFresh
  <1>7. PollInTime /\ FrameKept
    <2>1. poll.cd = 0 /\ poll.phase = "poll" /\ grace = Idle
      OBVIOUS
    <2>2. PollInTime
      BY <1>1, <1>3, <2>1 DEF PollInTime
    <2>3. FrameKept
      BY DEF FrameKept
    <2> QED BY <2>2, <2>3
  <1> QED BY <1>4, <1>5, <1>6, <1>7, <1>8 DEF IInv

-----------------------------------------------------------------------------
(* What a step leaves alone keeps its part of the invariant.               *)
LEMMA TranslationKept ==
  ASSUME TypeOK, Translation, sys'.satp = sys.satp, UNCHANGED << table, recent, tlb, jtlb, marked >>
  PROVE  Translation'
  <1>1. \A ctx, va, a, pp : context_grants(ctx, va, a, pp)' = context_grants(ctx, va, a, pp)
    BY DEF context_grants, walks
  <1>2. \A ctx, a : walks(ctx, a)' = walks(ctx, a)
    BY DEF walks
  <1>3. TlbGranted'
    BY <1>1, <1>2 DEF Translation, TlbGranted, EntryGranted
  <1>4. StoresBacked' /\ StoresSeeCode'
    BY <1>2 DEF Translation, StoresBacked, StoresSeeCode
  <1> QED BY <1>3, <1>4 DEF Translation

LEMMA CodeKept ==
  ASSUME CodeFresh, UNCHANGED << code, decoded >>
  PROVE  CodeFresh'
  BY DEF CodeFresh

LEMMA FrameStays ==
  ASSUME FrameKept, frame' = frame, sys'.SPP = sys.SPP, sys'.SPIE = sys.SPIE
  PROVE  FrameKept'
  BY DEF FrameKept

(* What may be left before an interrupt is taken.                          *)
LEMMA GraceFacts ==
  ASSUME TypeOK
  PROVE  /\ Interval \in Nat
         /\ Idle \in Graces /\ Idle.insns = Interval + 2 /\ Idle.rounds = Interval + 2
         /\ Risen \in Graces /\ Risen.insns = Interval + 1 /\ Risen.rounds = Interval + 1
         /\ Enabled \in Graces /\ Enabled.insns = 0 /\ Enabled.rounds = 1
         /\ one_less \in Graces /\ one_less.insns = grace.insns - 1 /\ one_less.rounds = grace.rounds
         /\ guest' = guest => Idle' = Idle /\ Interval' = Interval
  <1>1. Interval \in Nat
    BY HartAssumption DEF HartAssumption, TypeOK, Interval
  <1>2. grace \in Graces /\ one_less = [grace EXCEPT !.insns = @ - 1]
    BY DEF TypeOK, one_less
  <1>3. guest' = guest => Interval' = Interval
    BY DEF Interval
  <1>4. Idle' = [insns |-> Interval' + 2, rounds |-> Interval' + 2]
    BY DEF Idle, left
  <1> QED BY <1>1, <1>2, <1>3, <1>4 DEF Idle, Risen, Enabled, left, Graces

LEMMA PollKept ==
  ASSUME TypeOK, PollInTime, UNCHANGED << sys, lines, poll, guest, grace >>
  PROVE  PollInTime'
  <1>1. (can_take)' = can_take /\ Idle' = Idle
    BY GraceFacts DEF can_take, deliverable, sampled
  <1> QED BY <1>1 DEF PollInTime

(* The next interrupts are those of the new state and lines.               *)
LEMMA CountedGrace ==
  ASSUME NEW s, NEW ls, NEW waiting \in Graces, NEW fresh \in Graces, TypeOK,
         sys' = s, lines' = ls, guest' = guest, counted(s, ls, waiting, fresh)
  PROVE  /\ grace' \in Graces
         /\ grace' = IF (can_take)' = {} THEN Idle ELSE IF can_take # {} THEN waiting ELSE fresh
  <1>1. (can_take)' = deliverable(s, (s.mip \ HW) \cup (ls \cap HW))
    BY DEF can_take, sampled, deliverable
  <1> QED BY <1>1, GraceFacts DEF counted

(* An instruction retires: one instruction less is left, and the poll is   *)
(* due if it may have made an interrupt deliverable.                       *)
LEMMA RetireKeeps ==
  ASSUME TypeOK, PollInTime, execute, NEW s, sys' = s, NEW soon \in BOOLEAN, retire(s, soon),
         soon \/ sys' = sys
  PROVE  /\ PollInTime' /\ grace' \in Graces /\ UNCHANGED << lines, guest >>
         /\ poll' \in [cd : 0..Interval, phase : Phases]
  <1>1. UNCHANGED << lines, guest >> /\ counted(s, lines, one_less, Enabled)
        /\ poll' = [cd |-> IF soon THEN 0 ELSE poll.cd, phase |-> "poll"]
    BY DEF retire
  <1>2. Interval \in Nat /\ poll.cd \in 0..Interval
    BY GraceFacts DEF TypeOK
  <1>3. grace' \in Graces /\ grace' = IF (can_take)' = {} THEN Idle ELSE IF can_take # {} THEN one_less ELSE Enabled
    BY <1>1, CountedGrace, GraceFacts
  <1>4. grace \in Graces /\ grace.insns > poll.cd /\ grace.rounds > poll.cd
    BY DEF execute, PollInTime, TypeOK
  <1>5. sys' = sys => (can_take)' = can_take
    BY <1>1 DEF can_take, sampled, deliverable
  <1>6. poll'.cd = (IF soon THEN 0 ELSE poll.cd) /\ poll'.phase = "poll"
    BY <1>1
  <1>7. poll' \in [cd : 0..Interval, phase : Phases]
    BY <1>1, <1>2 DEF Phases
  <1>8. /\ grace'.insns >= poll'.cd /\ grace'.insns >= 0
        /\ grace'.rounds > poll'.cd /\ grace'.rounds >= 0
    <2>1. CASE (can_take)' = {}
      BY <1>2, <1>3, <1>6, <2>1, GraceFacts
    <2>2. CASE (can_take)' # {} /\ can_take # {}
      BY <1>2, <1>3, <1>4, <1>6, <2>2, GraceFacts DEF Graces
    <2>3. CASE (can_take)' # {} /\ can_take = {}
      <3>1. poll'.cd = 0
        BY <1>5, <1>6, <2>3
      <3> QED BY <1>3, <2>3, <3>1, GraceFacts
    <2> QED BY <2>1, <2>2, <2>3
  <1>9. PollInTime'
    BY <1>1, <1>3, <1>6, <1>8, GraceFacts DEF PollInTime
  <1> QED BY <1>1, <1>3, <1>7, <1>9

(* A trap or an interrupt enters its handler.                              *)
LEMMA EnterKeeps ==
  ASSUME TypeOK, FrameKept, NEW cause, NEW interrupt \in BOOLEAN, enter(cause, interrupt)
  PROVE  /\ sys' \in SysCsrs /\ sys'.satp = sys.satp /\ ContextLive' /\ FrameKept'
         /\ frame' \in [mode : Modes \cup {-1}, sie : BOOLEAN]
  <1> DEFINE t == take_trap(sys, cause, interrupt)
  <1>1. /\ sys' = t /\ context' = translation_context(t)
        /\ frame' = IF t.mode = Supervisor THEN [mode |-> sys.mode, sie |-> sys.SIE] ELSE frame
    BY DEF enter, refresh_jit_tlb_context
  <1>2. /\ t \in SysCsrs /\ t.satp = sys.satp
        /\ t.mode = Supervisor => t.SPIE = sys.SIE /\ t.SPP = (sys.mode = Supervisor) /\ sys.mode \in {User, Supervisor}
        /\ t.mode # Supervisor => t.SPIE = sys.SPIE /\ t.SPP = sys.SPP
    BY TrapState DEF TypeOK
  <1> HIDE DEF t
  <1>3. ContextLive'
    BY <1>1 DEF ContextLive, translation_context, data_mode, from_bits
  <1>4. CASE t.mode = Supervisor
    <2>1. frame' = [mode |-> sys.mode, sie |-> sys.SIE]
      BY <1>1, <1>4
    <2>2. frame' \in [mode : Modes \cup {-1}, sie : BOOLEAN]
      BY <2>1 DEF TypeOK, SysCsrs
    <2>3. frame'.mode = IF sys.mode = Supervisor THEN Supervisor ELSE User
      BY <1>2, <1>4, <2>1
    <2>4. sys'.SPP <=> sys.mode = Supervisor
      BY <1>1, <1>2, <1>4
    <2>5. frame'.mode = IF sys'.SPP THEN Supervisor ELSE User
      BY <2>3, <2>4
    <2>6. frame'.sie = sys'.SPIE
      BY <1>1, <1>2, <1>4, <2>1
    <2>7. FrameKept'
      BY <2>5, <2>6 DEF FrameKept
    <2> QED BY <1>1, <1>2, <1>3, <2>2, <2>7
  <1>5. CASE t.mode # Supervisor
    BY <1>1, <1>2, <1>3, <1>5, FrameStays DEF TypeOK
  <1> QED BY <1>4, <1>5

-----------------------------------------------------------------------------
(* The steps that trap, and those that change the privileged state.        *)
Untouched == UNCHANGED << table, recent, tlb, jtlb, marked, code, decoded >>

LEMMA UntouchedKeeps ==
  ASSUME IInv, Untouched, sys' \in SysCsrs, sys'.satp = sys.satp, guest' = guest
  PROVE  /\ Translation' /\ CodeFresh'
         /\ (/\ lines' \subseteq Nat
             /\ poll' \in [cd : 0..Interval, phase : Phases]
             /\ frame' \in [mode : Modes \cup {-1}, sie : BOOLEAN]
             /\ grace' \in Graces) => TypeOK'
  <1>1. Translation' /\ CodeFresh'
    BY TranslationKept, CodeKept DEF IInv, Untouched
  <1>2. Interval' = Interval
    BY DEF Interval
  <1> QED BY <1>1, <1>2 DEF IInv, TypeOK, Untouched

LEMMA TrapStep ==
  ASSUME IInv, execute, NEW cause, trap(cause), Untouched
  PROVE  IInv'
  <1>1. /\ sys' \in SysCsrs /\ sys'.satp = sys.satp /\ ContextLive' /\ FrameKept'
        /\ frame' \in [mode : Modes \cup {-1}, sie : BOOLEAN]
    BY EnterKeeps DEF trap, IInv
  <1>2. /\ PollInTime' /\ grace' \in Graces /\ UNCHANGED << lines, guest >>
        /\ poll' \in [cd : 0..Interval, phase : Phases]
    BY RetireKeeps DEF trap, IInv
  <1> QED BY <1>1, <1>2, UntouchedKeeps DEF IInv, TypeOK

(* An instruction of its own that changes the privileged state.            *)
LEMMA StateStep ==
  ASSUME IInv, execute, NEW s \in SysCsrs, s.satp = sys.satp, sys' = s,
         NEW soon \in BOOLEAN, retire(s, soon), soon \/ sys' = sys, Untouched,
         ContextLive', FrameKept', frame' \in [mode : Modes \cup {-1}, sie : BOOLEAN]
  PROVE  IInv'
  <1>1. /\ PollInTime' /\ grace' \in Graces /\ UNCHANGED << lines, guest >>
        /\ poll' \in [cd : 0..Interval, phase : Phases]
    BY RetireKeeps DEF IInv
  <1> QED BY <1>1, UntouchedKeeps DEF IInv, TypeOK

LEMMA NoFrameType == NoFrame \in [mode : Modes \cup {-1}, sie : BOOLEAN]
  BY DEF NoFrame

(* The CSR instructions.                                                   *)
LEMMA CsrStep ==
  ASSUME IInv, NEW level, NEW s \in SysCsrs, s.satp = sys.satp,
         NEW next_context, next_context = translation_context(s),
         csr_write(level, s, next_context)
  PROVE  IInv'
  <1>1. execute /\ Untouched
    BY DEF csr_write, Untouched
  <1>2. CASE sys.mode < level
    BY <1>1, <1>2, TrapStep DEF csr_write
  <1>3. CASE ~(sys.mode < level)
    <2>1. /\ sys' = s /\ context' = translation_context(s) /\ retire(s, TRUE)
          /\ frame' = IF s.SPIE = sys.SPIE /\ s.SPP = sys.SPP THEN frame ELSE NoFrame
      BY <1>3 DEF csr_write
    <2>2. ContextLive'
      BY <2>1 DEF ContextLive, translation_context, data_mode, from_bits
    <2>3. FrameKept' /\ frame' \in [mode : Modes \cup {-1}, sie : BOOLEAN]
      BY <2>1, FrameStays, NoFrameType DEF FrameKept, IInv, TypeOK
    <2> QED BY <1>1, <2>1, <2>2, <2>3, StateStep
  <1> QED BY <1>2, <1>3

LEMMA StatusStep ==
  ASSUME IInv, NEW v, \A f \in DOMAIN v : f \in MstatusBits /\ v[f] \in status_field(f),
         NEW level, NEW bits, bits \subseteq MstatusBits, status_write(level, with_bits(bits, v))
  PROVE  IInv'
  <1> DEFINE s == with_bits(bits, v)
  <1>1. s = [f \in DOMAIN sys |-> IF f \in bits \cap DOMAIN v THEN v[f] ELSE sys[f]]
    BY DEF with_bits
  <1>2. DOMAIN sys = {"mode", "satp", "mie", "mip", "mideleg", "medeleg"} \cup MstatusBits
    BY DEF IInv, TypeOK, SysCsrs, MstatusBits, SstatusBits
  <1>3. \A f \in DOMAIN sys : f \notin MstatusBits => s[f] = sys[f]
    BY <1>1
  <1>4. \A f \in MstatusBits : s[f] \in status_field(f)
    <2>1. \A f \in MstatusBits : sys[f] \in status_field(f)
      BY DEF IInv, TypeOK, SysCsrs, MstatusBits, SstatusBits, status_field
    <2> QED BY <1>1, <1>2, <2>1
  <1> HIDE DEF s
  <1>5. s \in SysCsrs
    BY <1>1, <1>2, <1>3, <1>4 DEF IInv, TypeOK, SysCsrs, MstatusBits, SstatusBits, status_field
  <1>6. s.satp = sys.satp
    BY <1>2, <1>3 DEF MstatusBits, SstatusBits
  <1> QED BY <1>5, <1>6, CsrStep DEF status_write, s


LEMMA IrqWriteStep ==
  ASSUME IInv, NEW v, v \subseteq Nat,
         WriteSie(v) \/ WriteMie(v) \/ WriteSip(v) \/ WriteMip(v) \/ WriteMideleg(v)
  PROVE  IInv'
  <1> USE DEF IInv, TypeOK
  <1>1. \A s, level : /\ s \in SysCsrs /\ s.satp = sys.satp /\ irq_write(level, s)
                      /\ translation_context(s) = translation_context(sys)
                      => IInv'
    BY CsrStep DEF irq_write, ContextLive
  <1>2. /\ sys.mie \subseteq Nat /\ sys.mip \subseteq Nat /\ sys.mideleg \subseteq Nat
        /\ {1, 5, 9} \subseteq Nat
    BY DEF SysCsrs
  <1> HIDE DEF IInv, TypeOK
  <1>3. ASSUME NEW x \in SUBSET Nat, NEW s,
               \/ s = [sys EXCEPT !.mie = x] \/ s = [sys EXCEPT !.mip = x] \/ s = [sys EXCEPT !.mideleg = x]
        PROVE  s \in SysCsrs /\ s.satp = sys.satp /\ translation_context(s) = translation_context(sys)
    <2>1. CASE s = [sys EXCEPT !.mie = x]
      BY <2>1 DEF IInv, TypeOK, SysCsrs, translation_context, data_mode
    <2>2. CASE s = [sys EXCEPT !.mip = x]
      BY <2>2 DEF IInv, TypeOK, SysCsrs, translation_context, data_mode
    <2>3. CASE s = [sys EXCEPT !.mideleg = x]
      BY <2>3 DEF IInv, TypeOK, SysCsrs, translation_context, data_mode
    <2> QED BY <1>3, <2>1, <2>2, <2>3
  <1>4. CASE WriteSie(v)
    BY <1>1, <1>2, <1>3, <1>4 DEF WriteSie
  <1>5. CASE WriteMie(v)
    BY <1>1, <1>3, <1>5 DEF WriteMie
  <1>6. CASE WriteSip(v)
    BY <1>1, <1>2, <1>3, <1>6 DEF WriteSip
  <1>7. CASE WriteMip(v)
    BY <1>1, <1>2, <1>3, <1>7 DEF WriteMip
  <1>8. CASE WriteMideleg(v)
    BY <1>1, <1>2, <1>3, <1>8 DEF WriteMideleg
  <1> QED BY <1>4, <1>5, <1>6, <1>7, <1>8

LEMMA EcallStep ==
  ASSUME IInv, Ecall
  PROVE  IInv'
  <1>1. execute /\ Untouched /\ \E cause : trap(cause)
    BY DEF Ecall, Untouched
  <1> QED BY <1>1, TrapStep

LEMMA WfiStep ==
  ASSUME IInv, Wfi
  PROVE  IInv'
  <1>1. execute /\ Untouched
    BY DEF Wfi, Untouched
  <1>2. CASE trap(Illegal)
    BY <1>1, <1>2, TrapStep
  <1>3. CASE retire(sys, FALSE) /\ UNCHANGED << sys, context, frame >>
    <2>1. ContextLive' /\ FrameKept'
      BY <1>3, FrameStays DEF ContextLive, IInv
    <2> QED BY <1>1, <1>3, <2>1, StateStep DEF IInv, TypeOK
  <1> QED BY <1>2, <1>3 DEF Wfi

(* The returns from a trap.                                                *)
LEMMA MretStep ==
  ASSUME IInv, Mret
  PROVE  IInv'
  <1> DEFINE mpp == from_bits(sys.MPP)
             s == [sys EXCEPT !.MIE = sys.MPIE, !.MPIE = TRUE, !.MPP = User, !.mode = mpp,
                              !.MPRV = @ /\ mpp = Machine]
  <1>1. execute /\ Untouched
    BY DEF Mret, Untouched
  <1>2. CASE trap(Illegal)
    BY <1>1, <1>2, TrapStep
  <1>3. CASE xret(s) /\ UNCHANGED frame
    <2>1. mpp \in Modes /\ User \in 0..3 /\ (sys.MPRV /\ mpp = Machine) \in BOOLEAN
      BY DEF IInv, TypeOK, SysCsrs, from_bits, Modes, User, Supervisor, Machine
    <2> HIDE DEF mpp
    <2>2. s \in SysCsrs /\ s.satp = sys.satp /\ s.SPP = sys.SPP /\ s.SPIE = sys.SPIE
      BY <2>1 DEF IInv, TypeOK, SysCsrs
    <2> HIDE DEF s
    <2>3. sys' = s /\ context' = translation_context(s) /\ retire(s, TRUE)
      BY <1>3 DEF xret, refresh_jit_tlb_context
    <2>4. ContextLive'
      BY <2>3 DEF ContextLive, translation_context, data_mode, from_bits
    <2>5. FrameKept'
      BY <1>3, <2>2, <2>3, FrameStays DEF IInv
    <2> QED BY <1>1, <1>3, <2>2, <2>3, <2>4, <2>5, StateStep DEF IInv, TypeOK
  <1> QED BY <1>2, <1>3 DEF Mret

LEMMA SretStep ==
  ASSUME IInv, Sret
  PROVE  IInv'
  <1> DEFINE back == IF sys.SPP THEN Supervisor ELSE User
             s == [sys EXCEPT !.SIE = sys.SPIE, !.SPIE = TRUE, !.SPP = FALSE, !.MPRV = FALSE, !.mode = back]
  <1>1. execute /\ Untouched
    BY DEF Sret, Untouched
  <1>2. CASE trap(Illegal)
    BY <1>1, <1>2, TrapStep
  <1>3. CASE xret(s) /\ frame' = NoFrame
    <2>1. back \in Modes
      BY DEF Modes
    <2> HIDE DEF back
    <2>2. s \in SysCsrs /\ s.satp = sys.satp
      BY <2>1 DEF IInv, TypeOK, SysCsrs
    <2> HIDE DEF s
    <2>3. sys' = s /\ context' = translation_context(s) /\ retire(s, TRUE)
      BY <1>3 DEF xret, refresh_jit_tlb_context
    <2>4. ContextLive' /\ FrameKept'
      BY <1>3, <2>3 DEF ContextLive, translation_context, data_mode, from_bits, FrameKept
    <2> QED BY <1>1, <1>3, <2>2, <2>3, <2>4, NoFrameType, StateStep
  <1> QED BY <1>2, <1>3 DEF Sret

-----------------------------------------------------------------------------
(* The steps between the instructions.                                     *)
LEMMA CheckKeeps ==
  ASSUME IInv, NEW next \in Graces, check_interrupts(next), UNCHANGED << lines, guest >>
  PROVE  /\ sys' \in SysCsrs /\ sys'.satp = sys.satp /\ ContextLive' /\ FrameKept'
         /\ frame' \in [mode : Modes \cup {-1}, sie : BOOLEAN] /\ grace' \in Graces
         /\ can_take = {} => grace' = grace /\ (can_take)' = {}
         /\ can_take # {} => grace' = IF (can_take)' = {} THEN Idle ELSE next
  <1> DEFINE s == [take_trap(sys, first_irq(can_take), TRUE) EXCEPT !.mip = sampled(sys)]
  <1>1. sampled(sys) \subseteq Nat /\ grace \in Graces
    BY DEF IInv, TypeOK, SysCsrs, sampled
  <1>2. CASE can_take = {}
    <2>1. sys' = [sys EXCEPT !.mip = sampled(sys)] /\ UNCHANGED << context, frame, grace >>
      BY <1>2 DEF check_interrupts
    <2>2. /\ sys' \in SysCsrs /\ sys'.satp = sys.satp /\ sys'.SPP = sys.SPP /\ sys'.SPIE = sys.SPIE
          /\ translation_context(sys') = translation_context(sys)
      BY <1>1, <2>1 DEF IInv, TypeOK, SysCsrs, translation_context, data_mode
    <2>3. ContextLive' /\ FrameKept'
      BY <2>1, <2>2, FrameStays DEF ContextLive, IInv, translation_context, data_mode, from_bits
    <2>4. (can_take)' = {}
      <3>1. /\ sys'.mip = sampled(sys) /\ sys'.mie = sys.mie /\ sys'.mideleg = sys.mideleg
            /\ sys'.mode = sys.mode /\ sys'.SIE = sys.SIE /\ sys'.MIE = sys.MIE
        BY <2>1 DEF IInv, TypeOK, SysCsrs
      <3>2. (sys'.mip \ HW) \cup (lines \cap HW) = sampled(sys)
        BY <3>1 DEF sampled
      <3>3. (can_take)' = deliverable(sys', (sys'.mip \ HW) \cup (lines \cap HW))
        BY DEF can_take, sampled, deliverable
      <3>4. deliverable(sys', sampled(sys)) = deliverable(sys, sampled(sys))
        BY <3>1 DEF deliverable
      <3> QED BY <1>2, <3>2, <3>3, <3>4 DEF can_take
    <2> QED BY <1>1, <1>2, <2>1, <2>2, <2>3, <2>4 DEF IInv, TypeOK
  <1>3. CASE can_take # {}
    <2>1. /\ sys' = s /\ context' = translation_context(s)
          /\ frame' = IF s.mode = Supervisor THEN [mode |-> sys.mode, sie |-> sys.SIE] ELSE frame
          /\ grace' = IF deliverable(s, s.mip) = {} THEN Idle ELSE next
      BY <1>3 DEF check_interrupts, refresh_jit_tlb_context
    <2> DEFINE t == take_trap(sys, first_irq(can_take), TRUE)
    <2>2. /\ t \in SysCsrs /\ t.satp = sys.satp
          /\ t.mode = Supervisor => t.SPIE = sys.SIE /\ t.SPP = (sys.mode = Supervisor) /\ sys.mode \in {User, Supervisor}
          /\ t.mode # Supervisor => t.SPIE = sys.SPIE /\ t.SPP = sys.SPP
      <3>1. PICK interrupt \in BOOLEAN : interrupt = TRUE
        OBVIOUS
      <3>2. t = take_trap(sys, first_irq(can_take), interrupt)
        BY <3>1
      <3> HIDE DEF t
      <3> QED BY <3>2, TrapState DEF IInv, TypeOK
    <2> HIDE DEF t
    <2>3. s = [t EXCEPT !.mip = sampled(sys)]
      BY DEF t
    <2>4. /\ s \in SysCsrs /\ s.satp = t.satp /\ s.mode = t.mode /\ s.SPIE = t.SPIE /\ s.SPP = t.SPP
          /\ s.mip = sampled(sys)
      BY <1>1, <2>2, <2>3 DEF SysCsrs
    <2> HIDE DEF s
    <2>5. ContextLive'
      BY <2>1 DEF ContextLive, translation_context, data_mode, from_bits
    <2>6. FrameKept' /\ frame' \in [mode : Modes \cup {-1}, sie : BOOLEAN]
      <3>1. CASE s.mode = Supervisor
        <4>1. frame' = [mode |-> sys.mode, sie |-> sys.SIE]
          BY <2>1, <3>1
        <4>2. sys'.SPP <=> sys.mode = Supervisor
          BY <2>1, <2>2, <2>4, <3>1
        <4>3. frame'.mode = IF sys'.SPP THEN Supervisor ELSE User
          BY <2>2, <2>4, <3>1, <4>1, <4>2
        <4>4. frame'.sie = sys'.SPIE
          BY <2>1, <2>2, <2>4, <3>1, <4>1
        <4> QED BY <4>1, <4>3, <4>4 DEF FrameKept, IInv, TypeOK, SysCsrs
      <3>2. CASE s.mode # Supervisor
        BY <2>1, <2>2, <2>4, <3>2, FrameStays DEF IInv, TypeOK
      <3> QED BY <3>1, <3>2
    <2>7. (can_take)' = deliverable(s, s.mip)
      <3>1. (s.mip \ HW) \cup (lines \cap HW) = s.mip
        BY <2>4 DEF sampled
      <3>2. (can_take)' = deliverable(s, (s.mip \ HW) \cup (lines \cap HW))
        BY <2>1 DEF can_take, sampled, deliverable
      <3> QED BY <3>1, <3>2
    <2>8. grace' \in Graces
      BY <2>1, GraceFacts DEF IInv
    <2> QED BY <1>3, <2>1, <2>2, <2>4, <2>5, <2>6, <2>7, <2>8
  <1> QED BY <1>2, <1>3

LEMMA PollStep ==
  ASSUME IInv, Poll
  PROVE  IInv'
  <1>1. /\ poll.phase \in {"poll", "interpret"} /\ Untouched /\ UNCHANGED << lines, guest >>
        /\ poll.cd \in 0..Interval /\ grace \in Graces
    BY DEF Poll, Untouched, IInv, TypeOK
  <1>2. /\ Interval \in Nat /\ Idle \in Graces /\ Idle.insns = Interval + 2 /\ Idle.rounds = Interval + 2
        /\ Enabled \in Graces /\ Enabled.insns = 0 /\ Enabled.rounds = 1 /\ Idle' = Idle
    BY <1>1, GraceFacts DEF IInv
  <1>3. CASE poll.cd > 0
    <2>1. poll' = [cd |-> poll.cd - 1, phase |-> "execute"] /\ UNCHANGED << sys, context, frame, grace >>
      BY <1>3 DEF Poll
    <2>2. poll' \in [cd : 0..Interval, phase : Phases] /\ ContextLive' /\ FrameKept'
      BY <1>1, <1>2, <1>3, <2>1, FrameStays DEF ContextLive, IInv, Phases
    <2>3. (can_take)' = can_take
      BY <1>1, <2>1 DEF can_take, deliverable, sampled
    <2>4. PollInTime'
      BY <1>1, <1>2, <1>3, <2>1, <2>3 DEF PollInTime, IInv, Graces
    <2> QED BY <1>1, <2>1, <2>2, <2>4, UntouchedKeeps DEF IInv, TypeOK
  <1>4. CASE ~(poll.cd > 0) /\ can_take = {}
    <2>1. check_interrupts(grace) /\ poll' = [cd |-> Interval, phase |-> "execute"]
      BY <1>4 DEF Poll
    <2>2. /\ sys' \in SysCsrs /\ sys'.satp = sys.satp /\ ContextLive' /\ FrameKept'
          /\ frame' \in [mode : Modes \cup {-1}, sie : BOOLEAN] /\ grace' = grace /\ (can_take)' = {}
      BY <1>1, <1>4, <2>1, CheckKeeps
    <2>3. grace = Idle
      BY <1>4 DEF PollInTime, IInv
    <2>4. PollInTime' /\ poll' \in [cd : 0..Interval, phase : Phases]
      BY <1>2, <2>1, <2>2, <2>3 DEF PollInTime, Phases
    <2> QED BY <1>1, <2>2, <2>4, UntouchedKeeps DEF IInv, TypeOK
  <1>5. CASE ~(poll.cd > 0) /\ can_take # {}
    <2>1. PICK next \in {"poll", "execute"} :
            /\ check_interrupts(IF next = "poll" THEN Enabled ELSE left(1, 1))
            /\ poll' = [cd |-> 0, phase |-> next]
      BY <1>5 DEF Poll
    <2> DEFINE wait == IF next = "poll" THEN Enabled ELSE left(1, 1)
    <2>2. wait \in Graces /\ wait.rounds = 1 /\ wait.insns = IF next = "poll" THEN 0 ELSE 1
      BY <1>2 DEF left, Graces
    <2>3. check_interrupts(wait)
      BY <2>1
    <2> HIDE DEF wait
    <2>4. /\ sys' \in SysCsrs /\ sys'.satp = sys.satp /\ ContextLive' /\ FrameKept'
          /\ frame' \in [mode : Modes \cup {-1}, sie : BOOLEAN] /\ grace' \in Graces
          /\ grace' = IF (can_take)' = {} THEN Idle ELSE wait
      BY <1>1, <1>5, <2>2, <2>3, CheckKeeps
    <2>5. /\ poll'.cd = 0 /\ poll'.phase = next
          /\ poll' \in [cd : 0..Interval, phase : Phases]
      BY <1>2, <2>1 DEF Phases
    <2>6. PollInTime'
      BY <1>2, <2>2, <2>4, <2>5 DEF PollInTime
    <2> QED BY <1>1, <2>4, <2>5, <2>6, UntouchedKeeps DEF IInv, TypeOK
  <1> QED BY <1>1, <1>3, <1>4, <1>5

(* A round of compiled code, and the host's look at the interrupts.        *)
LEMMA RoundStep ==
  ASSUME IInv, Round
  PROVE  IInv'
  <1>1. /\ poll.phase = "poll" /\ Untouched /\ UNCHANGED << sys, lines, context, guest, frame >>
        /\ grace' = IF can_take = {} THEN grace ELSE [grace EXCEPT !.rounds = @ - 1]
        /\ poll.cd \in 0..Interval /\ grace \in Graces
    BY DEF Round, Untouched, IInv, TypeOK
  <1>2. PICK next \in {"boundary", "interpret"} : poll' = [poll EXCEPT !.phase = next]
    BY DEF Round
  <1>3. (can_take)' = can_take /\ Idle' = Idle /\ Interval \in Nat
    BY <1>1, GraceFacts DEF can_take, deliverable, sampled, IInv
  <1>4. poll' \in [cd : 0..Interval, phase : Phases] /\ poll'.cd = poll.cd /\ poll'.phase = next
    BY <1>2 DEF IInv, TypeOK, Phases
  <1>5. /\ grace' \in Graces /\ grace'.insns = grace.insns
        /\ grace'.rounds \in {grace.rounds, grace.rounds - 1}
    BY <1>1 DEF Graces
  <1>6. grace.insns >= poll.cd /\ grace.rounds > poll.cd /\ (can_take = {} => grace = Idle)
    BY <1>1 DEF IInv, PollInTime
  <1>7. grace'.rounds >= poll.cd
    BY <1>1, <1>3, <1>5, <1>6 DEF Graces
  <1>8. PollInTime'
    BY <1>1, <1>2, <1>3, <1>4, <1>5, <1>6, <1>7 DEF PollInTime, Graces
  <1>9. ContextLive' /\ FrameKept'
    BY <1>1, FrameStays DEF ContextLive, IInv
  <1> QED BY <1>1, <1>4, <1>5, <1>8, <1>9, UntouchedKeeps DEF IInv, TypeOK

LEMMA BoundaryStep ==
  ASSUME IInv, Boundary
  PROVE  IInv'
  <1>1. /\ between /\ check_interrupts(Enabled) /\ Untouched /\ UNCHANGED << lines, guest >>
        /\ poll' = [cd |-> IF can_take = {} THEN poll.cd ELSE 0, phase |-> "poll"]
        /\ poll.cd \in 0..Interval
    BY DEF Boundary, Untouched, IInv, TypeOK
  <1>2. /\ Interval \in Nat /\ Idle \in Graces /\ Idle.insns = Interval + 2 /\ Idle.rounds = Interval + 2
        /\ Enabled \in Graces /\ Enabled.insns = 0 /\ Enabled.rounds = 1 /\ Idle' = Idle
    BY <1>1, GraceFacts DEF IInv
  <1>3. /\ sys' \in SysCsrs /\ sys'.satp = sys.satp /\ ContextLive' /\ FrameKept'
        /\ frame' \in [mode : Modes \cup {-1}, sie : BOOLEAN] /\ grace' \in Graces
        /\ can_take = {} => grace' = grace /\ (can_take)' = {}
        /\ can_take # {} => grace' = IF (can_take)' = {} THEN Idle ELSE Enabled
    BY <1>1, <1>2, CheckKeeps
  <1>4. can_take = {} => grace = Idle
    BY DEF IInv, PollInTime
  <1>5. /\ poll' \in [cd : 0..Interval, phase : Phases] /\ poll'.phase = "poll"
        /\ poll'.cd = IF can_take = {} THEN poll.cd ELSE 0
    BY <1>1, <1>2 DEF Phases
  <1>6. PollInTime'
    <2>1. CASE can_take = {}
      BY <1>1, <1>2, <1>3, <1>4, <1>5, <2>1 DEF PollInTime
    <2>2. CASE can_take # {}
      BY <1>2, <1>3, <1>5, <2>2 DEF PollInTime
    <2> QED BY <2>1, <2>2
  <1> QED BY <1>1, <1>3, <1>5, <1>6, UntouchedKeeps DEF IInv, TypeOK

(* A line or the timer that rises leaves time for the poll.                *)
LEMMA RisenInTime ==
  ASSUME IInv, UNCHANGED guest, poll' = poll \/ (poll.phase = "execute" /\ poll' = [poll EXCEPT !.phase = "poll"]),
         grace' = IF (can_take)' = {} THEN Idle ELSE IF can_take # {} THEN grace ELSE Risen
  PROVE  PollInTime'
  <1>1. /\ Interval \in Nat /\ Idle.insns = Interval + 2 /\ Idle.rounds = Interval + 2 /\ Idle' = Idle
        /\ Risen.insns = Interval + 1 /\ Risen.rounds = Interval + 1
    BY GraceFacts DEF IInv
  <1>2. /\ poll.cd \in 0..Interval /\ grace \in Graces /\ poll'.cd = poll.cd
        /\ poll'.phase = poll.phase \/ (poll.phase = "execute" /\ poll'.phase = "poll")
    BY DEF IInv, TypeOK
  <1>3. CASE (can_take)' = {}
    BY <1>1, <1>2, <1>3 DEF PollInTime
  <1>4. CASE (can_take)' # {} /\ can_take # {}
    BY <1>2, <1>4 DEF PollInTime, IInv, Graces
  <1>5. CASE (can_take)' # {} /\ can_take = {}
    BY <1>1, <1>2, <1>5 DEF PollInTime
  <1> QED BY <1>3, <1>4, <1>5

LEMMA SetLineStep ==
  ASSUME IInv, NEW irq \in Nat, SetLine(irq)
  PROVE  IInv'
  <1>1. /\ lines' \subseteq Nat /\ counted(sys, lines', grace, Risen)
        /\ UNCHANGED << sys, poll, guest, context, frame >> /\ Untouched
    BY DEF SetLine, Untouched, IInv, TypeOK
  <1>2. grace' \in Graces /\ grace' = IF (can_take)' = {} THEN Idle ELSE IF can_take # {} THEN grace ELSE Risen
    BY <1>1, CountedGrace, GraceFacts DEF IInv, TypeOK
  <1>3. PollInTime'
    BY <1>1, <1>2, RisenInTime
  <1>4. ContextLive' /\ FrameKept'
    BY <1>1, FrameStays DEF ContextLive, IInv, translation_context, data_mode, from_bits
  <1> QED BY <1>1, <1>2, <1>3, <1>4, UntouchedKeeps DEF IInv, TypeOK

(* The timer as the host serves it.                                        *)
LEMMA TimerState ==
  ASSUME IInv, NEW due \in BOOLEAN, timer_interrupt(due), UNCHANGED << lines, guest, context, frame >>
  PROVE  /\ sys' \in SysCsrs /\ sys'.satp = sys.satp /\ ContextLive' /\ FrameKept' /\ grace' \in Graces
         /\ grace' = IF (can_take)' = {} THEN Idle ELSE IF can_take # {} THEN grace ELSE Risen
  <1> DEFINE mip == IF due THEN sys.mip \cup {STI} ELSE sys.mip \ {STI}
             s == [sys EXCEPT !.mip = mip]
  <1>1. mip \subseteq Nat
    BY DEF IInv, TypeOK, SysCsrs, STI
  <1>2. sys' = s /\ counted(s, lines, grace, Risen)
    BY DEF timer_interrupt
  <1> HIDE DEF mip
  <1>3. /\ s \in SysCsrs /\ s.satp = sys.satp /\ s.SPP = sys.SPP /\ s.SPIE = sys.SPIE
        /\ translation_context(s) = translation_context(sys)
    BY <1>1 DEF IInv, TypeOK, SysCsrs, translation_context, data_mode
  <1> HIDE DEF s
  <1>4. ContextLive' /\ FrameKept'
    BY <1>2, <1>3, FrameStays DEF ContextLive, IInv, translation_context, data_mode, from_bits
  <1>5. grace \in Graces /\ Risen \in Graces
    BY GraceFacts DEF IInv, TypeOK
  <1>6. /\ grace' \in Graces
        /\ grace' = IF (can_take)' = {} THEN Idle ELSE IF can_take # {} THEN grace ELSE Risen
    BY <1>2, <1>5, CountedGrace DEF IInv
  <1> QED BY <1>2, <1>3, <1>4, <1>6

(* A FENCE.I, and what else an instruction may do to the decoded pages.    *)
LEMMA FenceKeeps ==
  ASSUME IInv, fence_i
  PROVE  /\ CodeFresh' /\ code' \in [ver : [Pages -> Nat], fenced : [Pages -> Nat]]
         /\ decoded' \in [gen : Nat, page : Pages \cup {0}, page_gen : Nat, blocks : [{0, 1} -> Nat \cup {-1}]]
  <1>1. /\ decoded' = [decoded EXCEPT !.gen = @ + 1] /\ code' = [code EXCEPT !.fenced = code.ver]
        /\ decoded.gen \in Nat /\ decoded.page_gen \in Nat /\ decoded.page_gen <= decoded.gen
        /\ code.ver \in [Pages -> Nat]
    BY DEF fence_i, IInv, TypeOK, CodeFresh
  <1>2. /\ code' \in [ver : [Pages -> Nat], fenced : [Pages -> Nat]] /\ code'.fenced = code.ver /\ code'.ver = code.ver
        /\ decoded' \in [gen : Nat, page : Pages \cup {0}, page_gen : Nat, blocks : [{0, 1} -> Nat \cup {-1}]]
        /\ decoded'.gen = decoded.gen + 1 /\ decoded'.page_gen = decoded.page_gen
    <2>1. code \in [ver : [Pages -> Nat], fenced : [Pages -> Nat]] /\ decoded.gen + 1 \in Nat
      BY <1>1 DEF IInv, TypeOK
    <2>2. decoded \in [gen : Nat, page : Pages \cup {0}, page_gen : Nat, blocks : [{0, 1} -> Nat \cup {-1}]]
      BY DEF IInv, TypeOK
    <2>3. code' \in [ver : [Pages -> Nat], fenced : [Pages -> Nat]] /\ code'.fenced = code.ver /\ code'.ver = code.ver
      BY <1>1, <2>1
    <2>4. \A g \in Nat : LET d == [decoded EXCEPT !.gen = g] IN
            /\ d \in [gen : Nat, page : Pages \cup {0}, page_gen : Nat, blocks : [{0, 1} -> Nat \cup {-1}]]
            /\ d.gen = g /\ d.page_gen = decoded.page_gen
      BY <2>2
    <2> QED BY <1>1, <2>1, <2>3, <2>4
  <1>3. \A p \in Pages : code.ver[p] \in Nat
    BY <1>1
  <1> QED BY <1>1, <1>2, <1>3 DEF CodeFresh

LEMMA ServiceSbiStep ==
  ASSUME IInv, service_sbi
  PROVE  IInv'
  <1>1. /\ poll.phase = "execute"
        /\ UNCHANGED << lines, guest, table, recent, tlb, jtlb, context, marked, frame >>
    BY DEF service_sbi, execute
  <1>2. /\ poll.cd \in 0..Interval /\ grace \in Graces /\ grace.insns > poll.cd /\ grace.rounds > poll.cd
        /\ Interval \in Nat /\ Idle.insns = Interval + 2 /\ Idle.rounds = Interval + 2 /\ Idle' = Idle
        /\ one_less \in Graces /\ one_less.insns = grace.insns - 1 /\ one_less.rounds = grace.rounds
        /\ Enabled \in Graces /\ Interval' = Interval
    BY <1>1, GraceFacts DEF IInv, TypeOK, PollInTime
  <1>3. CASE /\ \E due \in BOOLEAN : timer_interrupt(due)
             /\ poll' = [poll EXCEPT !.phase = "poll"]
             /\ UNCHANGED << code, decoded >>
    <2>1. /\ sys' \in SysCsrs /\ sys'.satp = sys.satp /\ ContextLive' /\ FrameKept' /\ grace' \in Graces
          /\ grace' = IF (can_take)' = {} THEN Idle ELSE IF can_take # {} THEN grace ELSE Risen
      BY <1>1, <1>3, TimerState
    <2>2. poll' \in [cd : 0..Interval, phase : Phases]
      BY <1>3 DEF IInv, TypeOK, Phases
    <2>3. PollInTime'
      BY <1>1, <1>3, <2>1, RisenInTime
    <2> QED BY <1>1, <1>3, <2>1, <2>2, <2>3, UntouchedKeeps DEF IInv, TypeOK, Untouched
  <1>4. CASE /\ fence_i \/ UNCHANGED << code, decoded >>
             /\ \E next \in {"poll", "off"} : poll' = [poll EXCEPT !.phase = next]
             /\ counted(sys, lines, one_less, Enabled)
             /\ UNCHANGED sys
    <2>1. /\ grace' \in Graces
          /\ grace' = IF (can_take)' = {} THEN Idle ELSE IF can_take # {} THEN one_less ELSE Enabled
      <3>1. sys' = sys /\ lines' = lines /\ guest' = guest /\ counted(sys, lines, one_less, Enabled)
        BY <1>1, <1>4
      <3> QED BY <1>2, <3>1, CountedGrace DEF IInv
    <2>2. (can_take)' = can_take
      BY <1>1, <1>4 DEF can_take, deliverable, sampled
    <2>3. /\ poll' \in [cd : 0..Interval, phase : Phases] /\ poll'.cd = poll.cd
          /\ poll'.phase \in {"poll", "off"}
      BY <1>4 DEF IInv, TypeOK, Phases
    <2>4. PollInTime'
      <3>1. can_take = {} => grace' = Idle
        BY <2>1, <2>2
      <3>2. can_take # {} => grace' = one_less
        BY <2>1, <2>2
      <3> QED BY <1>2, <2>2, <2>3, <3>1, <3>2 DEF PollInTime, Graces
    <2>5. /\ CodeFresh' /\ code' \in [ver : [Pages -> Nat], fenced : [Pages -> Nat]]
          /\ decoded' \in [gen : Nat, page : Pages \cup {0}, page_gen : Nat, blocks : [{0, 1} -> Nat \cup {-1}]]
      BY <1>4, FenceKeeps, CodeKept DEF IInv, TypeOK
    <2>6. Translation' /\ ContextLive' /\ FrameKept'
      BY <1>1, <1>4, TranslationKept, FrameStays DEF IInv, ContextLive
    <2> QED BY <1>1, <1>2, <1>4, <2>1, <2>3, <2>4, <2>5, <2>6 DEF IInv, TypeOK
  <1> QED BY <1>3, <1>4 DEF service_sbi

LEMMA SyncDevicesStep ==
  ASSUME IInv, sync_devices
  PROVE  IInv'
  <1>1. Untouched /\ UNCHANGED << lines, poll, guest, context, frame >>
    BY DEF sync_devices, Untouched
  <1>2. /\ sys' \in SysCsrs /\ sys'.satp = sys.satp /\ ContextLive' /\ FrameKept' /\ grace' \in Graces
        /\ grace' = IF (can_take)' = {} THEN Idle ELSE IF can_take # {} THEN grace ELSE Risen
    BY <1>1, TimerState DEF sync_devices
  <1>3. PollInTime'
    BY <1>1, <1>2, RisenInTime
  <1> QED BY <1>1, <1>2, <1>3, UntouchedKeeps DEF IInv, TypeOK

-----------------------------------------------------------------------------
(* Code: it is written, fenced, decoded and run.                           *)
LEMMA CodeStep ==
  ASSUME IInv, Code
  PROVE  IInv'
  <1>1. /\ execute /\ retire(sys, FALSE) /\ UNCHANGED << sys, table, recent, tlb, jtlb, context, marked, frame >>
    BY DEF Code, FenceI, WriteCode, RunCached
  <1>2. /\ PollInTime' /\ grace' \in Graces /\ UNCHANGED << lines, guest >>
        /\ poll' \in [cd : 0..Interval, phase : Phases] /\ Interval' = Interval
    BY <1>1, RetireKeeps DEF IInv, Interval
  <1>3. Translation' /\ ContextLive' /\ FrameKept'
    BY <1>1, TranslationKept, FrameStays DEF IInv, ContextLive
  <1> DEFINE CodeType(c, d) ==
        /\ c \in [ver : [Pages -> Nat], fenced : [Pages -> Nat]]
        /\ d \in [gen : Nat, page : Pages \cup {0}, page_gen : Nat, blocks : [{0, 1} -> Nat \cup {-1}]]
  <1>4. CodeFresh' /\ CodeType(code', decoded')
    <2>1. CASE FenceI
      BY <2>1, FenceKeeps DEF FenceI
    <2>2. ASSUME NEW pp \in Pages, WriteCode(pp)
          PROVE  CodeFresh' /\ CodeType(code', decoded')
      <3>1. code' = [code EXCEPT !.ver[pp] = @ + 1] /\ decoded' = decoded
        BY <2>2 DEF WriteCode
      <3>2. /\ code' \in [ver : [Pages -> Nat], fenced : [Pages -> Nat]] /\ code'.fenced = code.fenced
            /\ \A p \in Pages : code'.ver[p] >= code.ver[p]
        BY <3>1 DEF IInv, TypeOK
      <3>3. \A p \in Pages : code.ver[p] \in Nat /\ code.fenced[p] \in Nat /\ code'.ver[p] \in Nat
        BY <3>2 DEF IInv, TypeOK
      <3>4. CodeType(code', decoded')
        BY <3>1, <3>2 DEF IInv, TypeOK
      <3>5. \A p \in Pages : code'.fenced[p] <= code'.ver[p]
        <4> TAKE p \in Pages
        <4>1. code.fenced[p] <= code.ver[p] /\ code.ver[p] <= code'.ver[p]
          BY <3>2, <3>3 DEF IInv, CodeFresh
        <4> QED BY <3>2, <3>3, <4>1
      <3>6. CodeFresh'
        BY <3>1, <3>2, <3>5 DEF IInv, CodeFresh
      <3> QED BY <3>4, <3>6
    <2>3. ASSUME NEW pp \in Pages, NEW o \in {0, 1}, RunCached(pp, o)
          PROVE  CodeFresh' /\ CodeType(code', decoded')
      <3> DEFINE d == IF holds_page(decoded, pp) THEN decoded
                      ELSE [decoded EXCEPT !.page = pp, !.page_gen = decoded.gen, !.blocks = empty]
                 Blocks(b) == /\ b \in [{0, 1} -> Nat \cup {-1}]
                              /\ \A n \in {0, 1} : b[n] = -1 \/ b[n] >= code.fenced[pp]
      <3>1. /\ pp # 0 /\ code.ver[pp] \in Nat /\ code.fenced[pp] \in Nat /\ code.fenced[pp] <= code.ver[pp]
            /\ code' = code
        BY <2>3, HartAssumption DEF RunCached, HartAssumption, IInv, TypeOK, CodeFresh
      <3>2. Blocks(empty)
        BY DEF empty
      <3>3. /\ d \in [gen : Nat, page : Pages \cup {0}, page_gen : Nat, blocks : [{0, 1} -> Nat \cup {-1}]]
            /\ d.page = pp /\ d.page_gen = d.gen /\ Blocks(d.blocks)
        <4>1. CASE holds_page(decoded, pp)
          BY <3>1, <4>1 DEF holds_page, IInv, TypeOK, CodeFresh
        <4>2. CASE ~holds_page(decoded, pp)
          <5>1. d = [decoded EXCEPT !.page = pp, !.page_gen = decoded.gen, !.blocks = empty]
            BY <4>2
          <5> HIDE DEF d
          <5> QED BY <3>2, <5>1 DEF IInv, TypeOK
        <4> QED BY <4>1, <4>2
      <3> HIDE DEF d
      <3>4. PICK full \in BOOLEAN, last \in o..1 :
              LET room == IF full /\ d.blocks[o] = -1 THEN empty ELSE d.blocks
              IN  decoded' = [d EXCEPT !.blocks = [n \in {0, 1} |->
                               IF room[o] = -1 /\ n \in o..last THEN code.ver[pp] ELSE room[n]]]
        BY <2>3 DEF RunCached, block, d
      <3> DEFINE room == IF full /\ d.blocks[o] = -1 THEN empty ELSE d.blocks
                 blocks == [n \in {0, 1} |->
                             IF room[o] = -1 /\ n \in o..last THEN code.ver[pp] ELSE room[n]]
      <3>5. decoded' = [d EXCEPT !.blocks = blocks]
        BY <3>4
      <3>6. Blocks(room)
        BY <3>2, <3>3
      <3> HIDE DEF room
      <3>7. Blocks(blocks)
        BY <3>1, <3>6
      <3> HIDE DEF Blocks, blocks
      <3>8. /\ decoded'.page = pp /\ decoded'.blocks = blocks /\ decoded'.page_gen = decoded'.gen
            /\ decoded' \in [gen : Nat, page : Pages \cup {0}, page_gen : Nat, blocks : [{0, 1} -> Nat \cup {-1}]]
        BY <3>3, <3>5, <3>7 DEF Blocks
      <3>9. CodeFresh'
        BY <3>1, <3>7, <3>8 DEF CodeFresh, Blocks, IInv
      <3> QED BY <3>1, <3>8, <3>9 DEF IInv, TypeOK
    <2> QED BY <2>1, <2>2, <2>3 DEF Code
  <1> QED BY <1>1, <1>2, <1>3, <1>4 DEF IInv, TypeOK


-----------------------------------------------------------------------------
(* Translations.  What an access finds or walks is granted, and the fused  *)
(* store entry of the line it replaces goes.                               *)
TlbTypes(tl, jt) == tl \in [Accesses -> [Lines -> Entries]] /\ jt \in [Fused -> [Lines -> Entries]]
Tag(va, pp) == translation_tag(sys, va, pp)

LEMMA TagFacts ==
  ASSUME TypeOK, NEW va \in Pages, NEW pp \in Nat
  PROVE  /\ Tag(va, pp) \in Entries /\ Tag(va, pp) # NoTag
         /\ Tag(va, pp).va = va /\ Tag(va, pp).pp = pp /\ Tag(va, pp).ctx = translation_context(sys)
         /\ tag_is(Tag(va, pp), va, translation_context(sys))
  <1>1. translation_context(sys) \in Contexts
    BY ContextFacts DEF TypeOK
  <1> HIDE DEF translation_context
  <1>2. Tag(va, pp) = [va |-> va, ctx |-> translation_context(sys), pp |-> pp]
    BY DEF Tag, translation_tag
  <1>3. va # 0
    BY HartAssumption DEF HartAssumption
  <1>4. Tag(va, pp) # NoTag
    BY <1>2, <1>3 DEF NoTag
  <1> QED BY <1>1, <1>2, <1>4 DEF Entries, tag_is

(* What a translation yields: its page is granted, its TLB entry, if it    *)
(* made one, is backed by a walk, and no fused entry appears.              *)
Translated(t, a, va, ctx, n) ==
  /\ t.pp \in Nat /\ t.dirty \in BOOLEAN /\ TlbTypes(t.tlb, t.jtlb)
  /\ \/ t.tlb = tlb
     \/ walks(ctx, a) /\ t.tlb = [tlb EXCEPT ![a][n] = Tag(va, t.pp)]
  /\ walks(ctx, a) =>
       /\ \E leaf \in recent[va] \cup {[table[va] EXCEPT !.d = @ \/ t.dirty]} :
            context_permits(leaf, ctx, a) /\ leaf.pp = t.pp /\ (a = "Store" => leaf.d)
       /\ tag_is(t.tlb[a][n], va, ctx) /\ t.tlb[a][n].pp = t.pp
  /\ ~walks(ctx, a) => t.pp = va
  /\ \A f \in Fused : \A m \in Lines : t.jtlb[f][m] \in {NoTag, jtlb[f][m]}
  /\ t.tlb # tlb /\ a = "Store" => t.jtlb["Store"][n] = NoTag

LEMMA TranslateFacts ==
  ASSUME IInv, NEW a \in Accesses, NEW va \in Pages, NEW t, t = translate(a, va), t.ok
  PROVE  Translated(t, a, va, translation_context(sys), Line[va])
  <1> DEFINE ctx == translation_context(sys)
             n == Line[va]
             e == tlb[a][n]
  <1>1. /\ n \in Lines /\ e \in Entries /\ table[va] \in Leaves /\ table[va] \in recent[va] /\ va \in Nat
        /\ TlbTypes(tlb, jtlb)
    <2>1. n \in Lines /\ va \in Nat
      BY HartAssumption DEF HartAssumption, Lines
    <2> HIDE DEF n
    <2> QED BY <2>1 DEF IInv, TypeOK, Translation, TlbGranted, TlbTypes
  <1> HIDE DEF n, ctx
  <1>2. CASE tag_is(e, va, ctx)
    <2>1. t.pp = e.pp /\ t.tlb = tlb /\ t.jtlb = jtlb /\ t.dirty = FALSE
      BY <1>2 DEF translate, n, ctx
    <2>2. /\ e # NoTag /\ e.va = va /\ e.ctx = ctx /\ walks(ctx, a)
          /\ context_grants(ctx, va, a, e.pp) /\ e.pp \in Nat
      BY <1>1, <1>2 DEF tag_is, IInv, Translation, TlbGranted, EntryGranted, Entries
    <2>3. \E leaf \in recent[va] : context_permits(leaf, ctx, a) /\ leaf.pp = e.pp /\ (a = "Store" => leaf.d)
      BY <2>2 DEF context_grants
    <2> QED BY <1>1, <1>2, <2>1, <2>2, <2>3 DEF Translated, n, ctx
  <1>3. CASE ~tag_is(e, va, ctx) /\ untranslated(sys, a)
    <2>1. t.pp = va /\ t.tlb = tlb /\ t.jtlb = jtlb /\ t.dirty = FALSE
      BY <1>3 DEF translate, translate_slow, n, ctx
    <2>2. ~walks(ctx, a)
      BY <1>3, UntranslatedByContext DEF IInv, ctx
    <2> QED BY <1>1, <2>1, <2>2 DEF Translated, n, ctx
  <1>4. CASE ~tag_is(e, va, ctx) /\ ~untranslated(sys, a)
    <2> DEFINE leaf == table[va]
               walked == [leaf EXCEPT !.d = @ \/ t.dirty]
               keep == a # "Store" \/ tag_is(jtlb["Store"][n], va, ctx)
               dropped == [jtlb EXCEPT !["Store"][n] = NoTag]
    <2>1. t = translate_slow(a, va)
      BY <1>4 DEF translate, n, ctx
    <2>2. permits(leaf, sys, a)
      BY <1>4, <2>1 DEF translate_slow
    <2>3. /\ t.pp = leaf.pp /\ t.dirty = (a = "Store") /\ t.jtlb = IF keep THEN jtlb ELSE dropped
          /\ t.tlb = [tlb EXCEPT ![a][n] = Tag(va, leaf.pp)]
      BY <1>4, <2>1, <2>2 DEF translate_slow, n, ctx, Tag
    <2>4. walks(ctx, a)
      BY <1>4, UntranslatedByContext DEF IInv, ctx
    <2>5. context_permits(leaf, ctx, a)
      BY <1>1, <2>2, <2>4, PermitsByContext DEF IInv, ctx
    <2>6. /\ walked \in Leaves /\ walked.pp = leaf.pp /\ (a = "Store" => walked.d)
          /\ walked.v = leaf.v /\ walked.r = leaf.r /\ walked.w = leaf.w /\ walked.x = leaf.x /\ walked.u = leaf.u
      <3>1. t.dirty = (a = "Store") /\ (leaf.d \/ t.dirty) \in BOOLEAN
        BY <2>3
      <3> QED BY <1>1, <3>1 DEF Leaves
    <2>15. walked = [table[va] EXCEPT !.d = @ \/ t.dirty] /\ t.dirty \in BOOLEAN
      BY <2>3
    <2> HIDE DEF walked
    <2>7. context_permits(walked, ctx, a)
      BY <2>5, <2>6 DEF context_permits
    <2>8. leaf.pp \in Nat
      BY <1>1 DEF Leaves
    <2>9. /\ Tag(va, leaf.pp) \in Entries /\ tag_is(Tag(va, leaf.pp), va, ctx) /\ Tag(va, leaf.pp).pp = leaf.pp
      BY <2>8, TagFacts DEF IInv, ctx
    <2>10. t.tlb \in [Accesses -> [Lines -> Entries]] /\ t.tlb[a][n] = Tag(va, leaf.pp)
      BY <1>1, <2>3, <2>9 DEF TlbTypes
    <2>11. a = "Store" => ~keep
      <3>1. ASSUME a = "Store", tag_is(jtlb["Store"][n], va, ctx)
            PROVE  FALSE
        BY <1>1, <1>4, <2>4, <3>1 DEF tag_is, IInv, Translation, StoresBacked
      <3> QED BY <3>1
    <2>12. /\ dropped \in [Fused -> [Lines -> Entries]] /\ dropped["Store"][n] = NoTag
           /\ \A f \in Fused : \A m \in Lines : dropped[f][m] \in {NoTag, jtlb[f][m]}
      BY <1>1 DEF TlbTypes, Entries, Fused
    <2>13. TlbTypes(t.tlb, t.jtlb) /\ \A f \in Fused : \A m \in Lines : t.jtlb[f][m] \in {NoTag, jtlb[f][m]}
      BY <1>1, <2>3, <2>10, <2>12 DEF TlbTypes
    <2>14. a = "Store" => t.jtlb["Store"][n] = NoTag
      BY <2>3, <2>11, <2>12
    <2> HIDE DEF leaf, keep, dropped
    <2> QED BY <2>3, <2>4, <2>6, <2>7, <2>8, <2>9, <2>10, <2>13, <2>14, <2>15 DEF Translated, n, ctx
  <1> QED BY <1>2, <1>3, <1>4

LEMMA TranslateKeeps ==
  ASSUME IInv, NEW a \in Accesses, NEW va \in Pages, NEW t, t = translate(a, va), t.ok,
         tlb' = t.tlb, jtlb' = fill_jtlb(t.jtlb, va, t.pp, a), walked_table(va, t.dirty),
         sys' = sys, marked' = marked
  PROVE  /\ Translation' /\ TlbTypes(tlb', jtlb')
         /\ table' \in [Pages -> Leaves] /\ recent' \in [Pages -> SUBSET Leaves]
  <1> DEFINE ctx == translation_context(sys)
             n == Line[va]
             grants(c, x, y, pp) ==
               IF walks(c, y)
               THEN \E leaf \in recent'[x] : context_permits(leaf, c, y) /\ leaf.pp = pp /\ (y = "Store" => leaf.d)
               ELSE pp = x
             granted_now(e, x) == e # NoTag => grants(e.ctx, e.va, x, e.pp)
  <1>1. Translated(t, a, va, ctx, n)
    BY TranslateFacts
  <1>2. /\ t.pp \in Nat /\ t.dirty \in BOOLEAN /\ TlbTypes(t.tlb, t.jtlb) /\ TlbTypes(tlb, jtlb)
        /\ t.tlb = tlb \/ (walks(ctx, a) /\ t.tlb = [tlb EXCEPT ![a][n] = Tag(va, t.pp)])
        /\ \A f \in Fused : \A m \in Lines : t.jtlb[f][m] \in {NoTag, jtlb[f][m]}
        /\ t.tlb # tlb /\ a = "Store" => t.jtlb["Store"][n] = NoTag
        /\ n \in Lines
    <2>1. TlbTypes(tlb, jtlb) /\ n \in Lines
      BY DEF IInv, TypeOK, TlbTypes, Lines
    <2> HIDE DEF n, ctx
    <2> QED BY <2>1, <1>1 DEF Translated
  <1>3. walks(ctx, a) => tag_is(t.tlb[a][n], va, ctx) /\ t.tlb[a][n].pp = t.pp
    BY <1>1 DEF Translated
  <1> DEFINE walked == [table[va] EXCEPT !.d = @ \/ t.dirty]
  <1>4. /\ table' \in [Pages -> Leaves] /\ recent' \in [Pages -> SUBSET Leaves]
        /\ recent[va] \cup {walked} \subseteq recent'[va]
        /\ \A x \in Pages : recent[x] \subseteq recent'[x] /\ table'[x] \in recent'[x]
    <2> DEFINE sets(x) == t.dirty /\ shares(va, x)
    <2>1. /\ table' = [x \in Pages |-> [table[x] EXCEPT !.d = @ \/ sets(x)]]
          /\ recent' = [x \in Pages |-> recent[x] \cup {table'[x]}]
      BY DEF walked_table
    <2>2. ASSUME NEW x \in Pages
          PROVE  [table[x] EXCEPT !.d = @ \/ sets(x)] \in Leaves
      <3>1. \A b : b \in BOOLEAN => [table[x] EXCEPT !.d = @ \/ b] \in Leaves
        <4> TAKE b
        <4> HAVE b \in BOOLEAN
        <4>1. table[x] \in Leaves
          BY DEF IInv, TypeOK
        <4>2. (table[x].d \/ b) \in BOOLEAN
          OBVIOUS
        <4>3. \A l \in Leaves : \A y \in BOOLEAN : [l EXCEPT !.d = y] \in Leaves
          BY DEF Leaves
        <4> QED BY <4>1, <4>2, <4>3
      <3>2. sets(x) \in BOOLEAN
        OBVIOUS
      <3> HIDE DEF sets
      <3> QED BY <3>1, <3>2
    <2>3. sets(va) <=> t.dirty
      BY DEF shares
    <2>4. table'[va] = walked
      <3>1. table'[va] = [table[va] EXCEPT !.d = table[va].d \/ sets(va)]
        BY <2>1
      <3>2. (table[va].d \/ sets(va)) = (table[va].d \/ t.dirty)
        BY <2>3
      <3> HIDE DEF sets
      <3> QED BY <3>1, <3>2
    <2> HIDE DEF sets, walked
    <2>5. table' \in [Pages -> Leaves]
      BY <2>1, <2>2
    <2>6. recent' \in [Pages -> SUBSET Leaves]
      <3>1. recent \in [Pages -> SUBSET Leaves]
        BY DEF IInv, TypeOK
      <3>2. \A x \in Pages : recent[x] \cup {table'[x]} \subseteq Leaves
        BY <2>5, <3>1
      <3> QED BY <2>1, <3>2
    <2> QED BY <2>1, <2>4, <2>5, <2>6
  <1> HIDE DEF walked
  <1>5. grants(ctx, va, a, t.pp)
    <2>1. CASE walks(ctx, a)
      <3>1. \E leaf \in recent[va] \cup {walked} :
              context_permits(leaf, ctx, a) /\ leaf.pp = t.pp /\ (a = "Store" => leaf.d)
        BY <1>1, <2>1 DEF Translated, walked
      <3> QED BY <1>4, <2>1, <3>1
    <2>2. CASE ~walks(ctx, a)
      BY <1>1, <2>2 DEF Translated
    <2> QED BY <2>1, <2>2
  <1>6. \A c, x, f, pp : x \in Pages /\ context_grants(c, x, f, pp) => grants(c, x, f, pp)
    BY <1>4 DEF context_grants
  <1>7. /\ Tag(va, t.pp) \in Entries /\ Tag(va, t.pp) # NoTag
        /\ Tag(va, t.pp).va = va /\ Tag(va, t.pp).pp = t.pp /\ Tag(va, t.pp).ctx = ctx
    BY <1>2, TagFacts DEF IInv
  <1>8. jtlb' = t.jtlb \/ (/\ a \in Fused /\ (a = "Store" => t.pp \notin marked)
                           /\ jtlb' = [t.jtlb EXCEPT ![a][n] = Tag(va, t.pp)])
    BY DEF fill_jtlb, jit_fast_off, Tag, Fused
  <1> HIDE DEF n, ctx, Tag
  <1>9. TlbTypes(tlb', jtlb')
    <2>1. \A tl \in [Accesses -> [Lines -> Entries]] : \A e \in Entries :
            [tl EXCEPT ![a][n] = e] \in [Accesses -> [Lines -> Entries]]
      BY <1>2
    <2>2. \A jt \in [Fused -> [Lines -> Entries]] : \A e \in Entries :
            a \in Fused => [jt EXCEPT ![a][n] = e] \in [Fused -> [Lines -> Entries]]
      BY <1>2
    <2>3. tlb' \in [Accesses -> [Lines -> Entries]]
      BY <1>2, <1>7, <2>1 DEF TlbTypes
    <2>4. jtlb' \in [Fused -> [Lines -> Entries]]
      <3>1. t.jtlb \in [Fused -> [Lines -> Entries]]
        BY <1>2 DEF TlbTypes
      <3>2. CASE jtlb' = t.jtlb
        BY <3>1, <3>2
      <3>3. CASE jtlb' # t.jtlb
        <4>1. a \in Fused /\ jtlb' = [t.jtlb EXCEPT ![a][n] = Tag(va, t.pp)]
          BY <1>8, <3>3
        <4> QED BY <1>7, <2>2, <3>1, <4>1
      <3> QED BY <3>2, <3>3
    <2> QED BY <2>3, <2>4 DEF TlbTypes
  <1>10. /\ \A f \in Accesses : \A m \in Lines :
              \/ tlb'[f][m] = tlb[f][m]
              \/ f = a /\ m = n /\ walks(ctx, a) /\ tlb'[f][m] = Tag(va, t.pp)
        /\ \A f \in Fused : \A m \in Lines :
              \/ jtlb'[f][m] \in {NoTag, jtlb[f][m]}
              \/ f = a /\ m = n /\ (a = "Store" => t.pp \notin marked) /\ jtlb'[f][m] = Tag(va, t.pp)
    BY <1>2, <1>8 DEF TlbTypes
  <1>11. \A e \in Entries : \A f : EntryGranted(e, f) => granted_now(e, f)
    <2> HIDE DEF grants
    <2> QED BY <1>6 DEF EntryGranted, Entries
  <1>12. granted_now(Tag(va, t.pp), a)
    BY <1>5, <1>7
  <1>13. TlbGranted'
    <2> HIDE DEF granted_now
    <2>1. \A f \in Accesses : \A m \in Lines :
            granted_now(tlb'[f][m], f) /\ (tlb'[f][m] # NoTag => walks(tlb'[f][m].ctx, f))
      <3> TAKE f \in Accesses
      <3> TAKE m \in Lines
      <3>1. CASE tlb'[f][m] = tlb[f][m]
        BY <1>2, <1>11, <3>1 DEF IInv, Translation, TlbGranted, TlbTypes
      <3>2. CASE f = a /\ m = n /\ walks(ctx, a) /\ tlb'[f][m] = Tag(va, t.pp)
        BY <1>7, <1>12, <3>2
      <3> QED BY <1>10, <3>1, <3>2
    <2>2. \A f \in Fused : \A m \in Lines : granted_now(jtlb'[f][m], f)
      <3> TAKE f \in Fused
      <3> TAKE m \in Lines
      <3>1. CASE jtlb'[f][m] = NoTag
        BY <3>1 DEF granted_now
      <3>2. CASE jtlb'[f][m] = jtlb[f][m]
        BY <1>2, <1>11, <3>2 DEF IInv, Translation, TlbGranted, TlbTypes
      <3>3. CASE f = a /\ jtlb'[f][m] = Tag(va, t.pp)
        BY <1>12, <3>3
      <3> QED BY <1>10, <3>1, <3>2, <3>3
    <2> QED BY <1>4, <2>1, <2>2 DEF TlbGranted, EntryGranted, context_grants, walks, granted_now
  <1>14. StoresSeeCode'
    BY <1>7, <1>10 DEF IInv, Translation, StoresSeeCode, Fused
  <1>15. StoresBacked'
    <2> SUFFICES ASSUME NEW m \in Lines, jtlb'["Store"][m] # NoTag, walks(jtlb'["Store"][m].ctx, "Store")
                 PROVE  /\ tag_is(tlb'["Store"][m], jtlb'["Store"][m].va, jtlb'["Store"][m].ctx)
                        /\ tlb'["Store"][m].pp = jtlb'["Store"][m].pp
      BY DEF StoresBacked, walks
    <2>1. CASE a = "Store" /\ m = n /\ jtlb'["Store"][m] = Tag(va, t.pp)
      BY <1>3, <1>7, <2>1
    <2>2. CASE ~(a = "Store" /\ m = n /\ jtlb'["Store"][m] = Tag(va, t.pp))
      <3>1. jtlb'["Store"][m] = jtlb["Store"][m]
        BY <1>10, <2>2 DEF Fused
      <3>2. tlb'["Store"][m] = tlb["Store"][m]
        <4>1. CASE tlb' = tlb
          BY <4>1
        <4>2. CASE tlb' # tlb /\ a = "Store" /\ m = n
          <5>1. t.jtlb["Store"][m] = NoTag
            BY <1>2, <4>2
          <5>2. jtlb' # t.jtlb
            BY <5>1
          <5>3. jtlb'["Store"][m] = Tag(va, t.pp)
            BY <1>2, <1>8, <4>2, <5>2 DEF TlbTypes
          <5> QED BY <2>2, <4>2, <5>3
        <4>3. CASE ~(a = "Store" /\ m = n)
          BY <1>10, <4>3 DEF Accesses
        <4> QED BY <4>1, <4>2, <4>3
      <3> QED BY <3>1, <3>2 DEF IInv, Translation, StoresBacked
    <2> QED BY <2>1, <2>2
  <1> QED BY <1>4, <1>9, <1>13, <1>14, <1>15 DEF Translation

LEMMA AccessStep ==
  ASSUME IInv, NEW a \in Accesses, NEW va \in Pages, Access(a, va)
  PROVE  IInv'
  <1> DEFINE t == translate(a, va)
  <1>1. execute /\ UNCHANGED << marked, code, decoded >>
    BY DEF Access
  <1>2. CASE ~t.ok
    <2>1. trap(PageFault(a)) /\ Untouched
      BY <1>2 DEF Access, Untouched
    <2> QED BY <1>1, <2>1, TrapStep
  <1>3. CASE t.ok
    <2>1. /\ tlb' = t.tlb /\ jtlb' = fill_jtlb(t.jtlb, va, t.pp, a) /\ walked_table(va, t.dirty)
          /\ retire(sys, FALSE) /\ UNCHANGED << sys, context, frame >>
      BY <1>3 DEF Access
    <2>2. /\ Translation' /\ TlbTypes(tlb', jtlb')
          /\ table' \in [Pages -> Leaves] /\ recent' \in [Pages -> SUBSET Leaves]
      <3> HIDE DEF t
      <3> QED BY <1>1, <1>3, <2>1, TranslateKeeps DEF t
    <2>3. /\ PollInTime' /\ grace' \in Graces /\ UNCHANGED << lines, guest >> /\ Interval' = Interval
          /\ poll' \in [cd : 0..Interval, phase : Phases]
      BY <1>1, <2>1, RetireKeeps DEF IInv, Interval
    <2>4. ContextLive' /\ FrameKept' /\ CodeFresh'
      BY <1>1, <2>1, FrameStays, CodeKept DEF IInv, ContextLive
    <2> QED BY <1>1, <2>1, <2>2, <2>3, <2>4 DEF IInv, TypeOK, TlbTypes
  <1> QED BY <1>2, <1>3

LEMMA FillStep ==
  ASSUME IInv, NEW a \in Accesses, NEW va \in Pages, jit_fill_tlb(a, va)
  PROVE  IInv'
  <1> DEFINE t == translate(a, va)
  <1>1. /\ t.ok /\ tlb' = t.tlb /\ jtlb' = fill_jtlb(t.jtlb, va, t.pp, a) /\ walked_table(va, t.dirty)
        /\ UNCHANGED << sys, lines, poll, context, marked, code, decoded, guest, frame, grace >>
    BY DEF jit_fill_tlb
  <1>2. /\ Translation' /\ TlbTypes(tlb', jtlb')
        /\ table' \in [Pages -> Leaves] /\ recent' \in [Pages -> SUBSET Leaves]
    <2> HIDE DEF t
    <2> QED BY <1>1, TranslateKeeps DEF t
  <1>3. (can_take)' = can_take /\ Interval' = Interval
    BY <1>1 DEF can_take, deliverable, sampled, Interval
  <1>4. ContextLive' /\ FrameKept' /\ CodeFresh' /\ PollInTime'
    BY <1>1, PollKept, FrameStays, CodeKept DEF IInv, ContextLive
  <1> QED BY <1>1, <1>2, <1>3, <1>4 DEF IInv, TypeOK, TlbTypes

(* The guest rewrites leaves: what may be cached grows.                    *)
LEMMA WriteLeafStep ==
  ASSUME IInv, NEW span \in Spans, NEW leaf \in Leaves, WriteLeaf(span, leaf)
  PROVE  IInv'
  <1>1. /\ execute /\ retire(sys, FALSE) /\ UNCHANGED << sys, tlb, jtlb, context, marked, code, decoded, frame >>
        /\ table' = [va \in Pages |-> IF va \in DOMAIN span THEN mapped(leaf, span, va) ELSE table[va]]
        /\ recent' = [va \in Pages |-> recent[va] \cup {table'[va]}]
    BY DEF WriteLeaf
  <1>2. /\ table' \in [Pages -> Leaves] /\ recent' \in [Pages -> SUBSET Leaves]
        /\ \A x \in Pages : recent[x] \subseteq recent'[x] /\ table'[x] \in recent'[x]
    <2>1. ASSUME NEW va \in DOMAIN span
          PROVE  mapped(leaf, span, va) \in Leaves
      <3>1. leaf.pp + span[va] \in Nat /\ span \in Spans \cup {NoSpan}
        BY HartAssumption DEF HartAssumption, Leaves
      <3> QED BY <3>1 DEF mapped, Leaves
    <2>2. table' \in [Pages -> Leaves]
      BY <1>1, <2>1 DEF IInv, TypeOK
    <2> QED BY <1>1, <2>2 DEF IInv, TypeOK
  <1>3. TlbGranted'
    <2> DEFINE granted_now(e, a) ==
          e # NoTag =>
            IF walks(e.ctx, a)
            THEN \E l \in recent'[e.va] : context_permits(l, e.ctx, a) /\ l.pp = e.pp /\ (a = "Store" => l.d)
            ELSE e.pp = e.va
    <2>1. ASSUME NEW a, NEW e \in Entries, EntryGranted(e, a)
          PROVE  granted_now(e, a)
      BY <1>2, <2>1 DEF EntryGranted, context_grants, Entries
    <2>2. /\ \A a \in Accesses : \A n \in Lines : tlb[a][n] \in Entries
          /\ \A a \in Fused : \A n \in Lines : jtlb[a][n] \in Entries
      BY DEF IInv, TypeOK
    <2>3. /\ \A a \in Accesses : \A n \in Lines :
               granted_now(tlb[a][n], a) /\ (tlb[a][n] # NoTag => walks(tlb[a][n].ctx, a))
          /\ \A a \in Fused : \A n \in Lines : granted_now(jtlb[a][n], a)
      <3> HIDE DEF granted_now
      <3> QED BY <2>1, <2>2 DEF IInv, Translation, TlbGranted
    <2>4. /\ \A e, a : EntryGranted(e, a)' <=> granted_now(e, a)
          /\ \A ctx, a : walks(ctx, a)' <=> walks(ctx, a)
      BY <1>1 DEF EntryGranted, context_grants, walks
    <2> HIDE DEF granted_now
    <2> QED BY <1>1, <1>2, <2>3, <2>4 DEF TlbGranted
  <1>4. StoresBacked' /\ StoresSeeCode'
    BY <1>1 DEF IInv, Translation, StoresBacked, StoresSeeCode, walks
  <1>5. /\ PollInTime' /\ grace' \in Graces /\ UNCHANGED << lines, guest >> /\ Interval' = Interval
        /\ poll' \in [cd : 0..Interval, phase : Phases]
    BY <1>1, RetireKeeps DEF IInv, Interval
  <1>6. ContextLive' /\ FrameKept' /\ CodeFresh'
    BY <1>1, FrameStays, CodeKept DEF IInv, ContextLive
  <1> QED BY <1>1, <1>2, <1>3, <1>4, <1>5, <1>6 DEF IInv, TypeOK, Translation

(* A compile marks a page, after the store entries that lead to it went.   *)
LEMMA MarkStep ==
  ASSUME IInv, NEW pp \in Pages, code_mark_page(pp)
  PROVE  IInv'
  <1>1. UNCHANGED << sys, lines, poll, table, recent, tlb, context, code, decoded, guest, frame, grace >>
    BY DEF code_mark_page
  <1>2. (can_take)' = can_take /\ Interval' = Interval
    BY <1>1 DEF can_take, deliverable, sampled, Interval
  <1>3. ContextLive' /\ FrameKept' /\ CodeFresh' /\ PollInTime'
    BY <1>1, PollKept, FrameStays, CodeKept DEF IInv, ContextLive
  <1>4. /\ jtlb' \in [Fused -> [Lines -> Entries]] /\ marked' \subseteq Pages
        /\ \A a \in Fused : \A n \in Lines : jtlb'[a][n] \in {NoTag, jtlb[a][n]}
        /\ \A n \in Lines : jtlb'["Store"][n] # NoTag =>
             marked' \subseteq marked \/ (marked' = marked \cup {pp} /\ ~invalidate_store_jtlb(n, pp))
    <2> DEFINE kept == [n \in Lines |-> IF invalidate_store_jtlb(n, pp) THEN NoTag ELSE jtlb["Store"][n]]
    <2>1. jtlb \in [Fused -> [Lines -> Entries]] /\ "Store" \in Fused /\ marked \subseteq Pages
      BY DEF IInv, TypeOK, Fused
    <2>2. CASE pp \in marked
      BY <2>1, <2>2 DEF code_mark_page
    <2>3. CASE pp \notin marked
      <3>1. jtlb' = [jtlb EXCEPT !["Store"] = kept] /\ marked' = marked \cup {pp}
        BY <2>3 DEF code_mark_page
      <3>2. kept \in [Lines -> Entries]
        BY <2>1 DEF Entries
      <3>3. \A n \in Lines : kept[n] \in {NoTag, jtlb["Store"][n]} /\ (kept[n] # NoTag => ~invalidate_store_jtlb(n, pp))
        OBVIOUS
      <3> HIDE DEF kept
      <3> QED BY <2>1, <3>1, <3>2, <3>3
    <2> QED BY <2>2, <2>3
  <1>5. TlbGranted'
    BY <1>1, <1>4 DEF IInv, Translation, TlbGranted, EntryGranted, context_grants, walks
  <1>6. StoresBacked'
    BY <1>1, <1>4 DEF IInv, Translation, StoresBacked, walks, Fused
  <1>7. StoresSeeCode'
    <2> SUFFICES ASSUME NEW n \in Lines, jtlb'["Store"][n] # NoTag
                 PROVE  jtlb'["Store"][n].pp \notin marked'
      BY DEF StoresSeeCode
    <2>1. jtlb'["Store"][n] = jtlb["Store"][n] /\ jtlb["Store"][n].pp \notin marked
      BY <1>4 DEF IInv, Translation, StoresSeeCode, Fused
    <2>2. ASSUME ~invalidate_store_jtlb(n, pp)
          PROVE  jtlb["Store"][n].pp # pp
      <3>1. /\ tag_is(tlb["Store"][n], jtlb["Store"][n].va, jtlb["Store"][n].ctx)
            /\ tlb["Store"][n].pp # pp
        BY <2>1, <2>2 DEF invalidate_store_jtlb
      <3>2. walks(jtlb["Store"][n].ctx, "Store")
        BY <3>1 DEF tag_is, IInv, Translation, TlbGranted, Accesses
      <3> QED BY <2>1, <3>1, <3>2 DEF IInv, Translation, StoresBacked
    <2> QED BY <1>4, <2>1, <2>2
  <1> QED BY <1>1, <1>2, <1>3, <1>4, <1>5, <1>6, <1>7 DEF IInv, TypeOK, Translation

(* The fences.  A flush forgets all; a fence for an address forgets what   *)
(* the TLBs hold of it, and nothing else is promised of its leaf.          *)
LEMMA FlushKeeps ==
  ASSUME IInv, flush_tlb, table' = table, recent' = [x \in Pages |-> {table[x]}], marked' = marked
  PROVE  /\ Translation' /\ TlbTypes(tlb', jtlb') /\ recent' \in [Pages -> SUBSET Leaves]
  <1>1. \A a \in Accesses : \A n \in Lines : tlb'[a][n] = NoTag
    BY DEF flush_tlb
  <1>2. \A a \in Fused : \A n \in Lines : jtlb'[a][n] = NoTag
    BY DEF flush_tlb
  <1>3. TlbTypes(tlb', jtlb')
    BY DEF flush_tlb, TlbTypes, Entries
  <1>4. recent' \in [Pages -> SUBSET Leaves] /\ \A x \in Pages : table'[x] \in recent'[x]
    BY DEF IInv, TypeOK
  <1>5. "Store" \in Fused
    BY DEF Fused
  <1> QED BY <1>1, <1>2, <1>3, <1>4, <1>5
          DEF Translation, TlbGranted, EntryGranted, StoresBacked, StoresSeeCode

LEMMA FencePageKeeps ==
  ASSUME IInv, NEW va \in Pages, flush_tlb_page(va), sys' = sys, table' = table, marked' = marked,
         recent' = [x \in Pages |-> IF x = va THEN {table[x]} ELSE recent[x]]
  PROVE  /\ Translation' /\ TlbTypes(tlb', jtlb') /\ recent' \in [Pages -> SUBSET Leaves]
  <1>1. /\ tlb \in [Accesses -> [Lines -> Entries]] /\ jtlb \in [Fused -> [Lines -> Entries]]
        /\ NoTag \in Entries /\ "Store" \in Fused /\ "Store" \in Accesses
    BY DEF IInv, TypeOK, Entries, Fused, Accesses
  <1>2. /\ tlb' = [a \in Accesses |-> [n \in Lines |-> IF tlb[a][n].va = va THEN NoTag ELSE tlb[a][n]]]
        /\ jtlb' = [a \in Fused |-> [n \in Lines |-> IF jtlb[a][n].va = va THEN NoTag ELSE jtlb[a][n]]]
    BY <1>1 DEF flush_tlb_page, flush_rows
  <1>3. /\ \A a \in Accesses : \A n \in Lines :
             tlb'[a][n] = IF tlb[a][n].va = va THEN NoTag ELSE tlb[a][n]
        /\ \A a \in Fused : \A n \in Lines :
             jtlb'[a][n] = IF jtlb[a][n].va = va THEN NoTag ELSE jtlb[a][n]
    BY <1>2
  <1>4. TlbTypes(tlb', jtlb')
    <2>1. /\ \A a \in Accesses : \A n \in Lines : (IF tlb[a][n].va = va THEN NoTag ELSE tlb[a][n]) \in Entries
          /\ \A a \in Fused : \A n \in Lines : (IF jtlb[a][n].va = va THEN NoTag ELSE jtlb[a][n]) \in Entries
      BY <1>1
    <2> QED BY <1>2, <2>1 DEF TlbTypes
  <1>5. recent' \in [Pages -> SUBSET Leaves] /\ \A x \in Pages : table'[x] \in recent'[x]
    BY DEF IInv, TypeOK, Translation, TlbGranted
  <1>6. \A x \in Pages \ {va} : recent'[x] = recent[x]
    OBVIOUS
  <1> DEFINE granted_now(e, a) ==
        e # NoTag =>
          IF walks(e.ctx, a)
          THEN \E l \in recent'[e.va] : context_permits(l, e.ctx, a) /\ l.pp = e.pp /\ (a = "Store" => l.d)
          ELSE e.pp = e.va
  <1>7. \A e \in Entries : \A a : EntryGranted(e, a) => granted_now(IF e.va = va THEN NoTag ELSE e, a)
    <2> SUFFICES ASSUME NEW e \in Entries, NEW a, EntryGranted(e, a), e.va # va
                 PROVE  granted_now(e, a)
      OBVIOUS
    <2> QED BY <1>6 DEF EntryGranted, context_grants, Entries
  <1>8. TlbGranted'
    <2> HIDE DEF granted_now
    <2>1. \A a \in Accesses : \A n \in Lines :
            granted_now(tlb'[a][n], a) /\ (tlb'[a][n] # NoTag => walks(tlb'[a][n].ctx, a))
      BY <1>1, <1>3, <1>7 DEF IInv, Translation, TlbGranted
    <2>2. \A a \in Fused : \A n \in Lines : granted_now(jtlb'[a][n], a)
      BY <1>1, <1>3, <1>7 DEF IInv, Translation, TlbGranted
    <2> QED BY <1>5, <2>1, <2>2 DEF TlbGranted, EntryGranted, context_grants, walks, granted_now
  <1>9. StoresBacked'
    BY <1>1, <1>3 DEF IInv, Translation, StoresBacked, walks, tag_is
  <1>10. StoresSeeCode'
    BY <1>1, <1>3 DEF IInv, Translation, StoresSeeCode
  <1> QED BY <1>4, <1>5, <1>8, <1>9, <1>10 DEF Translation

LEMMA SfenceStep ==
  ASSUME IInv, NEW va \in Pages \cup {0}, SfenceVma(va)
  PROVE  IInv'
  <1>1. execute /\ UNCHANGED << marked, code, decoded >>
    BY DEF SfenceVma
  <1>2. CASE sys.mode = User \/ (sys.mode = Supervisor /\ sys.TVM)
    <2>1. trap(Illegal) /\ Untouched
      BY <1>2 DEF SfenceVma, Untouched
    <2> QED BY <1>1, <2>1, TrapStep
  <1>3. CASE ~(sys.mode = User \/ (sys.mode = Supervisor /\ sys.TVM))
    <2>1. /\ IF va = 0 THEN flush_tlb ELSE flush_tlb_page(va)
          /\ recent' = [x \in Pages |-> IF va \in {0, x} THEN {table[x]} ELSE recent[x]]
          /\ retire(sys, FALSE) /\ UNCHANGED << sys, table, context, frame >>
      BY <1>3 DEF SfenceVma
    <2>2. Translation' /\ TlbTypes(tlb', jtlb') /\ recent' \in [Pages -> SUBSET Leaves]
      <3>1. CASE va = 0
        <4>1. recent' = [x \in Pages |-> {table[x]}]
          BY <2>1, <3>1
        <4> QED BY <1>1, <2>1, <3>1, <4>1, FlushKeeps
      <3>2. CASE va # 0
        <4>1. recent' = [x \in Pages |-> IF x = va THEN {table[x]} ELSE recent[x]]
          BY <2>1, <3>2
        <4> QED BY <1>1, <2>1, <3>2, <4>1, FencePageKeeps
      <3> QED BY <3>1, <3>2
    <2>3. /\ PollInTime' /\ grace' \in Graces /\ UNCHANGED << lines, guest >> /\ Interval' = Interval
          /\ poll' \in [cd : 0..Interval, phase : Phases]
      BY <1>1, <2>1, RetireKeeps DEF IInv, Interval
    <2>4. ContextLive' /\ FrameKept' /\ CodeFresh'
      BY <1>1, <2>1, FrameStays, CodeKept DEF IInv, ContextLive
    <2> QED BY <1>1, <2>1, <2>2, <2>3, <2>4 DEF IInv, TypeOK, TlbTypes
  <1> QED BY <1>2, <1>3

LEMMA SatpStep ==
  ASSUME IInv, NEW v \in {"bare", "paged"}, WriteSatp(v)
  PROVE  IInv'
  <1>1. execute /\ UNCHANGED << marked, code, decoded >>
    BY DEF WriteSatp
  <1>2. CASE sys.mode < Supervisor \/ (sys.mode = Supervisor /\ sys.TVM)
    <2>1. trap(Illegal) /\ Untouched
      BY <1>2 DEF WriteSatp, Untouched
    <2> QED BY <1>1, <2>1, TrapStep
  <1>3. CASE ~(sys.mode < Supervisor \/ (sys.mode = Supervisor /\ sys.TVM))
    <2>1. /\ sys' = [sys EXCEPT !.satp = v] /\ flush_tlb /\ recent' = [va \in Pages |-> {table[va]}]
          /\ retire(sys', TRUE) /\ UNCHANGED << table, context, frame >>
      BY <1>3 DEF WriteSatp
    <2>2. /\ sys' \in SysCsrs /\ translation_context(sys') = translation_context(sys)
          /\ sys'.SPP = sys.SPP /\ sys'.SPIE = sys.SPIE
      BY <2>1 DEF IInv, TypeOK, SysCsrs, translation_context, data_mode
    <2>3. Translation' /\ TlbTypes(tlb', jtlb') /\ recent' \in [Pages -> SUBSET Leaves]
      BY <1>1, <2>1, FlushKeeps
    <2>4. /\ PollInTime' /\ grace' \in Graces /\ UNCHANGED << lines, guest >> /\ Interval' = Interval
          /\ poll' \in [cd : 0..Interval, phase : Phases]
      BY <1>1, <2>1, RetireKeeps DEF IInv, Interval
    <2>5. ContextLive' /\ FrameKept' /\ CodeFresh'
      BY <1>1, <2>1, <2>2, FrameStays, CodeKept DEF IInv, ContextLive, translation_context, data_mode, from_bits
    <2> QED BY <1>1, <2>1, <2>2, <2>3, <2>4, <2>5 DEF IInv, TypeOK, TlbTypes
  <1> QED BY <1>2, <1>3

-----------------------------------------------------------------------------
LEMMA NextIInv == IInv /\ [Next]_vars => IInv'
  <1> SUFFICES ASSUME IInv, [Next]_vars PROVE IInv'
    OBVIOUS
  <1>1. /\ guest.accesses \subseteq Accesses /\ guest.leaves \subseteq Leaves /\ guest.irqs \subseteq Nat
        /\ \A v \in guest.status : \A f \in DOMAIN v : f \in MstatusBits /\ v[f] \in status_field(f)
    BY HartAssumption DEF HartAssumption, IInv, TypeOK
  <1>2. CASE Memory
    BY <1>1, <1>2, AccessStep, FillStep, WriteLeafStep, SfenceStep, SatpStep, MarkStep DEF Memory
  <1>3. CASE System
    <2>1. CASE \E v \in guest.status : WriteSstatus(v) \/ WriteMstatus(v)
      <3>1. SstatusBits \subseteq MstatusBits
        BY DEF MstatusBits
      <3> QED BY <1>1, <2>1, <3>1, StatusStep DEF WriteSstatus, WriteMstatus
    <2>2. CASE \E v \in IrqSets : WriteSie(v) \/ WriteMie(v) \/ WriteSip(v) \/ WriteMip(v) \/ WriteMideleg(v)
      BY <1>1, <2>2, IrqWriteStep DEF IrqSets
    <2> QED BY <1>3, <2>1, <2>2, ServiceSbiStep, SyncDevicesStep, EcallStep, MretStep, SretStep, WfiStep
            DEF System
  <1>4. CASE Code
    BY <1>4, CodeStep
  <1>5. CASE Poll \/ \E irq \in guest.irqs \cap HW : SetLine(irq)
    BY <1>1, <1>5, PollStep, SetLineStep
  <1>7. CASE Round \/ Boundary
    BY <1>7, RoundStep, BoundaryStep
  <1>6. CASE UNCHANGED vars
    <2>1. /\ Untouched /\ UNCHANGED << sys, lines, poll, context, guest, frame, grace >>
      BY <1>6 DEF vars, Untouched
    <2>2. (can_take)' = can_take /\ Interval' = Interval
      BY <2>1 DEF can_take, deliverable, sampled, Interval
    <2>3. ContextLive' /\ FrameKept' /\ PollInTime'
      BY <2>1, PollKept, FrameStays DEF IInv, ContextLive
    <2> QED BY <2>1, <2>2, <2>3, UntouchedKeeps DEF IInv, TypeOK
  <1> QED BY <1>2, <1>3, <1>4, <1>5, <1>6, <1>7 DEF Next

LEMMA Invariant == Spec => []IInv
  BY InitIInv, NextIInv, PTL DEF Spec

(* Type correctness of the hart, its TLBs and its decoded pages.           *)
THEOREM HartTypeOK == Spec => []TypeOK
  <1>1. IInv => TypeOK
    BY DEF IInv
  <1> QED BY <1>1, Invariant, PTL

(* Whatever traps, returns and writes to mstatus happen between a walk and *)
(* the use of its TLB entry, by the interpreter under the current mode or  *)
(* by compiled code under the live context, the use is granted by a leaf   *)
(* in force since the last fence that named its page or all pages, for     *)
(* superpages as for single pages: it needs no flush of the TLBs.          *)
THEOREM HartTranslations == Spec => []TranslationsPermitted
  <1>1. IInv => TranslationsPermitted
    <2> SUFFICES ASSUME IInv, NEW va \in Pages
                 PROVE  /\ \A a \in Accesses : tag_is(tlb[a][Line[va]], va, translation_context(sys)) =>
                                                 granted(va, a, tlb[a][Line[va]].pp)
                        /\ \A a \in Fused : tag_is(jtlb[a][Line[va]], va, context) =>
                                              granted(va, a, jtlb[a][Line[va]].pp)
      BY DEF TranslationsPermitted
    <2> DEFINE ctx == translation_context(sys)
    <2>1. \A a \in Accesses : \A pp : context_grants(ctx, va, a, pp) => granted(va, a, pp)
      <3> SUFFICES ASSUME NEW a \in Accesses, NEW pp, context_grants(ctx, va, a, pp)
                   PROVE  granted(va, a, pp)
        OBVIOUS
      <3>1. untranslated(sys, a) <=> ~walks(ctx, a)
        BY UntranslatedByContext DEF IInv
      <3>2. \A leaf \in recent[va] : leaf \in Leaves
        BY DEF IInv, TypeOK
      <3>3. walks(ctx, a) => \A leaf \in Leaves : context_permits(leaf, ctx, a) => permits(leaf, sys, a)
        BY PermitsByContext DEF IInv
      <3> HIDE DEF ctx
      <3> QED BY <3>1, <3>2, <3>3 DEF context_grants, granted
    <2>2. Line[va] \in Lines /\ context = ctx /\ Fused \subseteq Accesses
      BY DEF Lines, IInv, ContextLive, Fused, Accesses
    <2> HIDE DEF ctx
    <2>3. \A a \in Accesses : tag_is(tlb[a][Line[va]], va, ctx) => context_grants(ctx, va, a, tlb[a][Line[va]].pp)
      BY <2>2 DEF IInv, Translation, TlbGranted, EntryGranted, tag_is
    <2>4. \A a \in Fused : tag_is(jtlb[a][Line[va]], va, ctx) => context_grants(ctx, va, a, jtlb[a][Line[va]].pp)
      BY <2>2 DEF IInv, Translation, TlbGranted, EntryGranted, tag_is
    <2> QED BY <2>1, <2>2, <2>3, <2>4 DEF ctx
  <1> QED BY <1>1, Invariant, PTL

(* However compiles mark pages between fills of the fused store TLB, no    *)
(* entry of it leads to a page with compiled code: every compiled store to *)
(* such a page reaches the interpreter, which notes the write.             *)
THEOREM HartStoresSeeCode == Spec => []StoresSeeCode
  <1>1. IInv => StoresSeeCode
    BY DEF IInv, Translation
  <1> QED BY <1>1, Invariant, PTL

(* After a FENCE.I the interpreter runs no block decoded from bytes older  *)
(* than that fence, partly decoded pages and full arenas included.         *)
THEOREM HartDecodedFresh == Spec => []DecodedFresh
  <1>1. IInv => DecodedFresh
    BY DEF IInv, CodeFresh, DecodedFresh, holds_page
  <1> QED BY <1>1, Invariant, PTL

(* An interrupt is taken in time, with compiled code that does not poll    *)
(* run between the interpreter's blocks: one the guest's own instruction   *)
(* makes deliverable after at most one round of it and before the next     *)
(* interpreted instruction, one whose line or the timer rises within       *)
(* Interval + 1 of each.                                                   *)
THEOREM HartInterruptsPrompt == Spec => []InterruptsPrompt
  <1>1. IInv => InterruptsPrompt
    BY DEF IInv, PollInTime, InterruptsPrompt
  <1> QED BY <1>1, Invariant, PTL

(* SRET restores the mode and the interrupt enable that the trap found.    *)
THEOREM HartReturnsRestore == Spec => ReturnsRestore
  <1>1. IInv /\ [Next]_vars =>
          [Sret /\ frame # NoFrame /\ sys.mode = Supervisor /\ ~sys.TSR
             => sys'.mode = frame.mode /\ sys'.SIE = frame.sie]_vars
    <2> SUFFICES ASSUME IInv, Sret, frame # NoFrame, sys.mode = Supervisor, ~sys.TSR
                 PROVE  sys'.mode = frame.mode /\ sys'.SIE = frame.sie
      OBVIOUS
    <2>1. User # Supervisor
      BY DEF User, Supervisor
    <2>2. sys' = [sys EXCEPT !.SIE = sys.SPIE, !.SPIE = TRUE, !.SPP = FALSE, !.MPRV = FALSE,
                             !.mode = IF sys.SPP THEN Supervisor ELSE User]
      BY <2>1 DEF Sret, xret
    <2>3. sys'.SIE = sys.SPIE /\ sys'.mode = IF sys.SPP THEN Supervisor ELSE User
      BY <2>2 DEF IInv, TypeOK, SysCsrs
    <2> QED BY <2>3 DEF IInv, FrameKept
  <1> QED BY <1>1, Invariant, PTL DEF Spec, ReturnsRestore
=============================================================================
