---------------------------- MODULE JitOwnership ----------------------------
(***************************************************************************)
(* The Rust side of the JIT (rv64-wasm/src/lib.rs): the compiles that are  *)
(* under way, the code cache with its owners and indexes, the dispatch     *)
(* lines, the claims on code pages, and the write tracking of the pages    *)
(* (JitPageState, rv64-system/src/lib.rs).  Which pcs are hot, which of    *)
(* the translators is asked and what a guest page holds are the guest's    *)
(* business and every choice is allowed.  The host is JitPipeline's.       *)
(***************************************************************************)
EXTENDS Integers, Sequences, FiniteSets, FiniteSetsExt, SequencesExt

CONSTANTS
  Pcs,          \* the pcs that get compiled
  PageOf,       \* pc -> virtual page
  Dslot,        \* pc -> its line in the direct-mapped dispatch table
  Spaces, Boot, \* address spaces (values of satp), the first one
  Mapping,      \* <<space, virtual page>> -> physical page
  FpPcs,        \* the pcs whose trace uses FP
  Barren,       \* the pcs where no trace can be translated
  Slots,        \* function table slots, an interval of 1 ..
  MaxPending,   \* MAX_PENDING_JIT
  Scopes,       \* [kinds, pcs, batch, issues, writes]: the translators in use (block, stage,
                \* page, region), the hot pcs, CONFIRMED_BATCH_TARGET, and bounds on the
                \* compiles and the guest writes
  MaxTickets    \* the largest bound on the compiles

VARIABLES
  jit,          \* JitState
  pending,      \* PENDING_JIT: ticket -> the compile
  pages,        \* JitPageState, with the version of each page's bytes
  satp,         \* the current address space
  tickets,      \* NEXT_JIT_TICKET
  scope         \* the translators and the pcs of this behaviour
vars == <<jit, pending, pages, satp, tickets, scope>>

Virtual == {PageOf[pc] : pc \in Pcs}
Physical == {Mapping[k] : k \in DOMAIN Mapping}
Keys == Spaces \X Virtual
Tickets == 1 .. MaxTickets

(* 0 stands for no pc, no slot and no owner.                               *)
ASSUME OwnershipAssumption ==
  /\ IsFiniteSet(Pcs) /\ Pcs \subseteq Nat \ {0}
  /\ DOMAIN PageOf = Pcs /\ DOMAIN Dslot = Pcs
  /\ IsFiniteSet(Spaces) /\ Boot \in Spaces
  /\ DOMAIN Mapping = Keys
  /\ IsFiniteSet(Slots) /\ Slots \subseteq Nat \ {0}
  /\ MaxTickets \in Nat
  /\ \A s \in Scopes : /\ s.pcs \subseteq Pcs /\ s.batch \in Nat \ {0}
                       /\ s.issues \in 0 .. MaxTickets

key_of(space, pc) == <<space, PageOf[pc]>>

NoLine == [pc |-> 0, idx |-> 0, fresh |-> FALSE]
NoEntry == [idx |-> -1]                   \* the pc is not in the cache
NoModule == [is |-> "none"]
NoClaim == [ticket |-> 0]
NoExits == [lead |-> 0]

(* A blacklisted pc has idx 0.                                             *)
new ==
  [cache |-> [pc \in Pcs |-> NoEntry],
   refs |-> [i \in Slots |-> 0], slot_owner |-> [i \in Slots |-> 0], live |-> {},
   owner_entries |-> [o \in Tickets |-> {}], cold |-> <<>>,
   module_owner |-> [o \in Tickets |-> <<>>], modules |-> [k \in Keys |-> NoModule],
   superblocked |-> {}, claims |-> [k \in Keys |-> NoClaim],
   regions |-> [i \in Slots |-> {}], exits |-> [i \in Slots |-> NoExits], ext_queue |-> {},
   lines |-> [n \in {Dslot[pc] : pc \in Pcs} |-> NoLine],
   page_blocks |-> [p \in Physical |-> {}],
   stage |-> <<>>, coverage |-> [sp \in Spaces \X Pcs |-> 0], fill |-> FALSE]

Init ==
  /\ jit = new
  /\ pending = <<>>
  /\ pages = [p \in Physical |-> [marked |-> FALSE, dirty |-> FALSE, gen |-> 0, bytes |-> 0]]
  /\ satp = Boot
  /\ tickets = 0
  /\ scope \in Scopes

-----------------------------------------------------------------------------
(* Owners, slots and the cache.                                            *)
cached(j, pc) == j.cache[pc].idx > 0
owner_slots(j, o) == {i \in Slots : j.slot_owner[i] = o}

update_owner_recency(j, o) ==
  [j EXCEPT !.cold = Append(RemoveFirst(@, o), o)]

forget_owner(j, o) ==
  LET k == j.module_owner[o]
      m == j.modules[k]
      left == CASE m.is = "live" /\ m.owner = o -> NoModule
                [] m.is = "pending" /\ m.owner = o -> [m EXCEPT !.owner = 0]
                [] OTHER -> m
      i == [j EXCEPT !.owner_entries[o] = {}, !.cold = RemoveFirst(@, o)]
  IN  IF k = <<>> THEN i ELSE [i EXCEPT !.module_owner[o] = <<>>, !.modules[k] = left]

retire_slot_only(j, idx) ==   \* mutant: the owner is not forgotten with its last slot
  [j EXCEPT !.slot_owner[idx] = 0, !.regions[idx] = {}, !.exits[idx] = NoExits, !.ext_queue = @ \ {idx},
            !.live = @ \ {idx}]
retire_owned_slot(j, idx) ==
  LET o == j.slot_owner[idx]
      i == [j EXCEPT !.slot_owner[idx] = 0]
      f == IF owner_slots(i, o) = {} THEN forget_owner(i, o) ELSE i
  IN  IF o = 0 THEN j
      ELSE [f EXCEPT !.regions[idx] = {}, !.exits[idx] = NoExits, !.ext_queue = @ \ {idx},
                     !.live = @ \ {idx}]

release_slot(j, idx) ==
  IF j.refs[idx] = 0 THEN j
  ELSE LET i == [j EXCEPT !.refs[idx] = @ - 1]
       IN  IF i.refs[idx] = 0 THEN retire_owned_slot(i, idx) ELSE i

physical_page(pc, src) == (CHOOSE s \in src : s.va = PageOf[pc]).pp
block_physical_pages(j, pc, e) ==
  IF e.idx > 0 /\ j.regions[e.idx] # {} THEN {s.pp : s \in j.regions[e.idx]}
  ELSE {physical_page(pc, e.src)}
index_block(j, pc, e) ==
  LET on == block_physical_pages(j, pc, e)
  IN  [j EXCEPT !.page_blocks = [p \in Physical |-> IF p \in on THEN @[p] \cup {pc} ELSE @[p]]]
unindex_block(j, pc, e) ==
  LET on == block_physical_pages(j, pc, e)
  IN  [j EXCEPT !.page_blocks = [p \in Physical |-> IF p \in on THEN @[p] \ {pc} ELSE @[p]]]

cache_remove(j, pc) ==
  LET e == j.cache[pc]
      i == unindex_block([j EXCEPT !.cache[pc] = NoEntry], pc, e)
  IN  IF e = NoEntry THEN j
      ELSE IF e.idx = 0 THEN i
      ELSE release_slot([i EXCEPT !.owner_entries[j.slot_owner[e.idx]] = @ \ {pc}], e.idx)

cache_insert(j, pc, e) ==
  LET old == j.cache[pc]
      was == IF old.idx > 0 THEN j.slot_owner[old.idx] ELSE 0
      o == IF e.idx > 0 THEN j.slot_owner[e.idx] ELSE 0
      put == [j EXCEPT !.cache[pc] = e]
      out == IF old = NoEntry THEN put ELSE unindex_block(put, pc, old)
      in == index_block(out, pc, e)
      dropped == IF was # 0 /\ was # o THEN [in EXCEPT !.owner_entries[was] = @ \ {pc}] ELSE in
      added == IF o # 0 THEN update_owner_recency([dropped EXCEPT !.owner_entries[o] = @ \cup {pc}], o)
               ELSE dropped
      counted == IF old.idx # e.idx /\ e.idx > 0 THEN [added EXCEPT !.refs[e.idx] = @ + 1] ELSE added
  IN  IF old.idx # e.idx /\ old.idx > 0 THEN release_slot(counted, old.idx) ELSE counted

clear_line(j, pc) ==
  IF j.lines[Dslot[pc]].pc = pc THEN [j EXCEPT !.lines[Dslot[pc]] = NoLine] ELSE j
(* The entry and its line, as most callers drop them.                      *)
drop(j, pc) == clear_line(cache_remove(j, pc), pc)
drop_all(j, pcs) == FoldSet(LAMBDA pc, i : drop(i, pc), j, pcs)

retire_unreferenced(j, slots) ==
  FoldSet(LAMBDA idx, i : IF i.refs[idx] = 0 THEN retire_owned_slot(i, idx) ELSE i, j, slots)
retire_unreferenced_slots(j, o) == retire_unreferenced(j, owner_slots(j, o))

retire_owner(j, o) ==
  LET gone == drop_all([j EXCEPT !.owner_entries[o] = {}], j.owner_entries[o])
      i == retire_unreferenced(gone, owner_slots(j, o))
  IN  IF owner_slots(j, o) = {} THEN forget_owner(i, o) ELSE i

is_page_module_slot(j, idx) == j.slot_owner[idx] # 0 /\ j.module_owner[j.slot_owner[idx]] # <<>>

(* A page router calls its bodies without a check: its owner goes whole.   *)
retire_entry(j, pc) ==
  LET idx == j.cache[pc].idx
  IN  IF idx > 0 /\ is_page_module_slot(j, idx) THEN retire_owner(j, j.slot_owner[idx])
      ELSE drop(j, pc)

track_owner(j, o, run) ==
  update_owner_recency([j EXCEPT !.slot_owner = [i \in Slots |-> IF i \in run THEN o ELSE @[i]],
                                 !.live = @ \cup run], o)

evict_cold_owner(j) == IF j.cold = <<>> THEN j ELSE retire_owner(j, Head(j.cold))

-----------------------------------------------------------------------------
(* Write tracking.  Only the first write to a marked page since the last   *)
(* drain is counted.                                                       *)
note_page_write(p) ==
  LET w == pages[p]
  IN  [pages EXCEPT ![p] = [w EXCEPT !.bytes = @ + 1, !.dirty = @ \/ w.marked,
                                     !.gen = IF w.marked /\ ~w.dirty THEN @ + 1 ELSE @]]
code_mark(ps) == [p \in Physical |-> IF p \in ps THEN [pages[p] EXCEPT !.marked = TRUE] ELSE pages[p]]

(* What a compile was made from: each page, its write generation, and      *)
(* (for the properties) the version of its bytes.                          *)
source(page_set) ==
  {[va |-> s[1], pp |-> s[2], gen |-> pages[s[2]].gen, ver |-> pages[s[2]].bytes] : s \in page_set}
page_here(va) == <<va, Mapping[<<satp, va>>]>>
source_marked_dirty(src) ==   \* mutant: without the write generation
  \E s \in src : ~pages[s.pp].marked \/ pages[s.pp].dirty
source_stale(src) ==
  \E s \in src : ~pages[s.pp].marked \/ pages[s.pp].dirty \/ pages[s.pp].gen # s.gen

-----------------------------------------------------------------------------
(* Claims of superblocks on virtual pages, and the life of page modules.   *)
claim_pending_superblock(j, t, space, page_set) ==
  LET ks == {<<space, s[1]>> : s \in page_set}
      page(k) == (CHOOSE s \in page_set : s[1] = k[2])[2]
      prior(k) == IF j.claims[k] = NoClaim THEN k \in j.superblocked ELSE j.claims[k].prior
  IN  [j EXCEPT !.claims = [k \in Keys |-> IF k \in ks
                                           THEN [ticket |-> t, prior |-> prior(k), page |-> page(k)]
                                           ELSE @[k]],
                !.superblocked = @ \cup ks]

finish_pending_superblock(j, t, c, landed) ==
  LET mine == {k \in Keys : k[1] = c.space /\ (\E s \in c.src : s.va = k[2]) /\ j.claims[k].ticket = t}
  IN  [j EXCEPT !.claims = [k \in Keys |-> IF k \in mine THEN NoClaim ELSE @[k]],
                !.superblocked = IF landed THEN @ ELSE @ \ {k \in mine : ~j.claims[k].prior}]

active_owner(m) == IF m.is \in {"live", "pending"} THEN m.owner ELSE 0
Attempted(src) == [is |-> "attempted", source |-> src]
Live(o, src) == [is |-> "live", owner |-> o, source |-> src]
Pending(t, o, src, prior) == [is |-> "pending", ticket |-> t, owner |-> o, source |-> src, prior |-> prior]

(* Back to the live module a pending one would replace, or to what a build *)
(* that did not land leaves.                                               *)
give_back(j, k, owner, prior, otherwise) ==
  [j EXCEPT !.modules[k] = IF owner # 0 THEN Live(owner, prior) ELSE otherwise]
record_page_module_failure(j, k, src, owner, prior) == give_back(j, k, owner, prior, Attempted(src))

module_pending(j, t, c) ==
  c.kind = "page" /\ j.modules[c.key].is = "pending" /\ j.modules[c.key].ticket = t
finish_pending_page_module(j, t, c, how) ==
  LET m == j.modules[c.key]
  IN  IF ~module_pending(j, t, c) THEN j
      ELSE CASE how = "failed" -> record_page_module_failure(j, c.key, m.source, m.owner, m.prior)
             [] how = "cancelled" -> give_back(j, c.key, m.owner, m.prior, NoModule)
             [] how = "landed" -> [j EXCEPT !.modules[c.key] = Live(t, m.source),
                                            !.module_owner[t] = c.key]

page_module_owns_cached_entry(j, space, pc) ==
  LET o == active_owner(j.modules[key_of(space, pc)])
  IN  o # 0 /\ cached(j, pc) /\ j.slot_owner[j.cache[pc].idx] = o

invalidate_superblock_state(j, exact, broad) ==
  LET owners == {active_owner(j.modules[k]) : k \in exact} \ {0}
      i == FoldSet(LAMBDA o, x : retire_owner(x, o), j, owners)
      keep(k) == k \notin exact /\ k[2] \notin broad
  IN  [i EXCEPT !.modules = [k \in Keys |-> IF k \in exact THEN NoModule ELSE @[k]],
                !.superblocked = {k \in @ : keep(k)},
                !.claims = [k \in Keys |-> IF keep(k) THEN @[k] ELSE NoClaim]]

tracked_page_keys_for_physical(j, p) ==
  {k \in Keys : \/ j.claims[k] # NoClaim /\ j.claims[k].page = p
                \/ j.modules[k] # NoModule /\ j.modules[k].source.pp = p}

add_coverage(cov, b, n) ==
  [sp \in DOMAIN cov |-> IF sp[1] = b.space /\ sp[2] \in b.cover THEN cov[sp] + n ELSE cov[sp]]
remove_confirmed_coverage(cov, b) ==
  [sp \in DOMAIN cov |-> Max({0, add_coverage(cov, b, -1)[sp]})]
remove_pending_coverage(cov, blocks) == FoldLeft(remove_confirmed_coverage, cov, blocks)

-----------------------------------------------------------------------------
(* The run loop's upkeep: at its top the dirty pages are drained.          *)
on_page(b, p) == \E s \in b.src : s.pp = p
restage_uncounted(j, p, b) ==   \* mutant: the trace goes, what it covered stays counted
  IF on_page(b, p) THEN j ELSE [j EXCEPT !.stage = Append(@, b)]
restage(j, p, b) ==
  IF on_page(b, p) THEN [j EXCEPT !.coverage = remove_confirmed_coverage(@, b)]
                   ELSE [j EXCEPT !.stage = Append(@, b)]
drain_page(j, p) ==
  LET staged == FoldLeft(LAMBDA i, b : restage(i, p, b), [j EXCEPT !.stage = <<>>], j.stage)
  IN  drop_all([staged EXCEPT !.page_blocks[p] = {}], j.page_blocks[p])

TakeDirty ==
  LET dirty == {p \in Physical : pages[p].dirty}
      exact == UNION {tracked_page_keys_for_physical(jit, p) : p \in dirty}
      broad == {PageOf[pc] : pc \in UNION {jit.page_blocks[p] : p \in dirty}}
      i == FoldSet(LAMBDA p, j : drain_page(j, p), jit, dirty)
  IN  /\ dirty # {}
      /\ jit' = invalidate_superblock_state(i, exact, broad)
      /\ pages' = [p \in Physical |-> IF p \in dirty
                                       THEN [pages[p] EXCEPT !.dirty = FALSE, !.marked = FALSE]
                                       ELSE pages[p]]
      /\ UNCHANGED <<pending, satp, tickets>>

(* A store by the interpreter, or a device's DMA: compiled stores bail at  *)
(* a marked page.                                                          *)
GuestWrite(p) ==
  /\ MapThenSumSet(LAMBDA x : pages[x].bytes, Physical) < scope.writes
  /\ pages' = note_page_write(p)
  /\ UNCHANGED <<jit, pending, satp, tickets>>

(* satp is written: lines must be verified again.  Past SB_SPACE_CAP pages *)
(* the superblocks' bookkeeping is thrown away; the code has a cap for the *)
(* claims and one for the modules tried, which are passed together here.   *)
SwitchSpace(space, full) ==
  /\ space # satp
  /\ satp' = space
  /\ LET i == [jit EXCEPT !.lines = [n \in DOMAIN @ |-> [@[n] EXCEPT !.fresh = FALSE]]]
     IN  jit' = IF ~full THEN i
                ELSE [i EXCEPT !.superblocked = {}, !.claims = [k \in Keys |-> NoClaim],
                               !.modules = [k \in Keys |-> IF @[k].is = "attempted" THEN NoModule ELSE @[k]]]
  /\ UNCHANGED <<pending, pages, tickets>>
-----------------------------------------------------------------------------
(* Compiles.  A pc is compiled when no entry, compile or staged trace has  *)
(* it; each module is handed to the host under a new ticket.  Between the  *)
(* drain and the compile of a trace nothing writes to a marked page, but a *)
(* superblock is also built after the devices have run.                    *)
drained == \A p \in Physical : ~pages[p].dirty
issue_allowed == Cardinality(DOMAIN pending) < MaxPending /\ tickets < scope.issues
submit_pending_jit(c) ==
  /\ issue_allowed
  /\ pending' = [t \in DOMAIN pending \cup {tickets + 1} |-> IF t = tickets + 1 THEN c ELSE pending[t]]
  /\ tickets' = tickets + 1

blocks_of(c) == {c.members[n] : n \in DOMAIN c.members}
jit_work_contains_pc(space, pc) ==
  \/ \E n \in DOMAIN jit.stage : jit.stage[n].space = space /\ jit.stage[n].pc = pc
  \/ \E t \in DOMAIN pending : /\ pending[t].kind # "region"
                               /\ \E b \in blocks_of(pending[t]) : b.space = space /\ b.pc = pc
uncompiled(pc) ==
  /\ pc \in scope.pcs
  /\ jit.cache[pc] = NoEntry
  /\ ~jit_work_contains_pc(satp, pc)
  /\ jit.coverage[<<satp, pc>>] = 0
wanted(pc) == issue_allowed /\ uncompiled(pc)

block(pc, cover) ==
  [pc |-> pc, space |-> satp, src |-> source({page_here(PageOf[pc])}), cover |-> cover]
compile(kind, members) == [kind |-> kind, members |-> members]

(* One trace, or the note that there is none at this pc.                   *)
CompileBlock(pc) ==
  /\ "block" \in scope.kinds /\ drained /\ wanted(pc) /\ pc \notin Barren
  /\ pages' = code_mark({page_here(PageOf[pc])[2]})
  /\ submit_pending_jit(compile("block", <<block(pc, {})>>))
  /\ UNCHANGED <<jit, satp>>
Blacklist(pc) ==
  /\ "block" \in scope.kinds /\ drained /\ wanted(pc) /\ pc \in Barren
  /\ pages' = code_mark({page_here(PageOf[pc])[2]})
  /\ jit' = cache_insert(jit, pc, [idx |-> 0, region |-> TRUE, fp |-> FALSE,
                                   src |-> source({page_here(PageOf[pc])})])
  /\ UNCHANGED <<pending, satp, tickets>>

(* A confirmed trace waits until enough of them share one module: looked   *)
(* at when one is added, and at the loop's top.  The superblock built just *)
(* before, in the same visit, may have used up what could be issued.       *)
stage_full(j) == Len(j.stage) >= scope.batch /\ issue_allowed
submit_confirmed_stage(j) ==
  /\ jit' = [j EXCEPT !.stage = SubSeq(@, scope.batch + 1, Len(@))]
  /\ submit_pending_jit(compile("batch", SubSeq(j.stage, 1, scope.batch)))
StageBlock(pc, cover) ==
  /\ "stage" \in scope.kinds /\ drained /\ uncompiled(pc)
  /\ issue_allowed \/ \E t \in DOMAIN pending : pending[t].kind = "region"
  /\ pc \notin Barren
  /\ pages' = code_mark({page_here(PageOf[pc])[2]})
  /\ LET b == block(pc, cover \cup {pc})
         j == [jit EXCEPT !.stage = Append(@, b), !.coverage = add_coverage(@, b, 1)]
     IN  IF stage_full(j) THEN submit_confirmed_stage(j)
         ELSE jit' = j /\ UNCHANGED <<pending, tickets>>
  /\ UNCHANGED satp
SubmitStage ==
  /\ stage_full(jit)
  /\ drained
  /\ submit_confirmed_stage(jit)
  /\ UNCHANGED <<pages, satp>>

(* A page's hot pcs as one module behind one slot.                         *)
module_source(pc) ==
  LET pp == page_here(PageOf[pc])[2] IN [pp |-> pp, gen |-> pages[pp].gen, fill |-> jit.fill]
page_module_decision(m, src) ==
  IF m.is = "pending" THEN "awaiting"
  ELSE IF m.is \in {"attempted", "live"} /\ m.source = src THEN "individual" ELSE "build"
IssuePageModule(pc, entries, translates) ==
  LET k == key_of(satp, pc)
      m == jit.modules[k]
      src == module_source(pc)
      owner == active_owner(m)
      prior == IF m.is = "live" THEN m.source ELSE src
      members == SetToSeq({block(e, {}) : e \in entries \cup {pc}})
  IN  /\ "page" \in scope.kinds /\ drained /\ wanted(pc)
      /\ page_module_decision(m, src) = "build"
      /\ Len(members) >= 2
      /\ IF translates
         THEN /\ submit_pending_jit([kind |-> "page", members |-> members, key |-> k])
              /\ pages' = code_mark({src.pp})
              /\ jit' = [jit EXCEPT !.modules[k] = Pending(tickets + 1, owner, src, prior)]
         ELSE /\ jit' = record_page_module_failure(jit, k, src, owner, prior)
              /\ UNCHANGED <<pending, tickets, pages>>
      /\ UNCHANGED satp

(* Pages as one function, entered at every pc they hold.                   *)
issue_region(j, space, page_set) ==
  LET src == source(page_set)
      entries == {pc \in scope.pcs : \E s \in src : s.va = PageOf[pc]}
      members == SetToSeq({[pc |-> e, space |-> space, src |-> src, cover |-> {}] : e \in entries})
  IN  /\ submit_pending_jit([kind |-> "region", members |-> members, space |-> space, src |-> src])
      /\ pages' = code_mark({s[2] : s \in page_set})
      /\ jit' = claim_pending_superblock(j, tickets + 1, space, page_set)
BuildSuperblock(pc, vas) ==
  /\ "region" \in scope.kinds /\ wanted(pc)
  /\ issue_region(jit, satp, {page_here(va) : va \in vas \cup {PageOf[pc]}})
  /\ UNCHANGED satp

-----------------------------------------------------------------------------
(* Landing.                                                                *)
block_should_replace_region(j, pc) == ~(j.cache[pc] # NoEntry /\ j.cache[pc].region) \/ pc \notin FpPcs
keeps_trace(j, pc) == j.cache[pc] # NoEntry /\ ~j.cache[pc].region /\ ~j.cache[pc].fp

install(j, b, idx, region) ==
  LET i == IF Cardinality(b.src) > 1 THEN [j EXCEPT !.regions[idx] = b.src] ELSE j
      e == [idx |-> idx, region |-> region, fp |-> ~region /\ b.pc \in FpPcs, src |-> b.src]
  IN  clear_line(cache_insert(i, b.pc, e), b.pc)

land_block(j, b, idx) ==
  IF page_module_owns_cached_entry(j, b.space, b.pc) \/ ~block_should_replace_region(j, b.pc) THEN j
  ELSE install(j, b, idx, FALSE)

enter_region(j, b, space, idx) ==
  IF page_module_owns_cached_entry(j, space, b.pc) \/ keeps_trace(j, b.pc) THEN j
  ELSE install(j, b, idx, TRUE)
complete_region_landing(j, c, idx) ==
  LET i == [j EXCEPT !.regions[idx] = IF Cardinality(c.src) > 1 THEN c.src ELSE {},
                     !.exits[idx] = [lead |-> 1, space |-> c.space, src |-> c.src,
                                     entries |-> {b.pc : b \in blocks_of(c)}]]
  IN  FoldSet(LAMBDA b, x : enter_region(x, b, c.space, idx), i, blocks_of(c))

land_member(j, c, n, base) ==
  IF c.kind = "page" THEN install(j, c.members[n], base, FALSE)
                     ELSE land_block(j, c.members[n], base + n - 1)
complete_batch_landing(j, c, base) ==
  FoldLeftDomain(LAMBDA x, n : land_member(x, c, n, base), j, c.members)

slot_count(c) == IF c.kind = "batch" THEN Len(c.members) ELSE 1
any_stale(c) == \E b \in blocks_of(c) : source_stale(b.src)
is_current(j, t, c) ==
  CASE c.kind = "region" -> \A s \in c.src : j.claims[<<c.space, s.va>>].ticket = t
    [] c.kind = "page" -> module_pending(j, t, c)
    [] OTHER -> TRUE
give_up(j, t, c, how) ==
  CASE c.kind = "region" -> finish_pending_superblock(j, t, c, FALSE)
    [] c.kind = "page" -> finish_pending_page_module(j, t, c, how)
    [] OTHER -> j

land(j, t, c, base) ==
  CASE c.kind = "region" -> complete_region_landing(finish_pending_superblock(j, t, c, TRUE), c, base)
    [] c.kind = "block" -> land_block(j, c.members[1], base)
    [] c.kind = "batch" -> complete_batch_landing(j, c, base)
    [] c.kind = "page" ->
         LET prior == j.modules[c.key].owner
             i == complete_batch_landing(finish_pending_page_module(j, t, c, "landed"), c, base)
         IN  IF prior # 0 THEN retire_owner(i, prior) ELSE i

(* The host answers a ticket with a run of slots from base, with no slot   *)
(* (0) or with no room left (-1).                                          *)
first_fit(n) ==
  LET fits == {b \in Slots : b .. b + n - 1 \subseteq Slots \ jit.live}
  IN  IF fits = {} THEN 0 ELSE Min(fits)
complete_jit(t, base) ==
  LET c == pending[t]
      j == [jit EXCEPT !.coverage = remove_pending_coverage(@, c.members)]
      run == base .. base + slot_count(c) - 1
      owned == track_owner(j, t, run)
  IN  /\ base > 0 => base = first_fit(slot_count(c))
      /\ pending' = [x \in DOMAIN pending \ {t} |-> pending[x]]
      /\ jit' = IF ~is_current(j, t, c) THEN give_up(j, t, c, "cancelled")
                ELSE IF base = -1 THEN evict_cold_owner(give_up(j, t, c, "cancelled"))
                ELSE IF base = 0 THEN give_up(j, t, c, "failed")
                ELSE retire_unreferenced_slots(
                       IF any_stale(c) THEN give_up(owned, t, c, "cancelled") ELSE land(owned, t, c, base),
                       t)
      /\ UNCHANGED <<pages, satp, tickets>>

-----------------------------------------------------------------------------
(* Dispatch.  A line that was verified since the last change of mappings   *)
(* is used as it is; anything else goes through the cache, where the pages *)
(* of the code must all map where they did.                                *)
maps_as(src) == \A s \in src : Mapping[<<satp, s.va>>] = s.pp
self_ok(pc, e) == Mapping[<<satp, PageOf[pc]>>] = physical_page(pc, e.src)
region_unchecked(e) == TRUE   \* mutant: only the entry's own page is verified
region_ok(e) == e.idx = 0 \/ maps_as(jit.regions[e.idx])
line_hit(pc) == jit.lines[Dslot[pc]].pc = pc /\ jit.lines[Dslot[pc]].fresh

Lookup(pc) ==
  LET e == jit.cache[pc]
      gone == retire_entry(jit, pc)
  IN  /\ drained
      /\ e # NoEntry /\ ~line_hit(pc)
      /\ jit' = IF self_ok(pc, e) /\ region_ok(e)
                THEN [jit EXCEPT !.lines[Dslot[pc]] = [pc |-> pc, idx |-> e.idx, fresh |-> TRUE]]
                ELSE IF e.idx > 0 /\ is_page_module_slot(jit, e.idx) THEN gone
                ELSE [gone EXCEPT !.lines[Dslot[pc]] = NoLine]
      /\ UNCHANGED <<pending, pages, satp, tickets>>

(* After the call: an entry that always goes on to the same pc, or that    *)
(* keeps bailing once the TLB refill is on, is dropped to be compiled      *)
(* again; every 256th call makes its owner the warmest.                    *)
DropEntry(pc) ==
  /\ line_hit(pc) /\ jit.lines[Dslot[pc]].idx > 0
  /\ jit' = retire_entry(jit, pc)
  /\ UNCHANGED <<pending, pages, satp, tickets>>
EnableFill ==
  /\ "page" \in scope.kinds   \* nothing else here depends on it
  /\ ~jit.fill
  /\ jit' = [jit EXCEPT !.fill = TRUE]
  /\ UNCHANGED <<pending, pages, satp, tickets>>
touch(pc) ==
  /\ line_hit(pc) /\ cached(jit, pc)
  /\ jit' = update_owner_recency(jit, jit.slot_owner[jit.cache[pc].idx])
  /\ UNCHANGED <<pending, pages, satp, tickets>>

-----------------------------------------------------------------------------
(* A region's sampled exits: it is demoted when visits are short, and      *)
(* extended by the pages its exits lead to.                                *)
profiled(idx) == jit.exits[idx] # NoExits
record_region_exit(idx) ==
  /\ profiled(idx) /\ idx \notin jit.ext_queue
  /\ jit' = [jit EXCEPT !.ext_queue = @ \cup {idx}]
  /\ UNCHANGED <<pending, pages, satp, tickets>>

demote_region(idx) ==
  LET mine == {pc \in jit.exits[idx].entries : jit.cache[pc].idx = idx}
      i == drop_all([jit EXCEPT !.exits[idx] = NoExits], mine)
  IN  /\ profiled(idx)
      /\ jit' = [i EXCEPT !.regions[idx] = {}, !.ext_queue = @ \ {idx}]
      /\ UNCHANGED <<pending, pages, satp, tickets>>

(* The physical page of a target is taken from any entry on it, whatever   *)
(* address space that was compiled in.                                     *)
exit_targets(old) ==
  {<<PageOf[pc], physical_page(pc, jit.cache[pc].src)>> :
     pc \in {x \in Pcs : cached(jit, x) /\ PageOf[x] \notin {s[1] : s \in old}}}
one_page_each(set) == \A a, b \in set : a[1] = b[1] => a = b
try_extend_region(idx, added) ==
  LET r == jit.exits[idx]
      old == {<<s.va, s.pp>> : s \in r.src}
      taken == [jit EXCEPT !.ext_queue = @ \ {idx}]
      spent == [taken EXCEPT !.exits[idx] = NoExits]
  IN  /\ idx \in jit.ext_queue /\ profiled(idx) /\ r.space = satp /\ issue_allowed
      /\ added \subseteq exit_targets(old) /\ one_page_each(added)
      /\ IF added = {} THEN jit' = taken /\ UNCHANGED <<pending, pages, tickets>>
         ELSE \/ issue_region(spent, satp, old \cup added)
              \/ jit' = spent /\ UNCHANGED <<pending, pages, tickets>>  \* nothing to translate
      /\ UNCHANGED satp

(* A new machine, with new memory.                                         *)
reset_full_system_jit ==
  /\ tickets > 0
  /\ jit' = new /\ pending' = <<>>
  /\ pages' = [p \in Physical |-> [marked |-> FALSE, dirty |-> FALSE, gen |-> 0, bytes |-> 0]]
  /\ UNCHANGED <<satp, tickets>>

same_page(pc) == {x \in scope.pcs : PageOf[x] = PageOf[pc]}
Compile ==
  \E pc \in Pcs :
    \/ CompileBlock(pc)
    \/ Blacklist(pc)
    \/ \E cover \in {{pc}, same_page(pc)} : StageBlock(pc, cover)
    \/ \E ok \in BOOLEAN : IssuePageModule(pc, same_page(pc), ok)
    \/ \E vas \in SUBSET Virtual : BuildSuperblock(pc, vas)
Dispatch == \E pc \in Pcs : Lookup(pc) \/ DropEntry(pc) \/ touch(pc)
Region == \E idx \in Slots : \/ record_region_exit(idx) \/ demote_region(idx)
                            \/ \E added \in SUBSET (Virtual \X Physical) : try_extend_region(idx, added)
Complete == \E t \in DOMAIN pending, base \in Slots \cup {0, -1} : complete_jit(t, base)
Step ==
  \/ Compile \/ SubmitStage \/ Complete
  \/ TakeDirty \/ \E p \in Physical : GuestWrite(p)
  \/ \E space \in Spaces, full \in BOOLEAN : SwitchSpace(space, full)
  \/ Dispatch \/ EnableFill \/ Region \/ reset_full_system_jit
Next == Step /\ UNCHANGED scope
Spec == Init /\ [][Next]_vars

-----------------------------------------------------------------------------
(* Slots, owners, entries and the two indexes tell the same story: a slot  *)
(* is counted once per entry that runs it, is live and owned exactly while *)
(* one does, and an owner is known exactly while it has a slot.  So no     *)
(* slot is leaked, retired under an entry, or handed out twice, and the    *)
(* assertions of release_slot and track_owner never fail.                  *)
running(idx) == {pc \in Pcs : jit.cache[pc].idx = idx}
owning == {jit.slot_owner[i] : i \in Slots} \ {0}
OwnershipSound ==
  /\ \A i \in Slots : /\ jit.refs[i] = Cardinality(running(i))
                      /\ jit.slot_owner[i] # 0 <=> running(i) # {}
                      /\ i \in jit.live <=> running(i) # {}
                      /\ running(i) = {} => jit.regions[i] = {} /\ ~profiled(i) /\ i \notin jit.ext_queue
  /\ \A o \in Tickets : /\ jit.owner_entries[o] = UNION {running(i) : i \in owner_slots(jit, o)}
                        /\ jit.module_owner[o] # <<>> =>
                             o \in owning /\ active_owner(jit.modules[jit.module_owner[o]]) = o
  /\ ToSet(jit.cold) = owning /\ Len(jit.cold) = Cardinality(owning)
  /\ \A k \in Keys : active_owner(jit.modules[k]) # 0 =>
                       jit.module_owner[active_owner(jit.modules[k])] = k
  /\ \A p \in Physical : jit.page_blocks[p] =
       {pc \in Pcs : jit.cache[pc] # NoEntry /\ p \in block_physical_pages(jit, pc, jit.cache[pc])}

(* Code that can be dispatched was made from the bytes its pages hold, or  *)
(* the page is known dirty and the entry goes before the next dispatch:    *)
(* compiles that land late, after a drain and after the page was marked    *)
(* again for other code, included.                                         *)
CodeCurrent ==
  \A pc \in Pcs : jit.cache[pc] # NoEntry =>
    \A s \in jit.cache[pc].src : pages[s.pp].bytes = s.ver \/ pages[s.pp].dirty

(* A line that is used without a look at the cache runs the code the cache *)
(* has for its pc, and every page that code was made from is mapped now    *)
(* where it was then, through any order of landings, evictions and context *)
(* switches.  Direct links from code to code, off by default, and the      *)
(* privilege context, which a line does not record, are left out.          *)
DispatchSafe ==
  \A pc \in Pcs : line_hit(pc) =>
    /\ jit.cache[pc] # NoEntry /\ jit.cache[pc].idx = jit.lines[Dslot[pc]].idx
    /\ maps_as(jit.cache[pc].src)

(* What is on record as under way is under way: a claim or a pending       *)
(* module names a compile that will be answered, and a pc is held back     *)
(* from being compiled only while a staged or pending trace covers it.     *)
covering(space, pc) ==
  {n \in DOMAIN jit.stage : jit.stage[n].space = space /\ pc \in jit.stage[n].cover}
pending_covering(space, pc) ==
  UNION {{<<t, n>> : n \in {x \in DOMAIN pending[t].members :
            pending[t].members[x].space = space /\ pc \in pending[t].members[x].cover}} : t \in DOMAIN pending}
ClaimsSettle ==
  /\ \A k \in Keys :  /\ jit.claims[k] # NoClaim => jit.claims[k].ticket \in DOMAIN pending
                      /\ jit.modules[k].is = "pending" => jit.modules[k].ticket \in DOMAIN pending
  /\ \A space \in Spaces, pc \in Pcs :
       jit.coverage[<<space, pc>>] = Cardinality(covering(space, pc)) + Cardinality(pending_covering(space, pc))
=============================================================================
