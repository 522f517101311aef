---------------------------- MODULE JitCodeStore ----------------------------
(***************************************************************************)
(* JitCodeStore of web/rv64.js: the table slots and the memory of the      *)
(* WebAssembly modules one VM has compiled.  The store is a record and     *)
(* every method an operator from a store to a store, so that callers can   *)
(* run several methods in one step: JitPipeline is the only one.  The      *)
(* methods that only tests call (register, clear) are left out.            *)
(*                                                                         *)
(* Slots are counted from `base', the table's length when the store was    *)
(* created.  A slot's function is named by the owner that put it there.    *)
(* The counters that are only reported (peaks, totals) are left out.       *)
(***************************************************************************)
EXTENDS Integers, Sequences, FiniteSets, SequencesExt, FiniteSetsExt, Functions

CONSTANTS
  MaxModules, MaxSlots, MaxBytes, GrowSlots,  \* the limits of the store
  SlotCounts,     \* exports of a module
  ByteLengths,    \* sizes of a module
  MaxClears       \* bound on the store's generation

ASSUME StoreAssumption ==
  /\ MaxModules \in Nat \ {0} /\ MaxSlots \in Nat \ {0}
  /\ MaxBytes \in Nat \ {0} /\ GrowSlots \in Nat \ {0}
  /\ SlotCounts \subseteq Nat \ {0}
  /\ ByteLengths \subseteq Nat
  /\ MaxClears \in Nat

VARIABLE store

Slots == 0 .. MaxSlots - 1

NewStore ==
  [ free |-> << >>,          \* runs [start, length] of free slots
    next |-> 0,              \* high-water mark of the slots handed out
    length |-> 0,            \* table.length
    table |-> [s \in Slots |-> 0],   \* owner of the function, 0 for null
    owners |-> << >>,        \* owner id -> [slots, bytes, generation]
    slotOwners |-> << >>,    \* slot -> owner id
    retirements |-> {},
    reservations |-> {},
    nextOwner |-> 1,
    nextReservation |-> 1,
    generation |-> 0,
    liveSlots |-> 0, liveBytes |-> 0, pendingSlots |-> 0, pendingBytes |-> 0,
    destroyed |-> FALSE ]

Run(start, length) == [start |-> start, length |-> length]
RunSlots(start, length) == start .. start + length - 1

(* f without the keys in S.                                                *)
Drop(f, S) == Restrict(f, DOMAIN f \ S)

-----------------------------------------------------------------------------
hasRun(s, n) ==
  \/ \E i \in DOMAIN s.free : s.free[i].length >= n
  \/ s.next + n <= MaxSlots

canRegister(s, n, bytes) ==
  /\ ~s.destroyed
  /\ Cardinality(DOMAIN s.owners) + Cardinality(s.reservations) < MaxModules
  /\ s.liveSlots + s.pendingSlots + n <= MaxSlots
  /\ s.liveBytes + s.pendingBytes + bytes <= MaxBytes
  /\ hasRun(s, n)

(* #allocate: the first free run that is long enough, or fresh slots, for  *)
(* which the table may have to grow.                                       *)
FirstFit(s, n) == SelectInSeq(s.free, LAMBDA r : r.length >= n)

MustGrow(s, n) == FirstFit(s, n) = 0 /\ s.next + n > s.length

Growth(s, n) ==
  Min({Max({GrowSlots, s.next + n - s.length}), MaxSlots - s.length})

AllocatedBase(s, n) ==
  IF FirstFit(s, n) # 0 THEN s.free[FirstFit(s, n)].start ELSE s.next

allocate(s, n) ==
  LET i == FirstFit(s, n) IN
  IF i # 0
    THEN [s EXCEPT !.free =
            IF s.free[i].length = n
              THEN RemoveAt(s.free, i)
              ELSE ReplaceAt(s.free, i, Run(s.free[i].start + n, s.free[i].length - n))]
    ELSE [s EXCEPT !.next = @ + n,
                   !.length = IF MustGrow(s, n) THEN @ + Growth(s, n) ELSE @]

(* #releaseRun: insert in order, join with both neighbours.                *)
Joined(free, i) ==
  IF i \in 1 .. Len(free) - 1 /\ free[i].start + free[i].length = free[i + 1].start
    THEN ReplaceAt(RemoveAt(free, i + 1), i,
                   Run(free[i].start, free[i].length + free[i + 1].length))
    ELSE free

releaseRun(free, run) ==
  LET later == SelectInSeq(free, LAMBDA r : r.start > run.start)
      index == IF later = 0 THEN Len(free) + 1 ELSE later
      inserted == InsertAt(free, index, run)
      joined == Joined(inserted, index - 1)
  IN  Joined(joined, IF Len(joined) < Len(inserted) THEN index - 1 ELSE index)

(* Several runs, one after the other.  The order leaves no trace in a list *)
(* that is kept sorted and joined.                                         *)
releaseRuns(free, runs) == FoldSet(LAMBDA run, list : releaseRun(list, run), free, runs)

-----------------------------------------------------------------------------
NextReservation(s, n, bytes) ==
  [ id |-> s.nextReservation, generation |-> s.generation,
    base |-> AllocatedBase(s, n), slotCount |-> n, byteLength |-> bytes ]

reserve(s, n, bytes) ==
  [allocate(s, n) EXCEPT
     !.reservations = @ \cup {NextReservation(s, n, bytes)},
     !.nextReservation = @ + 1,
     !.pendingSlots = @ + n,
     !.pendingBytes = @ + bytes]

consumeReservation(s, r) ==
  [s EXCEPT !.reservations = @ \ {r},
            !.pendingSlots = @ - r.slotCount,
            !.pendingBytes = @ - r.byteLength]

releaseReservation(s, r) ==
  IF r \notin s.reservations THEN s
  ELSE [consumeReservation(s, r) EXCEPT
          !.free = releaseRun(@, Run(r.base, r.slotCount))]

(* #install: all table entries are set, or ...                             *)
install(s, base, n, bytes, generation) ==
  LET slots == RunSlots(base, n)
      id == s.nextOwner
  IN  [s EXCEPT
         !.table = [x \in Slots |-> IF x \in slots THEN id ELSE @[x]],
         !.slotOwners = [x \in DOMAIN @ \cup slots |-> IF x \in slots THEN id ELSE @[x]],
         !.owners = [o \in DOMAIN @ \cup {id} |->
           IF o = id THEN [slots |-> slots, bytes |-> bytes, generation |-> generation]
                     ELSE @[o]],
         !.nextOwner = id + 1,
         !.liveSlots = @ + n,
         !.liveBytes = @ + bytes]

(* ... table.set threw: those already set are cleared again and the run is *)
(* released.                                                               *)
installFails(s, base, n) ==
  [s EXCEPT !.nextOwner = @ + 1, !.free = releaseRun(@, Run(base, n))]

(* registerReserved() of an active reservation.  The outcome is a module   *)
(* that instantiates ("ok"), lacks an export ("missing"), or one the table *)
(* refuses ("refused").                                                    *)
Outcomes == {"ok", "missing", "refused"}

Registers(s, r, outcome) == r.generation = s.generation /\ outcome = "ok"

(* Mutant: a refused module releases its reservation a second time.        *)
registerReservedReleasesTwice(s, r, outcome) ==
  IF Registers(s, r, outcome)
    THEN install(consumeReservation(s, r), r.base, r.slotCount, r.byteLength, r.generation)
    ELSE releaseReservation(
           IF outcome = "refused" THEN installFails(s, r.base, r.slotCount) ELSE s, r)

registerReserved(s, r, outcome) ==
  CASE r.generation # s.generation -> releaseReservation(s, r)
    [] Registers(s, r, outcome) ->
         install(consumeReservation(s, r), r.base, r.slotCount, r.byteLength, r.generation)
    [] r.generation = s.generation /\ outcome = "missing" -> releaseReservation(s, r)
    [] r.generation = s.generation /\ outcome = "refused" ->
         releaseReservation(
           installFails(consumeReservation(s, r), r.base, r.slotCount), r)

-----------------------------------------------------------------------------
retire(s, slots) ==
  [s EXCEPT !.retirements = @ \cup (slots \cap DOMAIN s.slotOwners)]

(* The maximal runs of a set of slots.                                     *)
RunsOf(S) ==
  LET end(x) == Min({y \in S : y >= x /\ y + 1 \notin S})
  IN  {Run(x, end(x) - x + 1) : x \in {y \in S : y - 1 \notin S}}

(* The bytes of some of the live modules.                                  *)
BytesOf(s, owners) ==
  SumFunctionOnSet([o \in DOMAIN s.owners |-> s.owners[o].bytes], owners)

flushRetired(s) ==
  LET gone == s.retirements \cap DOMAIN s.slotOwners
      rest == [o \in DOMAIN s.owners |->
                 [s.owners[o] EXCEPT !.slots = @ \ gone]]
      dead == {o \in DOMAIN rest : rest[o].slots = {}}
  IN  [s EXCEPT
         !.retirements = {},
         !.table = [x \in Slots |-> IF x \in gone THEN 0 ELSE @[x]],
         !.slotOwners = Drop(@, gone),
         !.owners = Drop(rest, dead),
         !.liveSlots = @ - Cardinality(gone),
         !.liveBytes = @ - BytesOf(s, dead),
         !.free = releaseRuns(@, RunsOf(gone))]

(* Every slot retired and flushed, as clear() and destroy() do.            *)
emptied(s) == flushRetired(retire(s, DOMAIN s.slotOwners))

(* What the reservations hold, in slots and in bytes.                      *)
SlotsPending(s) == SumFunction([r \in s.reservations |-> r.slotCount])
BytesPending(s) == SumFunction([r \in s.reservations |-> r.byteLength])

destroy(s) ==
  IF s.destroyed THEN s
  ELSE LET empty == emptied([s EXCEPT !.destroyed = TRUE, !.generation = @ + 1])
       IN  [empty EXCEPT
              !.reservations = {},
              !.pendingSlots = @ - SlotsPending(empty),
              !.pendingBytes = @ - BytesPending(empty),
              !.free = releaseRuns(@, {Run(r.base, r.slotCount) : r \in empty.reservations})]

-----------------------------------------------------------------------------
Owned == DOMAIN store.slotOwners
Reserved == UNION {RunSlots(r.base, r.slotCount) : r \in store.reservations}
FreeSlots == UNION {RunSlots(store.free[i].start, store.free[i].length) :
                      i \in DOMAIN store.free}

(* The free list is sorted and coalesced, and holds exactly the slots that *)
(* were handed out once and that no module and no reservation has: no slot *)
(* is leaked, released twice or hidden by fragmentation of the list.       *)
FreeListCanonical ==
  /\ FreeSlots = (0 .. store.next - 1) \ (Owned \cup Reserved)
  /\ \A i \in 1 .. Len(store.free) - 1 :
       store.free[i].start + store.free[i].length < store.free[i + 1].start

(* No slot has two claims: the runs of the reservations are disjoint from  *)
(* one another and from the slots of live modules, and all lie in a table  *)
(* that has grown far enough.                                              *)
SlotsDisjoint ==
  /\ Owned \cap Reserved = {}
  /\ \A r, q \in store.reservations :
       r # q => RunSlots(r.base, r.slotCount) \cap RunSlots(q.base, q.slotCount) = {}
  /\ Owned \cup Reserved \subseteq 0 .. store.next - 1
  /\ store.next <= store.length /\ store.length <= MaxSlots

(* The incremental counters that admission decides on are the true sums.   *)
AccountsBalance ==
  /\ store.liveSlots = Cardinality(Owned)
  /\ store.liveBytes = BytesOf(store, DOMAIN store.owners)
  /\ store.pendingSlots = SlotsPending(store)
  /\ store.pendingBytes = BytesPending(store)

(* Modules, slots and bytes, live and reserved together, stay within the   *)
(* limits, also when a reservation becomes a module.                       *)
WithinLimits ==
  /\ Cardinality(DOMAIN store.owners) + Cardinality(store.reservations) <= MaxModules
  /\ Cardinality(Owned) + Cardinality(Reserved) <= MaxSlots
  /\ BytesOf(store, DOMAIN store.owners) + BytesPending(store) <= MaxBytes

(* The table, the slot map and the owner map say the same: a function sits *)
(* in a slot exactly while its module owns the slot, and a module without  *)
(* slots is gone.                                                          *)
TableMatches ==
  /\ \A x \in Slots :
       store.table[x] = IF x \in Owned THEN store.slotOwners[x] ELSE 0
  /\ \A o \in DOMAIN store.owners :
       /\ store.owners[o].slots # {}
       /\ store.owners[o].slots = {x \in Owned : store.slotOwners[x] = o}
  /\ \A x \in Owned : store.slotOwners[x] \in DOMAIN store.owners
  /\ store.retirements \subseteq Owned

(* A module of an earlier generation is never live: clear() removes the    *)
(* installed ones, and a reservation that outlives it cannot be installed. *)
NoStaleModule ==
  \A o \in DOMAIN store.owners : store.owners[o].generation = store.generation

(* A destroyed store holds nothing and hands out nothing.                  *)
DestroyedEmpty ==
  store.destroyed => Owned = {} /\ store.reservations = {}

(* Every slot handed out is free, reserved or owned, and exactly one of    *)
(* them, the sums admission decides on are true, and the table holds what  *)
(* the owners say, whatever order reservations, installations, refusals    *)
(* and retirements come in.                                                *)
StoreSound ==
  /\ FreeListCanonical /\ SlotsDisjoint
  /\ AccountsBalance /\ WithinLimits
  /\ TableMatches /\ DestroyedEmpty
=============================================================================
