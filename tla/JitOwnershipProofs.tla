------------------------- MODULE JitOwnershipProofs -------------------------
(***************************************************************************)
(* What the Rust side of the JIT keeps, for every set of pcs, address      *)
(* spaces, slots, tickets and scopes.                                      *)
(*                                                                         *)
(* The operations are operators from a JitState to a JitState, and so are  *)
(* the lemmas: each operation takes a sound state to a sound state, where  *)
(* "sound" has parameters for what an operation leaves open until it is    *)
(* done (a slot that has no entry yet, an owner whose entries are being    *)
(* dropped).  The loops are folds; what a fold keeps is proved by          *)
(* induction on subsets, derived from the naturals being well-founded.     *)
(***************************************************************************)
EXTENDS JitOwnership, FiniteSetTheorems, SequenceTheorems, WellFoundedInduction, TLAPS

-----------------------------------------------------------------------------
(* Induction and folds.                                                    *)

(* A set of naturals has a least element.                                  *)
LEMMA LeastNat ==
  ASSUME NEW T \in SUBSET Nat, NEW t \in T
  PROVE  \E n \in T : \A m \in T : n <= m
<1> DEFINE R == OpToRel(<, Nat)
<1>1. IsWellFoundedOn(R, Nat)
  BY NatLessThanWellFounded, Zenon
<1>2. \A x, y \in Nat : y < x => <<y, x>> \in R
  BY Zenon DEF OpToRel
<1> HIDE DEF R
<1>3. PICK n \in T : \A y \in T : ~(<<y, n>> \in R)
  BY <1>1, WFMin
<1>4. ASSUME NEW m \in T
      PROVE  n <= m
  <2>1. m \in Nat /\ n \in Nat
    OBVIOUS
  <2>2. ~(m < n)
    BY <1>2, <1>3, <2>1, Zenon
  <2> QED
    BY <2>1, <2>2
<1> QED
  BY <1>4

(* A set that has 0 and with each natural the next one has them all.       *)
LEMMA SetInduction ==
  ASSUME NEW S \in SUBSET Nat, 0 \in S, \A n \in S : n + 1 \in S
  PROVE  S = Nat
<1> SUFFICES ASSUME NEW t \in Nat \ S
             PROVE  FALSE
  OBVIOUS
<1>1. PICK n \in Nat \ S : \A m \in Nat \ S : n <= m
  BY LeastNat
<1>2. n # 0 /\ n - 1 \in Nat /\ ~(n <= n - 1)
  BY <1>1
<1>3. n - 1 \in S
  BY <1>1, <1>2
<1>4. (n - 1) + 1 \in S
  BY <1>3
<1> QED
  BY <1>1, <1>4

(* A finite set without one of its elements is smaller by one.             *)
LEMMA OneLess ==
  ASSUME NEW D, IsFiniteSet(D), NEW S \in SUBSET D, NEW x \in S
  PROVE  /\ IsFiniteSet(S) /\ Cardinality(S) \in Nat \ {0}
         /\ S \ {x} \in SUBSET D
         /\ Cardinality(S \ {x}) = Cardinality(S) - 1
<1>1. IsFiniteSet(S)
  BY FS_Subset
<1>2. Cardinality(S) \in Nat /\ Cardinality(S) # 0
  BY <1>1, FS_CardinalityType, FS_EmptySet
<1>3. Cardinality(S \ {x}) = Cardinality(S) - 1
  BY <1>1, FS_RemoveElement
<1> QED
  BY <1>1, <1>2, <1>3

(* The recursion of MapThenFoldSet has a solution, whatever is folded.     *)
Iterates(it, D, base, G, pick) ==
  \A s \in SUBSET D :
    it[s] = IF s = {} THEN base ELSE G[<<pick[s], it[s \ {pick[s]}]>>]

(* A fold of a finite set exists as a function of its subsets: what one    *)
(* element after the other makes of the base.                              *)
LEMMA FoldExists ==
  ASSUME NEW D, IsFiniteSet(D), NEW V, NEW base \in V,
         NEW G \in [D \X V -> V],
         NEW pick, \A s \in SUBSET D : s # {} => pick[s] \in s
  PROVE  \E it \in [SUBSET D -> V] : Iterates(it, D, base, G, pick)
<1> DEFINE Solves(it, s) ==
             it[s] = IF s = {} THEN base ELSE G[<<pick[s], it[s \ {pick[s]}]>>]
           K == {k \in Nat : \E it \in [SUBSET D -> V] :
                   \A s \in SUBSET D : Cardinality(s) <= k => Solves(it, s)}
<1>1. \A s \in SUBSET D : Cardinality(s) \in Nat /\ (Cardinality(s) = 0 => s = {})
  BY FS_Subset, FS_CardinalityType, FS_EmptySet
<1>2. 0 \in K
  <2> DEFINE it == [s \in SUBSET D |-> base]
  <2>1. it \in [SUBSET D -> V]
    OBVIOUS
  <2>2. ASSUME NEW s \in SUBSET D, Cardinality(s) <= 0
        PROVE  Solves(it, s)
    <3>1. s = {}
      BY <1>1, <2>2
    <3> QED
      BY <3>1
  <2> QED
    BY <2>1, <2>2
<1>3. ASSUME NEW k \in K
      PROVE  k + 1 \in K
  <2>1. PICK it \in [SUBSET D -> V] :
          \A s \in SUBSET D : Cardinality(s) <= k => Solves(it, s)
    OBVIOUS
  <2> DEFINE next == [s \in SUBSET D |->
                        IF Cardinality(s) <= k THEN it[s]
                                               ELSE G[<<pick[s], it[s \ {pick[s]}]>>]]
  <2>2. ASSUME NEW s \in SUBSET D, s # {}
        PROVE  /\ pick[s] \in D /\ s \ {pick[s]} \in SUBSET D
               /\ Cardinality(s \ {pick[s]}) = Cardinality(s) - 1
               /\ G[<<pick[s], it[s \ {pick[s]}]>>] \in V
    <3>1. pick[s] \in s /\ pick[s] \in D
      BY <2>2
    <3>2. s \ {pick[s]} \in SUBSET D /\ Cardinality(s \ {pick[s]}) = Cardinality(s) - 1
      BY <3>1, OneLess
    <3> QED
      BY <3>1, <3>2
  <2>3. next \in [SUBSET D -> V]
    <3>1. ASSUME NEW s \in SUBSET D
          PROVE  (IF Cardinality(s) <= k THEN it[s]
                                         ELSE G[<<pick[s], it[s \ {pick[s]}]>>]) \in V
      <4>1. CASE Cardinality(s) <= k
        BY <4>1
      <4>2. CASE ~(Cardinality(s) <= k)
        <5>1. ~(0 <= k) => s # {}
          BY <4>2, FS_EmptySet
        <5>2. s # {}
          BY <5>1, <4>2, <1>1, FS_EmptySet
        <5> QED
          BY <4>2, <5>2, <2>2
      <4> QED
        BY <4>1, <4>2
    <3> QED
      BY <3>1
  <2>4. ASSUME NEW s \in SUBSET D, Cardinality(s) <= k + 1
        PROVE  Solves(next, s)
    <3>1. CASE s = {}
      <4>1. Cardinality(s) <= k
        BY <3>1, FS_EmptySet
      <4>2. next[s] = it[s]
        BY <4>1
      <4>3. it[s] = base
        BY <2>1, <3>1, <4>1
      <4> QED
        BY <3>1, <4>2, <4>3
    <3>2. CASE s # {}
      <4>1. /\ s \ {pick[s]} \in SUBSET D
            /\ Cardinality(s \ {pick[s]}) <= k
        <5>1. Cardinality(s) \in Nat /\ k \in Nat /\ Cardinality(s) <= k + 1
          BY <1>1, <2>4
        <5>2. /\ s \ {pick[s]} \in SUBSET D
              /\ Cardinality(s \ {pick[s]}) = Cardinality(s) - 1
          BY <2>2, <3>2
        <5> QED
          BY <5>1, <5>2
      <4>2. next[s \ {pick[s]}] = it[s \ {pick[s]}]
        BY <4>1
      <4>3. next[s] = G[<<pick[s], it[s \ {pick[s]}]>>]
        <5>1. CASE Cardinality(s) <= k
          <6>1. next[s] = it[s]
            BY <5>1
          <6>2. Solves(it, s)
            BY <2>1, <5>1
          <6> QED
            BY <3>2, <6>1, <6>2
        <5>2. CASE ~(Cardinality(s) <= k)
          BY <5>2
        <5> QED
          BY <5>1, <5>2
      <4> QED
        BY <3>2, <4>2, <4>3
    <3> QED
      BY <3>1, <3>2
  <2> HIDE DEF next, Solves
  <2> QED
    BY <2>3, <2>4
<1>4. K = Nat
  <2> HIDE DEF K
  <2>1. K \in SUBSET Nat
    BY DEF K
  <2> QED
    BY <1>2, <1>3, <2>1, SetInduction
<1>5. Cardinality(D) \in K
  BY <1>4, FS_CardinalityType
<1>6. PICK it \in [SUBSET D -> V] :
        \A s \in SUBSET D : Cardinality(s) <= Cardinality(D) => Solves(it, s)
  BY <1>5
<1>7. \A s \in SUBSET D : Cardinality(s) <= Cardinality(D)
  BY FS_Subset
<1> QED
  BY <1>6, <1>7 DEF Iterates

(* Induction over the subsets of a finite set, taking one element away.    *)
LEMMA SubsetInduction ==
  ASSUME NEW D, IsFiniteSet(D), NEW Q \in SUBSET (SUBSET D), {} \in Q,
         \A s \in SUBSET D : s # {} /\ (\A x \in s : s \ {x} \in Q) => s \in Q
  PROVE  Q = SUBSET D
<1> DEFINE K == {k \in Nat : \A s \in SUBSET D : Cardinality(s) = k => s \in Q}
<1>1. \A s \in SUBSET D : Cardinality(s) \in Nat /\ (Cardinality(s) = 0 => s = {})
  BY FS_Subset, FS_CardinalityType, FS_EmptySet
<1>2. 0 \in K
  BY <1>1
<1>3. ASSUME NEW k \in K
      PROVE  k + 1 \in K
  <2>1. ASSUME NEW s \in SUBSET D, Cardinality(s) = k + 1
        PROVE  s \in Q
    <3>1. s # {}
      <4>1. CASE s = {}
        <5>1. Cardinality(s) = 0 /\ k \in Nat
          BY <4>1, FS_EmptySet
        <5> QED
          BY <2>1, <5>1
      <4> QED
        BY <4>1
    <3>2. ASSUME NEW x \in s
          PROVE  s \ {x} \in Q
      <4>1. s \ {x} \in SUBSET D /\ Cardinality(s \ {x}) = Cardinality(s) - 1 /\ k \in Nat
        BY OneLess
      <4>2. Cardinality(s \ {x}) = k
        BY <2>1, <4>1
      <4> QED
        BY <4>1, <4>2
    <3> QED
      BY <3>1, <3>2
  <2> QED
    BY <2>1
<1>4. K = Nat
  <2> HIDE DEF K
  <2>1. K \in SUBSET Nat
    BY DEF K
  <2> QED
    BY <1>2, <1>3, <2>1, SetInduction
<1> QED
  BY <1>1, <1>4

(* A fold whose steps keep R, a relation between the elements folded and   *)
(* the result; H is the step on the values of V.                           *)
Folded(i, D, V, base, H, pick, R) ==
  /\ i[{}] = base
  /\ \A s \in SUBSET D : <<s, i[s]>> \in R
  /\ \A s \in SUBSET D : s # {} =>
       /\ s \ {pick[s]} \in SUBSET D /\ pick[s] \in s /\ pick[s] \in D
       /\ i[s \ {pick[s]}] \in V /\ <<s \ {pick[s]}, i[s \ {pick[s]}]>> \in R
       /\ i[s] = H[<<pick[s], i[s \ {pick[s]}]>>]

(* Such a fold exists.                                                   *)
LEMMA FoldSolved ==
  ASSUME NEW D, IsFiniteSet(D), NEW V, NEW base \in V, NEW H \in [D \X V -> V],
         NEW pick, \A s \in SUBSET D : s # {} => pick[s] \in s,
         NEW R, <<{}, base>> \in R,
         \A s \in SUBSET D : \A x \in s : \A v \in V :
           <<s \ {x}, v>> \in R => <<s, H[<<x, v>>]>> \in R
  PROVE  \E i \in [SUBSET D -> V] : Folded(i, D, V, base, H, pick, R)
<1>1. PICK i \in [SUBSET D -> V] : Iterates(i, D, base, H, pick)
  BY FoldExists, Zenon
<1>2. i[{}] = base
  BY <1>1 DEF Iterates
<1>3. \A s \in SUBSET D : s # {} =>
        /\ s \ {pick[s]} \in SUBSET D /\ pick[s] \in s /\ pick[s] \in D
        /\ i[s \ {pick[s]}] \in V
        /\ i[s] = H[<<pick[s], i[s \ {pick[s]}]>>]
  BY <1>1 DEF Iterates
<1> DEFINE Q == {s \in SUBSET D : <<s, i[s]>> \in R}
<1>4. {} \in Q
  BY <1>2
<1>5. ASSUME NEW s \in SUBSET D, s # {}, \A x \in s : s \ {x} \in Q
      PROVE  s \in Q
  <2>1. <<s \ {pick[s]}, i[s \ {pick[s]}]>> \in R
    BY <1>3, <1>5
  <2>2. <<s, H[<<pick[s], i[s \ {pick[s]}]>>]>> \in R
    <3> DEFINE c == pick[s]  v == i[s \ {pick[s]}]
    <3>1. c \in s /\ v \in V /\ <<s \ {c}, v>> \in R
      BY <1>3, <1>5, <2>1
    <3> HIDE DEF c, v
    <3>2. <<s, H[<<c, v>>]>> \in R
      BY <3>1
    <3> QED
      BY <3>2 DEF c, v
  <2>3. i[s] = H[<<pick[s], i[s \ {pick[s]}]>>]
    BY <1>3, <1>5
  <2> QED
    BY <2>2, <2>3
<1>6. Q = SUBSET D
  <2> HIDE DEF Q
  <2>1. Q \in SUBSET (SUBSET D)
    BY DEF Q
  <2> QED
    BY <1>4, <1>5, <2>1, SubsetInduction
<1>7. \A s \in SUBSET D : <<s, i[s]>> \in R
  BY <1>6
<1> QED
  BY <1>2, <1>3, <1>7 DEF Folded

(* Whatever solves the recursion of such a fold keeps R.                   *)
LEMMA FoldHolds ==
  ASSUME NEW D, IsFiniteSet(D), NEW it, NEW R, <<{}, it[{}]>> \in R,
         \A s \in SUBSET D : s # {} =>
           \E c \in s : <<s \ {c}, it[s \ {c}]>> \in R => <<s, it[s]>> \in R
  PROVE  <<D, it[D]>> \in R
<1> DEFINE Q == {s \in SUBSET D : <<s, it[s]>> \in R}
<1>1. {} \in Q
  OBVIOUS
<1>2. ASSUME NEW s \in SUBSET D, s # {}, \A x \in s : s \ {x} \in Q
      PROVE  s \in Q
  BY <1>2
<1>3. Q = SUBSET D
  <2> HIDE DEF Q
  <2>1. Q \in SUBSET (SUBSET D)
    BY DEF Q
  <2> QED
    BY <1>1, <1>2, <2>1, SubsetInduction
<1> QED
  BY <1>3

-----------------------------------------------------------------------------
(* Types.                                                                  *)
Source == [va : Virtual, pp : Physical, gen : Nat, ver : Nat]
Entry == {NoEntry} \cup [idx : Slots \cup {0}, region : BOOLEAN, fp : BOOLEAN, src : SUBSET Source]
Trace == [pc : Pcs, space : Spaces, src : SUBSET Source, cover : SUBSET Pcs]
ModuleSource == [pp : Physical, gen : Nat, fill : BOOLEAN]
Module ==
  {NoModule} \cup [is : {"attempted"}, source : ModuleSource]
             \cup [is : {"live"}, owner : Tickets, source : ModuleSource]
             \cup [is : {"pending"}, ticket : Tickets, owner : Tickets \cup {0},
                   source : ModuleSource, prior : ModuleSource]
Claim == {NoClaim} \cup [ticket : Tickets, prior : BOOLEAN, page : Physical]
Exits == {NoExits} \cup [lead : {1}, space : Spaces, src : SUBSET Source, entries : SUBSET Pcs]
Line == {NoLine} \cup [pc : Pcs, idx : Slots \cup {0}, fresh : BOOLEAN]
Lines == {Dslot[pc] : pc \in Pcs}
JitStates ==
  [cache : [Pcs -> Entry], refs : [Slots -> Nat], slot_owner : [Slots -> Tickets \cup {0}],
   live : SUBSET Slots, owner_entries : [Tickets -> SUBSET Pcs], cold : Seq(Tickets),
   module_owner : [Tickets -> Keys \cup {<<>>}], modules : [Keys -> Module],
   superblocked : SUBSET Keys, claims : [Keys -> Claim], regions : [Slots -> SUBSET Source],
   exits : [Slots -> Exits], ext_queue : SUBSET Slots, lines : [Lines -> Line],
   page_blocks : [Physical -> SUBSET Pcs], stage : Seq(Trace),
   coverage : [Spaces \X Pcs -> Nat], fill : BOOLEAN]
JitFields ==
  {"cache", "refs", "slot_owner", "live", "owner_entries", "cold", "module_owner", "modules",
   "superblocked", "claims", "regions", "exits", "ext_queue", "lines", "page_blocks", "stage",
   "coverage", "fill"}
PageStates == [Physical -> [marked : BOOLEAN, dirty : BOOLEAN, gen : Nat, bytes : Nat]]

(* i differs from j in the named fields only.                              *)
Same(i, j, but) == \A f \in JitFields \ but : i[f] = j[f]

-----------------------------------------------------------------------------
(* A sound JitState: OwnershipSound in parts, with what the operations     *)
(* leave open while they run.  Unused: slots of a module that is landing,  *)
(* which may have no entry yet.  Gone: owners whose entries are being      *)
(* dropped and are listed no more.  Prior: the owner that a page module    *)
(* which is landing replaces.  Out: entries taken off the index of a page  *)
(* that is being drained, and not dropped yet.                             *)
users(j, i) == {pc \in Pcs : j.cache[pc].idx = i}
owns(j, o) == \E i \in Slots : j.slot_owner[i] = o

CountsRefs(j) == \A i \in Slots : j.refs[i] = Cardinality(users(j, i))
EntriesOwned(j) == \A pc \in Pcs : j.cache[pc].idx > 0 => j.slot_owner[j.cache[pc].idx] # 0
SlotsUsed(j, Unused) == \A i \in Slots \ Unused : j.slot_owner[i] # 0 => users(j, i) # {}
LiveOwned(j) == \A i \in Slots : i \in j.live <=> j.slot_owner[i] # 0
IdleClean(j) ==
  \A i \in Slots : j.slot_owner[i] = 0 =>
    j.regions[i] = {} /\ j.exits[i] = NoExits /\ i \notin j.ext_queue
EntriesListed(j, Gone) ==
  \A o \in Tickets, pc \in Pcs :
    pc \in j.owner_entries[o] <=>
      o \notin Gone /\ j.cache[pc].idx > 0 /\ j.slot_owner[j.cache[pc].idx] = o
ModulesOwned(j, Prior) ==
  /\ \A o \in Tickets : j.module_owner[o] # <<>> =>
       owns(j, o) /\ (active_owner(j.modules[j.module_owner[o]]) = o \/ o = Prior)
  /\ \A k \in Keys : active_owner(j.modules[k]) # 0 =>
       j.module_owner[active_owner(j.modules[k])] = k
Once(s) == \A m, n \in 1 .. Len(s) : s[m] = s[n] => m = n
Holds(s, x) == \E n \in 1 .. Len(s) : s[n] = x
ColdOwners(j) == Once(j.cold) /\ \A o \in Tickets : Holds(j.cold, o) <=> owns(j, o)
Indexed(j, Out) ==
  \A p \in Physical, pc \in Pcs :
    pc \in j.page_blocks[p] <=> /\ j.cache[pc] # NoEntry
                                /\ p \in block_physical_pages(j, pc, j.cache[pc])
                                /\ <<p, pc>> \notin Out

(* An entry's source is the region on its slot, or one page: its pc's.     *)
Single(pc, src) == \E s \in src : src = {s} /\ s.va = PageOf[pc]
Covering(j, pc, idx, src) ==
  \/ idx > 0 /\ j.regions[idx] = src /\ src # {}
  \/ (idx > 0 => j.regions[idx] = {}) /\ Single(pc, src)
RegionsCover(j) ==
  \A pc \in Pcs : j.cache[pc] # NoEntry => Covering(j, pc, j.cache[pc].idx, j.cache[pc].src)
Distinct(src) == \A a, b \in src : a.va = b.va => a = b
ExitsCover(j) ==
  \A i \in Slots : j.exits[i] # NoExits =>
    users(j, i) \subseteq j.exits[i].entries /\ Distinct(j.exits[i].src)

Sound(j, Unused, Gone, Prior, Out) ==
  /\ j \in JitStates
  /\ CountsRefs(j) /\ EntriesOwned(j) /\ SlotsUsed(j, Unused) /\ LiveOwned(j) /\ IdleClean(j)
  /\ EntriesListed(j, Gone) /\ ModulesOwned(j, Prior) /\ ColdOwners(j)
  /\ Indexed(j, Out) /\ RegionsCover(j) /\ ExitsCover(j)

-----------------------------------------------------------------------------
(* What operations leave of a state.                                       *)

(* A dispatch line has what the cache has for its pc, and a fresh one is   *)
(* mapped as it was compiled.                                              *)
Maps(space, src) == \A s \in src : Mapping[<<space, s.va>>] = s.pp
LinesAgree(j, space) ==
  \A n \in Lines : j.lines[n].pc # 0 =>
    /\ Dslot[j.lines[n].pc] = n /\ j.cache[j.lines[n].pc] # NoEntry
    /\ j.cache[j.lines[n].pc].idx = j.lines[n].idx
    /\ j.lines[n].fresh => Maps(space, j.cache[j.lines[n].pc].src)

(* Slots only lose owners and modules only owners; claims, staged traces   *)
(* and coverage stay.                                                      *)
Weaker(m, n) ==
  /\ m.is = "pending" => n.is = "pending" /\ m.ticket = n.ticket
  /\ active_owner(m) \in {active_owner(n), 0}
Keeps(i, j) ==
  /\ \A s \in Slots : i.slot_owner[s] \in {j.slot_owner[s], 0}
  /\ \A k \in Keys : Weaker(i.modules[k], j.modules[k])
  /\ Same(i, j, JitFields \ {"superblocked", "claims", "stage", "coverage", "fill"})
Follows(i, j) == Keeps(i, j) /\ \A space \in Spaces : LinesAgree(j, space) => LinesAgree(i, space)
(* Entries only go.                                                        *)
Cuts(i, j) == \A pc \in Pcs : i.cache[pc] \in {j.cache[pc], NoEntry}

(* The sets of the assumption are finite, and so is what is built of them. *)
LEMMA Finite ==
  /\ IsFiniteSet(Pcs) /\ IsFiniteSet(Slots) /\ IsFiniteSet(Keys)
  /\ IsFiniteSet(Virtual) /\ IsFiniteSet(Physical)
  /\ \A j, i : IsFiniteSet(users(j, i)) /\ Cardinality(users(j, i)) \in Nat
<1>1. IsFiniteSet(Pcs) /\ IsFiniteSet(Slots) /\ IsFiniteSet(Spaces)
  BY OwnershipAssumption
<1>2. IsFiniteSet(Virtual)
  <2> DEFINE f == [pc \in Pcs |-> PageOf[pc]]
  <2>1. f \in Surjection(Pcs, Virtual)
    BY DEF Surjection, Virtual
  <2> HIDE DEF f
  <2> QED
    BY <1>1, <2>1, FS_Surjection
<1>3. IsFiniteSet(Keys)
  BY <1>1, <1>2, FS_Product DEF Keys
<1>4. IsFiniteSet(Physical)
  <2> DEFINE f == [k \in Keys |-> Mapping[k]]
  <2>1. f \in Surjection(Keys, Physical)
    BY OwnershipAssumption DEF Surjection, Physical
  <2> HIDE DEF f
  <2> QED
    BY <1>3, <2>1, FS_Surjection
<1>5. \A j, i : users(j, i) \in SUBSET Pcs
  BY DEF users
<1> QED
  BY <1>1, <1>2, <1>3, <1>4, <1>5, FS_Subset, FS_CardinalityType

(* A set of states' entries is empty or not; the entries have these types. *)
LEMMA EntryType ==
  ASSUME NEW e \in Entry
  PROVE  /\ e.idx \in Slots \cup {0, -1} /\ e.idx \in Int
         /\ e = NoEntry <=> e.idx = -1
         /\ e = NoEntry <=> ~(e.idx >= 0)
         /\ e # NoEntry => e.idx \in Slots \cup {0} /\ e.src \in SUBSET Source
         /\ e.idx > 0 => e.idx \in Slots /\ e # NoEntry
<1>1. \A i \in Slots \cup {0} : i \in Nat
  BY OwnershipAssumption
<1>2. CASE e = NoEntry
  BY <1>2 DEF NoEntry
<1>3. CASE e \in [idx : Slots \cup {0}, region : BOOLEAN, fp : BOOLEAN, src : SUBSET Source]
  <2>1. e.idx \in Slots \cup {0} /\ e.src \in SUBSET Source
    BY <1>3
  <2>2. e.idx \in Nat
    BY <1>1, <2>1
  <2>3. e # NoEntry
    BY <2>2 DEF NoEntry
  <2> QED
    BY <2>1, <2>2, <2>3
<1> QED
  BY <1>2, <1>3 DEF Entry

(* The owner of a page module's record is a ticket, or none.             *)
LEMMA ModuleType ==
  ASSUME NEW m \in Module
  PROVE  active_owner(m) \in Tickets \cup {0}
BY DEF Module, active_owner, NoModule

(* A ticket is not 0, and no key is the empty sequence.                  *)
LEMMA TicketType == \A o \in Tickets : o \in Nat /\ o # 0 /\ <<>> \notin Keys
BY OwnershipAssumption DEF Tickets, Keys

(* Slots are counted from 1.                                               *)
LEMMA SlotPositive == \A n \in Slots : n > 0
BY OwnershipAssumption

(* The places of a sequence are finitely many.                             *)
LEMMA Indexes ==
  ASSUME NEW S, NEW s \in Seq(S)
  PROVE  /\ DOMAIN s = 1 .. Len(s) /\ Len(s) \in Nat /\ IsFiniteSet(DOMAIN s)
         /\ \A n \in DOMAIN s : s[n] \in S
BY LenProperties, FS_Interval, ElementOfSeq

(* The types of the fields of a state.                                   *)
LEMMA FieldType ==
  ASSUME NEW j \in JitStates
  PROVE  /\ j.cache \in [Pcs -> Entry] /\ j.refs \in [Slots -> Nat]
         /\ j.slot_owner \in [Slots -> Tickets \cup {0}] /\ j.live \in SUBSET Slots
         /\ j.owner_entries \in [Tickets -> SUBSET Pcs] /\ j.cold \in Seq(Tickets)
         /\ j.module_owner \in [Tickets -> Keys \cup {<<>>}] /\ j.modules \in [Keys -> Module]
         /\ j.superblocked \in SUBSET Keys /\ j.claims \in [Keys -> Claim]
         /\ j.regions \in [Slots -> SUBSET Source] /\ j.exits \in [Slots -> Exits]
         /\ j.ext_queue \in SUBSET Slots /\ j.lines \in [Lines -> Line]
         /\ j.page_blocks \in [Physical -> SUBSET Pcs] /\ j.stage \in Seq(Trace)
         /\ j.coverage \in [Spaces \X Pcs -> Nat] /\ j.fill \in BOOLEAN
         /\ DOMAIN j = JitFields
BY DEF JitStates, JitFields

(* What is left of a module's record when its owner is forgotten.          *)
Left(m, o) ==
  CASE m.is = "live" /\ m.owner = o -> NoModule
    [] m.is = "pending" /\ m.owner = o -> [m EXCEPT !.owner = 0]
    [] OTHER -> m
(* The record is as weak as the owner it has lost.                       *)
LEMMA LeftOver ==
  ASSUME NEW m \in Module, NEW o \in Tickets
  PROVE  /\ Left(m, o) \in Module
         /\ Weaker(Left(m, o), m)
         /\ active_owner(m) = o => active_owner(Left(m, o)) = 0
         /\ active_owner(m) # o => Left(m, o) = m
<1>1. o \in Nat /\ o # 0
  BY TicketType
<1>2. CASE m = NoModule
  BY <1>1, <1>2 DEF Left, NoModule, Module, Weaker, active_owner
<1>3. CASE m \in [is : {"attempted"}, source : ModuleSource]
  BY <1>1, <1>3 DEF Left, Module, Weaker, active_owner
<1>4. CASE m \in [is : {"live"}, owner : Tickets, source : ModuleSource]
  BY <1>1, <1>4 DEF Left, NoModule, Module, Weaker, active_owner
<1>5. CASE m \in [is : {"pending"}, ticket : Tickets, owner : Tickets \cup {0},
                  source : ModuleSource, prior : ModuleSource]
  <2>1. CASE m.owner = o
    BY <1>1, <1>5, <2>1 DEF Left, Module, Weaker, active_owner
  <2>2. CASE m.owner # o
    BY <1>1, <1>5, <2>2 DEF Left, Module, Weaker, active_owner
  <2> QED
    BY <2>1, <2>2
<1> QED
  BY <1>2, <1>3, <1>4, <1>5 DEF Module

-----------------------------------------------------------------------------
(* The order of the owners.                                                *)

(* What RemoveAt leaves: the element after the gap moves up.               *)
LEMMA GapClosed ==
  ASSUME NEW S, NEW s \in Seq(S), NEW i \in 1 .. Len(s)
  PROVE  /\ RemoveAt(s, i) \in Seq(S) /\ Len(RemoveAt(s, i)) = Len(s) - 1
         /\ \A k \in 1 .. Len(s) - 1 : RemoveAt(s, i)[k] = IF k < i THEN s[k] ELSE s[k + 1]
<1> DEFINE front == SubSeq(s, 1, i - 1)  back == SubSeq(s, i + 1, Len(s))
<1>1. Len(s) \in Nat /\ i \in Int /\ 1 <= i /\ i <= Len(s)
  BY LenProperties
<1>2. \A k \in 1 .. Len(s) : s[k] \in S
  BY ElementOfSeq
<1>3. front \in Seq(S) /\ Len(front) = i - 1 /\ \A k \in 1 .. i - 1 : front[k] = s[k]
  <2>1. \A k \in 1 .. i - 1 : s[k] \in S
    BY <1>1, <1>2
  <2> QED
    BY <1>1, <2>1, SubSeqProperties
<1>4. /\ back \in Seq(S) /\ Len(back) = Len(s) - i
      /\ \A k \in 1 .. Len(s) - i : back[k] = s[i + k]
  <2>1. \A k \in i + 1 .. Len(s) : s[k] \in S
    BY <1>1, <1>2
  <2>2. /\ back \in Seq(S) /\ Len(back) = IF i + 1 <= Len(s) THEN Len(s) - (i + 1) + 1 ELSE 0
        /\ \A k \in 1 .. Len(s) - (i + 1) + 1 : back[k] = s[(i + 1) + k - 1]
    BY <1>1, <2>1, SubSeqProperties
  <2> HIDE DEF back
  <2> QED
    BY <1>1, <2>2
<1> HIDE DEF front, back
<1>5. /\ front \o back \in Seq(S) /\ Len(front \o back) = Len(front) + Len(back)
      /\ \A k \in 1 .. Len(front) + Len(back) :
           (front \o back)[k] = IF k <= Len(front) THEN front[k] ELSE back[k - Len(front)]
  BY <1>3, <1>4, ConcatProperties
<1>6. Len(front) + Len(back) = Len(s) - 1
  BY <1>1, <1>3, <1>4
<1>7. ASSUME NEW k \in 1 .. Len(s) - 1
      PROVE  (front \o back)[k] = IF k < i THEN s[k] ELSE s[k + 1]
  <2>1. CASE k < i
    BY <1>1, <1>3, <1>5, <1>6, <2>1
  <2>2. CASE ~(k < i)
    <3>1. k - (i - 1) \in 1 .. Len(s) - i /\ i + (k - (i - 1)) = k + 1
      BY <1>1, <2>2
    <3> QED
      BY <1>1, <1>3, <1>4, <1>5, <1>6, <2>2, <3>1
  <2> QED
    BY <2>1, <2>2
<1> QED
  BY <1>5, <1>6, <1>7 DEF RemoveAt, front, back

(* An element that is there once is gone; the others stay, once each.      *)
LEMMA FirstRemoved ==
  ASSUME NEW S, S \subseteq Nat, NEW s \in Seq(S), NEW e, Once(s)
  PROVE  /\ RemoveFirst(s, e) \in Seq(S) /\ Once(RemoveFirst(s, e))
         /\ \A x : Holds(RemoveFirst(s, e), x) <=> Holds(s, x) /\ x # e
<1> DEFINE I == {n \in 1 .. Len(s) : s[n] = e}
<1>1. Len(s) \in Nat
  BY LenProperties
<1>2. CASE ~Holds(s, e)
  BY <1>2 DEF Holds, RemoveFirst
<1>3. CASE Holds(s, e)
  <2>1. PICK i \in I : \A n \in I : i <= n
    <3>1. I \in SUBSET Nat
      BY <1>1
    <3>2. PICK t \in I : TRUE
      BY <1>3 DEF Holds
    <3> HIDE DEF I
    <3> QED
      BY <3>1, <3>2, LeastNat
  <2>2. I = {i}
    BY <1>1, <2>1 DEF Once
  <2>3. SelectInSeq(s, LAMBDA v : v = e) = i
    <3>1. SelectInSeq(s, LAMBDA v : v = e) = CHOOSE x \in I : \A y \in I : x =< y
      BY <2>1 DEF SelectInSeq, Min
    <3> QED
      BY <2>1, <2>2, <3>1
  <2>4. RemoveFirst(s, e) = RemoveAt(s, i)
    <3>1. \E n \in 1 .. Len(s) : s[n] = e
      BY <1>3 DEF Holds
    <3> QED
      BY <3>1, <2>3 DEF RemoveFirst
  <2> DEFINE t == RemoveAt(s, i)
  <2>5. /\ t \in Seq(S) /\ Len(t) = Len(s) - 1
        /\ \A k \in 1 .. Len(s) - 1 : t[k] = IF k < i THEN s[k] ELSE s[k + 1]
    BY <2>1, GapClosed
  <2> HIDE DEF t
  <2>6. i \in 1 .. Len(s) /\ s[i] = e
    BY <2>1
  <2> HIDE DEF I
  <2>7. Once(t)
    <3> SUFFICES ASSUME NEW m \in 1 .. Len(s) - 1, NEW n \in 1 .. Len(s) - 1, t[m] = t[n]
                 PROVE  m = n
      BY <2>5 DEF Once
    <3> DEFINE at(k) == IF k < i THEN k ELSE k + 1
    <3>1. at(m) \in 1 .. Len(s) /\ at(n) \in 1 .. Len(s)
      BY <1>1, <2>6
    <3>2. t[m] = s[at(m)] /\ t[n] = s[at(n)]
      BY <2>5
    <3>3. at(m) = at(n)
      <4> HIDE DEF at
      <4> QED
        BY <3>1, <3>2 DEF Once
    <3> QED
      BY <1>1, <2>6, <3>3
  <2>8. ASSUME NEW x
        PROVE  Holds(t, x) <=> Holds(s, x) /\ x # e
    <3>1. ASSUME NEW n \in 1 .. Len(t), t[n] = x
          PROVE  Holds(s, x) /\ x # e
      <4> DEFINE at == IF n < i THEN n ELSE n + 1
      <4>1. at \in 1 .. Len(s) /\ at # i /\ s[at] = x
        BY <1>1, <2>5, <2>6, <3>1
      <4> HIDE DEF at
      <4> QED
        BY <2>6, <4>1 DEF Holds, Once
    <3>2. ASSUME NEW n \in 1 .. Len(s), s[n] = x, x # e
          PROVE  Holds(t, x)
      <4>1. n # i
        BY <2>6, <3>2
      <4>2. CASE n < i
        <5>1. n \in 1 .. Len(t) /\ t[n] = x
          BY <1>1, <2>5, <2>6, <3>2, <4>2
        <5> QED
          BY <5>1 DEF Holds
      <4>3. CASE n > i
        <5>1. n - 1 \in 1 .. Len(t) /\ t[n - 1] = x
          <6>1. n - 1 \in 1 .. Len(s) - 1 /\ ~(n - 1 < i) /\ (n - 1) + 1 = n
            BY <1>1, <2>6, <4>3
          <6> QED
            BY <2>5, <3>2, <6>1
        <5> QED
          BY <5>1 DEF Holds
      <4> QED
        BY <1>1, <2>6, <4>1, <4>2, <4>3
    <3> QED
      BY <3>1, <3>2 DEF Holds
  <2> QED
    BY <2>4, <2>5, <2>7, <2>8 DEF t
<1> QED
  BY <1>2, <1>3

(* An owner's recency is its place at the end, whether it had one or not.  *)
LEMMA MadeWarmest ==
  ASSUME NEW S, S \subseteq Nat, NEW s \in Seq(S), NEW e \in S, Once(s)
  PROVE  LET t == Append(RemoveFirst(s, e), e) IN
         /\ t \in Seq(S) /\ Once(t)
         /\ \A x : Holds(t, x) <=> Holds(s, x) \/ x = e
<1> DEFINE r == RemoveFirst(s, e)  t == Append(r, e)
<1>1. r \in Seq(S) /\ Once(r) /\ \A x : Holds(r, x) <=> Holds(s, x) /\ x # e
  BY FirstRemoved
<1> HIDE DEF r
<1>2. Len(r) \in Nat
  BY <1>1, LenProperties
<1>3. /\ t \in Seq(S) /\ Len(t) = Len(r) + 1
      /\ \A k \in 1 .. Len(r) : t[k] = r[k]
      /\ t[Len(r) + 1] = e
  BY <1>1, AppendProperties
<1> HIDE DEF t
<1>4. \A k \in 1 .. Len(t) : k \in 1 .. Len(r) \/ k = Len(r) + 1
  BY <1>2, <1>3
<1>5. \A k \in 1 .. Len(r) : k \in 1 .. Len(t)
  BY <1>2, <1>3
<1>6. Len(r) + 1 \in 1 .. Len(t)
  BY <1>2, <1>3
<1>7. \A k \in 1 .. Len(r) : r[k] # e
  BY <1>1 DEF Holds
<1>8. Once(t)
  <2> SUFFICES ASSUME NEW m \in 1 .. Len(t), NEW n \in 1 .. Len(t), t[m] = t[n]
               PROVE  m = n
    BY DEF Once
  <2>1. CASE m \in 1 .. Len(r) /\ n \in 1 .. Len(r)
    BY <1>1, <1>3, <2>1 DEF Once
  <2>2. CASE m = Len(r) + 1
    <3>1. n \notin 1 .. Len(r)
      BY <1>3, <1>7, <2>2
    <3> QED
      BY <1>4, <2>2, <3>1
  <2>3. CASE n = Len(r) + 1
    <3>1. m \notin 1 .. Len(r)
      BY <1>3, <1>7, <2>3
    <3> QED
      BY <1>4, <2>3, <3>1
  <2> QED
    BY <1>4, <2>1, <2>2, <2>3
<1>9. ASSUME NEW x
      PROVE  Holds(t, x) <=> Holds(s, x) \/ x = e
  <2>1. Holds(t, x) <=> Holds(r, x) \/ x = e
    BY <1>3, <1>4, <1>5, <1>6 DEF Holds
  <2> QED
    BY <1>1, <2>1
<1> QED
  BY <1>3, <1>8, <1>9 DEF t, r

-----------------------------------------------------------------------------
(* A slot is retired.                                                      *)

(* What a state loses with an owner that has no slot left.                 *)
Forgotten(i, j, o) ==
  /\ \A x \in Tickets : /\ i.owner_entries[x] = IF x = o THEN {} ELSE j.owner_entries[x]
                        /\ i.module_owner[x] = IF x = o THEN <<>> ELSE j.module_owner[x]
  /\ i.cold = RemoveFirst(j.cold, o)
  /\ \A k \in Keys : i.modules[k] = IF k = j.module_owner[o] THEN Left(j.modules[k], o)
                                    ELSE j.modules[k]

(* What a state loses with a slot.                                         *)
Retired(i, j, idx) ==
  LET o == j.slot_owner[idx]
      last == \A s \in Slots : s # idx => j.slot_owner[s] # o
  IN  /\ \A s \in Slots : /\ i.slot_owner[s] = IF s = idx THEN 0 ELSE j.slot_owner[s]
                          /\ i.regions[s] = IF s = idx THEN {} ELSE j.regions[s]
                          /\ i.exits[s] = IF s = idx THEN NoExits ELSE j.exits[s]
      /\ i.ext_queue = j.ext_queue \ {idx} /\ i.live = j.live \ {idx}
      /\ ~last => Same(i, j, {"slot_owner", "regions", "exits", "ext_queue", "live"})
      /\ last => Forgotten(i, j, o)
      /\ Same(i, j, {"slot_owner", "regions", "exits", "ext_queue", "live", "owner_entries", "cold",
                     "module_owner", "modules"})

(* forget_owner: no entries, not in the recency list, no page module.    *)
LEMMA ForgetEffect ==
  ASSUME NEW j \in JitStates, NEW o \in Tickets, Once(j.cold)
  PROVE  LET f == forget_owner(j, o) IN
         /\ Same(f, j, {"owner_entries", "cold", "module_owner", "modules"}) /\ f \in JitStates
         /\ Forgotten(f, j, o)
<1>1. /\ j.module_owner \in [Tickets -> Keys \cup {<<>>}] /\ j.modules \in [Keys -> Module]
      /\ j.owner_entries \in [Tickets -> SUBSET Pcs] /\ j.cold \in Seq(Tickets)
      /\ DOMAIN j = JitFields
  BY FieldType
<1>2. <<>> \notin Keys
  BY TicketType
<1>3. RemoveFirst(j.cold, o) \in Seq(Tickets)
  BY <1>1, TicketType, FirstRemoved
<1> DEFINE c == RemoveFirst(j.cold, o)
           i == [j EXCEPT !.owner_entries[o] = {}, !.cold = c]
           k == j.module_owner[o]
           left == Left(j.modules[k], o)
           n == [i EXCEPT !.module_owner[o] = <<>>, !.modules[k] = left]
<1>4. i \in JitStates
  BY <1>1, <1>3 DEF JitStates
<1>5. /\ i.owner_entries = [j.owner_entries EXCEPT ![o] = {}] /\ i.cold = c
      /\ Same(i, j, {"owner_entries", "cold"}) /\ DOMAIN i = JitFields
  BY <1>1 DEF Same, JitFields
<1>6. forget_owner(j, o) = IF k = <<>> THEN i ELSE n
  BY DEF forget_owner, Left
<1> HIDE DEF i, c, left
<1>7. CASE k = <<>>
  <2>1. j.module_owner = [j.module_owner EXCEPT ![o] = <<>>]
    BY <1>1, <1>7
  <2>2. \A y \in Keys : j.modules[y] = IF y = j.module_owner[o] THEN Left(j.modules[y], o)
                                       ELSE j.modules[y]
    BY <1>1, <1>2, <1>7
  <2>3. i.module_owner = j.module_owner /\ i.modules = j.modules
    BY <1>5 DEF Same, JitFields
  <2> QED
    BY <1>1, <1>4, <1>5, <1>6, <1>7, <2>1, <2>2, <2>3 DEF Same, c, Forgotten
<1>8. CASE k # <<>>
  <2>1. k \in Keys
    BY <1>1, <1>8
  <2>2. left \in Module
    BY <1>1, <2>1, LeftOver DEF left
  <2>3. i.module_owner = j.module_owner /\ i.modules = j.modules
    BY <1>5 DEF Same, JitFields
  <2>4. n \in JitStates
    BY <1>1, <1>4, <2>1, <2>2, <2>3 DEF JitStates
  <2>5. /\ Same(n, i, {"module_owner", "modules"})
        /\ n.module_owner = [j.module_owner EXCEPT ![o] = <<>>]
        /\ n.modules = [j.modules EXCEPT ![k] = left]
    BY <1>5, <2>3 DEF Same, JitFields
  <2> HIDE DEF n
  <2>6. \A y \in Keys : n.modules[y] = IF y = j.module_owner[o] THEN Left(j.modules[y], o)
                                       ELSE j.modules[y]
    BY <1>1, <2>1, <2>5 DEF left
  <2>7. Forgotten(n, j, o)
    <3>1. n.owner_entries = [j.owner_entries EXCEPT ![o] = {}] /\ n.cold = c
      BY <1>5, <2>5 DEF Same, JitFields
    <3>2. \A x \in Tickets : n.owner_entries[x] = IF x = o THEN {} ELSE j.owner_entries[x]
      BY <1>1, <3>1
    <3>3. \A x \in Tickets : n.module_owner[x] = IF x = o THEN <<>> ELSE j.module_owner[x]
      BY <1>1, <2>5
    <3> QED
      BY <2>6, <3>1, <3>2, <3>3 DEF c, Forgotten
  <2>8. Same(n, j, {"owner_entries", "cold", "module_owner", "modules"})
    BY <1>5, <2>5 DEF Same, JitFields
  <2> QED
    BY <1>6, <1>8, <2>4, <2>7, <2>8
<1> QED
  BY <1>7, <1>8

(* retire_owned_slot: the slot goes, and with the last one its owner.    *)
LEMMA RetireEffect ==
  ASSUME NEW j \in JitStates, NEW idx \in Slots, j.slot_owner[idx] # 0, Once(j.cold)
  PROVE  /\ Retired(retire_owned_slot(j, idx), j, idx)
         /\ retire_owned_slot(j, idx) \in JitStates
<1> DEFINE o == j.slot_owner[idx]
           i == [j EXCEPT !.slot_owner[idx] = 0]
           last == \A s \in Slots : s # idx => j.slot_owner[s] # o
           f == IF owner_slots(i, o) = {} THEN forget_owner(i, o) ELSE i
           r == [f EXCEPT !.regions[idx] = {}, !.exits[idx] = NoExits, !.ext_queue = @ \ {idx},
                          !.live = @ \ {idx}]
<1>1. /\ DOMAIN j = JitFields /\ j.slot_owner \in [Slots -> Tickets \cup {0}]
      /\ j.regions \in [Slots -> SUBSET Source] /\ j.exits \in [Slots -> Exits]
  BY FieldType
<1>2. o \in Tickets /\ o # 0
  BY <1>1
<1>3. i \in JitStates
  BY <1>1 DEF JitStates
<1>4. /\ i.slot_owner = [j.slot_owner EXCEPT ![idx] = 0] /\ Same(i, j, {"slot_owner"})
  BY <1>1 DEF Same, JitFields
<1>5. owner_slots(i, o) = {} <=> last
  BY <1>1, <1>2, <1>4 DEF owner_slots
<1>6. retire_owned_slot(j, idx) = r
  BY <1>2 DEF retire_owned_slot
<1>7. Once(i.cold)
  BY <1>4 DEF Same, JitFields
<1>8. ASSUME f \in JitStates
      PROVE  /\ r \in JitStates
             /\ Same(r, f, {"regions", "exits", "ext_queue", "live"})
             /\ r.regions = [f.regions EXCEPT ![idx] = {}] /\ r.exits = [f.exits EXCEPT ![idx] = NoExits]
             /\ r.ext_queue = f.ext_queue \ {idx} /\ r.live = f.live \ {idx}
  <2> HIDE DEF f
  <2>1. /\ DOMAIN f = JitFields /\ f.regions \in [Slots -> SUBSET Source]
        /\ f.exits \in [Slots -> Exits] /\ f.ext_queue \in SUBSET Slots /\ f.live \in SUBSET Slots
    BY <1>8, FieldType
  <2>2. NoExits \in Exits
    BY DEF Exits
  <2>3. r \in JitStates
    BY <1>8, <2>1, <2>2 DEF JitStates
  <2> QED
    BY <2>1, <2>3 DEF Same, JitFields
<1> HIDE DEF i, r
<1>9. CASE last
  <2>1. f = forget_owner(i, o)
    BY <1>5, <1>9
  <2>2. /\ Same(f, i, {"owner_entries", "cold", "module_owner", "modules"}) /\ f \in JitStates
        /\ Forgotten(f, i, o)
    <3> HIDE DEF f, o
    <3> QED
      BY <1>2, <1>3, <1>7, <2>1, ForgetEffect
  <2> HIDE DEF f, last
  <2>3. /\ i.regions = j.regions /\ i.exits = j.exits /\ i.ext_queue = j.ext_queue /\ i.live = j.live
        /\ i.owner_entries = j.owner_entries /\ i.cold = j.cold /\ i.modules = j.modules
        /\ i.module_owner = j.module_owner
    BY <1>4 DEF Same, JitFields
  <2>4. /\ f.regions = j.regions /\ f.exits = j.exits /\ f.ext_queue = j.ext_queue /\ f.live = j.live
        /\ f.slot_owner = i.slot_owner
    BY <2>2, <2>3 DEF Same, JitFields
  <2>5. /\ r.owner_entries = f.owner_entries /\ r.cold = f.cold /\ r.modules = f.modules
        /\ r.module_owner = f.module_owner /\ r.slot_owner = f.slot_owner
    BY <1>8, <2>2 DEF Same, JitFields
  <2>6. Same(r, j, {"slot_owner", "regions", "exits", "ext_queue", "live", "owner_entries", "cold",
                    "module_owner", "modules"})
    BY <1>4, <1>8, <2>2 DEF Same, JitFields
  <2>7. /\ \A s \in Slots : /\ r.slot_owner[s] = IF s = idx THEN 0 ELSE j.slot_owner[s]
                            /\ r.regions[s] = IF s = idx THEN {} ELSE j.regions[s]
                            /\ r.exits[s] = IF s = idx THEN NoExits ELSE j.exits[s]
        /\ r.ext_queue = j.ext_queue \ {idx} /\ r.live = j.live \ {idx}
    <3>1. \A s \in Slots : r.slot_owner[s] = IF s = idx THEN 0 ELSE j.slot_owner[s]
      BY <1>1, <1>4, <2>4, <2>5
    <3>2. \A s \in Slots : /\ r.regions[s] = IF s = idx THEN {} ELSE j.regions[s]
                           /\ r.exits[s] = IF s = idx THEN NoExits ELSE j.exits[s]
      <4>1. /\ r.regions = [f.regions EXCEPT ![idx] = {}]
            /\ r.exits = [f.exits EXCEPT ![idx] = NoExits]
        BY <1>8, <2>2
      <4> QED
        BY <1>1, <2>4, <4>1
    <3> QED
      BY <1>8, <2>2, <2>4, <3>1, <3>2
  <2>8. Forgotten(r, j, o)
    BY <2>2, <2>3, <2>5 DEF Forgotten
  <2>9. Retired(r, j, idx)
    BY <1>9, <2>6, <2>7, <2>8 DEF Retired, last
  <2> QED
    BY <1>6, <1>8, <2>2, <2>9
<1>10. CASE ~last
  <2>1. f = i
    BY <1>5, <1>10
  <2> HIDE DEF f, last
  <2>2. Retired(r, j, idx)
    <3>1. /\ Same(r, f, {"regions", "exits", "ext_queue", "live"})
          /\ r.regions = [f.regions EXCEPT ![idx] = {}] /\ r.exits = [f.exits EXCEPT ![idx] = NoExits]
          /\ r.ext_queue = f.ext_queue \ {idx} /\ r.live = f.live \ {idx}
      BY <1>3, <1>8, <2>1
    <3>2. /\ f.regions = j.regions /\ f.exits = j.exits /\ f.ext_queue = j.ext_queue /\ f.live = j.live
          /\ f.slot_owner = [j.slot_owner EXCEPT ![idx] = 0] /\ Same(f, j, {"slot_owner"})
      BY <1>4, <2>1 DEF Same, JitFields
    <3>3. r.slot_owner = f.slot_owner /\ Same(r, j, {"slot_owner", "regions", "exits", "ext_queue", "live"})
      BY <3>1, <3>2 DEF Same, JitFields
    <3>4. ASSUME NEW s \in Slots
          PROVE  /\ r.slot_owner[s] = IF s = idx THEN 0 ELSE j.slot_owner[s]
                 /\ r.regions[s] = IF s = idx THEN {} ELSE j.regions[s]
                 /\ r.exits[s] = IF s = idx THEN NoExits ELSE j.exits[s]
      BY <1>1, <3>1, <3>2, <3>3
    <3>5. Same(r, j, {"slot_owner", "regions", "exits", "ext_queue", "live", "owner_entries", "cold",
                      "module_owner", "modules"})
      BY <3>3 DEF Same
    <3>6. r.ext_queue = j.ext_queue \ {idx} /\ r.live = j.live \ {idx}
      BY <3>1, <3>2
    <3> QED
      BY <1>10, <3>3, <3>4, <3>5, <3>6 DEF Retired, last
  <2> QED
    BY <1>3, <1>6, <1>8, <2>1, <2>2
<1> QED
  BY <1>9, <1>10

(* An owner that has its last slot at idx is forgotten with it, another    *)
(* keeps its place.                                                        *)
LEMMA OwnersLeft ==
  ASSUME NEW j \in JitStates, NEW i \in JitStates, NEW idx \in Slots,
         j.slot_owner[idx] # 0, Retired(i, j, idx),
         NEW Prior, ModulesOwned(j, Prior), ColdOwners(j)
  PROVE  /\ \A o \in Tickets : owns(i, o) <=> /\ owns(j, o)
                                              /\ \/ o # j.slot_owner[idx]
                                                 \/ \E s \in Slots : s # idx /\ j.slot_owner[s] = o
         /\ \A k \in Keys : Weaker(i.modules[k], j.modules[k])
         /\ ModulesOwned(i, Prior) /\ ColdOwners(i)
<1> DEFINE o == j.slot_owner[idx]
           last == \A s \in Slots : s # idx => j.slot_owner[s] # o
<1>1. /\ j.slot_owner \in [Slots -> Tickets \cup {0}] /\ j.cold \in Seq(Tickets)
      /\ j.module_owner \in [Tickets -> Keys \cup {<<>>}] /\ j.modules \in [Keys -> Module]
  BY FieldType
<1>2. o \in Tickets /\ o # 0 /\ owns(j, o)
  BY <1>1 DEF owns
<1>3. \A s \in Slots : i.slot_owner[s] = IF s = idx THEN 0 ELSE j.slot_owner[s]
  BY DEF Retired
<1>4. \A x \in Tickets : owns(i, x) <=> owns(j, x) /\ (x # o \/ ~last)
  BY <1>1, <1>2, <1>3, TicketType DEF owns
<1>5. /\ last => Forgotten(i, j, o)
      /\ ~last => i.cold = j.cold /\ i.module_owner = j.module_owner /\ i.modules = j.modules
  BY DEF Retired, Same, JitFields
<1>6. \A k \in Keys : active_owner(j.modules[k]) \in Tickets \cup {0}
  BY <1>1, ModuleType
<1>7. \A k \in Keys : /\ Weaker(Left(j.modules[k], o), j.modules[k])
                      /\ active_owner(j.modules[k]) = o => active_owner(Left(j.modules[k], o)) = 0
                      /\ active_owner(j.modules[k]) # o => Left(j.modules[k], o) = j.modules[k]
  BY <1>1, <1>2, LeftOver
<1> HIDE DEF o, last
<1>8. CASE ~last
  <2>1. \A k \in Keys : Weaker(i.modules[k], j.modules[k])
    BY <1>5, <1>8 DEF Weaker
  <2>2. ModulesOwned(i, Prior)
    BY <1>4, <1>5, <1>8 DEF ModulesOwned
  <2>3. ColdOwners(i)
    BY <1>4, <1>5, <1>8 DEF ColdOwners
  <2> QED
    BY <1>4, <1>8, <2>1, <2>2, <2>3 DEF last, o
<1>9. CASE last
  <2>1. /\ i.cold = RemoveFirst(j.cold, o)
        /\ \A x \in Tickets : i.module_owner[x] = IF x = o THEN <<>> ELSE j.module_owner[x]
        /\ \A k \in Keys : i.modules[k] = IF k = j.module_owner[o] THEN Left(j.modules[k], o)
                                          ELSE j.modules[k]
    BY <1>5, <1>9 DEF Forgotten
  <2>2. ColdOwners(i)
    <3>1. Once(j.cold) /\ Tickets \subseteq Nat
      BY TicketType DEF ColdOwners
    <3>2. Once(i.cold) /\ \A x : Holds(i.cold, x) <=> Holds(j.cold, x) /\ x # o
      <4>1. /\ Once(RemoveFirst(j.cold, o))
            /\ \A x : Holds(RemoveFirst(j.cold, o), x) <=> Holds(j.cold, x) /\ x # o
        BY <1>1, <3>1, FirstRemoved
      <4> QED
        BY <2>1, <4>1
    <3>3. \A x \in Tickets : Holds(j.cold, x) <=> owns(j, x)
      BY DEF ColdOwners
    <3> QED
      BY <1>4, <1>9, <3>2, <3>3 DEF ColdOwners
  <2>3. \A k \in Keys : Weaker(i.modules[k], j.modules[k])
    BY <1>7, <2>1 DEF Weaker
  <2>4. \A k \in Keys : /\ active_owner(i.modules[k]) \in {active_owner(j.modules[k]), 0}
                        /\ active_owner(i.modules[k]) # o
    <3> SUFFICES ASSUME NEW k \in Keys
                 PROVE  /\ active_owner(i.modules[k]) \in {active_owner(j.modules[k]), 0}
                        /\ active_owner(i.modules[k]) # o
      OBVIOUS
    <3>1. active_owner(j.modules[k]) = o => k = j.module_owner[o]
      BY <1>2 DEF ModulesOwned
    <3> QED
      BY <1>2, <1>7, <2>1, <3>1
  <2>5. \A x \in Tickets : i.module_owner[x] # <<>> =>
          owns(i, x) /\ (active_owner(i.modules[i.module_owner[x]]) = x \/ x = Prior)
    <3> SUFFICES ASSUME NEW x \in Tickets, i.module_owner[x] # <<>>
                 PROVE  owns(i, x) /\ (active_owner(i.modules[i.module_owner[x]]) = x \/ x = Prior)
      OBVIOUS
    <3>1. x # o /\ i.module_owner[x] = j.module_owner[x]
      BY <2>1
    <3>2. owns(j, x) /\ (active_owner(j.modules[j.module_owner[x]]) = x \/ x = Prior)
      BY <3>1 DEF ModulesOwned
    <3>3. owns(i, x)
      BY <1>4, <3>1, <3>2
    <3>4. j.module_owner[x] \in Keys
      BY <1>1, <3>1
    <3>5. active_owner(j.modules[j.module_owner[x]]) = x =>
            i.modules[j.module_owner[x]] = j.modules[j.module_owner[x]]
      BY <1>7, <2>1, <3>1, <3>4
    <3> QED
      BY <3>1, <3>2, <3>3, <3>5
  <2>6. \A k \in Keys : active_owner(i.modules[k]) # 0 => i.module_owner[active_owner(i.modules[k])] = k
    <3> SUFFICES ASSUME NEW k \in Keys, active_owner(i.modules[k]) # 0
                 PROVE  i.module_owner[active_owner(i.modules[k])] = k
      OBVIOUS
    <3>1. active_owner(i.modules[k]) = active_owner(j.modules[k]) /\ active_owner(i.modules[k]) # o
      BY <2>4
    <3>2. j.module_owner[active_owner(j.modules[k])] = k /\ active_owner(j.modules[k]) \in Tickets
      BY <1>6, <3>1 DEF ModulesOwned
    <3> QED
      BY <2>1, <3>1, <3>2
  <2> QED
    BY <1>4, <1>9, <2>2, <2>3, <2>5, <2>6 DEF ModulesOwned, last, o
<1> QED
  BY <1>8, <1>9

(* What a retired slot leaves to the entries, which none of them had.      *)
Quiet(i, j) ==
  /\ i.cache = j.cache /\ i.refs = j.refs /\ i.lines = j.lines /\ i.page_blocks = j.page_blocks
  /\ Follows(i, j)

(* The slots apart from idx are as they were.                              *)
Spares(i, j, idx) ==
  \A s \in Slots : s # idx => /\ i.slot_owner[s] = j.slot_owner[s]
                             /\ i.regions[s] = j.regions[s] /\ i.exits[s] = j.exits[s]

(* A slot without entries is retired: the others are as they were.         *)
LEMMA RetireSound ==
  ASSUME NEW j, NEW Unused, NEW Gone, NEW Prior, NEW Out, Sound(j, Unused, Gone, Prior, Out),
         NEW idx \in Slots, users(j, idx) = {}
  PROVE  LET i == retire_owned_slot(j, idx) IN
         /\ Sound(i, Unused \ {idx}, Gone, Prior, Out) /\ Quiet(i, j) /\ Spares(i, j, idx)
         /\ \A s \in Slots : i.slot_owner[s] = IF s = idx THEN 0 ELSE j.slot_owner[s]
<1> DEFINE i == retire_owned_slot(j, idx)
           o == j.slot_owner[idx]
           last == \A s \in Slots : s # idx => j.slot_owner[s] # o
<1>0. j \in JitStates
  BY DEF Sound
<1>1. /\ j.slot_owner \in [Slots -> Tickets \cup {0}] /\ j.cold \in Seq(Tickets)
      /\ j.module_owner \in [Tickets -> Keys \cup {<<>>}] /\ j.modules \in [Keys -> Module]
      /\ j.cache \in [Pcs -> Entry] /\ j.live \in SUBSET Slots
  BY <1>0, FieldType
<1>2. CASE o = 0
  <2>1. i = j
    BY <1>2 DEF retire_owned_slot
  <2>2. SlotsUsed(j, Unused \ {idx})
    BY <1>2 DEF Sound, SlotsUsed
  <2>3. Quiet(j, j)
    BY <1>1 DEF Quiet, Follows, Keeps, Weaker, Same
  <2> QED
    BY <1>2, <2>1, <2>2, <2>3 DEF Sound, Spares
<1>3. CASE o # 0
  <2>1. Once(j.cold)
    BY DEF Sound, ColdOwners
  <2>2. Retired(i, j, idx) /\ i \in JitStates
    BY <1>0, <1>3, <2>1, RetireEffect
  <2> HIDE DEF i
  <2>3. /\ \A s \in Slots : /\ i.slot_owner[s] = IF s = idx THEN 0 ELSE j.slot_owner[s]
                            /\ i.regions[s] = IF s = idx THEN {} ELSE j.regions[s]
                            /\ i.exits[s] = IF s = idx THEN NoExits ELSE j.exits[s]
        /\ i.ext_queue = j.ext_queue \ {idx} /\ i.live = j.live \ {idx}
        /\ i.cache = j.cache /\ i.refs = j.refs /\ i.lines = j.lines /\ i.page_blocks = j.page_blocks
        /\ Same(i, j, JitFields \ {"superblocked", "claims", "stage", "coverage", "fill"})
    BY <2>2 DEF Retired, Same, JitFields
  <2>4. /\ \A x \in Tickets : owns(i, x) <=> owns(j, x) /\ (x # o \/ ~last)
        /\ \A k \in Keys : Weaker(i.modules[k], j.modules[k])
        /\ ModulesOwned(i, Prior) /\ ColdOwners(i)
    <3>1. ModulesOwned(j, Prior) /\ ColdOwners(j)
      BY DEF Sound
    <3> QED
      BY <1>0, <1>3, <2>2, <3>1, OwnersLeft
  <2>5. \A s : users(i, s) = users(j, s)
    BY <2>3 DEF users
  <2>6. \A pc \in Pcs : j.cache[pc].idx # idx
    BY DEF users
  <2>7. \A pc \in Pcs : j.cache[pc].idx > 0 => j.cache[pc].idx \in Slots
    BY <1>1, EntryType
  <2>8. CountsRefs(i) /\ EntriesOwned(i) /\ SlotsUsed(i, Unused \ {idx}) /\ LiveOwned(i) /\ IdleClean(i)
    <3>1. CountsRefs(i)
      BY <2>3, <2>5 DEF Sound, CountsRefs
    <3>2. EntriesOwned(i)
      BY <2>3, <2>6, <2>7 DEF Sound, EntriesOwned
    <3>3. SlotsUsed(i, Unused \ {idx})
      BY <2>3, <2>5 DEF Sound, SlotsUsed
    <3>4. LiveOwned(i)
      BY <2>3 DEF Sound, LiveOwned
    <3>5. IdleClean(i)
      BY <2>3 DEF Sound, IdleClean
    <3> QED
      BY <3>1, <3>2, <3>3, <3>4, <3>5
  <2>9. EntriesListed(i, Gone)
    <3>1. \A x \in Tickets, pc \in Pcs : pc \in i.owner_entries[x] <=> pc \in j.owner_entries[x]
      <4>1. CASE ~last
        BY <2>2, <4>1 DEF Retired, Same, JitFields
      <4>2. CASE last
        <5>1. \A x \in Tickets : i.owner_entries[x] = IF x = o THEN {} ELSE j.owner_entries[x]
          BY <2>2, <4>2 DEF Retired, Forgotten
        <5>2. \A pc \in Pcs : pc \notin j.owner_entries[o]
          BY <1>1, <1>3, <2>6, <2>7, <4>2 DEF Sound, EntriesListed
        <5> QED
          BY <5>1, <5>2
      <4> QED
        BY <4>1, <4>2
    <3>2. \A pc \in Pcs : j.cache[pc].idx > 0 =>
            i.slot_owner[j.cache[pc].idx] = j.slot_owner[j.cache[pc].idx]
      BY <2>3, <2>6, <2>7
    <3> HIDE DEF o, last
    <3> QED
      BY <2>3, <3>1, <3>2 DEF Sound, EntriesListed
  <2>10. /\ \A pc \in Pcs : j.cache[pc].idx > 0 => i.regions[j.cache[pc].idx] = j.regions[j.cache[pc].idx]
    BY <2>3, <2>6, <2>7
  <2>11. Indexed(i, Out)
    <3>1. \A pc \in Pcs : block_physical_pages(i, pc, i.cache[pc]) = block_physical_pages(j, pc, j.cache[pc])
      BY <2>3, <2>10 DEF block_physical_pages
    <3>2. Indexed(j, Out)
      BY DEF Sound
    <3>3. \A p \in Physical, pc \in Pcs :
            (pc \in i.page_blocks[p] <=> pc \in j.page_blocks[p]) /\ i.cache[pc] = j.cache[pc]
      BY <2>3
    <3> SUFFICES ASSUME NEW p \in Physical, NEW pc \in Pcs
                 PROVE  pc \in i.page_blocks[p] <=> /\ i.cache[pc] # NoEntry
                                                    /\ p \in block_physical_pages(i, pc, i.cache[pc])
                                                    /\ <<p, pc>> \notin Out
      BY Zenon DEF Indexed
    <3>4. pc \in j.page_blocks[p] <=> /\ j.cache[pc] # NoEntry
                                      /\ p \in block_physical_pages(j, pc, j.cache[pc])
                                      /\ <<p, pc>> \notin Out
      BY <3>2 DEF Indexed
    <3> QED
      BY <3>1, <3>3, <3>4, Zenon
  <2>12. RegionsCover(i) /\ ExitsCover(i)
    <3>1. RegionsCover(i)
      BY <2>3, <2>10 DEF Sound, RegionsCover, Covering
    <3>2. ExitsCover(i)
      BY <2>3, <2>5 DEF Sound, ExitsCover
    <3> QED
      BY <3>1, <3>2
  <2>13. Quiet(i, j)
    <3>1. Keeps(i, j)
      BY <2>3, <2>4 DEF Keeps
    <3>2. \A space \in Spaces : LinesAgree(j, space) => LinesAgree(i, space)
      BY <2>3 DEF LinesAgree
    <3> QED
      BY <2>3, <3>1, <3>2 DEF Quiet, Follows
  <2>14. Spares(i, j, idx)
    BY <2>3 DEF Spares
  <2> QED
    BY <2>2, <2>3, <2>4, <2>8, <2>9, <2>11, <2>12, <2>13, <2>14 DEF Sound, i
<1> QED
  BY <1>2, <1>3

(* Two states with the same fields are the same.                           *)
LEMMA StateEqual ==
  ASSUME NEW i \in JitStates, NEW j \in JitStates, Same(i, j, {})
  PROVE  i = j
<1>1. DOMAIN i = JitFields /\ DOMAIN j = JitFields
  BY FieldType
<1>2. \A f \in JitFields : i[f] = j[f]
  BY DEF Same
<1>3. i = [f \in DOMAIN i |-> i[f]] /\ j = [f \in DOMAIN j |-> j[f]]
  BY DEF JitStates
<1> HIDE DEF JitFields
<1> QED
  BY <1>1, <1>2, <1>3

(* What operations keep, they keep one after the other.                    *)
LEMMA KeepsOn ==
  ASSUME NEW i, NEW j, NEW k
  PROVE  /\ Keeps(i, j) /\ Keeps(j, k) => Keeps(i, k)
         /\ Follows(i, j) /\ Follows(j, k) => Follows(i, k)
<1>1. ASSUME Keeps(i, j), Keeps(j, k)
      PROVE  Keeps(i, k)
  <2>1. \A s \in Slots : i.slot_owner[s] \in {k.slot_owner[s], 0}
    BY <1>1 DEF Keeps
  <2>2. \A n \in Keys : Weaker(i.modules[n], k.modules[n])
    BY <1>1 DEF Keeps, Weaker
  <2>3. Same(i, k, JitFields \ {"superblocked", "claims", "stage", "coverage", "fill"})
    BY <1>1 DEF Keeps, Same
  <2> QED
    BY <2>1, <2>2, <2>3 DEF Keeps
<1>2. ASSUME Follows(i, j), Follows(j, k)
      PROVE  Follows(i, k)
  BY <1>1, <1>2 DEF Follows
<1> QED
  BY <1>1, <1>2

(* More slots may be unused than are.                                      *)
LEMMA MoreUnused ==
  ASSUME NEW j, NEW Unused, NEW More, Unused \subseteq More, NEW Gone, NEW Prior, NEW Out,
         Sound(j, Unused, Gone, Prior, Out)
  PROVE  Sound(j, More, Gone, Prior, Out)
BY DEF Sound, SlotsUsed

(* One entry less, or one more, uses a slot.                               *)
LEMMA OneUserLess ==
  ASSUME NEW j, NEW i, NEW pc \in Pcs, NEW idx,
         j.cache[pc].idx = idx, i.cache[pc].idx # idx,
         \A x \in Pcs : x # pc => i.cache[x] = j.cache[x]
  PROVE  /\ Cardinality(users(j, idx)) \in Nat \ {0}
         /\ Cardinality(users(i, idx)) = Cardinality(users(j, idx)) - 1
<1>1. users(i, idx) = users(j, idx) \ {pc} /\ pc \in users(j, idx)
  BY DEF users
<1>2. users(j, idx) \in SUBSET Pcs /\ IsFiniteSet(Pcs)
  BY Finite DEF users
<1>3. /\ Cardinality(users(j, idx)) \in Nat \ {0}
      /\ Cardinality(users(j, idx) \ {pc}) = Cardinality(users(j, idx)) - 1
  BY <1>1, <1>2, OneLess
<1> QED
  BY <1>1, <1>3

(* A slot is counted 0 times when no entry runs it.                      *)
LEMMA NoUsers ==
  ASSUME NEW j, NEW idx
  PROVE  users(j, idx) = {} <=> Cardinality(users(j, idx)) = 0
BY Finite, FS_EmptySet

(* A slot that has lost an entry is released, and retired with its last.   *)
LEMMA ReleaseSound ==
  ASSUME NEW j \in JitStates, NEW idx \in Slots, NEW Unused, NEW Gone, NEW Prior, NEW Out,
         j.refs[idx] # 0,
         Sound([j EXCEPT !.refs[idx] = @ - 1], Unused \cup {idx}, Gone, Prior, Out)
  PROVE  LET i == [j EXCEPT !.refs[idx] = @ - 1]
             r == release_slot(j, idx)
         IN  /\ Sound(r, Unused, Gone, Prior, Out) /\ Quiet(r, i) /\ Spares(r, i, idx)
             /\ \A s \in Slots : r.slot_owner[s] = IF s = idx /\ users(i, idx) = {} THEN 0
                                                   ELSE i.slot_owner[s]
<1> DEFINE i == [j EXCEPT !.refs[idx] = @ - 1]
<1>1. release_slot(j, idx) = IF i.refs[idx] = 0 THEN retire_owned_slot(i, idx) ELSE i
  BY DEF release_slot
<1>2. Sound(i, Unused \cup {idx}, Gone, Prior, Out)
  OBVIOUS
<1> HIDE DEF i
<1>3. i.refs[idx] = 0 <=> users(i, idx) = {}
  BY <1>2, NoUsers DEF Sound, CountsRefs
<1>4. CASE users(i, idx) = {}
  <2> DEFINE r == retire_owned_slot(i, idx)
  <2>1. /\ Sound(r, (Unused \cup {idx}) \ {idx}, Gone, Prior, Out) /\ Quiet(r, i)
        /\ Spares(r, i, idx) /\ \A s \in Slots : r.slot_owner[s] = IF s = idx THEN 0 ELSE i.slot_owner[s]
    BY <1>2, <1>4, RetireSound
  <2> HIDE DEF r
  <2>2. (Unused \cup {idx}) \ {idx} \subseteq Unused
    OBVIOUS
  <2>3. Sound(r, Unused, Gone, Prior, Out)
    BY <2>1, <2>2, MoreUnused
  <2>4. release_slot(j, idx) = r
    BY <1>1, <1>3, <1>4 DEF r
  <2> QED
    BY <1>4, <2>1, <2>3, <2>4 DEF i
<1>5. CASE users(i, idx) # {}
  <2>1. release_slot(j, idx) = i
    BY <1>1, <1>3, <1>5
  <2>2. Sound(i, Unused, Gone, Prior, Out)
    BY <1>2, <1>5 DEF Sound, SlotsUsed
  <2>3. Quiet(i, i) /\ Spares(i, i, idx)
    BY DEF Quiet, Follows, Keeps, Weaker, Same, Spares
  <2> QED
    BY <1>5, <2>1, <2>2, <2>3 DEF i
<1> QED
  BY <1>4, <1>5

-----------------------------------------------------------------------------
(* An entry is dropped.                                                    *)

(* The entry of pc is off the cache, the indexes and the count.            *)
EntryGone(i, j, pc) ==
  /\ \A x \in Pcs : i.cache[x] = IF x = pc THEN NoEntry ELSE j.cache[x]
  /\ \A p \in Physical, x \in Pcs : x \in i.page_blocks[p] <=> x \in j.page_blocks[p] /\ x # pc
  /\ \A o \in Tickets, x \in Pcs : x \in i.owner_entries[o] <=> x \in j.owner_entries[o] /\ x # pc
  /\ \A s \in Slots : i.refs[s] = IF s = j.cache[pc].idx THEN j.refs[s] - 1 ELSE j.refs[s]
  /\ Same(i, j, {"cache", "page_blocks", "owner_entries", "refs"})

(* The indexed pages of an entry depend on the region on its slot.         *)
LEMMA SamePages ==
  ASSUME NEW i, NEW j, NEW pc, NEW e, e.idx > 0 => i.regions[e.idx] = j.regions[e.idx]
  PROVE  block_physical_pages(i, pc, e) = block_physical_pages(j, pc, e)
BY DEF block_physical_pages

(* Without that entry the state is sound, but its slot may be unused.    *)
LEMMA EntryGoneSound ==
  ASSUME NEW j, NEW Unused, NEW Gone, NEW Prior, NEW Out, Sound(j, Unused, Gone, Prior, Out),
         NEW pc \in Pcs, j.cache[pc] # NoEntry,
         NEW i \in JitStates, EntryGone(i, j, pc)
  PROVE  Sound(i, Unused \cup {j.cache[pc].idx}, Gone, Prior, Out \ (Physical \X {pc}))
<1> DEFINE e == j.cache[pc]
<1>1. /\ j.cache \in [Pcs -> Entry] /\ i.cache \in [Pcs -> Entry]
      /\ \A x \in Pcs : j.cache[x].idx \in Int /\ (j.cache[x].idx > 0 => j.cache[x].idx \in Slots)
      /\ NoEntry.idx = -1
  BY FieldType, EntryType DEF Sound, NoEntry
<1>2. /\ \A x \in Pcs : i.cache[x] = IF x = pc THEN NoEntry ELSE j.cache[x]
      /\ \A x \in Pcs : x # pc => i.cache[x] = j.cache[x]
      /\ i.slot_owner = j.slot_owner /\ i.live = j.live /\ i.regions = j.regions /\ i.exits = j.exits
      /\ i.ext_queue = j.ext_queue /\ i.cold = j.cold /\ i.module_owner = j.module_owner
      /\ i.modules = j.modules /\ i.lines = j.lines
  BY DEF EntryGone, Same, JitFields
<1>3. \A s \in Slots : s # e.idx => users(i, s) = users(j, s)
  <2> SUFFICES ASSUME NEW s \in Slots, s # e.idx
               PROVE  users(i, s) = users(j, s)
    OBVIOUS
  <2>1. s # -1
    BY OwnershipAssumption
  <2> QED
    BY <1>1, <1>2, <2>1 DEF users
<1>4. CountsRefs(i)
  <2> SUFFICES ASSUME NEW s \in Slots
               PROVE  i.refs[s] = Cardinality(users(i, s))
    BY DEF CountsRefs
  <2>1. j.refs[s] = Cardinality(users(j, s))
    BY DEF Sound, CountsRefs
  <2>2. i.refs[s] = IF s = e.idx THEN j.refs[s] - 1 ELSE j.refs[s]
    BY DEF EntryGone
  <2>3. CASE s = e.idx
    <3>1. i.cache[pc].idx # e.idx
      BY <1>1, <1>2, <2>3, OwnershipAssumption
    <3>2. Cardinality(users(i, e.idx)) = Cardinality(users(j, e.idx)) - 1
      <4>1. j.cache[pc].idx = e.idx /\ \A x \in Pcs : x # pc => i.cache[x] = j.cache[x]
        BY <1>2
      <4> HIDE DEF e
      <4> QED
        BY <3>1, <4>1, OneUserLess
    <3> QED
      BY <2>1, <2>2, <2>3, <3>2
  <2>4. CASE s # e.idx
    BY <1>3, <2>1, <2>2, <2>4
  <2> QED
    BY <2>3, <2>4
<1>5. EntriesOwned(i)
  BY <1>1, <1>2 DEF Sound, EntriesOwned
<1>6. SlotsUsed(i, Unused \cup {e.idx})
  BY <1>2, <1>3 DEF Sound, SlotsUsed
<1>7. LiveOwned(i) /\ IdleClean(i)
  BY <1>2 DEF Sound, LiveOwned, IdleClean
<1>8. EntriesListed(i, Gone)
  <2>1. EntriesListed(j, Gone)
    BY DEF Sound
  <2>2. \A o \in Tickets, x \in Pcs : x \in i.owner_entries[o] <=> x \in j.owner_entries[o] /\ x # pc
    BY DEF EntryGone
  <2> QED
    BY <1>1, <1>2, <2>1, <2>2 DEF EntriesListed
<1>9. ModulesOwned(i, Prior) /\ ColdOwners(i)
  BY <1>2 DEF Sound, ModulesOwned, ColdOwners, owns
<1>10. Indexed(i, Out \ (Physical \X {pc}))
  <2>1. Indexed(j, Out)
    BY DEF Sound
  <2>2. \A p \in Physical, x \in Pcs : x \in i.page_blocks[p] <=> x \in j.page_blocks[p] /\ x # pc
    BY DEF EntryGone
  <2>3. \A x \in Pcs : x # pc => block_physical_pages(i, x, i.cache[x]) = block_physical_pages(j, x, j.cache[x])
    BY <1>2, SamePages
  <2>4. ASSUME NEW p \in Physical, NEW x \in Pcs
        PROVE  x \in i.page_blocks[p] <=> /\ i.cache[x] # NoEntry
                                          /\ p \in block_physical_pages(i, x, i.cache[x])
                                          /\ <<p, x>> \notin Out \ (Physical \X {pc})
    <3>1. x \in j.page_blocks[p] <=> /\ j.cache[x] # NoEntry
                                     /\ p \in block_physical_pages(j, x, j.cache[x])
                                     /\ <<p, x>> \notin Out
      BY <2>1, Zenon DEF Indexed
    <3>2. x # pc => (<<p, x>> \in Out \ (Physical \X {pc}) <=> <<p, x>> \in Out)
      OBVIOUS
    <3>3. CASE x = pc
      BY <1>2, <2>2, <3>3
    <3>4. CASE x # pc
      BY <1>2, <2>2, <2>3, <3>1, <3>2, <3>4, Zenon
    <3> QED
      BY <3>3, <3>4
  <2> QED
    BY <2>4, Zenon DEF Indexed
<1>11. RegionsCover(i)
  BY <1>2 DEF Sound, RegionsCover, Covering
<1>12. ExitsCover(i)
  <2>1. \A s \in Slots : users(i, s) \subseteq users(j, s)
    <3>1. \A s \in Slots : s # -1
      BY OwnershipAssumption
    <3> QED
      BY <1>1, <1>2, <3>1 DEF users
  <2> QED
    BY <1>2, <2>1 DEF Sound, ExitsCover
<1> QED
  BY <1>4, <1>5, <1>6, <1>7, <1>8, <1>9, <1>10, <1>11, <1>12 DEF Sound

(* What cache_remove does before it releases the slot.                     *)
LEMMA RemoveEffect ==
  ASSUME NEW j, NEW Unused, NEW Gone, NEW Prior, NEW Out, Sound(j, Unused, Gone, Prior, Out),
         NEW pc \in Pcs, j.cache[pc] # NoEntry
  PROVE  LET e == j.cache[pc]
             i == unindex_block([j EXCEPT !.cache[pc] = NoEntry], pc, e)
             k == [i EXCEPT !.owner_entries[j.slot_owner[e.idx]] = @ \ {pc}]
             n == [k EXCEPT !.refs[e.idx] = @ - 1]
         IN  /\ i \in JitStates /\ (e.idx = 0 => EntryGone(i, j, pc))
             /\ e.idx > 0 => /\ k \in JitStates /\ k.refs[e.idx] # 0
                             /\ n \in JitStates /\ EntryGone(n, j, pc)
<1> DEFINE e == j.cache[pc]
           on == block_physical_pages(j, pc, e)
           h == [j EXCEPT !.cache[pc] = NoEntry]
           i == unindex_block(h, pc, e)
           o == j.slot_owner[e.idx]
           k == [i EXCEPT !.owner_entries[o] = @ \ {pc}]
           n == [k EXCEPT !.refs[e.idx] = @ - 1]
<1>0. j \in JitStates
  BY DEF Sound
<1>1. /\ DOMAIN j = JitFields /\ j.cache \in [Pcs -> Entry] /\ j.refs \in [Slots -> Nat]
      /\ j.slot_owner \in [Slots -> Tickets \cup {0}]
      /\ j.owner_entries \in [Tickets -> SUBSET Pcs] /\ j.page_blocks \in [Physical -> SUBSET Pcs]
  BY <1>0, FieldType
<1>2. /\ e.idx \in Int /\ (e.idx > 0 => e.idx \in Slots) /\ ~(0 \in Slots)
      /\ e.idx \in Slots \cup {0} /\ (e.idx > 0 => e.idx # 0)
  BY <1>1, EntryType, OwnershipAssumption
<1>3. h \in JitStates
  BY <1>0, <1>1 DEF JitStates, Entry
<1>4. /\ Same(h, j, {"cache"}) /\ DOMAIN h = JitFields
      /\ h.cache = [j.cache EXCEPT ![pc] = NoEntry]
  BY <1>1 DEF Same, JitFields
<1>5. block_physical_pages(h, pc, e) = on
  <2>1. h.regions = j.regions
    BY <1>4 DEF Same, JitFields
  <2> HIDE DEF h, e
  <2> QED
    BY <2>1, SamePages
<1>6. i = [h EXCEPT !.page_blocks = [p \in Physical |-> IF p \in on THEN @[p] \ {pc} ELSE @[p]]]
  BY <1>5 DEF unindex_block
<1>7. h.page_blocks = j.page_blocks
  BY <1>4 DEF Same, JitFields
<1> HIDE DEF h, on
<1> DEFINE blocks == [p \in Physical |-> IF p \in on THEN j.page_blocks[p] \ {pc} ELSE j.page_blocks[p]]
<1>8. i = [h EXCEPT !.page_blocks = blocks]
  <2>1. [p \in Physical |-> IF p \in on THEN h.page_blocks[p] \ {pc} ELSE h.page_blocks[p]] = blocks
    BY <1>7
  <2> QED
    BY <1>4, <1>6, <2>1 DEF JitFields
<1>9. blocks \in [Physical -> SUBSET Pcs]
  BY <1>1
<1>10. \A p \in Physical, x \in Pcs : x \in blocks[p] <=> x \in j.page_blocks[p] /\ x # pc
  <2>1. Indexed(j, Out)
    BY DEF Sound
  <2>2. \A p \in Physical : pc \in j.page_blocks[p] => p \in on
    BY <2>1 DEF Indexed, on
  <2> QED
    BY <2>2
<1> HIDE DEF i, blocks
<1>11. i \in JitStates
  BY <1>3, <1>8, <1>9 DEF JitStates
<1>12. /\ Same(i, h, {"page_blocks"}) /\ i.page_blocks = blocks /\ DOMAIN i = JitFields
  BY <1>4, <1>8 DEF Same, JitFields
<1>13. /\ Same(i, j, {"cache", "page_blocks"}) /\ i.cache = [j.cache EXCEPT ![pc] = NoEntry]
  BY <1>4, <1>12 DEF Same, JitFields
<1>14. \A x \in Pcs : i.cache[x] = IF x = pc THEN NoEntry ELSE j.cache[x]
  BY <1>1, <1>13
<1>15. EntriesListed(j, Gone) /\ CountsRefs(j) /\ EntriesOwned(j)
  BY DEF Sound
<1>16. \A x \in Tickets : pc \in j.owner_entries[x] => e.idx > 0 /\ x = o
  BY <1>15 DEF EntriesListed
<1>17. /\ i.owner_entries = j.owner_entries /\ i.refs = j.refs
  BY <1>13 DEF Same, JitFields
<1>18. e.idx = 0 => EntryGone(i, j, pc)
  <2> SUFFICES ASSUME e.idx = 0
               PROVE  EntryGone(i, j, pc)
    OBVIOUS
  <2>1. \A x \in Tickets, y \in Pcs : y \in i.owner_entries[x] <=> y \in j.owner_entries[x] /\ y # pc
    BY <1>2, <1>16, <1>17
  <2>2. \A s \in Slots : i.refs[s] = IF s = e.idx THEN j.refs[s] - 1 ELSE j.refs[s]
    BY <1>2, <1>17
  <2>3. Same(i, j, {"cache", "page_blocks", "owner_entries", "refs"})
    BY <1>13 DEF Same
  <2> QED
    BY <1>10, <1>12, <1>14, <2>1, <2>2, <2>3 DEF EntryGone
<1>19. ASSUME e.idx > 0
       PROVE  /\ k \in JitStates /\ k.refs[e.idx] # 0 /\ n \in JitStates /\ EntryGone(n, j, pc)
  <2>1. o \in Tickets /\ e.idx \in Slots
    BY <1>1, <1>2, <1>15, <1>19 DEF EntriesOwned
  <2>2. k \in JitStates
    <3> HIDE DEF o
    <3> QED
      BY <1>1, <1>11, <1>12, <1>17, <2>1 DEF JitStates
  <2>3. /\ Same(k, i, {"owner_entries"}) /\ DOMAIN k = JitFields
        /\ k.owner_entries = [j.owner_entries EXCEPT ![o] = @ \ {pc}]
    BY <1>12, <1>17 DEF Same, JitFields
  <2> HIDE DEF k
  <2>4. k.refs = j.refs
    BY <1>17, <2>3 DEF Same, JitFields
  <2>5. j.refs[e.idx] \in Nat \ {0}
    <3>1. pc \in users(j, e.idx)
      BY DEF users
    <3>2. j.refs[e.idx] = Cardinality(users(j, e.idx))
      BY <1>15, <2>1 DEF CountsRefs
    <3> HIDE DEF e
    <3> QED
      BY <3>1, <3>2, NoUsers, Finite
  <2>6. n \in JitStates
    <3> DEFINE c == k.refs[e.idx] - 1
           v == [k.refs EXCEPT ![e.idx] = c]
    <3>1. c \in Nat /\ n = [k EXCEPT !.refs = v]
      BY <2>4, <2>5
    <3>2. k.refs \in [Slots -> Nat]
      BY <2>2, FieldType
    <3> HIDE DEF e, c, n
    <3>3. v \in [Slots -> Nat]
      BY <2>1, <3>1, <3>2
    <3> HIDE DEF v
    <3> QED
      BY <2>2, <3>1, <3>3 DEF JitStates
  <2>7. /\ Same(n, k, {"refs"}) /\ n.refs = [j.refs EXCEPT ![e.idx] = @ - 1]
    BY <2>3, <2>4 DEF Same, JitFields
  <2> HIDE DEF n
  <2>8. \A s \in Slots : n.refs[s] = IF s = e.idx THEN j.refs[s] - 1 ELSE j.refs[s]
    BY <1>1, <2>7
  <2>9. n.owner_entries = [j.owner_entries EXCEPT ![o] = @ \ {pc}]
    BY <2>3, <2>7 DEF Same, JitFields
  <2>10. \A x \in Tickets, y \in Pcs : y \in n.owner_entries[x] <=> y \in j.owner_entries[x] /\ y # pc
    BY <1>1, <1>16, <2>1, <2>9
  <2>11. n.cache = i.cache /\ n.page_blocks = blocks
    BY <1>12, <2>3, <2>7 DEF Same, JitFields
  <2>12. Same(n, j, {"cache", "page_blocks", "owner_entries", "refs"})
    BY <1>13, <2>3, <2>7 DEF Same
  <2>13. EntryGone(n, j, pc)
    BY <1>10, <1>14, <2>8, <2>10, <2>11, <2>12 DEF EntryGone
  <2> QED
    BY <2>2, <2>4, <2>5, <2>6, <2>13
<1> QED
  BY <1>11, <1>18, <1>19, Zenon DEF i, h

(* What a dropped entry leaves: the others, and the slots but perhaps its  *)
(* own.                                                                    *)
Without(i, j, pcs) ==
  /\ \A x \in Pcs : i.cache[x] = IF x \in pcs THEN NoEntry ELSE j.cache[x]
  /\ Follows(i, j)

(* cache_remove keeps a state sound and takes the one entry off.         *)
LEMMA RemoveSound ==
  ASSUME NEW j, NEW Unused, NEW Gone, NEW Prior, NEW Out, Sound(j, Unused, Gone, Prior, Out),
         NEW pc \in Pcs
  PROVE  LET r == cache_remove(j, pc) IN
         /\ Sound(r, Unused, Gone, Prior, Out \ (Physical \X {pc}))
         /\ Keeps(r, j) /\ r.lines = j.lines
         /\ \A x \in Pcs : r.cache[x] = IF x = pc THEN NoEntry ELSE j.cache[x]
<1> DEFINE e == j.cache[pc]
           i == unindex_block([j EXCEPT !.cache[pc] = NoEntry], pc, e)
           k == [i EXCEPT !.owner_entries[j.slot_owner[e.idx]] = @ \ {pc}]
           n == [k EXCEPT !.refs[e.idx] = @ - 1]
           r == cache_remove(j, pc)
           NoOut == Out \ (Physical \X {pc})
<1>1. /\ e \in Entry /\ e.idx \in Int /\ (e # NoEntry => e.idx = 0 \/ e.idx > 0)
      /\ e.idx > 0 => e.idx \in Slots
  <2>1. j.cache \in [Pcs -> Entry]
    BY FieldType DEF Sound
  <2>2. e \in Entry
    BY <2>1
  <2> HIDE DEF e
  <2>3. \A s \in Slots : s > 0
    BY OwnershipAssumption
  <2> QED
    BY <2>2, <2>3, EntryType
<1>2. CASE e = NoEntry
  <2>1. r = j
    BY <1>2 DEF cache_remove
  <2>2. Indexed(j, NoOut)
    <3>1. Indexed(j, Out)
      BY DEF Sound
    <3>2. ASSUME NEW p \in Physical, NEW x \in Pcs
          PROVE  x \in j.page_blocks[p] <=> /\ j.cache[x] # NoEntry
                                            /\ p \in block_physical_pages(j, x, j.cache[x])
                                            /\ <<p, x>> \notin NoOut
      <4>1. x \in j.page_blocks[p] <=> /\ j.cache[x] # NoEntry
                                       /\ p \in block_physical_pages(j, x, j.cache[x])
                                       /\ <<p, x>> \notin Out
        BY <3>1, Zenon DEF Indexed
      <4>2. x # pc => (<<p, x>> \in NoOut <=> <<p, x>> \in Out)
        OBVIOUS
      <4>3. x = pc => j.cache[x] = NoEntry
        BY <1>2
      <4> QED
        BY <4>1, <4>2, <4>3, Zenon
    <3> QED
      BY <3>2, Zenon DEF Indexed
  <2>3. Sound(j, Unused, Gone, Prior, NoOut)
    BY <2>2 DEF Sound
  <2>4. Keeps(j, j)
    BY DEF Keeps, Weaker, Same
  <2>5. \A x \in Pcs : j.cache[x] = IF x = pc THEN NoEntry ELSE j.cache[x]
    BY <1>2
  <2> QED
    BY <2>1, <2>3, <2>4, <2>5
<1>3. CASE e # NoEntry /\ e.idx = 0
  <2>1. i \in JitStates /\ EntryGone(i, j, pc)
    BY <1>3, RemoveEffect, Zenon
  <2>2. r = i
    BY <1>3 DEF cache_remove
  <2> HIDE DEF i, r
  <2>3. Sound(i, Unused \cup {e.idx}, Gone, Prior, NoOut)
    BY <1>3, <2>1, EntryGoneSound
  <2>4. Sound(i, Unused, Gone, Prior, NoOut)
    <3>1. Slots \ (Unused \cup {e.idx}) = Slots \ Unused
      BY <1>3, OwnershipAssumption
    <3> QED
      BY <2>3, <3>1 DEF Sound, SlotsUsed
  <2>5. Keeps(i, j) /\ i.lines = j.lines
    BY <2>1 DEF EntryGone, Keeps, Weaker, Same, JitFields
  <2>6. \A x \in Pcs : i.cache[x] = IF x = pc THEN NoEntry ELSE j.cache[x]
    BY <2>1 DEF EntryGone
  <2> QED
    BY <2>2, <2>4, <2>5, <2>6 DEF r
<1>4. CASE e # NoEntry /\ e.idx > 0
  <2>1. k \in JitStates /\ k.refs[e.idx] # 0 /\ n \in JitStates /\ EntryGone(n, j, pc)
    BY <1>4, RemoveEffect, Zenon
  <2>2. r = release_slot(k, e.idx)
    <3>1. e.idx # 0
      BY <1>1, <1>4
    <3> QED
      BY <1>4, <3>1, Zenon DEF cache_remove
  <2> HIDE DEF k, r
  <2>3. Sound(n, Unused \cup {e.idx}, Gone, Prior, NoOut)
    <3> HIDE DEF n
    <3> QED
      BY <1>4, <2>1, EntryGoneSound
  <2>4. Sound(r, Unused, Gone, Prior, NoOut) /\ Quiet(r, n)
    <3> HIDE DEF e, NoOut
    <3> QED
      BY <1>1, <1>4, <2>1, <2>2, <2>3, ReleaseSound
  <2> HIDE DEF n
  <2>5. Keeps(n, j) /\ n.lines = j.lines
    BY <2>1 DEF EntryGone, Keeps, Weaker, Same, JitFields
  <2>6. Keeps(r, j) /\ r.lines = j.lines /\ r.cache = n.cache
    BY <2>4, <2>5, KeepsOn DEF Quiet, Follows
  <2>7. \A x \in Pcs : n.cache[x] = IF x = pc THEN NoEntry ELSE j.cache[x]
    BY <2>1 DEF EntryGone
  <2> QED
    BY <2>4, <2>6, <2>7 DEF r
<1> QED
  BY <1>1, <1>2, <1>3, <1>4

(* A line that is cleared is the only one its pc can have.                 *)
LEMMA ClearEffect ==
  ASSUME NEW j \in JitStates, NEW pc \in Pcs
  PROVE  LET r == clear_line(j, pc) IN
         /\ r \in JitStates /\ Same(r, j, {"lines"})
         /\ \A n \in Lines : r.lines[n] = IF n = Dslot[pc] /\ j.lines[n].pc = pc THEN NoLine ELSE j.lines[n]
<1>1. DOMAIN j = JitFields /\ j.lines \in [Lines -> Line] /\ Dslot[pc] \in Lines
  BY FieldType DEF Lines
<1>2. CASE j.lines[Dslot[pc]].pc = pc
  <2> DEFINE r == [j EXCEPT !.lines[Dslot[pc]] = NoLine]
  <2>1. clear_line(j, pc) = r
    BY <1>2 DEF clear_line
  <2>2. NoLine \in Line
    BY DEF Line
  <2>3. r \in JitStates
    BY <1>1, <2>2 DEF JitStates
  <2>4. Same(r, j, {"lines"}) /\ r.lines = [j.lines EXCEPT ![Dslot[pc]] = NoLine]
    BY <1>1 DEF Same, JitFields
  <2> HIDE DEF r
  <2> QED
    BY <1>1, <1>2, <2>1, <2>3, <2>4
<1>3. CASE j.lines[Dslot[pc]].pc # pc
  BY <1>3 DEF clear_line, Same
<1> QED
  BY <1>2, <1>3

(* Fields that soundness is not about, and modules with the same owners.   *)
LEMMA SoundFields ==
  ASSUME NEW j, NEW Unused, NEW Gone, NEW Prior, NEW Out, Sound(j, Unused, Gone, Prior, Out),
         NEW i \in JitStates,
         Same(i, j, {"lines", "modules", "superblocked", "claims", "stage", "coverage", "fill"}),
         \A k \in Keys : active_owner(i.modules[k]) = active_owner(j.modules[k])
  PROVE  Sound(i, Unused, Gone, Prior, Out)
<1>1. /\ i.cache = j.cache /\ i.refs = j.refs /\ i.slot_owner = j.slot_owner /\ i.live = j.live
      /\ i.owner_entries = j.owner_entries /\ i.cold = j.cold /\ i.module_owner = j.module_owner
      /\ i.regions = j.regions /\ i.exits = j.exits
      /\ i.ext_queue = j.ext_queue /\ i.page_blocks = j.page_blocks
  BY DEF Same, JitFields
<1>2. CountsRefs(i) /\ EntriesOwned(i) /\ SlotsUsed(i, Unused) /\ LiveOwned(i) /\ IdleClean(i)
  BY <1>1 DEF Sound, CountsRefs, EntriesOwned, SlotsUsed, LiveOwned, IdleClean, users
<1>3. EntriesListed(i, Gone) /\ ColdOwners(i)
  BY <1>1 DEF Sound, EntriesListed, ColdOwners, owns
<1>4. ModulesOwned(i, Prior)
  <2>1. \A o \in Tickets : i.module_owner[o] # <<>> => i.module_owner[o] \in Keys
    BY FieldType
  <2>2. ModulesOwned(j, Prior)
    BY DEF Sound
  <2> QED
    BY <1>1, <2>1, <2>2 DEF ModulesOwned, owns
<1>5. Indexed(i, Out)
  <2>1. \A x \in Pcs : block_physical_pages(i, x, i.cache[x]) = block_physical_pages(j, x, j.cache[x])
    BY <1>1, SamePages
  <2>2. Indexed(j, Out)
    BY DEF Sound
  <2> QED
    BY <1>1, <2>1, <2>2, Zenon DEF Indexed
<1>6. RegionsCover(i) /\ ExitsCover(i)
  BY <1>1 DEF Sound, RegionsCover, Covering, ExitsCover, users
<1> QED
  BY <1>2, <1>3, <1>4, <1>5, <1>6 DEF Sound

(* States that differ in their lines only are as sound as each other.      *)
LEMMA LinesApart ==
  ASSUME NEW i \in JitStates, NEW j, Same(i, j, {"lines"}),
         NEW Unused, NEW Gone, NEW Prior, NEW Out, Sound(j, Unused, Gone, Prior, Out)
  PROVE  Sound(i, Unused, Gone, Prior, Out) /\ Keeps(i, j) /\ i.cache = j.cache
<1>1. i.cache = j.cache /\ i.modules = j.modules /\ i.slot_owner = j.slot_owner
  BY DEF Same, JitFields
<1>2. Keeps(i, j)
  BY <1>1 DEF Keeps, Weaker, Same, JitFields
<1>3. Same(i, j, {"lines", "modules", "superblocked", "claims", "stage", "coverage", "fill"})
  BY DEF Same
<1>4. Sound(i, Unused, Gone, Prior, Out)
  BY <1>1, <1>3, SoundFields
<1> QED
  BY <1>1, <1>2, <1>4

(* An entry and its line are dropped, the others stay.                     *)
LEMMA DropSound ==
  ASSUME NEW j, NEW Unused, NEW Gone, NEW Prior, NEW Out, Sound(j, Unused, Gone, Prior, Out),
         NEW pc \in Pcs
  PROVE  /\ Sound(drop(j, pc), Unused, Gone, Prior, Out \ (Physical \X {pc}))
         /\ Without(drop(j, pc), j, {pc})
<1> DEFINE r == cache_remove(j, pc)  d == clear_line(r, pc)
<1>1. /\ Sound(r, Unused, Gone, Prior, Out \ (Physical \X {pc}))
      /\ Keeps(r, j) /\ r.lines = j.lines
      /\ \A x \in Pcs : r.cache[x] = IF x = pc THEN NoEntry ELSE j.cache[x]
  BY RemoveSound
<1> HIDE DEF r
<1>2. /\ d \in JitStates /\ Same(d, r, {"lines"})
      /\ \A n \in Lines : d.lines[n] = IF n = Dslot[pc] /\ r.lines[n].pc = pc THEN NoLine ELSE r.lines[n]
  BY <1>1, ClearEffect DEF Sound
<1> HIDE DEF d
<1>3. Sound(d, Unused, Gone, Prior, Out \ (Physical \X {pc})) /\ Keeps(d, r) /\ d.cache = r.cache
  BY <1>1, <1>2, LinesApart
<1>4. Keeps(d, j)
  BY <1>1, <1>3, KeepsOn
<1>5. ASSUME NEW space, LinesAgree(j, space)
      PROVE  LinesAgree(d, space)
  <2> SUFFICES ASSUME NEW n \in Lines, d.lines[n].pc # 0
               PROVE  /\ Dslot[d.lines[n].pc] = n /\ d.cache[d.lines[n].pc] # NoEntry
                      /\ d.cache[d.lines[n].pc].idx = d.lines[n].idx
                      /\ d.lines[n].fresh => Maps(space, d.cache[d.lines[n].pc].src)
    BY Zenon DEF LinesAgree
  <2>1. d.lines[n] = j.lines[n] /\ (n = Dslot[pc] => j.lines[n].pc # pc)
    BY <1>1, <1>2 DEF NoLine
  <2>2. /\ Dslot[j.lines[n].pc] = n /\ j.cache[j.lines[n].pc] # NoEntry
        /\ j.cache[j.lines[n].pc].idx = j.lines[n].idx
        /\ j.lines[n].fresh => Maps(space, j.cache[j.lines[n].pc].src)
    BY <1>5, <2>1 DEF LinesAgree
  <2>3. j.lines[n].pc \in Pcs /\ j.lines[n].pc # pc
    <3>1. j.lines \in [Lines -> Line]
      BY FieldType DEF Sound
    <3>2. j.lines[n] \in Line
      BY <3>1
    <3>3. j.lines[n].pc \in Pcs
      BY <2>1, <3>2 DEF Line, NoLine
    <3> QED
      BY <2>1, <2>2, <3>3
  <2>4. d.cache[j.lines[n].pc] = j.cache[j.lines[n].pc]
    BY <1>1, <1>3, <2>3
  <2> QED
    BY <2>1, <2>2, <2>4
<1>6. \A x \in Pcs : d.cache[x] = IF x \in {pc} THEN NoEntry ELSE j.cache[x]
  BY <1>1, <1>3
<1>7. drop(j, pc) = d
  BY DEF drop, d, r
<1> QED
  BY <1>3, <1>4, <1>5, <1>6, <1>7 DEF Without, Follows

-----------------------------------------------------------------------------
(* Sets of entries are dropped, and owners are retired.                    *)

(* What the drops of entries keep, one after the other.                    *)
LEMMA DropAllFold ==
  ASSUME NEW D, IsFiniteSet(D), NEW base \in JitStates,
         NEW R, <<{}, base>> \in R,
         \A s \in SUBSET D : \A x \in s : \A v \in JitStates :
           <<s \ {x}, v>> \in R => drop(v, x) \in JitStates /\ <<s, drop(v, x)>> \in R
  PROVE  <<D, drop_all(base, D)>> \in R
<1> DEFINE V == JitStates
           pick == [s \in SUBSET D |-> CHOOSE x \in s : TRUE]
           H == [p \in D \X V |-> IF drop(p[2], p[1]) \in V THEN drop(p[2], p[1]) ELSE base]
           body(it) == [s \in SUBSET D |->
                          IF s = {} THEN base
                          ELSE drop(it[s \ {CHOOSE x \in s : TRUE}], CHOOSE x \in s : TRUE)]
           it == CHOOSE i : i = body(i)
<1>1. drop_all(base, D) = it[D]
  BY Zenon DEF drop_all, FoldSet, MapThenFoldSet
<1>2. H \in [D \X V -> V]
  OBVIOUS
<1>3. \A s \in SUBSET D : s # {} => pick[s] \in s /\ pick[s] = CHOOSE x \in s : TRUE
  OBVIOUS
<1>4. ASSUME NEW s \in SUBSET D, NEW x \in s, NEW v \in V, <<s \ {x}, v>> \in R
      PROVE  H[<<x, v>>] = drop(v, x) /\ <<s, drop(v, x)>> \in R
  <2>1. drop(v, x) \in V /\ <<s, drop(v, x)>> \in R /\ <<x, v>> \in D \X V
    BY <1>4
  <2> QED
    BY <2>1
<1> HIDE DEF H, pick, V
<1>5. PICK i \in [SUBSET D -> V] : Folded(i, D, V, base, H, pick, R)
  <2>1. base \in V
    BY DEF V
  <2>2. \A s \in SUBSET D : \A x \in s : \A v \in V :
          <<s \ {x}, v>> \in R => <<s, H[<<x, v>>]>> \in R
    BY <1>4, Zenon
  <2>3. \A s \in SUBSET D : s # {} => pick[s] \in s
    BY <1>3
  <2> QED
    BY <1>2, <2>1, <2>2, <2>3, FoldSolved, Zenon
<1>6. i = body(i)
  <2>1. ASSUME NEW s \in SUBSET D, s # {}
        PROVE  i[s] = drop(i[s \ {pick[s]}], pick[s])
    BY <1>4, <1>5, <2>1 DEF Folded
  <2>2. \A s \in SUBSET D : i[s] = body(i)[s]
    BY <1>3, <1>5, <2>1 DEF Folded
  <2> QED
    BY <1>5, <2>2
<1>7. it = body(it)
  <2> HIDE DEF body
  <2>1. \E k : k = body(k)
    BY <1>6
  <2> QED
    BY <2>1, Zenon
<1> HIDE DEF it
<1>8. it[{}] = base /\ \A s \in SUBSET D : s # {} => it[s] = drop(it[s \ {pick[s]}], pick[s])
  BY <1>3, <1>7
<1> DEFINE Rt == R \cap ((SUBSET D) \X V)
<1>9. <<{}, it[{}]>> \in Rt
  BY <1>8 DEF V
<1>10. ASSUME NEW s \in SUBSET D, s # {}
       PROVE  \E c \in s : <<s \ {c}, it[s \ {c}]>> \in Rt => <<s, it[s]>> \in Rt
  <2>1. pick[s] \in s
    BY <1>3, <1>10
  <2> SUFFICES ASSUME <<s \ {pick[s]}, it[s \ {pick[s]}]>> \in Rt
               PROVE  <<s, it[s]>> \in Rt
    BY <2>1
  <2>2. it[s] = drop(it[s \ {pick[s]}], pick[s])
    BY <1>8, <1>10
  <2> DEFINE c == pick[s]  v == it[s \ {pick[s]}]
  <2>3. c \in s /\ v \in JitStates /\ <<s \ {c}, v>> \in R /\ it[s] = drop(v, c)
    BY <2>1, <2>2 DEF V
  <2> HIDE DEF c, v
  <2>4. it[s] \in V /\ <<s, it[s]>> \in R
    BY <2>3 DEF V
  <2> QED
    BY <2>4
<1> HIDE DEF body, Rt
<1>11. <<D, it[D]>> \in Rt
  BY <1>9, <1>10, FoldHolds
<1> QED
  BY <1>1, <1>11 DEF Rt

(* The step of retire_unreferenced.                                        *)
retire_idle(i, idx) == IF i.refs[idx] = 0 THEN retire_owned_slot(i, idx) ELSE i

(* What the retirements of slots keep, one after the other.                *)
LEMMA RetireAllFold ==
  ASSUME NEW D, IsFiniteSet(D), NEW base \in JitStates,
         NEW R, <<{}, base>> \in R,
         \A s \in SUBSET D : \A x \in s : \A v \in JitStates :
           <<s \ {x}, v>> \in R => retire_idle(v, x) \in JitStates /\ <<s, retire_idle(v, x)>> \in R
  PROVE  <<D, retire_unreferenced(base, D)>> \in R
<1> DEFINE V == JitStates
           pick == [s \in SUBSET D |-> CHOOSE x \in s : TRUE]
           H == [p \in D \X V |-> IF retire_idle(p[2], p[1]) \in V THEN retire_idle(p[2], p[1]) ELSE base]
           body(it) == [s \in SUBSET D |->
                          IF s = {} THEN base
                          ELSE retire_idle(it[s \ {CHOOSE x \in s : TRUE}], CHOOSE x \in s : TRUE)]
           it == CHOOSE i : i = body(i)
<1>1. retire_unreferenced(base, D) = it[D]
  BY Zenon DEF retire_unreferenced, retire_idle, FoldSet, MapThenFoldSet
<1>2. H \in [D \X V -> V]
  OBVIOUS
<1>3. \A s \in SUBSET D : s # {} => pick[s] \in s /\ pick[s] = CHOOSE x \in s : TRUE
  OBVIOUS
<1>4. ASSUME NEW s \in SUBSET D, NEW x \in s, NEW v \in V, <<s \ {x}, v>> \in R
      PROVE  H[<<x, v>>] = retire_idle(v, x) /\ <<s, retire_idle(v, x)>> \in R
  <2>1. retire_idle(v, x) \in V /\ <<s, retire_idle(v, x)>> \in R /\ <<x, v>> \in D \X V
    BY <1>4
  <2> QED
    BY <2>1
<1> HIDE DEF H, pick, V
<1>5. PICK i \in [SUBSET D -> V] : Folded(i, D, V, base, H, pick, R)
  <2>1. base \in V
    BY DEF V
  <2>2. \A s \in SUBSET D : \A x \in s : \A v \in V :
          <<s \ {x}, v>> \in R => <<s, H[<<x, v>>]>> \in R
    BY <1>4, Zenon
  <2>3. \A s \in SUBSET D : s # {} => pick[s] \in s
    BY <1>3
  <2> QED
    BY <1>2, <2>1, <2>2, <2>3, FoldSolved, Zenon
<1>6. i = body(i)
  <2>1. ASSUME NEW s \in SUBSET D, s # {}
        PROVE  i[s] = retire_idle(i[s \ {pick[s]}], pick[s])
    BY <1>4, <1>5, <2>1 DEF Folded
  <2>2. \A s \in SUBSET D : i[s] = body(i)[s]
    BY <1>3, <1>5, <2>1 DEF Folded
  <2> QED
    BY <1>5, <2>2
<1>7. it = body(it)
  <2> HIDE DEF body
  <2>1. \E k : k = body(k)
    BY <1>6
  <2> QED
    BY <2>1, Zenon
<1> HIDE DEF it
<1>8. it[{}] = base /\ \A s \in SUBSET D : s # {} => it[s] = retire_idle(it[s \ {pick[s]}], pick[s])
  BY <1>3, <1>7
<1> DEFINE Rt == R \cap ((SUBSET D) \X V)
<1>9. <<{}, it[{}]>> \in Rt
  BY <1>8 DEF V
<1>10. ASSUME NEW s \in SUBSET D, s # {}
       PROVE  \E c \in s : <<s \ {c}, it[s \ {c}]>> \in Rt => <<s, it[s]>> \in Rt
  <2>1. pick[s] \in s
    BY <1>3, <1>10
  <2> SUFFICES ASSUME <<s \ {pick[s]}, it[s \ {pick[s]}]>> \in Rt
               PROVE  <<s, it[s]>> \in Rt
    BY <2>1
  <2>2. it[s] = retire_idle(it[s \ {pick[s]}], pick[s])
    BY <1>8, <1>10
  <2> DEFINE c == pick[s]  v == it[s \ {pick[s]}]
  <2>3. c \in s /\ v \in JitStates /\ <<s \ {c}, v>> \in R /\ it[s] = retire_idle(v, c)
    BY <2>1, <2>2 DEF V
  <2> HIDE DEF c, v
  <2>4. it[s] \in V /\ <<s, it[s]>> \in R
    BY <2>3 DEF V
  <2> QED
    BY <2>4
<1> HIDE DEF body, Rt
<1>11. <<D, it[D]>> \in Rt
  BY <1>9, <1>10, FoldHolds
<1> QED
  BY <1>1, <1>11 DEF Rt

(* Entries and their lines are dropped, the others stay.                   *)
LEMMA DropAllSound ==
  ASSUME NEW j, NEW Unused, NEW Gone, NEW Prior, NEW Out, Sound(j, Unused, Gone, Prior, Out),
         NEW D \in SUBSET Pcs
  PROVE  /\ Sound(drop_all(j, D), Unused, Gone, Prior, Out \ (Physical \X D))
         /\ Without(drop_all(j, D), j, D)
<1> DEFINE Q(s, v) == Sound(v, Unused, Gone, Prior, Out \ (Physical \X s)) /\ Without(v, j, s)
           R == {p \in (SUBSET D) \X JitStates : Q(p[1], p[2])}
<1>1. IsFiniteSet(D) /\ j \in JitStates
  BY Finite, FS_Subset DEF Sound
<1>2. Q({}, j)
  <2>1. Out \ (Physical \X {}) = Out
    OBVIOUS
  <2>2. Without(j, j, {})
    BY DEF Without, Follows, Keeps, Weaker, Same
  <2> QED
    BY <2>1, <2>2
<1>3. ASSUME NEW s \in SUBSET D, NEW x \in s, NEW v \in JitStates, Q(s \ {x}, v)
      PROVE  drop(v, x) \in JitStates /\ Q(s, drop(v, x))
  <2> DEFINE O == Out \ (Physical \X (s \ {x}))  d == drop(v, x)
  <2>1. Sound(v, Unused, Gone, Prior, O) /\ Without(v, j, s \ {x}) /\ x \in Pcs
    BY <1>3
  <2>2. O \ (Physical \X {x}) = Out \ (Physical \X s)
    OBVIOUS
  <2> HIDE DEF O
  <2>3. Sound(d, Unused, Gone, Prior, O \ (Physical \X {x})) /\ Without(d, v, {x})
    BY <2>1, DropSound
  <2> HIDE DEF d
  <2>4. Without(d, j, s)
    <3>1. Follows(d, j)
      BY <2>1, <2>3, KeepsOn DEF Without
    <3>2. \A y \in Pcs : d.cache[y] = IF y \in s THEN NoEntry ELSE j.cache[y]
      BY <2>1, <2>3 DEF Without
    <3> QED
      BY <3>1, <3>2 DEF Without
  <2>5. Sound(d, Unused, Gone, Prior, Out \ (Physical \X s))
    BY <2>2, <2>3
  <2>6. d \in JitStates
    BY <2>3 DEF Sound
  <2> QED
    BY <2>4, <2>5, <2>6 DEF d
<1> HIDE DEF Q
<1>4. <<{}, j>> \in R
  BY <1>1, <1>2
<1>5. \A s \in SUBSET D : \A x \in s : \A v \in JitStates :
        <<s \ {x}, v>> \in R => drop(v, x) \in JitStates /\ <<s, drop(v, x)>> \in R
  <2> SUFFICES ASSUME NEW s \in SUBSET D, NEW x \in s, NEW v \in JitStates, <<s \ {x}, v>> \in R
               PROVE  drop(v, x) \in JitStates /\ <<s, drop(v, x)>> \in R
    BY Zenon
  <2>1. Q(s \ {x}, v)
    OBVIOUS
  <2>2. drop(v, x) \in JitStates /\ Q(s, drop(v, x))
    BY <1>3, <2>1
  <2> QED
    BY <2>2
<1> HIDE DEF R
<1>6. <<D, drop_all(j, D)>> \in R
  BY <1>1, <1>4, <1>5, DropAllFold
<1>7. Q(D, drop_all(j, D))
  BY <1>6 DEF R
<1> QED
  BY <1>7 DEF Q

(* The idle ones among a set of slots are retired; the entries stay.       *)
LEMMA RetireAllSound ==
  ASSUME NEW j, NEW Unused, NEW Gone, NEW Prior, NEW Out, Sound(j, Unused, Gone, Prior, Out),
         NEW D \in SUBSET Slots
  PROVE  LET r == retire_unreferenced(j, D) IN
         /\ Sound(r, Unused \ D, Gone, Prior, Out) /\ Quiet(r, j)
         /\ \A s \in Slots : r.slot_owner[s] = IF s \in D /\ users(j, s) = {} THEN 0
                                               ELSE j.slot_owner[s]
<1> DEFINE Q(s, v) == /\ Sound(v, Unused \ s, Gone, Prior, Out) /\ Quiet(v, j)
                      /\ \A n \in Slots : v.slot_owner[n] = IF n \in s /\ users(j, n) = {} THEN 0
                                                            ELSE j.slot_owner[n]
           R == {p \in (SUBSET D) \X JitStates : Q(p[1], p[2])}
<1>1. IsFiniteSet(D) /\ j \in JitStates
  BY Finite, FS_Subset DEF Sound
<1>2. Q({}, j)
  <2>1. Unused \ {} = Unused
    OBVIOUS
  <2>2. Quiet(j, j)
    BY DEF Quiet, Follows, Keeps, Weaker, Same
  <2> QED
    BY <2>1, <2>2
<1>3. ASSUME NEW s \in SUBSET D, NEW x \in s, NEW v \in JitStates, Q(s \ {x}, v)
      PROVE  retire_idle(v, x) \in JitStates /\ Q(s, retire_idle(v, x))
  <2> DEFINE U == Unused \ (s \ {x})  d == retire_idle(v, x)
  <2>1. Sound(v, U, Gone, Prior, Out) /\ Quiet(v, j) /\ x \in Slots
    BY <1>3
  <2>2. U \ {x} = Unused \ s
    OBVIOUS
  <2>3. \A n \in Slots : v.slot_owner[n] = IF n \in s \ {x} /\ users(j, n) = {} THEN 0
                                           ELSE j.slot_owner[n]
    BY <1>3
  <2> HIDE DEF U
  <2>4. \A n : users(v, n) = users(j, n)
    BY <2>1 DEF Quiet, users
  <2>5. v.refs[x] = 0 <=> users(v, x) = {}
    BY <2>1, NoUsers DEF Sound, CountsRefs
  <2>6. CASE users(v, x) = {}
    <3>1. d = retire_owned_slot(v, x)
      BY <2>5, <2>6 DEF retire_idle
    <3> HIDE DEF d
    <3>2. /\ Sound(d, U \ {x}, Gone, Prior, Out) /\ Quiet(d, v)
          /\ \A n \in Slots : d.slot_owner[n] = IF n = x THEN 0 ELSE v.slot_owner[n]
      BY <2>1, <2>6, <3>1, RetireSound
    <3>3. Quiet(d, j)
      BY <2>1, <3>2, KeepsOn DEF Quiet
    <3>4. \A n \in Slots : d.slot_owner[n] = IF n \in s /\ users(j, n) = {} THEN 0 ELSE j.slot_owner[n]
      BY <2>3, <2>4, <2>6, <3>2
    <3> QED
      BY <2>2, <3>2, <3>3, <3>4 DEF Sound, d
  <2>7. CASE users(v, x) # {}
    <3>1. d = v
      BY <2>5, <2>7 DEF retire_idle
    <3>2. Sound(v, U \ {x}, Gone, Prior, Out)
      BY <2>1, <2>7 DEF Sound, SlotsUsed
    <3>4. \A n \in Slots : d.slot_owner[n] = IF n \in s /\ users(j, n) = {} THEN 0 ELSE j.slot_owner[n]
      BY <2>3, <2>4, <2>7, <3>1
    <3> QED
      BY <2>1, <2>2, <3>1, <3>2, <3>4
  <2> QED
    BY <2>6, <2>7
<1> HIDE DEF Q
<1>4. <<{}, j>> \in R
  BY <1>1, <1>2
<1>5. \A s \in SUBSET D : \A x \in s : \A v \in JitStates :
        <<s \ {x}, v>> \in R => retire_idle(v, x) \in JitStates /\ <<s, retire_idle(v, x)>> \in R
  <2> SUFFICES ASSUME NEW s \in SUBSET D, NEW x \in s, NEW v \in JitStates, <<s \ {x}, v>> \in R
               PROVE  retire_idle(v, x) \in JitStates /\ <<s, retire_idle(v, x)>> \in R
    BY Zenon
  <2>1. Q(s \ {x}, v)
    OBVIOUS
  <2>2. retire_idle(v, x) \in JitStates /\ Q(s, retire_idle(v, x))
    BY <1>3, <2>1
  <2> QED
    BY <2>2
<1> HIDE DEF R
<1>6. <<D, retire_unreferenced(j, D)>> \in R
  BY <1>1, <1>4, <1>5, RetireAllFold
<1>7. Q(D, retire_unreferenced(j, D))
  BY <1>6 DEF R
<1> QED
  BY <1>7 DEF Q

(* An owner goes with its entries and its slots: what is left has no slot  *)
(* of it, and so no module either.                                         *)
LEMMA RetireOwnerSound ==
  ASSUME NEW j, NEW Unused, NEW Prior, Sound(j, Unused, {}, Prior, {}), NEW o \in Tickets
  PROVE  LET r == retire_owner(j, o) IN
         /\ Sound(r, Unused, {}, IF Prior = o THEN 0 ELSE Prior, {})
         /\ Without(r, j, j.owner_entries[o])
         /\ \A s \in Slots : r.slot_owner[s] # o
<1> DEFINE D == j.owner_entries[o]
           S == owner_slots(j, o)
           h == [j EXCEPT !.owner_entries[o] = {}]
           gone == drop_all(h, D)
           i == retire_unreferenced(gone, S)
           After == IF Prior = o THEN 0 ELSE Prior
<1>1. /\ j \in JitStates /\ o # 0 /\ D \in SUBSET Pcs /\ S \in SUBSET Slots
      /\ \A pc \in Pcs : j.cache[pc].idx > 0 => j.cache[pc].idx \in Slots
      /\ j.owner_entries \in [Tickets -> SUBSET Pcs] /\ DOMAIN j = JitFields
      /\ j.slot_owner \in [Slots -> Tickets \cup {0}]
  <2>1. j \in JitStates
    BY DEF Sound
  <2>2. /\ j.cache \in [Pcs -> Entry] /\ j.owner_entries \in [Tickets -> SUBSET Pcs]
        /\ DOMAIN j = JitFields /\ j.slot_owner \in [Slots -> Tickets \cup {0}]
    BY <2>1, FieldType
  <2>3. \A pc \in Pcs : j.cache[pc].idx > 0 => j.cache[pc].idx \in Slots
    BY <2>2, EntryType
  <2> QED
    BY <2>1, <2>2, <2>3, TicketType DEF owner_slots
<1>2. EntriesListed(j, {})
  BY DEF Sound
<1>3. /\ Sound(h, Unused, {o}, Prior, {}) /\ Follows(h, j) /\ h.cache = j.cache
      /\ h.slot_owner = j.slot_owner
  <2>1. h \in JitStates
    BY <1>1 DEF JitStates
  <2>2. Same(h, j, {"owner_entries"}) /\ h.owner_entries = [j.owner_entries EXCEPT ![o] = {}]
    BY <1>1 DEF Same, JitFields
  <2> HIDE DEF h
  <2>3. /\ h.cache = j.cache /\ h.refs = j.refs /\ h.slot_owner = j.slot_owner /\ h.live = j.live
        /\ h.cold = j.cold /\ h.module_owner = j.module_owner
        /\ h.modules = j.modules /\ h.regions = j.regions /\ h.exits = j.exits
        /\ h.ext_queue = j.ext_queue /\ h.page_blocks = j.page_blocks /\ h.lines = j.lines
    BY <2>2 DEF Same, JitFields
  <2>4. CountsRefs(h) /\ EntriesOwned(h) /\ SlotsUsed(h, Unused) /\ LiveOwned(h) /\ IdleClean(h)
    BY <2>3 DEF Sound, CountsRefs, EntriesOwned, SlotsUsed, LiveOwned, IdleClean, users
  <2>5. ModulesOwned(h, Prior) /\ ColdOwners(h)
    BY <2>3 DEF Sound, ModulesOwned, ColdOwners, owns
  <2>6. EntriesListed(h, {o})
    <3>1. \A x \in Tickets : h.owner_entries[x] = IF x = o THEN {} ELSE j.owner_entries[x]
      BY <1>1, <2>2
    <3> QED
      BY <1>2, <2>3, <3>1 DEF EntriesListed
  <2>7. Indexed(h, {})
    <3>1. \A x \in Pcs : block_physical_pages(h, x, h.cache[x]) = block_physical_pages(j, x, j.cache[x])
      BY <2>3, SamePages
    <3>2. Indexed(j, {})
      BY DEF Sound
    <3> QED
      BY <2>3, <3>1, <3>2, Zenon DEF Indexed
  <2>8. RegionsCover(h) /\ ExitsCover(h)
    BY <2>3 DEF Sound, RegionsCover, Covering, ExitsCover, users
  <2>9. Follows(h, j)
    <3>1. Keeps(h, j)
      BY <2>2, <2>3 DEF Keeps, Weaker, Same
    <3>2. \A space \in Spaces : LinesAgree(j, space) => LinesAgree(h, space)
      BY <2>3 DEF LinesAgree
    <3> QED
      BY <3>1, <3>2 DEF Follows
  <2> QED
    BY <2>1, <2>3, <2>4, <2>5, <2>6, <2>7, <2>8, <2>9 DEF Sound
<1> HIDE DEF h
<1>4. Sound(gone, Unused, {o}, Prior, {}) /\ Without(gone, h, D)
  <2>1. {} \ (Physical \X D) = {}
    OBVIOUS
  <2> HIDE DEF D
  <2>2. Sound(gone, Unused, {o}, Prior, {} \ (Physical \X D)) /\ Without(gone, h, D)
    BY <1>1, <1>3, DropAllSound
  <2> QED
    BY <2>1, <2>2
<1> HIDE DEF gone
<1>5. /\ Sound(i, Unused \ S, {o}, Prior, {}) /\ Quiet(i, gone)
      /\ \A s \in Slots : i.slot_owner[s] = IF s \in S /\ users(gone, s) = {} THEN 0
                                            ELSE gone.slot_owner[s]
  <2> HIDE DEF S
  <2> QED
    BY <1>1, <1>4, RetireAllSound
<1> HIDE DEF i
<1>6. Without(i, j, D)
  <2>1. Follows(i, j)
    BY <1>3, <1>4, <1>5, KeepsOn DEF Without, Quiet
  <2>2. \A x \in Pcs : i.cache[x] = IF x \in D THEN NoEntry ELSE j.cache[x]
    BY <1>3, <1>4, <1>5 DEF Without, Quiet
  <2> QED
    BY <2>1, <2>2 DEF Without
<1>7. \A s \in Slots : i.slot_owner[s] # o
  <2> SUFFICES ASSUME NEW s \in Slots, i.slot_owner[s] = o
               PROVE  FALSE
    OBVIOUS
  <2>1. gone.slot_owner[s] = o /\ j.slot_owner[s] = o
    <3>1. gone.slot_owner[s] \in {j.slot_owner[s], 0}
      BY <1>3, <1>4 DEF Without, Follows, Keeps
    <3> QED
      BY <1>1, <1>5, <3>1
  <2>2. s \in S /\ users(gone, s) # {}
    BY <1>1, <1>5, <2>1 DEF owner_slots
  <2>3. PICK pc \in Pcs : gone.cache[pc].idx = s
    BY <2>2 DEF users
  <2>4. s > 0 /\ s # -1
    BY OwnershipAssumption
  <2>5. pc \notin D /\ j.cache[pc].idx = s
    BY <1>3, <1>4, <2>3, <2>4 DEF Without, NoEntry
  <2>6. pc \in D
    BY <1>2, <2>1, <2>4, <2>5 DEF EntriesListed
  <2> QED
    BY <2>5, <2>6
<1>8. ~owns(i, o)
  BY <1>7 DEF owns
<1>9. Sound(i, Unused, {}, After, {})
  <2>1. Sound(i, Unused, {o}, Prior, {})
    BY <1>5, MoreUnused
  <2>2. i \in JitStates /\ EntriesListed(i, {o}) /\ ModulesOwned(i, Prior)
    BY <2>1 DEF Sound
  <2>3. \A pc \in Pcs : i.cache[pc].idx > 0 => i.cache[pc].idx \in Slots
    <3>1. i.cache \in [Pcs -> Entry]
      BY <2>2, FieldType
    <3> QED
      BY <3>1, EntryType
  <2>4. EntriesListed(i, {})
    BY <1>7, <2>2, <2>3 DEF EntriesListed
  <2>5. ModulesOwned(i, After)
    BY <1>8, <2>2 DEF ModulesOwned
  <2> QED
    BY <2>1, <2>4, <2>5 DEF Sound
<1>10. retire_owner(j, o) = i
  <2>1. retire_owner(j, o) = IF S = {} THEN forget_owner(i, o) ELSE i
    BY Zenon DEF retire_owner, i, gone, h
  <2>2. CASE S # {}
    BY <2>1, <2>2
  <2>3. CASE S = {}
    <3> DEFINE f == forget_owner(i, o)
    <3>1. /\ i \in JitStates /\ ColdOwners(i) /\ EntriesListed(i, {}) /\ ModulesOwned(i, After)
          /\ Once(i.cold)
      BY <1>9 DEF Sound, ColdOwners
    <3>2. /\ Same(f, i, {"owner_entries", "cold", "module_owner", "modules"}) /\ f \in JitStates
          /\ Forgotten(f, i, o)
      BY <3>1, ForgetEffect
    <3>3. /\ i.owner_entries \in [Tickets -> SUBSET Pcs] /\ f.owner_entries \in [Tickets -> SUBSET Pcs]
          /\ i.module_owner \in [Tickets -> Keys \cup {<<>>}]
          /\ f.module_owner \in [Tickets -> Keys \cup {<<>>}]
          /\ i.modules \in [Keys -> Module] /\ f.modules \in [Keys -> Module]
          /\ i.cache \in [Pcs -> Entry]
      BY <3>1, <3>2, FieldType
    <3>4. ~Holds(i.cold, o) /\ i.module_owner[o] = <<>>
      BY <1>8, <3>1 DEF ColdOwners, ModulesOwned
    <3> HIDE DEF f
    <3>5. f.cold = i.cold
      BY <3>2, <3>4 DEF Forgotten, RemoveFirst, Holds
    <3>6. f.module_owner = i.module_owner
      BY <3>2, <3>3, <3>4 DEF Forgotten
    <3>7. f.modules = i.modules
      <4>1. \A k \in Keys : f.modules[k] = i.modules[k]
        BY <3>2, <3>4, TicketType DEF Forgotten
      <4> QED
        BY <3>3, <4>1
    <3>8. f.owner_entries = i.owner_entries
      <4>1. \A pc \in Pcs : i.cache[pc].idx > 0 => i.cache[pc].idx \in Slots
        BY <3>3, EntryType
      <4>2. i.owner_entries[o] = {}
        BY <1>7, <3>1, <3>3, <4>1 DEF EntriesListed
      <4> QED
        <5>1. \A x \in Tickets : f.owner_entries[x] = i.owner_entries[x]
          BY <3>2, <4>2, Zenon DEF Forgotten
        <5> DEFINE a == f.owner_entries  c == i.owner_entries
        <5>2. a \in [Tickets -> SUBSET Pcs] /\ c \in [Tickets -> SUBSET Pcs]
          BY <3>3
        <5> HIDE DEF a, c
        <5>3. (\A x \in Tickets : a[x] = c[x]) => a = c
          BY <5>2
        <5> QED
          BY <5>1, <5>3 DEF a, c
    <3>9. Same(f, i, {})
      BY <3>2, <3>5, <3>6, <3>7, <3>8 DEF Same
    <3>10. f = i
      BY <3>1, <3>2, <3>9, StateEqual
    <3> QED
      BY <2>1, <2>3, <3>10 DEF f
  <2> QED
    BY <2>2, <2>3
<1> QED
  BY <1>6, <1>7, <1>9, <1>10

(* An entry goes, with its whole owner if that is a page module.           *)
LEMMA RetireEntrySound ==
  ASSUME NEW j, Sound(j, {}, {}, 0, {}), NEW pc \in Pcs
  PROVE  /\ Sound(retire_entry(j, pc), {}, {}, 0, {})
         /\ \E D \in SUBSET Pcs : pc \in D /\ Without(retire_entry(j, pc), j, D)
<1> DEFINE idx == j.cache[pc].idx  o == j.slot_owner[idx]
<1>1. /\ j.slot_owner \in [Slots -> Tickets \cup {0}] /\ j.cache \in [Pcs -> Entry]
      /\ j.owner_entries \in [Tickets -> SUBSET Pcs]
  BY FieldType DEF Sound
<1>2. CASE idx > 0 /\ is_page_module_slot(j, idx)
  <2>1. idx \in Slots
    BY <1>1, <1>2, EntryType
  <2>2. o \in Tickets
    BY <1>1, <1>2, <2>1 DEF is_page_module_slot
  <2>3. pc \in j.owner_entries[o]
    BY <1>2, <2>2 DEF Sound, EntriesListed
  <2>4. retire_entry(j, pc) = retire_owner(j, o)
    BY <1>2 DEF retire_entry
  <2> HIDE DEF o
  <2>5. /\ Sound(retire_owner(j, o), {}, {}, IF 0 = o THEN 0 ELSE 0, {})
        /\ Without(retire_owner(j, o), j, j.owner_entries[o])
    BY <2>2, RetireOwnerSound
  <2> QED
    BY <1>1, <2>2, <2>3, <2>4, <2>5
<1>3. CASE ~(idx > 0 /\ is_page_module_slot(j, idx))
  <2>1. retire_entry(j, pc) = drop(j, pc)
    BY <1>3 DEF retire_entry
  <2>2. /\ Sound(drop(j, pc), {}, {}, 0, {} \ (Physical \X {pc}))
        /\ Without(drop(j, pc), j, {pc})
    BY DropSound
  <2>3. {} \ (Physical \X {pc}) = {}
    OBVIOUS
  <2> QED
    BY <2>1, <2>2, <2>3
<1> QED
  BY <1>2, <1>3

(* Room is made by the owner that has been called least lately.            *)
LEMMA EvictSound ==
  ASSUME NEW j, Sound(j, {}, {}, 0, {})
  PROVE  /\ Sound(evict_cold_owner(j), {}, {}, 0, {})
         /\ \E D \in SUBSET Pcs : Without(evict_cold_owner(j), j, D)
<1>1. j.cold \in Seq(Tickets) /\ j.owner_entries \in [Tickets -> SUBSET Pcs]
  BY FieldType DEF Sound
<1>2. CASE j.cold = <<>>
  <2>1. Without(j, j, {})
    BY DEF Without, Follows, Keeps, Weaker, Same
  <2> QED
    BY <1>2, <2>1 DEF evict_cold_owner
<1>3. CASE j.cold # <<>>
  <2> DEFINE o == Head(j.cold)
  <2>1. o \in Tickets
    BY <1>1, <1>3, HeadTailProperties
  <2>2. evict_cold_owner(j) = retire_owner(j, o)
    BY <1>3 DEF evict_cold_owner
  <2> HIDE DEF o
  <2>3. /\ Sound(retire_owner(j, o), {}, {}, IF 0 = o THEN 0 ELSE 0, {})
        /\ Without(retire_owner(j, o), j, j.owner_entries[o])
    BY <2>1, RetireOwnerSound
  <2> QED
    BY <1>1, <2>1, <2>2, <2>3
<1> QED
  BY <1>2, <1>3

-----------------------------------------------------------------------------
(* An entry is put.                                                        *)

(* The index of the code on each page, with an entry in it or out of it.   *)
LEMMA IndexEffect ==
  ASSUME NEW j \in JitStates, NEW pc \in Pcs, NEW e
  PROVE  LET i == index_block(j, pc, e)
             u == unindex_block(j, pc, e)
             on == block_physical_pages(j, pc, e)
         IN  /\ i \in JitStates /\ Same(i, j, {"page_blocks"})
             /\ \A p \in Physical, x \in Pcs :
                  x \in i.page_blocks[p] <=> x \in j.page_blocks[p] \/ (x = pc /\ p \in on)
             /\ u \in JitStates /\ Same(u, j, {"page_blocks"})
             /\ \A p \in Physical, x \in Pcs :
                  x \in u.page_blocks[p] <=> x \in j.page_blocks[p] /\ ~(x = pc /\ p \in on)
<1> DEFINE on == block_physical_pages(j, pc, e)
           pi == [p \in Physical |-> IF p \in on THEN j.page_blocks[p] \cup {pc} ELSE j.page_blocks[p]]
           pu == [p \in Physical |-> IF p \in on THEN j.page_blocks[p] \ {pc} ELSE j.page_blocks[p]]
           i == [j EXCEPT !.page_blocks = pi]
           u == [j EXCEPT !.page_blocks = pu]
<1>1. DOMAIN j = JitFields /\ j.page_blocks \in [Physical -> SUBSET Pcs]
  BY FieldType
<1>2. index_block(j, pc, e) = i
  BY <1>1, Zenon DEF index_block
<1>3. unindex_block(j, pc, e) = u
  BY <1>1, Zenon DEF unindex_block
<1> HIDE DEF on
<1>4. pi \in [Physical -> SUBSET Pcs] /\ pu \in [Physical -> SUBSET Pcs]
  BY <1>1
<1>5. \A p \in Physical, x \in Pcs :
        /\ x \in pi[p] <=> x \in j.page_blocks[p] \/ (x = pc /\ p \in on)
        /\ x \in pu[p] <=> x \in j.page_blocks[p] /\ ~(x = pc /\ p \in on)
  OBVIOUS
<1> HIDE DEF pi, pu
<1>6. i \in JitStates /\ u \in JitStates
  BY <1>4 DEF JitStates
<1>7. /\ Same(i, j, {"page_blocks"}) /\ i.page_blocks = pi
      /\ Same(u, j, {"page_blocks"}) /\ u.page_blocks = pu
  BY <1>1 DEF Same, JitFields
<1> HIDE DEF i, u
<1> QED
  BY <1>2, <1>3, <1>5, <1>6, <1>7 DEF on

(* The entry of pc is e, which its owner lists and the index knows.  What  *)
(* its former entry ran is counted no more.                                *)
EntryPut(i, j, pc, e) ==
  LET was == j.cache[pc].idx IN
  /\ \A x \in Pcs : i.cache[x] = IF x = pc THEN e ELSE j.cache[x]
  /\ \A p \in Physical, x \in Pcs :
       x \in i.page_blocks[p] <=> IF x = pc THEN p \in block_physical_pages(j, pc, e)
                                            ELSE x \in j.page_blocks[p]
  /\ \A o \in Tickets, x \in Pcs :
       x \in i.owner_entries[o] <=> IF x = pc THEN e.idx > 0 /\ j.slot_owner[e.idx] = o
                                              ELSE x \in j.owner_entries[o]
  /\ \A s \in Slots : i.refs[s] = IF s = e.idx /\ s # was THEN j.refs[s] + 1
                                  ELSE IF s = was /\ s # e.idx THEN j.refs[s] - 1
                                  ELSE j.refs[s]
  /\ Once(i.cold) /\ \A o \in Tickets : Holds(i.cold, o) <=> owns(j, o)
  /\ Same(i, j, {"cache", "page_blocks", "owner_entries", "refs", "cold"})

(* A slot an entry may be put on, made from src.                           *)
Installable(j, pc, idx, src) ==
  /\ idx \in Slots => /\ j.slot_owner[idx] # 0
                      /\ j.exits[idx] # NoExits => pc \in j.exits[idx].entries
  /\ Covering(j, pc, idx, src)

(* With that entry the state is sound; the former slot may be unused.    *)
LEMMA EntryPutSound ==
  ASSUME NEW j, NEW Unused, NEW Prior, Sound(j, Unused, {}, Prior, {}),
         NEW pc \in Pcs, NEW e \in Entry, e # NoEntry, Installable(j, pc, e.idx, e.src),
         NEW i \in JitStates, EntryPut(i, j, pc, e)
  PROVE  Sound(i, IF j.cache[pc].idx = e.idx THEN Unused \ {e.idx}
                                             ELSE (Unused \ {e.idx}) \cup {j.cache[pc].idx},
               {}, Prior, {})
<1> DEFINE was == j.cache[pc].idx
           Left0 == IF was = e.idx THEN Unused \ {e.idx} ELSE (Unused \ {e.idx}) \cup {was}
<1>1. /\ j.cache \in [Pcs -> Entry] /\ e.idx \in Int /\ (e.idx > 0 => e.idx \in Slots)
      /\ \A x \in Pcs : j.cache[x].idx \in Int /\ (j.cache[x].idx > 0 => j.cache[x].idx \in Slots)
      /\ j.slot_owner \in [Slots -> Tickets \cup {0}] /\ \A s \in Slots : s > 0 /\ s # -1
  BY FieldType, EntryType, OwnershipAssumption DEF Sound
<1>2. /\ \A x \in Pcs : i.cache[x] = IF x = pc THEN e ELSE j.cache[x]
      /\ \A x \in Pcs : x # pc => i.cache[x] = j.cache[x]
      /\ i.cache[pc] = e
      /\ i.slot_owner = j.slot_owner /\ i.live = j.live /\ i.regions = j.regions /\ i.exits = j.exits
      /\ i.ext_queue = j.ext_queue /\ i.module_owner = j.module_owner
      /\ i.modules = j.modules /\ i.lines = j.lines
  BY DEF EntryPut, Same, JitFields
<1>3. \A s : s # e.idx => users(i, s) = users(j, s) \ {pc}
  BY <1>2 DEF users
<1>4. users(i, e.idx) = users(j, e.idx) \cup {pc}
  BY <1>2 DEF users
<1>5. CountsRefs(i)
  <2> SUFFICES ASSUME NEW s \in Slots
               PROVE  i.refs[s] = Cardinality(users(i, s))
    BY DEF CountsRefs
  <2>1. j.refs[s] = Cardinality(users(j, s))
    BY DEF Sound, CountsRefs
  <2>2. i.refs[s] = IF s = e.idx /\ s # was THEN j.refs[s] + 1
                    ELSE IF s = was /\ s # e.idx THEN j.refs[s] - 1
                    ELSE j.refs[s]
    BY DEF EntryPut
  <2>3. CASE s = e.idx /\ s # was
    <3>1. pc \notin users(j, s) /\ users(i, s) = users(j, s) \cup {pc}
      BY <1>4, <2>3 DEF users
    <3>2. Cardinality(users(j, s) \cup {pc}) = Cardinality(users(j, s)) + 1
      BY <3>1, Finite, FS_AddElement
    <3> QED
      BY <2>1, <2>2, <2>3, <3>1, <3>2
  <2>4. CASE s = was /\ s # e.idx
    <3>1. i.cache[pc].idx # was /\ \A x \in Pcs : x # pc => i.cache[x] = j.cache[x]
      BY <1>2, <2>4
    <3>2. Cardinality(users(i, was)) = Cardinality(users(j, was)) - 1
      BY <3>1, OneUserLess
    <3> QED
      BY <2>1, <2>2, <2>4, <3>2
  <2>5. CASE s = was /\ s = e.idx
    <3>1. users(i, s) = users(j, s)
      BY <1>4, <2>5 DEF users
    <3> QED
      BY <2>1, <2>2, <2>5, <3>1
  <2>6. CASE s # was /\ s # e.idx
    <3>1. users(i, s) = users(j, s)
      BY <1>3, <2>6 DEF users
    <3> QED
      BY <2>1, <2>2, <2>6, <3>1
  <2> QED
    BY <2>3, <2>4, <2>5, <2>6
<1>6. EntriesOwned(i)
  BY <1>1, <1>2 DEF Sound, EntriesOwned, Installable
<1>7. SlotsUsed(i, Left0)
  <2>1. \A s : s # e.idx /\ s # was => users(i, s) = users(j, s)
    BY <1>3 DEF users
  <2>2. users(i, e.idx) # {}
    BY <1>4
  <2>3. SlotsUsed(j, Unused)
    BY DEF Sound
  <2> QED
    BY <1>2, <2>1, <2>2, <2>3 DEF SlotsUsed
<1>8. LiveOwned(i) /\ IdleClean(i)
  BY <1>2 DEF Sound, LiveOwned, IdleClean
<1>9. EntriesListed(i, {})
  <2>1. EntriesListed(j, {})
    BY DEF Sound
  <2>2. \A o \in Tickets, x \in Pcs :
          x \in i.owner_entries[o] <=> IF x = pc THEN e.idx > 0 /\ j.slot_owner[e.idx] = o
                                                 ELSE x \in j.owner_entries[o]
    BY DEF EntryPut
  <2> QED
    BY <1>2, <2>1, <2>2 DEF EntriesListed
<1>10. ModulesOwned(i, Prior) /\ ColdOwners(i)
  <2>1. \A o : owns(i, o) <=> owns(j, o)
    BY <1>2 DEF owns
  <2>2. ModulesOwned(i, Prior)
    BY <1>2, <2>1 DEF Sound, ModulesOwned
  <2>3. ColdOwners(i)
    BY <2>1 DEF EntryPut, ColdOwners
  <2> QED
    BY <2>2, <2>3
<1>11. Indexed(i, {})
  <2>1. Indexed(j, {})
    BY DEF Sound
  <2>2. \A p \in Physical, x \in Pcs :
          x \in i.page_blocks[p] <=> IF x = pc THEN p \in block_physical_pages(j, pc, e)
                                               ELSE x \in j.page_blocks[p]
    BY DEF EntryPut
  <2>3. \A k : \A x \in Pcs : block_physical_pages(i, x, k) = block_physical_pages(j, x, k)
    BY <1>2, SamePages
  <2>4. ASSUME NEW p \in Physical, NEW x \in Pcs
        PROVE  x \in i.page_blocks[p] <=> /\ i.cache[x] # NoEntry
                                          /\ p \in block_physical_pages(i, x, i.cache[x])
                                          /\ <<p, x>> \notin {}
    <3>1. x \in j.page_blocks[p] <=> /\ j.cache[x] # NoEntry
                                     /\ p \in block_physical_pages(j, x, j.cache[x])
                                     /\ <<p, x>> \notin {}
      BY <2>1, Zenon DEF Indexed
    <3>2. CASE x = pc
      BY <1>2, <2>2, <2>3, <3>2
    <3>3. CASE x # pc
      BY <1>2, <2>2, <2>3, <3>1, <3>3, Zenon
    <3> QED
      BY <3>2, <3>3
  <2> QED
    BY <2>4, Zenon DEF Indexed
<1>12. RegionsCover(i)
  <2>1. \A k, src : \A x \in Pcs : Covering(i, x, k, src) <=> Covering(j, x, k, src)
    BY <1>2 DEF Covering
  <2>2. Covering(j, pc, e.idx, e.src)
    BY DEF Installable
  <2>3. RegionsCover(j)
    BY DEF Sound
  <2> QED
    BY <1>2, <2>1, <2>2, <2>3 DEF RegionsCover
<1>13. ExitsCover(i)
  <2>1. ExitsCover(j)
    BY DEF Sound
  <2> SUFFICES ASSUME NEW s \in Slots, j.exits[s] # NoExits
               PROVE  users(i, s) \subseteq j.exits[s].entries /\ Distinct(j.exits[s].src)
    BY <1>2 DEF ExitsCover
  <2>2. users(j, s) \subseteq j.exits[s].entries /\ Distinct(j.exits[s].src)
    BY <2>1 DEF ExitsCover
  <2>3. CASE s = e.idx
    BY <1>4, <2>2, <2>3 DEF Installable
  <2>4. CASE s # e.idx
    BY <1>3, <2>2, <2>4
  <2> QED
    BY <2>3, <2>4
<1> QED
  BY <1>5, <1>6, <1>7, <1>8, <1>9, <1>10, <1>11, <1>12, <1>13 DEF Sound

(* What cache_insert does before it releases the slot of the former entry. *)
LEMMA InsertEffect ==
  ASSUME NEW j, NEW Unused, NEW Prior, Sound(j, Unused, {}, Prior, {}),
         NEW pc \in Pcs, NEW e \in Entry, e # NoEntry, Installable(j, pc, e.idx, e.src)
  PROVE  \E k \in JitStates :
           /\ j.cache[pc].idx = e.idx \/ ~(j.cache[pc].idx > 0) =>
                EntryPut(k, j, pc, e) /\ cache_insert(j, pc, e) = k
           /\ j.cache[pc].idx # e.idx /\ j.cache[pc].idx > 0 =>
                /\ k.refs[j.cache[pc].idx] # 0
                /\ EntryPut([k EXCEPT !.refs[j.cache[pc].idx] = @ - 1], j, pc, e)
                /\ [k EXCEPT !.refs[j.cache[pc].idx] = @ - 1] \in JitStates
                /\ cache_insert(j, pc, e) = release_slot(k, j.cache[pc].idx)
<1> DEFINE old == j.cache[pc]
           was == IF old.idx > 0 THEN j.slot_owner[old.idx] ELSE 0
           o == IF e.idx > 0 THEN j.slot_owner[e.idx] ELSE 0
           put == [j EXCEPT !.cache[pc] = e]
           out == IF old = NoEntry THEN put ELSE unindex_block(put, pc, old)
           in == index_block(out, pc, e)
           dropped == IF was # 0 /\ was # o THEN [in EXCEPT !.owner_entries[was] = @ \ {pc}] ELSE in
           listed == [dropped EXCEPT !.owner_entries[o] = @ \cup {pc}]
           added == IF o # 0 THEN update_owner_recency(listed, o) ELSE dropped
           counted == IF old.idx # e.idx /\ e.idx > 0 THEN [added EXCEPT !.refs[e.idx] = @ + 1] ELSE added
           r == IF old.idx # e.idx /\ old.idx > 0 THEN release_slot(counted, old.idx) ELSE counted
<1>0. cache_insert(j, pc, e) = r
  BY Zenon DEF cache_insert
<1>1. /\ j \in JitStates /\ DOMAIN j = JitFields /\ j.cache \in [Pcs -> Entry]
      /\ j.refs \in [Slots -> Nat] /\ j.slot_owner \in [Slots -> Tickets \cup {0}]
      /\ j.owner_entries \in [Tickets -> SUBSET Pcs] /\ j.cold \in Seq(Tickets)
  BY FieldType DEF Sound
<1>2. /\ old \in Entry /\ old.idx \in Int /\ (old.idx > 0 => old.idx \in Slots)
      /\ (old = NoEntry <=> old.idx = -1) /\ e.idx \in Int /\ (e.idx > 0 => e.idx \in Slots)
      /\ e.idx \in Slots \cup {0} /\ \A s \in Slots : s > 0
  BY <1>1, EntryType, OwnershipAssumption
<1>3. /\ CountsRefs(j) /\ EntriesOwned(j) /\ EntriesListed(j, {}) /\ ColdOwners(j) /\ Indexed(j, {})
  BY DEF Sound
<1>4. /\ was \in Tickets \cup {0} /\ (was # 0 <=> old.idx > 0)
      /\ o \in Tickets \cup {0} /\ (o # 0 <=> e.idx > 0)
      /\ old.idx > 0 => j.slot_owner[old.idx] = was
      /\ e.idx > 0 => j.slot_owner[e.idx] = o
  BY <1>1, <1>2, <1>3 DEF EntriesOwned, Installable
<1>5. /\ \A x \in Tickets : pc \in j.owner_entries[x] <=> was # 0 /\ x = was
  BY <1>3, <1>4, TicketType DEF EntriesListed
<1>6. put \in JitStates /\ Same(put, j, {"cache"}) /\ put.cache = [j.cache EXCEPT ![pc] = e]
  <2>1. put \in JitStates
    BY <1>1 DEF JitStates
  <2> QED
    BY <1>1, <2>1 DEF Same, JitFields
<1>7. /\ out \in JitStates /\ Same(out, j, {"cache", "page_blocks"}) /\ out.cache = put.cache
      /\ \A p \in Physical, x \in Pcs : x \in out.page_blocks[p] <=> x \in j.page_blocks[p] /\ x # pc
  <2> DEFINE u == unindex_block(put, pc, old)
  <2>1. /\ u \in JitStates /\ Same(u, put, {"page_blocks"})
        /\ \A p \in Physical, x \in Pcs :
             x \in u.page_blocks[p] <=> /\ x \in put.page_blocks[p]
                                        /\ ~(x = pc /\ p \in block_physical_pages(put, pc, old))
    <3> HIDE DEF put, old
    <3> QED
      BY <1>6, IndexEffect
  <2> HIDE DEF put, u
  <2>2. block_physical_pages(put, pc, old) = block_physical_pages(j, pc, old)
    <3>1. put.regions = j.regions
      BY <1>6 DEF Same, JitFields
    <3> QED
      BY <3>1, SamePages
  <2>3. \A p \in Physical : pc \in j.page_blocks[p] =>
          old # NoEntry /\ p \in block_physical_pages(j, pc, old)
    BY <1>3, Zenon DEF Indexed
  <2>4. put.page_blocks = j.page_blocks
    BY <1>6 DEF Same, JitFields
  <2>5. CASE old = NoEntry
    <3>1. out = put
      BY <2>5
    <3> QED
      BY <1>6, <2>3, <2>4, <2>5, <3>1 DEF Same
  <2>6. CASE old # NoEntry
    <3>1. out = u
      BY <2>6 DEF u
    <3>2. Same(u, j, {"cache", "page_blocks"}) /\ u.cache = put.cache
      BY <1>6, <2>1 DEF Same, JitFields
    <3> HIDE DEF old
    <3> QED
      BY <2>1, <2>2, <2>3, <2>4, <3>1, <3>2
  <2> QED
    BY <2>5, <2>6
<1> HIDE DEF put, out
<1>8. /\ in \in JitStates /\ Same(in, j, {"cache", "page_blocks"}) /\ in.cache = put.cache
      /\ \A p \in Physical, x \in Pcs :
           x \in in.page_blocks[p] <=> IF x = pc THEN p \in block_physical_pages(j, pc, e)
                                                 ELSE x \in j.page_blocks[p]
  <2>1. /\ in \in JitStates /\ Same(in, out, {"page_blocks"})
        /\ \A p \in Physical, x \in Pcs :
             x \in in.page_blocks[p] <=> \/ x \in out.page_blocks[p]
                                         \/ x = pc /\ p \in block_physical_pages(out, pc, e)
    BY <1>7, IndexEffect
  <2> HIDE DEF in
  <2>2. block_physical_pages(out, pc, e) = block_physical_pages(j, pc, e)
    <3>1. out.regions = j.regions
      BY <1>7 DEF Same, JitFields
    <3> QED
      BY <3>1, SamePages
  <2>3. Same(in, j, {"cache", "page_blocks"}) /\ in.cache = put.cache
    BY <1>7, <2>1 DEF Same, JitFields
  <2> QED
    BY <1>7, <2>1, <2>2, <2>3
<1> HIDE DEF in
<1>9. /\ in.owner_entries = j.owner_entries /\ in.cold = j.cold /\ in.refs = j.refs
      /\ DOMAIN in = JitFields
  BY <1>8, FieldType DEF Same, JitFields
<1> HIDE DEF was, o
<1>10. /\ dropped \in JitStates /\ Same(dropped, in, {"owner_entries"})
       /\ \A x \in Tickets, y \in Pcs :
            y \in dropped.owner_entries[x] <=> y \in j.owner_entries[x] /\ ~(y = pc /\ x = was /\ was # o)
  <2>1. CASE was # 0 /\ was # o
    <3>1. was \in Tickets
      BY <1>4, <2>1
    <3> DEFINE d == [in EXCEPT !.owner_entries[was] = @ \ {pc}]
    <3>2. dropped = d
      BY <2>1
    <3>3. d \in JitStates
      BY <1>1, <1>8, <1>9, <3>1 DEF JitStates
    <3>4. Same(d, in, {"owner_entries"}) /\ d.owner_entries = [j.owner_entries EXCEPT ![was] = @ \ {pc}]
      BY <1>9 DEF Same, JitFields
    <3> HIDE DEF d, dropped
    <3> QED
      BY <1>1, <2>1, <3>1, <3>2, <3>3, <3>4
  <2>2. CASE ~(was # 0 /\ was # o)
    <3>1. dropped = in
      BY <2>2
    <3> HIDE DEF dropped
    <3> QED
      BY <1>8, <1>9, <2>2, <3>1, TicketType DEF Same
  <2> QED
    BY <2>1, <2>2
<1> HIDE DEF dropped
<1>11. /\ added \in JitStates /\ Same(added, in, {"owner_entries", "cold"})
       /\ \A x \in Tickets, y \in Pcs :
            y \in added.owner_entries[x] <=> IF y = pc THEN e.idx > 0 /\ x = o ELSE y \in j.owner_entries[x]
       /\ Once(added.cold) /\ \A x \in Tickets : Holds(added.cold, x) <=> owns(j, x)
  <2>1. /\ Once(j.cold) /\ \A x \in Tickets : Holds(j.cold, x) <=> owns(j, x)
    BY <1>3 DEF ColdOwners
  <2>2. dropped.cold = j.cold /\ DOMAIN dropped = JitFields
        /\ dropped.owner_entries \in [Tickets -> SUBSET Pcs]
    BY <1>9, <1>10, FieldType DEF Same, JitFields
  <2>3. CASE o # 0
    <3>1. o \in Tickets
      BY <1>4, <2>3
    <3>2. owns(j, o)
      BY <1>2, <1>4, <2>3 DEF owns
    <3> DEFINE c == Append(RemoveFirst(j.cold, o), o)
               w == [listed EXCEPT !.cold = c]
    <3>3. c \in Seq(Tickets) /\ Once(c) /\ \A x : Holds(c, x) <=> Holds(j.cold, x) \/ x = o
      <4>1. Tickets \subseteq Nat
        BY TicketType
      <4> QED
        BY <1>1, <2>1, <3>1, <4>1, MadeWarmest
    <3>4. listed \in JitStates
      BY <1>10, <2>2, <3>1 DEF JitStates
    <3>5. /\ Same(listed, dropped, {"owner_entries"}) /\ DOMAIN listed = JitFields
          /\ listed.owner_entries = [dropped.owner_entries EXCEPT ![o] = @ \cup {pc}]
      BY <2>2 DEF Same, JitFields
    <3> HIDE DEF listed
    <3>6. listed.cold = j.cold
      BY <2>2, <3>5 DEF Same, JitFields
    <3>7. added = w
      BY <2>3, <3>6 DEF update_owner_recency
    <3> HIDE DEF added, c
    <3>8. w \in JitStates
      BY <3>3, <3>4 DEF JitStates
    <3>9. Same(w, listed, {"cold"}) /\ w.cold = c
      BY <3>5 DEF Same, JitFields
    <3> HIDE DEF w
    <3>10. Same(w, in, {"owner_entries", "cold"}) /\ w.owner_entries = listed.owner_entries
      BY <1>10, <3>5, <3>9 DEF Same, JitFields
    <3>11. ASSUME NEW x \in Tickets, NEW y \in Pcs
           PROVE  y \in w.owner_entries[x] <=> IF y = pc THEN e.idx > 0 /\ x = o
                                                         ELSE y \in j.owner_entries[x]
      <4>1. y \in w.owner_entries[x] <=> y \in dropped.owner_entries[x] \/ (x = o /\ y = pc)
        BY <2>2, <3>5, <3>10
      <4>2. y \in dropped.owner_entries[x] <=> y \in j.owner_entries[x] /\ ~(y = pc /\ x = was /\ was # o)
        BY <1>10
      <4>3. y = pc => (y \in j.owner_entries[x] <=> was # 0 /\ x = was)
        BY <1>5
      <4> QED
        BY <1>4, <2>3, <4>1, <4>2, <4>3
    <3>12. \A x \in Tickets : Holds(w.cold, x) <=> owns(j, x)
      BY <2>1, <3>2, <3>3, <3>9
    <3> QED
      BY <3>3, <3>7, <3>8, <3>9, <3>10, <3>11, <3>12
  <2>4. CASE o = 0
    <3>1. added = dropped
      BY <2>4
    <3> HIDE DEF added
    <3>2. ASSUME NEW x \in Tickets, NEW y \in Pcs
          PROVE  y \in dropped.owner_entries[x] <=> IF y = pc THEN e.idx > 0 /\ x = o
                                                          ELSE y \in j.owner_entries[x]
      <4>1. y = pc => (y \in j.owner_entries[x] <=> was # 0 /\ x = was)
        BY <1>5
      <4>2. y \in dropped.owner_entries[x] <=> y \in j.owner_entries[x] /\ ~(y = pc /\ x = was /\ was # o)
        BY <1>10
      <4> QED
        BY <1>4, <2>4, <4>1, <4>2
    <3>3. Same(dropped, in, {"owner_entries", "cold"})
      BY <1>10 DEF Same
    <3> QED
      BY <1>10, <2>1, <2>2, <3>1, <3>2, <3>3
  <2> QED
    BY <2>3, <2>4
<1> HIDE DEF added
<1>12. added.refs = j.refs /\ DOMAIN added = JitFields
  BY <1>9, <1>11, FieldType DEF Same, JitFields
<1>13. /\ counted \in JitStates /\ Same(counted, added, {"refs"})
       /\ \A s \in Slots : counted.refs[s] = IF s = e.idx /\ s # old.idx THEN j.refs[s] + 1 ELSE j.refs[s]
  <2>1. CASE old.idx # e.idx /\ e.idx > 0
    <3>1. e.idx \in Slots
      BY <1>2, <2>1
    <3> DEFINE c == j.refs[e.idx] + 1  n == [added EXCEPT !.refs[e.idx] = c]
    <3>2. counted = n
      BY <1>12, <2>1
    <3> HIDE DEF counted
    <3>3. c \in Nat
      BY <1>1, <3>1
    <3> HIDE DEF c
    <3>4. n \in JitStates
      BY <1>11, <3>1, <3>3 DEF JitStates
    <3>5. Same(n, added, {"refs"}) /\ n.refs = [j.refs EXCEPT ![e.idx] = c]
      BY <1>12 DEF Same, JitFields
    <3> HIDE DEF n
    <3> QED
      BY <1>1, <2>1, <3>1, <3>2, <3>4, <3>5 DEF c
  <2>2. CASE ~(old.idx # e.idx /\ e.idx > 0)
    <3>1. counted = added
      BY <2>2
    <3>2. \A s \in Slots : ~(s = e.idx /\ s # old.idx)
      BY <1>2, <2>2
    <3> HIDE DEF counted
    <3> QED
      BY <1>11, <1>12, <3>1, <3>2 DEF Same
  <2> QED
    BY <2>1, <2>2
<1> HIDE DEF counted
<1>14. DOMAIN counted = JitFields /\ counted.refs \in [Slots -> Nat]
  BY <1>13, FieldType
<1>15. ASSUME NEW n \in JitStates, Same(n, counted, {"refs"}),
              \A s \in Slots : n.refs[s] = IF s = e.idx /\ s # old.idx THEN j.refs[s] + 1
                                           ELSE IF s = old.idx /\ s # e.idx THEN j.refs[s] - 1
                                           ELSE j.refs[s]
       PROVE  EntryPut(n, j, pc, e)
  <2>1. /\ n.cache = put.cache /\ n.page_blocks = in.page_blocks /\ n.owner_entries = added.owner_entries
        /\ n.cold = added.cold
    BY <1>8, <1>11, <1>13, <1>15 DEF Same, JitFields
  <2>2. Same(n, j, {"cache", "page_blocks", "owner_entries", "refs", "cold"})
    BY <1>8, <1>11, <1>13, <1>15 DEF Same
  <2>3. \A x \in Pcs : n.cache[x] = IF x = pc THEN e ELSE j.cache[x]
    BY <1>1, <1>6, <2>1
  <2>4. \A x \in Tickets, y \in Pcs :
          y \in n.owner_entries[x] <=> IF y = pc THEN e.idx > 0 /\ j.slot_owner[e.idx] = x
                                                 ELSE y \in j.owner_entries[x]
    BY <1>4, <1>11, <2>1
  <2>5. \A p \in Physical, x \in Pcs :
           x \in n.page_blocks[p] <=> IF x = pc THEN p \in block_physical_pages(j, pc, e)
                                                ELSE x \in j.page_blocks[p]
    BY <1>8, <2>1
  <2>6. Once(n.cold) /\ \A x \in Tickets : Holds(n.cold, x) <=> owns(j, x)
    BY <1>11, <2>1
  <2> QED
    BY <1>15, <2>2, <2>3, <2>4, <2>5, <2>6, Zenon DEF EntryPut
<1>16. CASE old.idx = e.idx \/ ~(old.idx > 0)
  <2>1. r = counted
    BY <1>16
  <2>2. Same(counted, counted, {"refs"})
    BY DEF Same
  <2>3. \A s \in Slots : ~(s = old.idx /\ s # e.idx)
    BY <1>2, <1>16
  <2>4. \A s \in Slots : counted.refs[s] = IF s = e.idx /\ s # old.idx THEN j.refs[s] + 1
                                           ELSE IF s = old.idx /\ s # e.idx THEN j.refs[s] - 1
                                           ELSE j.refs[s]
    BY <1>13, <2>3
  <2>5. EntryPut(counted, j, pc, e)
    BY <1>13, <1>15, <2>2, <2>4
  <2> QED
    BY <1>0, <1>13, <1>16, <2>1, <2>5
<1>17. CASE old.idx # e.idx /\ old.idx > 0
  <2> DEFINE c == counted.refs[old.idx] - 1
             n == [counted EXCEPT !.refs[old.idx] = c]
  <2>1. r = release_slot(counted, old.idx)
    BY <1>17
  <2>2. old.idx \in Slots /\ counted.refs[old.idx] = j.refs[old.idx]
    BY <1>2, <1>13, <1>17
  <2>3. j.refs[old.idx] \in Nat \ {0}
    <3>1. pc \in users(j, old.idx)
      BY DEF users
    <3>2. j.refs[old.idx] = Cardinality(users(j, old.idx))
      BY <1>3, <2>2 DEF CountsRefs
    <3> HIDE DEF old
    <3> QED
      BY <3>1, <3>2, NoUsers, Finite
  <2>4. c \in Nat /\ c = j.refs[old.idx] - 1
    BY <2>2, <2>3
  <2> HIDE DEF c
  <2>5. n \in JitStates
    <3> HIDE DEF old
    <3> QED
      BY <1>13, <2>2, <2>4 DEF JitStates
  <2>6. Same(n, counted, {"refs"}) /\ n.refs = [counted.refs EXCEPT ![old.idx] = c]
    BY <1>14 DEF Same, JitFields
  <2>7. [counted EXCEPT !.refs[old.idx] = @ - 1] = n
    BY DEF c
  <2> HIDE DEF n
  <2>8. \A s \in Slots : n.refs[s] = IF s = e.idx /\ s # old.idx THEN j.refs[s] + 1
                                     ELSE IF s = old.idx /\ s # e.idx THEN j.refs[s] - 1
                                     ELSE j.refs[s]
    <3> HIDE DEF old
    <3> QED
      BY <1>13, <1>14, <1>17, <2>2, <2>4, <2>6
  <2>9. EntryPut(n, j, pc, e)
    BY <1>15, <2>5, <2>6, <2>8
  <2> HIDE DEF r
  <2> QED
    BY <1>0, <1>13, <1>17, <2>1, <2>2, <2>3, <2>5, <2>7, <2>9
<1> QED
  BY <1>16, <1>17

(* The slots but that of the former entry of pc are as they were.          *)
Stays(i, j, pc, idx) ==
  \A s \in Slots : s = idx \/ s # j.cache[pc].idx =>
    i.slot_owner[s] = j.slot_owner[s] /\ i.regions[s] = j.regions[s] /\ i.exits[s] = j.exits[s]

(* cache_insert keeps a state sound and changes the one entry.           *)
LEMMA InsertSound ==
  ASSUME NEW j, NEW Unused, NEW Prior, Sound(j, Unused, {}, Prior, {}),
         NEW pc \in Pcs, NEW e \in Entry, e # NoEntry, Installable(j, pc, e.idx, e.src)
  PROVE  LET r == cache_insert(j, pc, e) IN
         /\ Sound(r, Unused \ {e.idx}, {}, Prior, {})
         /\ Keeps(r, j) /\ r.lines = j.lines
         /\ \A x \in Pcs : r.cache[x] = IF x = pc THEN e ELSE j.cache[x]
         /\ Stays(r, j, pc, e.idx)
<1> DEFINE r == cache_insert(j, pc, e)  was == j.cache[pc].idx
<1>1. ASSUME NEW i, EntryPut(i, j, pc, e)
      PROVE  /\ Keeps(i, j) /\ i.lines = j.lines /\ Stays(i, j, pc, e.idx)
             /\ \A x \in Pcs : i.cache[x] = IF x = pc THEN e ELSE j.cache[x]
             /\ \A s \in Slots : /\ i.slot_owner[s] = j.slot_owner[s]
                                 /\ i.regions[s] = j.regions[s] /\ i.exits[s] = j.exits[s]
  <2>1. /\ i.slot_owner = j.slot_owner /\ i.modules = j.modules /\ i.lines = j.lines
        /\ i.regions = j.regions /\ i.exits = j.exits
        /\ Same(i, j, JitFields \ {"superblocked", "claims", "stage", "coverage", "fill"})
    BY <1>1 DEF EntryPut, Same, JitFields
  <2>2. Keeps(i, j)
    BY <2>1 DEF Keeps, Weaker
  <2>3. Stays(i, j, pc, e.idx)
    BY <2>1 DEF Stays
  <2>4. \A x \in Pcs : i.cache[x] = IF x = pc THEN e ELSE j.cache[x]
    BY <1>1 DEF EntryPut
  <2> QED
    BY <2>1, <2>2, <2>3, <2>4
<1>2. PICK k \in JitStates :
         /\ was = e.idx \/ ~(was > 0) => EntryPut(k, j, pc, e) /\ r = k
         /\ was # e.idx /\ was > 0 =>
              /\ k.refs[was] # 0
              /\ EntryPut([k EXCEPT !.refs[was] = @ - 1], j, pc, e)
              /\ [k EXCEPT !.refs[was] = @ - 1] \in JitStates
              /\ r = release_slot(k, was)
  BY InsertEffect, Zenon
<1>3. was \in Int /\ (was > 0 => was \in Slots) /\ \A s \in Slots : s > 0
  <2>1. j.cache \in [Pcs -> Entry]
    BY FieldType DEF Sound
  <2> QED
    BY <2>1, EntryType, OwnershipAssumption
<1> HIDE DEF r
<1>4. CASE was = e.idx \/ ~(was > 0)
  <2>1. Sound(k, IF was = e.idx THEN Unused \ {e.idx} ELSE (Unused \ {e.idx}) \cup {was}, {}, Prior, {})
    BY <1>2, <1>4, EntryPutSound
  <2>2. Sound(k, Unused \ {e.idx}, {}, Prior, {})
    <3>1. CASE was = e.idx
      BY <2>1, <3>1
    <3>2. CASE was # e.idx
      <4>1. Sound(k, (Unused \ {e.idx}) \cup {was}, {}, Prior, {})
        BY <2>1, <3>2
      <4>2. \A s \in Slots : s # was
        BY <1>3, <1>4, <3>2
      <4> HIDE DEF was
      <4> QED
        BY <4>1, <4>2 DEF Sound, SlotsUsed
    <3> QED
      BY <3>1, <3>2
  <2> QED
    BY <1>1, <1>2, <1>4, <2>2 DEF r
<1>5. CASE was # e.idx /\ was > 0
  <2> DEFINE n == [k EXCEPT !.refs[was] = @ - 1]
             U == Unused \ {e.idx}
  <2>1. EntryPut(n, j, pc, e) /\ n \in JitStates
    BY <1>2, <1>5
  <2>2. Sound(n, U \cup {was}, {}, Prior, {})
    <3> HIDE DEF n
    <3>1. Sound(n, IF was = e.idx THEN Unused \ {e.idx} ELSE (Unused \ {e.idx}) \cup {was}, {}, Prior, {})
      BY <2>1, EntryPutSound
    <3> QED
      BY <1>5, <3>1
  <2>3. /\ Sound(r, U, {}, Prior, {}) /\ Quiet(r, n) /\ Spares(r, n, was)
    <3>1. k.refs[was] # 0 /\ was \in Slots /\ r = release_slot(k, was)
      BY <1>2, <1>3, <1>5
    <3> HIDE DEF was, U
    <3> QED
      BY <2>2, <3>1, ReleaseSound
  <2> HIDE DEF n
  <2>4. /\ Keeps(n, j) /\ n.lines = j.lines
        /\ \A x \in Pcs : n.cache[x] = IF x = pc THEN e ELSE j.cache[x]
        /\ \A s \in Slots : /\ n.slot_owner[s] = j.slot_owner[s]
                            /\ n.regions[s] = j.regions[s] /\ n.exits[s] = j.exits[s]
    BY <1>1, <2>1
  <2>5. Keeps(r, j) /\ r.lines = j.lines /\ r.cache = n.cache
    BY <2>3, <2>4, KeepsOn DEF Quiet, Follows
  <2>6. Stays(r, j, pc, e.idx)
    BY <1>5, <2>3, <2>4 DEF Stays, Spares
  <2> QED
    BY <2>3, <2>4, <2>5, <2>6 DEF r
<1> QED
  BY <1>4, <1>5

(* What a landing leaves: b runs on idx, the other entries as they were.   *)
Installed(i, j, b, idx) ==
  /\ Follows(i, j) /\ Stays(i, j, b.pc, idx)
  /\ i.cache[b.pc] # NoEntry /\ i.cache[b.pc].idx = idx /\ i.cache[b.pc].src = b.src
  /\ \A x \in Pcs : x # b.pc => i.cache[x] = j.cache[x]

(* Landing code keeps a state sound, dispatch lines included.            *)
LEMMA InstallSound ==
  ASSUME NEW j, NEW Unused, NEW Prior, Sound(j, Unused, {}, Prior, {}),
         NEW b, b.pc \in Pcs, b.src \in SUBSET Source, NEW idx \in Slots, NEW region \in BOOLEAN,
         Cardinality(b.src) > 1 => j.regions[idx] = b.src,
         Installable(j, b.pc, idx, b.src)
  PROVE  LET r == install(j, b, idx, region) IN
         Sound(r, Unused \ {idx}, {}, Prior, {}) /\ Installed(r, j, b, idx)
<1> DEFINE e == [idx |-> idx, region |-> region, fp |-> ~region /\ b.pc \in FpPcs, src |-> b.src]
           i == IF Cardinality(b.src) > 1 THEN [j EXCEPT !.regions[idx] = b.src] ELSE j
           c == cache_insert(j, b.pc, e)
           d == clear_line(c, b.pc)
<1>1. j \in JitStates /\ DOMAIN j = JitFields /\ j.regions \in [Slots -> SUBSET Source]
  BY FieldType DEF Sound
<1>2. i = j
  <2>1. CASE Cardinality(b.src) > 1
    <3> DEFINE n == [j EXCEPT !.regions[idx] = b.src]
    <3>1. n \in JitStates
      BY <1>1 DEF JitStates
    <3>2. Same(n, j, {"regions"}) /\ n.regions = [j.regions EXCEPT ![idx] = b.src]
      BY <1>1 DEF Same, JitFields
    <3> HIDE DEF n
    <3>3. j.regions[idx] = b.src
      BY <2>1
    <3>4. n.regions = j.regions
      BY <1>1, <3>2, <3>3
    <3>5. Same(n, j, {})
      BY <3>2, <3>4 DEF Same
    <3>6. n = j
      BY <1>1, <3>1, <3>5, StateEqual
    <3> QED
      BY <2>1, <3>6 DEF n
  <2>2. CASE ~(Cardinality(b.src) > 1)
    BY <2>2
  <2> QED
    BY <2>1, <2>2
<1>3. install(j, b, idx, region) = d
  BY <1>2, Zenon DEF install
<1>4. e \in Entry /\ e # NoEntry /\ e.idx = idx /\ e.src = b.src
  BY DEF Entry, NoEntry
<1> HIDE DEF e
<1>5. /\ Sound(c, Unused \ {idx}, {}, Prior, {})
      /\ Keeps(c, j) /\ c.lines = j.lines
      /\ \A x \in Pcs : c.cache[x] = IF x = b.pc THEN e ELSE j.cache[x]
      /\ Stays(c, j, b.pc, idx)
  <2> DEFINE pc == b.pc
  <2>1. pc \in Pcs /\ Installable(j, pc, e.idx, e.src)
    BY <1>4
  <2> HIDE DEF pc
  <2>2. /\ Sound(cache_insert(j, pc, e), Unused \ {e.idx}, {}, Prior, {})
        /\ Keeps(cache_insert(j, pc, e), j) /\ cache_insert(j, pc, e).lines = j.lines
        /\ \A x \in Pcs : cache_insert(j, pc, e).cache[x] = IF x = pc THEN e ELSE j.cache[x]
        /\ Stays(cache_insert(j, pc, e), j, pc, e.idx)
    BY <1>4, <2>1, InsertSound
  <2> QED
    BY <1>4, <2>2 DEF pc
<1> HIDE DEF c
<1>6. /\ d \in JitStates /\ Same(d, c, {"lines"})
      /\ \A n \in Lines : d.lines[n] = IF n = Dslot[b.pc] /\ c.lines[n].pc = b.pc THEN NoLine ELSE c.lines[n]
  BY <1>5, ClearEffect DEF Sound
<1> HIDE DEF d
<1>7. Sound(d, Unused \ {idx}, {}, Prior, {}) /\ Keeps(d, c) /\ d.cache = c.cache
  BY <1>5, <1>6, LinesApart
<1>8. Keeps(d, j)
  BY <1>5, <1>7, KeepsOn
<1>9. ASSUME NEW space, LinesAgree(j, space)
      PROVE  LinesAgree(d, space)
  <2> SUFFICES ASSUME NEW n \in Lines, d.lines[n].pc # 0
               PROVE  /\ Dslot[d.lines[n].pc] = n /\ d.cache[d.lines[n].pc] # NoEntry
                      /\ d.cache[d.lines[n].pc].idx = d.lines[n].idx
                      /\ d.lines[n].fresh => Maps(space, d.cache[d.lines[n].pc].src)
    BY Zenon DEF LinesAgree
  <2>1. d.lines[n] = j.lines[n] /\ (n = Dslot[b.pc] => j.lines[n].pc # b.pc)
    BY <1>5, <1>6 DEF NoLine
  <2>2. /\ Dslot[j.lines[n].pc] = n /\ j.cache[j.lines[n].pc] # NoEntry
        /\ j.cache[j.lines[n].pc].idx = j.lines[n].idx
        /\ j.lines[n].fresh => Maps(space, j.cache[j.lines[n].pc].src)
    BY <1>9, <2>1 DEF LinesAgree
  <2>3. j.lines[n].pc \in Pcs /\ j.lines[n].pc # b.pc
    <3>1. j.lines \in [Lines -> Line]
      BY <1>1, FieldType
    <3>2. j.lines[n] \in Line
      BY <3>1
    <3>3. j.lines[n].pc \in Pcs
      BY <2>1, <3>2 DEF Line, NoLine
    <3> QED
      BY <2>1, <2>2, <3>3
  <2>4. d.cache[j.lines[n].pc] = j.cache[j.lines[n].pc]
    BY <1>5, <1>7, <2>3
  <2> QED
    BY <2>1, <2>2, <2>4
<1>10. Stays(d, j, b.pc, idx)
  <2>1. d.slot_owner = c.slot_owner /\ d.regions = c.regions /\ d.exits = c.exits
    BY <1>6 DEF Same, JitFields
  <2> QED
    BY <1>5, <2>1 DEF Stays
<1>11. /\ d.cache[b.pc] = e /\ \A x \in Pcs : x # b.pc => d.cache[x] = j.cache[x]
  BY <1>5, <1>7
<1> QED
  BY <1>3, <1>4, <1>7, <1>8, <1>9, <1>10, <1>11 DEF Installed, Follows

-----------------------------------------------------------------------------
(* A compile lands.                                                        *)

(* A run of slots without an owner is given to one that had none.          *)
LEMMA TrackSound ==
  ASSUME NEW j, Sound(j, {}, {}, 0, {}), NEW t \in Tickets, ~owns(j, t),
         NEW run \in SUBSET Slots, run # {}, \A s \in run : j.slot_owner[s] = 0
  PROVE  LET i == track_owner(j, t, run) IN
         /\ Sound(i, run, {}, 0, {}) /\ Same(i, j, {"slot_owner", "live", "cold"})
         /\ \A s \in Slots : i.slot_owner[s] = IF s \in run THEN t ELSE j.slot_owner[s]
         /\ \A s \in run : users(i, s) = {} /\ i.regions[s] = {} /\ i.exits[s] = NoExits
         /\ j.module_owner[t] = <<>>
<1> DEFINE so == [s \in Slots |-> IF s \in run THEN t ELSE j.slot_owner[s]]
           c == Append(RemoveFirst(j.cold, t), t)
           lv == j.live \cup run
           k == [j EXCEPT !.slot_owner = so, !.live = lv]
           i == [k EXCEPT !.cold = c]
<1>1. /\ j \in JitStates /\ DOMAIN j = JitFields /\ j.cache \in [Pcs -> Entry]
      /\ j.slot_owner \in [Slots -> Tickets \cup {0}] /\ j.live \in SUBSET Slots
      /\ j.cold \in Seq(Tickets)
  BY FieldType DEF Sound
<1>2. t # 0 /\ Tickets \subseteq Nat
  BY TicketType
<1>3. /\ c \in Seq(Tickets) /\ Once(c) /\ \A x : Holds(c, x) <=> Holds(j.cold, x) \/ x = t
  <2>1. Once(j.cold)
    BY DEF Sound, ColdOwners
  <2> QED
    BY <1>1, <1>2, <2>1, MadeWarmest
<1> HIDE DEF c
<1>4. track_owner(j, t, run) = i
  <2>1. [s \in Slots |-> IF s \in run THEN t ELSE j.slot_owner[s]] = so /\ k.cold = j.cold
    BY <1>1 DEF JitFields
  <2> QED
    BY <1>1, <2>1 DEF track_owner, update_owner_recency, c, JitFields
<1>5. so \in [Slots -> Tickets \cup {0}] /\ lv \in SUBSET Slots
  BY <1>1
<1>6. \A s \in Slots : so[s] = IF s \in run THEN t ELSE j.slot_owner[s]
  OBVIOUS
<1> HIDE DEF so, lv
<1>7. i \in JitStates
  BY <1>1, <1>3, <1>5 DEF JitStates
<1>8. /\ Same(i, j, {"slot_owner", "live", "cold"})
      /\ i.slot_owner = so /\ i.live = lv /\ i.cold = c
  BY <1>1 DEF Same, JitFields
<1> HIDE DEF i
<1>9. /\ i.cache = j.cache /\ i.refs = j.refs /\ i.owner_entries = j.owner_entries
      /\ i.module_owner = j.module_owner /\ i.modules = j.modules /\ i.regions = j.regions
      /\ i.exits = j.exits /\ i.ext_queue = j.ext_queue /\ i.page_blocks = j.page_blocks
  BY <1>8 DEF Same, JitFields
<1>10. /\ CountsRefs(j) /\ EntriesOwned(j) /\ SlotsUsed(j, {}) /\ LiveOwned(j) /\ IdleClean(j)
       /\ EntriesListed(j, {}) /\ ModulesOwned(j, 0) /\ ColdOwners(j)
       /\ Indexed(j, {}) /\ RegionsCover(j) /\ ExitsCover(j)
  BY DEF Sound
<1>11. \A s : users(i, s) = users(j, s)
  BY <1>9 DEF users
<1>12. \A pc \in Pcs : j.cache[pc].idx > 0 => j.cache[pc].idx \in Slots /\ j.cache[pc].idx \notin run
  <2>1. \A pc \in Pcs : j.cache[pc].idx > 0 => j.cache[pc].idx \in Slots
    BY <1>1, EntryType
  <2> QED
    BY <1>10, <2>1 DEF EntriesOwned
<1>13. \A o \in Tickets : owns(i, o) <=> owns(j, o) \/ o = t
  BY <1>2, <1>6, <1>8, TicketType DEF owns
<1>14. j.module_owner[t] = <<>>
  BY <1>10 DEF ModulesOwned
<1>15. CountsRefs(i) /\ EntriesOwned(i) /\ SlotsUsed(i, run) /\ LiveOwned(i) /\ IdleClean(i)
  <2>1. CountsRefs(i) /\ SlotsUsed(i, run)
    BY <1>6, <1>8, <1>9, <1>10, <1>11 DEF CountsRefs, SlotsUsed
  <2>2. EntriesOwned(i)
    BY <1>6, <1>8, <1>9, <1>10, <1>12 DEF EntriesOwned
  <2>3. LiveOwned(i) /\ IdleClean(i)
    BY <1>2, <1>6, <1>8, <1>9, <1>10 DEF LiveOwned, IdleClean, lv
  <2> QED
    BY <2>1, <2>2, <2>3
<1>16. EntriesListed(i, {}) /\ ModulesOwned(i, 0) /\ ColdOwners(i)
  <2>1. EntriesListed(i, {})
    <3>1. \A pc \in Pcs : j.cache[pc].idx > 0 => i.slot_owner[j.cache[pc].idx] = j.slot_owner[j.cache[pc].idx]
      BY <1>6, <1>8, <1>12
    <3> QED
      BY <1>9, <1>10, <3>1 DEF EntriesListed
  <2>2. ModulesOwned(i, 0)
    BY <1>9, <1>10, <1>13 DEF ModulesOwned
  <2>3. ColdOwners(i)
    BY <1>3, <1>8, <1>10, <1>13 DEF ColdOwners
  <2> QED
    BY <2>1, <2>2, <2>3
<1>17. Indexed(i, {}) /\ RegionsCover(i) /\ ExitsCover(i)
  <2>1. \A x \in Pcs : block_physical_pages(i, x, i.cache[x]) = block_physical_pages(j, x, j.cache[x])
    BY <1>9, SamePages
  <2>2. Indexed(i, {})
    BY <1>9, <1>10, <2>1, Zenon DEF Indexed
  <2>3. RegionsCover(i) /\ ExitsCover(i)
    BY <1>9, <1>10 DEF RegionsCover, Covering, ExitsCover, users
  <2> QED
    BY <2>2, <2>3
<1>18. \A s \in run : users(i, s) = {} /\ i.regions[s] = {} /\ i.exits[s] = NoExits
  <2> SUFFICES ASSUME NEW s \in run
               PROVE  users(j, s) = {} /\ i.regions[s] = {} /\ i.exits[s] = NoExits
    BY <1>11
  <2>1. i.regions[s] = {} /\ i.exits[s] = NoExits
    BY <1>9, <1>10 DEF IdleClean
  <2> QED
    BY <1>12, <2>1, SlotPositive DEF users
<1> QED
  BY <1>4, <1>6, <1>7, <1>8, <1>14, <1>15, <1>16, <1>17, <1>18 DEF Sound

(* A trace of one page lands on a slot that is no region's.                *)
Landable(j, idx) == j.slot_owner[idx] # 0 /\ j.regions[idx] = {} /\ j.exits[idx] = NoExits

(* A trace of one page is landed.                                        *)
LEMMA InstallTrace ==
  ASSUME NEW j, NEW Unused, NEW Prior, Sound(j, Unused, {}, Prior, {}),
         NEW b \in Trace, Single(b.pc, b.src), NEW idx \in Slots, Landable(j, idx)
  PROVE  LET r == install(j, b, idx, FALSE) IN
         Sound(r, Unused, {}, Prior, {}) /\ Installed(r, j, b, idx)
<1>1. b.pc \in Pcs /\ b.src \in SUBSET Source
  BY DEF Trace
<1>2. ~(Cardinality(b.src) > 1)
  <2>1. PICK s : b.src = {s}
    BY DEF Single
  <2>2. Cardinality({s}) = 1
    BY FS_Singleton
  <2>3. Cardinality(b.src) = 1
    BY <2>1, <2>2
  <2> QED
    BY <2>3
<1>3. Installable(j, b.pc, idx, b.src)
  BY DEF Installable, Covering, Landable
<1>4. /\ Sound(install(j, b, idx, FALSE), Unused \ {idx}, {}, Prior, {})
      /\ Installed(install(j, b, idx, FALSE), j, b, idx)
  BY <1>1, <1>2, <1>3, InstallSound
<1> QED
  BY <1>4, MoreUnused

(* land_block: the trace is landed, or the entry that is there stays.    *)
LEMMA LandBlockSound ==
  ASSUME NEW j, NEW Unused, NEW Prior, Sound(j, Unused, {}, Prior, {}),
         NEW b \in Trace, Single(b.pc, b.src), NEW idx \in Slots, Landable(j, idx)
  PROVE  LET r == land_block(j, b, idx) IN
         Sound(r, Unused, {}, Prior, {}) /\ (r = j \/ Installed(r, j, b, idx))
BY InstallTrace DEF land_block

-----------------------------------------------------------------------------
(* The loops over the members of a module.                                 *)

(* The largest of some indexes is one of them.                             *)
LEMMA MaxIn ==
  ASSUME NEW n \in Nat, NEW s \in SUBSET (1 .. n), s # {}
  PROVE  Max(s) \in s
<1> DEFINE T == {m \in Nat : n - m \in s}
<1>1. PICK x \in s : TRUE
  OBVIOUS
<1>2. T \in SUBSET Nat /\ n - x \in T
  <2>1. n - x \in Nat /\ n - (n - x) = x
    BY <1>1
  <2> QED
    BY <1>1, <2>1
<1> HIDE DEF T
<1>3. PICK m \in T : \A k \in T : m <= k
  BY <1>2, LeastNat
<1>4. n - m \in s /\ m \in Nat
  BY <1>3 DEF T
<1>5. ASSUME NEW y \in s
      PROVE  n - m >= y
  <2>1. n - y \in Nat /\ n - (n - y) = y
    OBVIOUS
  <2>2. n - y \in T
    BY <2>1 DEF T
  <2>3. m <= n - y
    BY <1>3, <2>2
  <2> QED
    BY <1>4, <2>1, <2>3
<1> QED
  BY <1>4, <1>5, Zenon DEF Max

(* What the landings of the members keep, one after the other.             *)
LEMMA LandFold ==
  ASSUME NEW c, NEW D, c.members \in Seq(Trace), D = DOMAIN c.members, NEW at, NEW base \in JitStates,
         NEW R, <<{}, base>> \in R,
         \A s \in SUBSET D : \A x \in s : \A v \in JitStates :
           <<s \ {x}, v>> \in R => land_member(v, c, x, at) \in JitStates /\ <<s, land_member(v, c, x, at)>> \in R
  PROVE  <<D, complete_batch_landing(base, c, at)>> \in R
<1> DEFINE V == JitStates
           pick == [s \in SUBSET D |-> Max(s)]
           H == [p \in D \X V |-> IF land_member(p[2], c, p[1], at) \in V THEN land_member(p[2], c, p[1], at) ELSE base]
           body(it) == [s \in SUBSET D |->
                          IF s = {} THEN base
                          ELSE land_member(it[s \ {Max(s)}], c, [n \in DOMAIN c.members |-> n][Max(s)], at)]
           it == CHOOSE i : i = body(i)
<1>0. IsFiniteSet(D) /\ D = 1 .. Len(c.members)
  BY Indexes
<1>1. complete_batch_landing(base, c, at) = it[D]
  BY Zenon DEF complete_batch_landing, FoldLeftDomain, FoldLeft, MapThenFoldSet
<1>2. H \in [D \X V -> V]
  OBVIOUS
<1>3. \A s \in SUBSET D : s # {} => pick[s] \in s /\ pick[s] = Max(s)
  <2> SUFFICES ASSUME NEW s \in SUBSET D, s # {}
               PROVE  Max(s) \in s
    OBVIOUS
  <2>1. s \in SUBSET (1 .. Len(c.members)) /\ Len(c.members) \in Nat
    BY <1>0, LenProperties
  <2> QED
    BY <2>1, MaxIn
<1>4. ASSUME NEW s \in SUBSET D, NEW x \in s, NEW v \in V, <<s \ {x}, v>> \in R
      PROVE  H[<<x, v>>] = land_member(v, c, x, at) /\ <<s, land_member(v, c, x, at)>> \in R
  <2>1. land_member(v, c, x, at) \in V /\ <<s, land_member(v, c, x, at)>> \in R /\ <<x, v>> \in D \X V
    BY <1>4
  <2> QED
    BY <2>1
<1> HIDE DEF H, pick, V
<1>5. PICK i \in [SUBSET D -> V] : Folded(i, D, V, base, H, pick, R)
  <2>1. base \in V
    BY DEF V
  <2>2. \A s \in SUBSET D : \A x \in s : \A v \in V :
          <<s \ {x}, v>> \in R => <<s, H[<<x, v>>]>> \in R
    BY <1>4, Zenon
  <2>3. \A s \in SUBSET D : s # {} => pick[s] \in s
    BY <1>3
  <2> QED
    BY <1>0, <1>2, <2>1, <2>2, <2>3, FoldSolved, Zenon
<1>6. i = body(i)
  <2>1. ASSUME NEW s \in SUBSET D, s # {}
        PROVE  i[s] = land_member(i[s \ {pick[s]}], c, pick[s], at)
    <3> DEFINE m == pick[s]  v == i[s \ {pick[s]}]
    <3>1. m \in s /\ v \in V /\ <<s \ {m}, v>> \in R /\ i[s] = H[<<m, v>>]
      BY <1>5, <2>1 DEF Folded
    <3> HIDE DEF m, v
    <3>2. H[<<m, v>>] = land_member(v, c, m, at)
      BY <1>4, <3>1
    <3>3. i[s] = land_member(v, c, m, at)
      BY <3>1, <3>2
    <3> QED
      BY <3>3 DEF m, v
  <2>2. ASSUME NEW s \in SUBSET D
        PROVE  i[s] = body(i)[s]
    <3>1. CASE s = {}
      BY <1>5, <3>1 DEF Folded
    <3>2. CASE s # {}
      <4>1. Max(s) = pick[s] /\ Max(s) \in D
        BY <1>3, <3>2
      <4>2. land_member(i[s \ {Max(s)}], c, [n \in DOMAIN c.members |-> n][Max(s)], at) = land_member(i[s \ {Max(s)}], c, Max(s), at)
        BY <4>1
      <4> QED
        BY <2>1, <3>2, <4>1, <4>2
    <3> QED
      BY <3>1, <3>2
  <2> QED
    BY <1>5, <2>2
<1>7. it = body(it)
  <2> HIDE DEF body
  <2>1. \E k : k = body(k)
    BY <1>6
  <2> QED
    BY <2>1, Zenon
<1> HIDE DEF it
<1>8. it[{}] = base /\ \A s \in SUBSET D : s # {} => it[s] = land_member(it[s \ {pick[s]}], c, pick[s], at)
  <2>1. ASSUME NEW s \in SUBSET D, s # {}
        PROVE  it[s] = land_member(it[s \ {pick[s]}], c, pick[s], at)
    <3>1. Max(s) = pick[s] /\ Max(s) \in D
      BY <1>3, <2>1
    <3>2. land_member(it[s \ {Max(s)}], c, [n \in DOMAIN c.members |-> n][Max(s)], at) = land_member(it[s \ {Max(s)}], c, Max(s), at)
      BY <3>1
    <3>3. it[s] = land_member(it[s \ {Max(s)}], c, [n \in DOMAIN c.members |-> n][Max(s)], at)
      BY <1>7, <2>1
    <3> QED
      BY <3>1, <3>2, <3>3
  <2>2. it[{}] = base
    BY <1>7
  <2> QED
    BY <2>1, <2>2
<1> DEFINE Rt == R \cap ((SUBSET D) \X V)
<1>9. <<{}, it[{}]>> \in Rt
  BY <1>8 DEF V
<1>10. ASSUME NEW s \in SUBSET D, s # {}
       PROVE  \E m \in s : <<s \ {m}, it[s \ {m}]>> \in Rt => <<s, it[s]>> \in Rt
  <2>1. pick[s] \in s
    BY <1>3, <1>10
  <2> SUFFICES ASSUME <<s \ {pick[s]}, it[s \ {pick[s]}]>> \in Rt
               PROVE  <<s, it[s]>> \in Rt
    BY <2>1
  <2>2. it[s] = land_member(it[s \ {pick[s]}], c, pick[s], at)
    BY <1>8, <1>10
  <2> DEFINE m == pick[s]  v == it[s \ {pick[s]}]
  <2>3. m \in s /\ v \in JitStates /\ <<s \ {m}, v>> \in R /\ it[s] = land_member(v, c, m, at)
    BY <2>1, <2>2 DEF V
  <2> HIDE DEF m, v
  <2>4. it[s] \in V /\ <<s, it[s]>> \in R
    BY <2>3 DEF V
  <2> QED
    BY <2>4
<1> HIDE DEF body, Rt
<1>11. <<D, it[D]>> \in Rt
  BY <1>0, <1>9, <1>10, FoldHolds
<1> QED
  BY <1>1, <1>11 DEF Rt

(* The slot a member of a module is entered at.                            *)
slot(c, n, at) == IF c.kind = "page" THEN at ELSE at + n - 1

(* Entries go, come from B, or are as they were.                           *)
LandedFrom(i, j, B) ==
  \A x \in Pcs : \/ i.cache[x] \in {j.cache[x], NoEntry}
                 \/ \E b \in B : b.pc = x /\ i.cache[x].src = b.src

(* What one landing after the other leaves of the entries.                 *)
LEMMA LandedOn ==
  ASSUME NEW i, NEW j, NEW k, NEW B, NEW b \in B, NEW idx,
         LandedFrom(j, k, B), i = j \/ Installed(i, j, b, idx)
  PROVE  LandedFrom(i, k, B)
<1>1. CASE i = j
  BY <1>1
<1>2. CASE Installed(i, j, b, idx)
  <2> SUFFICES ASSUME NEW x \in Pcs
               PROVE  \/ i.cache[x] \in {k.cache[x], NoEntry}
                      \/ \E d \in B : d.pc = x /\ i.cache[x].src = d.src
    BY DEF LandedFrom
  <2>1. CASE x = b.pc
    BY <1>2, <2>1 DEF Installed
  <2>2. CASE x # b.pc
    BY <1>2, <2>2 DEF Installed, LandedFrom
  <2> QED
    BY <2>1, <2>2
<1> QED
  BY <1>1, <1>2

(* A slot where a trace can land, with no entry but those of its module.   *)
Open(j, c, n, at) ==
  Landable(j, slot(c, n, at)) /\ (c.kind = "page" \/ users(j, slot(c, n, at)) = {})

(* One member lands: the slots of the others stay open.                    *)
LEMMA LandMemberSound ==
  ASSUME NEW j, NEW Unused, NEW Prior, Sound(j, Unused, {}, Prior, {}),
         NEW c, c.members \in Seq(Trace), NEW n \in DOMAIN c.members, NEW at,
         Single(c.members[n].pc, c.members[n].src), at \in Int,
         \A m \in DOMAIN c.members : slot(c, m, at) \in Slots,
         Open(j, c, n, at)
  PROVE  LET r == land_member(j, c, n, at) IN
         /\ Sound(r, Unused, {}, Prior, {})
         /\ r = j \/ Installed(r, j, c.members[n], slot(c, n, at))
         /\ Follows(r, j)
         /\ \A m \in DOMAIN c.members : m # n /\ Open(j, c, m, at) => Open(r, c, m, at)
<1> DEFINE r == land_member(j, c, n, at)  b == c.members[n]  idx == slot(c, n, at)
<1>1. b \in Trace /\ Single(b.pc, b.src) /\ idx \in Slots /\ Landable(j, idx)
  BY ElementOfSeq, LenProperties DEF Open
<1>2. r = IF c.kind = "page" THEN install(j, b, idx, FALSE) ELSE land_block(j, b, idx)
  BY DEF land_member, slot
<1> HIDE DEF r, b, idx
<1>3. Sound(r, Unused, {}, Prior, {}) /\ (r = j \/ Installed(r, j, b, idx))
  <2>1. CASE c.kind = "page"
    <3>1. r = install(j, b, idx, FALSE)
      BY <1>2, <2>1
    <3> QED
      BY <1>1, <3>1, InstallTrace
  <2>2. CASE c.kind # "page"
    <3>1. r = land_block(j, b, idx)
      BY <1>2, <2>2
    <3> QED
      BY <1>1, <3>1, LandBlockSound
  <2> QED
    BY <2>1, <2>2
<1>4. Follows(r, j)
  <2>1. Follows(j, j)
    BY DEF Follows, Keeps, Weaker, Same
  <2> QED
    BY <1>3, <2>1 DEF Installed
<1>5. ASSUME NEW m \in DOMAIN c.members, m # n, Open(j, c, m, at), Installed(r, j, b, idx)
      PROVE  Open(r, c, m, at)
  <2> DEFINE k == slot(c, m, at)
  <2>1. k \in Slots /\ Landable(j, k) /\ (c.kind = "page" \/ users(j, k) = {})
    BY <1>5 DEF Open
  <2>2. /\ Stays(r, j, b.pc, idx) /\ r.cache[b.pc].idx = idx
        /\ \A x \in Pcs : x # b.pc => r.cache[x] = j.cache[x]
    BY <1>5 DEF Installed
  <2>3. b.pc \in Pcs
    BY <1>1 DEF Trace
  <2>4. CASE c.kind = "page"
    <3>1. k = idx
      BY <2>4 DEF slot, idx
    <3>2. Landable(r, k)
      BY <2>1, <2>2, <3>1 DEF Stays, Landable
    <3> QED
      BY <2>4, <3>2 DEF Open
  <2>5. CASE c.kind # "page"
    <3>1. k # idx
      <4>1. m \in Int /\ n \in Int
        BY LenProperties
      <4>2. k = at + m - 1 /\ idx = at + n - 1 /\ k \in Nat /\ idx \in Nat
        BY <1>1, <2>1, <2>5, OwnershipAssumption DEF slot, idx
      <4> QED
        BY <1>5, <4>1, <4>2
    <3>2. users(j, k) = {}
      BY <2>1, <2>5
    <3> HIDE DEF k
    <3>3. j.cache[b.pc].idx # k
      BY <2>3, <3>2 DEF users
    <3>4. users(r, k) = {}
      BY <2>2, <3>1, <3>2 DEF users
    <3>5. Landable(r, k)
      BY <2>1, <2>2, <3>3 DEF Stays, Landable
    <3> QED
      BY <2>5, <3>4, <3>5 DEF Open, k
  <2> QED
    BY <2>4, <2>5
<1> QED
  BY <1>3, <1>4, <1>5 DEF r, b, idx

(* The members of a batch or of a page module land one after the other.    *)
LEMMA LandAllSound ==
  ASSUME NEW j, NEW Unused, NEW Prior, Sound(j, Unused, {}, Prior, {}),
         NEW c, c.members \in Seq(Trace), NEW at \in Int,
         \A n \in DOMAIN c.members : /\ Single(c.members[n].pc, c.members[n].src)
                                     /\ slot(c, n, at) \in Slots /\ Open(j, c, n, at)
  PROVE  LET r == complete_batch_landing(j, c, at) IN
         Sound(r, Unused, {}, Prior, {}) /\ Follows(r, j) /\ LandedFrom(r, j, blocks_of(c))
<1> DEFINE D == DOMAIN c.members
           B == blocks_of(c)
           Q(s, v) == /\ Sound(v, Unused, {}, Prior, {}) /\ Follows(v, j) /\ LandedFrom(v, j, B)
                      /\ \A n \in D \ s : Open(v, c, n, at)
           R == {p \in (SUBSET D) \X JitStates : Q(p[1], p[2])}
<1>1. j \in JitStates
  BY DEF Sound
<1>2. Q({}, j)
  BY DEF Follows, Keeps, Weaker, Same, LandedFrom
<1>3. ASSUME NEW s \in SUBSET D, NEW x \in s, NEW v \in JitStates, Q(s \ {x}, v)
      PROVE  land_member(v, c, x, at) \in JitStates /\ Q(s, land_member(v, c, x, at))
  <2> DEFINE d == land_member(v, c, x, at)
  <2>1. /\ Sound(v, Unused, {}, Prior, {}) /\ Follows(v, j) /\ LandedFrom(v, j, B)
        /\ x \in D /\ Open(v, c, x, at) /\ \A n \in D \ s : Open(v, c, n, at) /\ n # x
    BY <1>3
  <2>2. /\ Sound(d, Unused, {}, Prior, {})
        /\ d = v \/ Installed(d, v, c.members[x], slot(c, x, at))
        /\ Follows(d, v)
        /\ \A m \in D : m # x /\ Open(v, c, m, at) => Open(d, c, m, at)
    BY <2>1, LandMemberSound
  <2> HIDE DEF d
  <2>3. c.members[x] \in B
    BY <2>1 DEF blocks_of
  <2>4. LandedFrom(d, j, B)
    <3> HIDE DEF B
    <3> QED
      BY <2>1, <2>2, <2>3, LandedOn
  <2>5. Follows(d, j)
    BY <2>1, <2>2, KeepsOn
  <2>6. \A n \in D \ s : Open(d, c, n, at)
    BY <2>1, <2>2
  <2>7. d \in JitStates
    BY <2>2 DEF Sound
  <2> QED
    BY <2>2, <2>4, <2>5, <2>6, <2>7 DEF d
<1> HIDE DEF Q
<1>4. <<{}, j>> \in R
  BY <1>1, <1>2
<1>5. \A s \in SUBSET D : \A x \in s : \A v \in JitStates :
        <<s \ {x}, v>> \in R => land_member(v, c, x, at) \in JitStates /\ <<s, land_member(v, c, x, at)>> \in R
  <2> SUFFICES ASSUME NEW s \in SUBSET D, NEW x \in s, NEW v \in JitStates, <<s \ {x}, v>> \in R
               PROVE  land_member(v, c, x, at) \in JitStates /\ <<s, land_member(v, c, x, at)>> \in R
    BY Zenon
  <2>1. Q(s \ {x}, v)
    OBVIOUS
  <2>2. land_member(v, c, x, at) \in JitStates /\ Q(s, land_member(v, c, x, at))
    BY <1>3, <2>1
  <2> QED
    BY <2>2
<1> HIDE DEF R
<1>6. <<D, complete_batch_landing(j, c, at)>> \in R
  BY <1>1, <1>4, <1>5, LandFold
<1>7. Q(D, complete_batch_landing(j, c, at))
  BY <1>6 DEF R
<1> QED
  BY <1>7 DEF Q

(* The entries of a region, one after the other.                           *)
enter_all(j, B, space, idx) == FoldSet(LAMBDA b, x : enter_region(x, b, space, idx), j, B)

(* What the entries of a region keep, one after the other.                 *)
LEMMA RegionFold ==
  ASSUME NEW space, NEW idx, NEW D, IsFiniteSet(D), NEW base \in JitStates,
         NEW R, <<{}, base>> \in R,
         \A s \in SUBSET D : \A x \in s : \A v \in JitStates :
           <<s \ {x}, v>> \in R => enter_region(v, x, space, idx) \in JitStates /\ <<s, enter_region(v, x, space, idx)>> \in R
  PROVE  <<D, enter_all(base, D, space, idx)>> \in R
<1> DEFINE V == JitStates
           pick == [s \in SUBSET D |-> CHOOSE x \in s : TRUE]
           H == [p \in D \X V |-> IF enter_region(p[2], p[1], space, idx) \in V THEN enter_region(p[2], p[1], space, idx) ELSE base]
           body(it) == [s \in SUBSET D |->
                          IF s = {} THEN base
                          ELSE enter_region(it[s \ {CHOOSE x \in s : TRUE}], CHOOSE x \in s : TRUE, space, idx)]
           it == CHOOSE i : i = body(i)
<1>1. enter_all(base, D, space, idx) = it[D]
  BY Zenon DEF enter_all, FoldSet, MapThenFoldSet
<1>2. H \in [D \X V -> V]
  OBVIOUS
<1>3. \A s \in SUBSET D : s # {} => pick[s] \in s /\ pick[s] = CHOOSE x \in s : TRUE
  OBVIOUS
<1>4. ASSUME NEW s \in SUBSET D, NEW x \in s, NEW v \in V, <<s \ {x}, v>> \in R
      PROVE  H[<<x, v>>] = enter_region(v, x, space, idx) /\ <<s, enter_region(v, x, space, idx)>> \in R
  <2>1. enter_region(v, x, space, idx) \in V /\ <<s, enter_region(v, x, space, idx)>> \in R /\ <<x, v>> \in D \X V
    BY <1>4
  <2> QED
    BY <2>1
<1> HIDE DEF H, pick, V
<1>5. PICK i \in [SUBSET D -> V] : Folded(i, D, V, base, H, pick, R)
  <2>1. base \in V
    BY DEF V
  <2>2. \A s \in SUBSET D : \A x \in s : \A v \in V :
          <<s \ {x}, v>> \in R => <<s, H[<<x, v>>]>> \in R
    BY <1>4, Zenon
  <2>3. \A s \in SUBSET D : s # {} => pick[s] \in s
    BY <1>3
  <2> QED
    BY <1>2, <2>1, <2>2, <2>3, FoldSolved, Zenon
<1>6. i = body(i)
  <2>1. ASSUME NEW s \in SUBSET D, s # {}
        PROVE  i[s] = enter_region(i[s \ {pick[s]}], pick[s], space, idx)
    <3> DEFINE c == pick[s]  v == i[s \ {pick[s]}]
    <3>1. c \in s /\ v \in V /\ <<s \ {c}, v>> \in R /\ i[s] = H[<<c, v>>]
      BY <1>5, <2>1 DEF Folded
    <3> HIDE DEF c, v
    <3>2. H[<<c, v>>] = enter_region(v, c, space, idx)
      BY <1>4, <3>1
    <3>3. i[s] = enter_region(v, c, space, idx)
      BY <3>1, <3>2
    <3> QED
      BY <3>3 DEF c, v
  <2>2. \A s \in SUBSET D : i[s] = body(i)[s]
    BY <1>3, <1>5, <2>1 DEF Folded
  <2> QED
    BY <1>5, <2>2
<1>7. it = body(it)
  <2> HIDE DEF body
  <2>1. \E k : k = body(k)
    BY <1>6
  <2> QED
    BY <2>1, Zenon
<1> HIDE DEF it
<1>8. it[{}] = base /\ \A s \in SUBSET D : s # {} => it[s] = enter_region(it[s \ {pick[s]}], pick[s], space, idx)
  BY <1>3, <1>7
<1> DEFINE Rt == R \cap ((SUBSET D) \X V)
<1>9. <<{}, it[{}]>> \in Rt
  BY <1>8 DEF V
<1>10. ASSUME NEW s \in SUBSET D, s # {}
       PROVE  \E c \in s : <<s \ {c}, it[s \ {c}]>> \in Rt => <<s, it[s]>> \in Rt
  <2>1. pick[s] \in s
    BY <1>3, <1>10
  <2> SUFFICES ASSUME <<s \ {pick[s]}, it[s \ {pick[s]}]>> \in Rt
               PROVE  <<s, it[s]>> \in Rt
    BY <2>1
  <2>2. it[s] = enter_region(it[s \ {pick[s]}], pick[s], space, idx)
    BY <1>8, <1>10
  <2> DEFINE c == pick[s]  v == it[s \ {pick[s]}]
  <2>3. c \in s /\ v \in JitStates /\ <<s \ {c}, v>> \in R /\ it[s] = enter_region(v, c, space, idx)
    BY <2>1, <2>2 DEF V
  <2> HIDE DEF c, v
  <2>4. it[s] \in V /\ <<s, it[s]>> \in R
    BY <2>3 DEF V
  <2> QED
    BY <2>4
<1> HIDE DEF body, Rt
<1>11. <<D, it[D]>> \in Rt
  BY <1>9, <1>10, FoldHolds
<1> QED
  BY <1>1, <1>11 DEF Rt

(* A finite set with an element and no more than one is that element's.    *)
LEMMA OneElement ==
  ASSUME NEW S, IsFiniteSet(S), NEW s \in S, ~(Cardinality(S) > 1)
  PROVE  S = {s}
<1>1. /\ IsFiniteSet(S \ {s}) /\ Cardinality(S) \in Nat \ {0}
      /\ Cardinality(S \ {s}) = Cardinality(S) - 1
  BY OneLess, FS_RemoveElement
<1>2. Cardinality(S \ {s}) = 0
  BY <1>1
<1>3. S \ {s} = {}
  BY <1>1, <1>2, FS_EmptySet
<1> QED
  BY <1>3

(* The slot of a region, whose entries are being installed.                *)
Entered(j, c, idx) ==
  /\ j.slot_owner[idx] # 0 /\ j.regions[idx] = IF Cardinality(c.src) > 1 THEN c.src ELSE {}
  /\ j.exits[idx] = [lead |-> 1, space |-> c.space, src |-> c.src,
                     entries |-> {b.pc : b \in blocks_of(c)}]

(* The pages a region was made from, and its entries on them.              *)
RegionTraces(c) ==
  /\ c.src \in SUBSET Source /\ IsFiniteSet(c.src) /\ Distinct(c.src)
  /\ c.members \in Seq(Trace) /\ c.space \in Spaces
  /\ \A b \in blocks_of(c) : b.src = c.src /\ \E s \in c.src : s.va = PageOf[b.pc]

(* One entry of a region is installed, or left to what has the pc.         *)
LEMMA EnterSound ==
  ASSUME NEW j, NEW Unused, NEW Prior, Sound(j, Unused, {}, Prior, {}),
         NEW c, RegionTraces(c), NEW b \in blocks_of(c), NEW idx \in Slots, Entered(j, c, idx)
  PROVE  LET r == enter_region(j, b, c.space, idx) IN
         /\ Sound(r, Unused, {}, Prior, {}) /\ Entered(r, c, idx) /\ Follows(r, j)
         /\ r = j \/ Installed(r, j, b, idx)
<1> DEFINE r == enter_region(j, b, c.space, idx)
<1>1. r = j \/ r = install(j, b, idx, TRUE)
  BY DEF enter_region
<1>2. CASE r = j
  BY <1>2 DEF Follows, Keeps, Weaker, Same
<1>3. CASE r = install(j, b, idx, TRUE)
  <2>1. b \in Trace
    BY ElementOfSeq, LenProperties DEF RegionTraces, blocks_of
  <2>2. b.pc \in Pcs /\ b.src \in SUBSET Source /\ b.src = c.src /\ c.src # {}
    BY <2>1 DEF Trace, RegionTraces
  <2>3. Covering(j, b.pc, idx, b.src)
    <3>1. CASE Cardinality(c.src) > 1
      <4>1. idx > 0
        BY OwnershipAssumption
      <4> QED
        BY <2>2, <3>1, <4>1 DEF Covering, Entered
    <3>2. CASE ~(Cardinality(c.src) > 1)
      <4>1. PICK s \in c.src : s.va = PageOf[b.pc]
        BY DEF RegionTraces
      <4>2. IsFiniteSet(c.src)
        BY DEF RegionTraces
      <4>6. c.src = {s}
        BY <3>2, <4>1, <4>2, OneElement, Zenon
      <4>7. Single(b.pc, b.src)
        BY <2>2, <4>1, <4>6 DEF Single
      <4>8. j.regions[idx] = {}
        BY <3>2 DEF Entered
      <4> QED
        BY <4>7, <4>8 DEF Covering
    <3> QED
      BY <3>1, <3>2
  <2>4. Installable(j, b.pc, idx, b.src)
    BY <2>3 DEF Installable, Entered
  <2>5. Cardinality(b.src) > 1 => j.regions[idx] = b.src
    BY <2>2 DEF Entered
  <2>6. Sound(r, Unused \ {idx}, {}, Prior, {}) /\ Installed(r, j, b, idx)
    <3>1. TRUE \in BOOLEAN /\ b.pc \in Pcs /\ b.src \in SUBSET Source
      BY <2>2
    <3>2. /\ Sound(install(j, b, idx, TRUE), Unused \ {idx}, {}, Prior, {})
          /\ Installed(install(j, b, idx, TRUE), j, b, idx)
      BY <2>4, <2>5, <3>1, InstallSound, Zenon
    <3> QED
      BY <1>3, <3>2
  <2> HIDE DEF r
  <2>7. Sound(r, Unused, {}, Prior, {})
    BY <2>6, MoreUnused
  <2>8. Entered(r, c, idx) /\ Follows(r, j)
    BY <2>6 DEF Installed, Stays, Entered
  <2> QED
    BY <2>6, <2>7, <2>8 DEF r
<1> QED
  BY <1>1, <1>2, <1>3

(* A region lands on a slot without entries.                               *)
LEMMA RegionLandingSound ==
  ASSUME NEW j, NEW Unused, NEW Prior, Sound(j, Unused, {}, Prior, {}),
         NEW c, RegionTraces(c), NEW idx \in Slots, j.slot_owner[idx] # 0, users(j, idx) = {}
  PROVE  LET r == complete_region_landing(j, c, idx) IN
         Sound(r, Unused, {}, Prior, {}) /\ Follows(r, j) /\ LandedFrom(r, j, blocks_of(c))
<1> DEFINE D == blocks_of(c)
           rg == IF Cardinality(c.src) > 1 THEN c.src ELSE {}
           ex == [lead |-> 1, space |-> c.space, src |-> c.src, entries |-> {b.pc : b \in D}]
           i == [j EXCEPT !.regions[idx] = rg, !.exits[idx] = ex]
           r == enter_all(i, D, c.space, idx)
<1>1. complete_region_landing(j, c, idx) = r
  BY Zenon DEF complete_region_landing, enter_all
<1>2. /\ j \in JitStates /\ DOMAIN j = JitFields
      /\ j.regions \in [Slots -> SUBSET Source] /\ j.exits \in [Slots -> Exits]
      /\ j.cache \in [Pcs -> Entry]
  BY FieldType DEF Sound
<1>3. \A b \in D : b \in Trace /\ b.pc \in Pcs
  <2> SUFFICES ASSUME NEW b \in D
               PROVE  b \in Trace /\ b.pc \in Pcs
    OBVIOUS
  <2>1. b \in Trace
    BY ElementOfSeq, LenProperties DEF RegionTraces, blocks_of
  <2> QED
    BY <2>1 DEF Trace
<1>4. IsFiniteSet(D)
  <2> DEFINE m == c.members
  <2>1. IsFiniteSet(DOMAIN m) /\ m \in Surjection(DOMAIN m, D)
    <3>1. DOMAIN m = 1 .. Len(m) /\ Len(m) \in Nat /\ IsFiniteSet(1 .. Len(m))
      <4>1. m \in Seq(Trace)
        BY DEF RegionTraces
      <4> HIDE DEF m
      <4> QED
        BY <4>1, Indexes
    <3>2. m = [n \in DOMAIN m |-> m[n]]
      BY <3>1 DEF RegionTraces
    <3> QED
      BY <3>1, <3>2 DEF Surjection, blocks_of
  <2> HIDE DEF m, D
  <2> QED
    BY <2>1, FS_Surjection
<1>5. rg \in SUBSET Source /\ ex \in Exits /\ ex # NoExits
  <2>1. ex.entries \in SUBSET Pcs
    BY <1>3
  <2> QED
    BY <2>1 DEF RegionTraces, Exits, NoExits
<1>6. ex.entries = {b.pc : b \in D} /\ ex.src = c.src
  OBVIOUS
<1> HIDE DEF rg, D
<1> HIDE DEF ex
<1>7. i \in JitStates
  <2> DEFINE k == [j EXCEPT !.regions[idx] = rg]
  <2>1. k \in JitStates /\ k.exits = j.exits
    BY <1>2, <1>5 DEF JitStates
  <2>2. i = [k EXCEPT !.exits[idx] = ex]
    OBVIOUS
  <2> HIDE DEF k, i
  <2>3. [k EXCEPT !.exits[idx] = ex] \in JitStates
    BY <1>2, <1>5, <2>1 DEF JitStates
  <2> QED
    BY <2>2, <2>3
<1>8. /\ Same(i, j, {"regions", "exits"})
      /\ \A s \in Slots : i.regions[s] = IF s = idx THEN rg ELSE j.regions[s]
      /\ \A s \in Slots : i.exits[s] = IF s = idx THEN ex ELSE j.exits[s]
  <2> DEFINE rs == [j.regions EXCEPT ![idx] = rg]  es == [j.exits EXCEPT ![idx] = ex]
  <2>1. i.regions = rs /\ i.exits = es /\ Same(i, j, {"regions", "exits"})
    BY <1>2 DEF Same, JitFields
  <2>2. /\ \A s \in Slots : rs[s] = IF s = idx THEN rg ELSE j.regions[s]
        /\ \A s \in Slots : es[s] = IF s = idx THEN ex ELSE j.exits[s]
    BY <1>2
  <2> HIDE DEF i, rs, es
  <2> QED
    BY <2>1, <2>2
<1> HIDE DEF i
<1>9. Entered(i, c, idx)
  <2>1. i.slot_owner = j.slot_owner
    BY <1>8 DEF Same, JitFields
  <2> QED
    BY <1>8, <2>1 DEF Entered, rg, D, ex
<1> HIDE DEF r
<1>10. Sound(i, Unused, {}, Prior, {}) /\ Follows(i, j) /\ i.cache = j.cache
  <2>1. /\ i.cache = j.cache /\ i.refs = j.refs /\ i.slot_owner = j.slot_owner /\ i.live = j.live
        /\ i.owner_entries = j.owner_entries /\ i.cold = j.cold /\ i.module_owner = j.module_owner
        /\ i.modules = j.modules /\ i.lines = j.lines
        /\ i.ext_queue = j.ext_queue /\ i.page_blocks = j.page_blocks
    BY <1>8 DEF Same, JitFields
  <2>2. /\ CountsRefs(j) /\ EntriesOwned(j) /\ SlotsUsed(j, Unused) /\ LiveOwned(j) /\ IdleClean(j)
        /\ EntriesListed(j, {}) /\ ModulesOwned(j, Prior) /\ ColdOwners(j)
        /\ Indexed(j, {}) /\ RegionsCover(j) /\ ExitsCover(j)
    BY DEF Sound
  <2>3. \A s : users(i, s) = users(j, s)
    BY <2>1 DEF users
  <2>4. \A x \in Pcs : j.cache[x].idx # idx /\ (j.cache[x].idx > 0 => j.cache[x].idx \in Slots)
    BY <1>2, EntryType DEF users
  <2>5. \A x \in Pcs : i.cache[x].idx > 0 => i.regions[i.cache[x].idx] = j.regions[i.cache[x].idx]
    BY <1>8, <2>1, <2>4
  <2>6. CountsRefs(i) /\ EntriesOwned(i) /\ SlotsUsed(i, Unused) /\ LiveOwned(i) /\ IdleClean(i)
    BY <1>8, <2>1, <2>2, <2>3 DEF CountsRefs, EntriesOwned, SlotsUsed, LiveOwned, IdleClean
  <2>7. EntriesListed(i, {}) /\ ModulesOwned(i, Prior) /\ ColdOwners(i)
    BY <2>1, <2>2 DEF EntriesListed, ModulesOwned, ColdOwners, owns
  <2>8. \A x \in Pcs : block_physical_pages(i, x, i.cache[x]) = block_physical_pages(j, x, j.cache[x])
    BY <2>1, <2>5, SamePages
  <2>9. Indexed(i, {})
    BY <2>1, <2>2, <2>8, Zenon DEF Indexed
  <2>10. RegionsCover(i)
    BY <2>1, <2>2, <2>5 DEF RegionsCover, Covering
  <2>11. ExitsCover(i)
    <3>1. users(i, idx) \subseteq ex.entries /\ Distinct(ex.src)
      BY <1>6, <2>3 DEF RegionTraces
    <3> QED
      BY <1>8, <2>2, <2>3, <3>1 DEF ExitsCover
  <2>12. Follows(i, j)
    <3>1. Keeps(i, j)
      BY <1>8, <2>1 DEF Keeps, Weaker, Same
    <3>2. \A space \in Spaces : LinesAgree(j, space) => LinesAgree(i, space)
      BY <2>1 DEF LinesAgree
    <3> QED
      BY <3>1, <3>2 DEF Follows
  <2> QED
    BY <1>7, <2>1, <2>6, <2>7, <2>9, <2>10, <2>11, <2>12 DEF Sound
<1> DEFINE Q(s, v) == /\ Sound(v, Unused, {}, Prior, {}) /\ Follows(v, j) /\ LandedFrom(v, j, D)
                      /\ Entered(v, c, idx)
           R == {p \in (SUBSET D) \X JitStates : Q(p[1], p[2])}
<1>11. Q({}, i)
  BY <1>9, <1>10 DEF LandedFrom
<1>12. ASSUME NEW s \in SUBSET D, NEW x \in s, NEW v \in JitStates, Q(s \ {x}, v)
       PROVE  enter_region(v, x, c.space, idx) \in JitStates /\ Q(s, enter_region(v, x, c.space, idx))
  <2> DEFINE d == enter_region(v, x, c.space, idx)
  <2>1. /\ Sound(v, Unused, {}, Prior, {}) /\ Follows(v, j) /\ LandedFrom(v, j, D)
        /\ Entered(v, c, idx) /\ x \in D /\ x \in blocks_of(c)
    BY <1>12 DEF D
  <2>2. /\ Sound(d, Unused, {}, Prior, {}) /\ Entered(d, c, idx) /\ Follows(d, v)
        /\ d = v \/ Installed(d, v, x, idx)
    BY <2>1, EnterSound
  <2> HIDE DEF d
  <2>3. LandedFrom(d, j, D)
    BY <2>1, <2>2, LandedOn
  <2>4. Follows(d, j)
    BY <2>1, <2>2, KeepsOn
  <2>5. d \in JitStates
    BY <2>2 DEF Sound
  <2> QED
    BY <2>2, <2>3, <2>4, <2>5 DEF d
<1> HIDE DEF Q
<1>13. <<{}, i>> \in R
  BY <1>7, <1>11
<1>14. \A s \in SUBSET D : \A x \in s : \A v \in JitStates :
         <<s \ {x}, v>> \in R => /\ enter_region(v, x, c.space, idx) \in JitStates
                                 /\ <<s, enter_region(v, x, c.space, idx)>> \in R
  <2> SUFFICES ASSUME NEW s \in SUBSET D, NEW x \in s, NEW v \in JitStates, <<s \ {x}, v>> \in R
               PROVE  /\ enter_region(v, x, c.space, idx) \in JitStates
                      /\ <<s, enter_region(v, x, c.space, idx)>> \in R
    BY Zenon
  <2>1. Q(s \ {x}, v)
    OBVIOUS
  <2>2. enter_region(v, x, c.space, idx) \in JitStates /\ Q(s, enter_region(v, x, c.space, idx))
    BY <1>12, <2>1
  <2> QED
    BY <2>2
<1> HIDE DEF R
<1>15. <<D, enter_all(i, D, c.space, idx)>> \in R
  BY <1>4, <1>7, <1>13, <1>14, RegionFold
<1>16. Q(D, r)
  BY <1>15 DEF R, r
<1> QED
  BY <1>1, <1>16 DEF Q, D

-----------------------------------------------------------------------------
(* The invariant.  Every entry, staged trace and compile carries what its  *)
(* pages were like when it was made.  An entry is of pages that are marked *)
(* and have had no write since, or are dirty; what waits to land may be    *)
(* out of date, but not without the write generation telling.              *)
Current(s, pg) == pg[s.pp].marked /\ (pg[s.pp].bytes = s.ver \/ pg[s.pp].dirty)
EntriesCurrent(j, pg) ==
  \A pc \in Pcs : j.cache[pc] # NoEntry => \A s \in j.cache[pc].src : Current(s, pg)
Fresh(s, pg) ==
  /\ s.gen <= pg[s.pp].gen
  /\ s.gen = pg[s.pp].gen => pg[s.pp].marked /\ ~pg[s.pp].dirty /\ pg[s.pp].bytes = s.ver
SoundTrace(b, pg) == b \in Trace /\ Single(b.pc, b.src) /\ \A s \in b.src : Fresh(s, pg)
SoundCompile(c, pg) ==
  /\ c.members \in Seq(Trace)
  /\ \/ c.kind = "block" /\ Len(c.members) = 1
     \/ c.kind = "batch" /\ Len(c.members) > 0
     \/ c.kind = "page" /\ c.key \in Keys
     \/ c.kind = "region" /\ RegionTraces(c)
  /\ c.kind # "region" => \A b \in blocks_of(c) : SoundTrace(b, pg)
StageSound(stage, pg) == \A n \in DOMAIN stage : SoundTrace(stage[n], pg)

(* A claim is its compile's, whose pages are as they were while it lasts.  *)
ClaimsHold(claims, P, pg) ==
  \A t \in DOMAIN P : P[t].kind = "region" =>
    \A s \in P[t].src : claims[<<P[t].space, s.va>>].ticket = t =>
       claims[<<P[t].space, s.va>>].page = s.pp /\ Current(s, pg)
ClaimsTracked(claims, P) ==
  \A k \in Keys : claims[k] # NoClaim =>
    /\ claims[k].ticket \in DOMAIN P
    /\ LET c == P[claims[k].ticket]
       IN  c.kind = "region" /\ c.space = k[1] /\ \E s \in c.src : s.va = k[2]
ModulesTracked(modules, P) ==
  \A k \in Keys : modules[k].is = "pending" =>
    /\ modules[k].ticket \in DOMAIN P
    /\ P[modules[k].ticket].kind = "page" /\ P[modules[k].ticket].key = k
OwnersAnswered(slot_owner, P, n) ==
  \A i \in Slots : slot_owner[i] <= n /\ slot_owner[i] \notin DOMAIN P

(* What a pc is covered by, and how often.                                 *)
covers(b, space, pc) == b.space = space /\ pc \in b.cover
CoveringIn(s, space, pc) == {n \in DOMAIN s : covers(s[n], space, pc)}
CoveringPending(P, space, pc) ==
  UNION {{<<t, n>> : n \in CoveringIn(P[t].members, space, pc)} : t \in DOMAIN P}
CoverageHolds(coverage, stage, P) ==
  \A space \in Spaces, pc \in Pcs :
    coverage[<<space, pc>>] =
      Cardinality(CoveringIn(stage, space, pc)) + Cardinality(CoveringPending(P, space, pc))

PendingSound(j, P, pg, n) ==
  /\ DOMAIN P \subseteq 1 .. n
  /\ \A t \in DOMAIN P : SoundCompile(P[t], pg)
  /\ StageSound(j.stage, pg) /\ ClaimsHold(j.claims, P, pg) /\ ClaimsTracked(j.claims, P)
  /\ ModulesTracked(j.modules, P) /\ OwnersAnswered(j.slot_owner, P, n)
  /\ CoverageHolds(j.coverage, j.stage, P)

Holding(j, P, pg, space, n) ==
  /\ Sound(j, {}, {}, 0, {}) /\ LinesAgree(j, space) /\ EntriesCurrent(j, pg)
  /\ PendingSound(j, P, pg, n)

OwnershipInv ==
  /\ scope \in Scopes /\ satp \in Spaces /\ tickets \in 0 .. scope.issues
  /\ pages \in PageStates
  /\ Holding(jit, pending, pages, satp, tickets)

-----------------------------------------------------------------------------
(* What is under way, from step to step.                                   *)

(* Owners, pending modules and claims only go.                             *)
Tame(i, j) ==
  /\ \A s \in Slots : i.slot_owner[s] \in {j.slot_owner[s], 0}
  /\ \A k \in Keys : i.modules[k].is = "pending" =>
       j.modules[k].is = "pending" /\ i.modules[k].ticket = j.modules[k].ticket
  /\ \A k \in Keys : i.claims[k] \in {j.claims[k], NoClaim}
  /\ i.stage = j.stage /\ i.coverage = j.coverage

(* The compiles have no part in such a step.                               *)
LEMMA TamePending ==
  ASSUME NEW j, NEW i, NEW P, NEW pg, NEW n \in Nat, PendingSound(j, P, pg, n), Tame(i, j)
  PROVE  PendingSound(i, P, pg, n)
<1>1. 0 <= n /\ 0 \notin DOMAIN P
  BY DEF PendingSound
<1>2. ClaimsHold(i.claims, P, pg)
  <2> SUFFICES ASSUME NEW t \in DOMAIN P, P[t].kind = "region", NEW s \in P[t].src,
                      i.claims[<<P[t].space, s.va>>].ticket = t
               PROVE  i.claims[<<P[t].space, s.va>>].page = s.pp /\ Current(s, pg)
    BY Zenon DEF ClaimsHold
  <2> DEFINE k == <<P[t].space, s.va>>
  <2>1. k \in Keys
    <3>1. SoundCompile(P[t], pg)
      BY DEF PendingSound
    <3>2. RegionTraces(P[t])
      BY <3>1 DEF SoundCompile
    <3>3. s \in Source /\ P[t].space \in Spaces
      BY <3>2 DEF RegionTraces
    <3> QED
      BY <3>3 DEF Keys, Source
  <2>2. i.claims[k] \in {j.claims[k], NoClaim}
    BY <2>1 DEF Tame
  <2>3. i.claims[k] # NoClaim
    BY <1>1 DEF NoClaim
  <2>4. i.claims[k] = j.claims[k]
    BY <2>2, <2>3
  <2> QED
    BY <2>4 DEF PendingSound, ClaimsHold
<1>3. ClaimsTracked(i.claims, P)
  BY Zenon DEF PendingSound, ClaimsTracked, Tame
<1>4. ModulesTracked(i.modules, P)
  BY Zenon DEF PendingSound, ModulesTracked, Tame
<1>5. OwnersAnswered(i.slot_owner, P, n)
  <2> SUFFICES ASSUME NEW s \in Slots
               PROVE  i.slot_owner[s] <= n /\ i.slot_owner[s] \notin DOMAIN P
    BY DEF OwnersAnswered
  <2>1. i.slot_owner[s] \in {j.slot_owner[s], 0} /\ j.slot_owner[s] <= n /\ j.slot_owner[s] \notin DOMAIN P
    BY DEF PendingSound, OwnersAnswered, Tame
  <2> QED
    BY <1>1, <2>1
<1> QED
  BY <1>2, <1>3, <1>4, <1>5 DEF PendingSound, Tame

(* What keeps the indexes has no part in compiles.                       *)
LEMMA FollowsTame == ASSUME NEW j, NEW i, Follows(i, j) PROVE Tame(i, j)
<1>1. i.stage = j.stage /\ i.coverage = j.coverage /\ i.claims = j.claims
  BY DEF Follows, Keeps, Same, JitFields
<1> QED
  BY <1>1 DEF Follows, Keeps, Weaker, Tame

(* Pages that are marked or written to: what was current or fresh is.      *)
Ages(q, pg) == \A s \in Source : (Current(s, pg) => Current(s, q)) /\ (Fresh(s, pg) => Fresh(s, q))

(* Entries, the stage and compiles stay as sound as they were.           *)
LEMMA AgesSound ==
  ASSUME NEW q, NEW pg, Ages(q, pg), NEW j \in JitStates, NEW P, NEW n
  PROVE  /\ EntriesCurrent(j, pg) => EntriesCurrent(j, q)
         /\ PendingSound(j, P, pg, n) => PendingSound(j, P, q, n)
<1>1. ASSUME EntriesCurrent(j, pg)
      PROVE  EntriesCurrent(j, q)
  <2> SUFFICES ASSUME NEW pc \in Pcs, j.cache[pc] # NoEntry, NEW s \in j.cache[pc].src
               PROVE  Current(s, q)
    BY DEF EntriesCurrent
  <2>1. j.cache \in [Pcs -> Entry]
    BY FieldType
  <2>2. j.cache[pc] \in Entry
    BY <2>1
  <2>3. s \in Source
    BY <2>2, EntryType
  <2> QED
    BY <1>1, <2>3 DEF EntriesCurrent, Ages
<1>2. ASSUME NEW b, SoundTrace(b, pg)
      PROVE  SoundTrace(b, q)
  BY <1>2 DEF SoundTrace, Trace, Ages
<1>3. ASSUME NEW c, SoundCompile(c, pg)
      PROVE  SoundCompile(c, q)
  BY <1>2, <1>3, Zenon DEF SoundCompile
<1>4. ASSUME PendingSound(j, P, pg, n)
      PROVE  PendingSound(j, P, q, n)
  <2>1. StageSound(j.stage, q) /\ \A t \in DOMAIN P : SoundCompile(P[t], q)
    BY <1>2, <1>3, <1>4, Zenon DEF PendingSound, StageSound
  <2>2. ClaimsHold(j.claims, P, q)
    <3> SUFFICES ASSUME NEW t \in DOMAIN P, P[t].kind = "region", NEW s \in P[t].src,
                        j.claims[<<P[t].space, s.va>>].ticket = t
                 PROVE  j.claims[<<P[t].space, s.va>>].page = s.pp /\ Current(s, q)
      BY Zenon DEF ClaimsHold
    <3>1. SoundCompile(P[t], pg) /\ j.claims[<<P[t].space, s.va>>].page = s.pp /\ Current(s, pg)
      BY <1>4, Zenon DEF PendingSound, ClaimsHold
    <3>2. s \in Source
      BY <3>1 DEF SoundCompile, RegionTraces
    <3> QED
      BY <3>1, <3>2 DEF Ages
  <2> QED
    BY <1>4, <2>1, <2>2 DEF PendingSound
<1> QED
  BY <1>1, <1>4

(* Marking pages, or writing to one, ages them.                            *)
LEMMA MarkAges ==
  ASSUME pages \in PageStates, NEW ps
  PROVE  code_mark(ps) \in PageStates /\ Ages(code_mark(ps), pages)
<1>1. \A p \in Physical : /\ pages[p] \in [marked : BOOLEAN, dirty : BOOLEAN, gen : Nat, bytes : Nat]
                          /\ [pages[p] EXCEPT !.marked = TRUE] \in
                               [marked : BOOLEAN, dirty : BOOLEAN, gen : Nat, bytes : Nat]
  BY DEF PageStates
<1>2. code_mark(ps) \in PageStates
  BY <1>1 DEF code_mark, PageStates
<1>3. \A p \in Physical : /\ code_mark(ps)[p].marked = (pages[p].marked \/ p \in ps)
                          /\ code_mark(ps)[p].dirty = pages[p].dirty
                          /\ code_mark(ps)[p].gen = pages[p].gen
                          /\ code_mark(ps)[p].bytes = pages[p].bytes
  BY <1>1 DEF code_mark
<1> DEFINE q == code_mark(ps)
<1> HIDE DEF q
<1>4. ASSUME NEW s \in Source
      PROVE  (Current(s, pages) => Current(s, q)) /\ (Fresh(s, pages) => Fresh(s, q))
  <2>1. s.pp \in Physical
    BY DEF Source
  <2> QED
    BY <1>3, <2>1 DEF Current, Fresh, q
<1> QED
  BY <1>2, <1>4 DEF Ages, q

(* A write to a page makes it dirty, and what was made of it no fresher. *)
LEMMA WriteAges ==
  ASSUME pages \in PageStates, NEW w \in Physical
  PROVE  note_page_write(w) \in PageStates /\ Ages(note_page_write(w), pages)
<1> DEFINE PageState == [marked : BOOLEAN, dirty : BOOLEAN, gen : Nat, bytes : Nat]
           x == pages[w]
           d == x.dirty \/ x.marked
           g == IF x.marked /\ ~x.dirty THEN x.gen + 1 ELSE x.gen
           v == x.bytes + 1
           y == [x EXCEPT !.bytes = v, !.dirty = d, !.gen = g]
           q == note_page_write(w)
<1>1. x \in PageState /\ \A p \in Physical : pages[p] \in PageState
  BY DEF PageStates
<1>2. /\ y \in PageState /\ y.marked = x.marked /\ (y.dirty <=> x.dirty \/ x.marked)
      /\ y.bytes = x.bytes + 1 /\ y.gen = IF x.marked /\ ~x.dirty THEN x.gen + 1 ELSE x.gen
  <2>1. d \in BOOLEAN /\ g \in Nat /\ v \in Nat
    BY <1>1
  <2>2. (d <=> x.dirty \/ x.marked) /\ v = x.bytes + 1
        /\ g = IF x.marked /\ ~x.dirty THEN x.gen + 1 ELSE x.gen
    OBVIOUS
  <2> HIDE DEF d, g, v, x
  <2>3. /\ y \in PageState /\ y.marked = x.marked /\ y.dirty = d /\ y.bytes = v /\ y.gen = g
    BY <1>1, <2>1
  <2> HIDE DEF y
  <2> QED
    BY <2>2, <2>3
<1>3. q = [pages EXCEPT ![w] = y]
  <2>1. q = [pages EXCEPT ![w] = [x EXCEPT !.bytes = x.bytes + 1, !.dirty = x.dirty \/ x.marked,
                                           !.gen = IF x.marked /\ ~x.dirty THEN x.gen + 1 ELSE x.gen]]
    BY DEF note_page_write
  <2> QED
    BY <2>1
<1> HIDE DEF y, q, x
<1>4. q \in PageStates /\ \A p \in Physical : q[p] = IF p = w THEN y ELSE pages[p]
  BY <1>2, <1>3 DEF PageStates
<1>5. ASSUME NEW s \in Source
      PROVE  (Current(s, pages) => Current(s, q)) /\ (Fresh(s, pages) => Fresh(s, q))
  <2>1. s.pp \in Physical /\ s.gen \in Nat
    BY DEF Source
  <2>2. CASE s.pp = w
    <3>1. q[s.pp] = y /\ pages[s.pp] = x
      BY <1>4, <2>1, <2>2 DEF x
    <3>2. Current(s, pages) => Current(s, q)
      BY <1>1, <1>2, <3>1 DEF Current
    <3>3. Fresh(s, pages) => Fresh(s, q)
      <4>1. x.gen \in Nat
        BY <1>1
      <4> QED
        BY <1>1, <1>2, <2>1, <3>1, <4>1 DEF Fresh
    <3> QED
      BY <3>2, <3>3
  <2>3. CASE s.pp # w
    <3>1. q[s.pp] = pages[s.pp]
      BY <1>4, <2>1, <2>3
    <3> QED
      BY <3>1 DEF Current, Fresh
  <2> QED
    BY <2>2, <2>3
<1> QED
  BY <1>4, <1>5 DEF Ages, q

(* What a compile is made from, once its pages are marked.                 *)
LEMMA SourceMade ==
  ASSUME pages \in PageStates, NEW page_set \in SUBSET (Virtual \X Physical), NEW ps
  PROVE  /\ source(page_set) \in SUBSET Source /\ IsFiniteSet(source(page_set))
         /\ \A s \in source(page_set) : <<s.va, s.pp>> \in page_set
         /\ \A p \in page_set : \E s \in source(page_set) : s.va = p[1] /\ s.pp = p[2]
         /\ \A s \in source(page_set) : s.pp \in ps =>
              Current(s, code_mark(ps)) /\ (drained => Fresh(s, code_mark(ps)))
         /\ (\A a, b \in page_set : a[1] = b[1] => a = b) => Distinct(source(page_set))
<1> DEFINE made(p) == [va |-> p[1], pp |-> p[2], gen |-> pages[p[2]].gen, ver |-> pages[p[2]].bytes]
           src == source(page_set)
<1>1. src = {made(p) : p \in page_set}
  BY DEF source
<1>2. \A p \in page_set : /\ p[1] \in Virtual /\ p[2] \in Physical /\ p = <<p[1], p[2]>>
                          /\ pages[p[2]].gen \in Nat /\ pages[p[2]].bytes \in Nat
                          /\ pages[p[2]].dirty \in BOOLEAN
  BY DEF PageStates
<1>3. \A p \in page_set : /\ made(p) \in Source /\ made(p).va = p[1] /\ made(p).pp = p[2]
                          /\ made(p).gen = pages[p[2]].gen /\ made(p).ver = pages[p[2]].bytes
  BY <1>2 DEF Source
<1>4. src \in SUBSET Source
  BY <1>1, <1>3
<1>5. IsFiniteSet(src)
  <2> DEFINE f == [p \in page_set |-> made(p)]
  <2>1. f \in Surjection(page_set, src)
    BY <1>1 DEF Surjection
  <2>2. IsFiniteSet(Virtual) /\ IsFiniteSet(Physical)
    BY Finite
  <2>3. IsFiniteSet(page_set)
    BY <2>2, FS_Product, FS_Subset
  <2> HIDE DEF f, src
  <2> QED
    BY <2>1, <2>3, FS_Surjection
<1>6. \A s \in src : \E p \in page_set : s = made(p)
  BY <1>1
<1> HIDE DEF src, made
<1>7. \A s \in src : <<s.va, s.pp>> \in page_set
  BY <1>2, <1>3, <1>6
<1>8. \A p \in page_set : \E s \in src : s.va = p[1] /\ s.pp = p[2]
  BY <1>1, <1>3
<1>9. ASSUME NEW s \in src, s.pp \in ps
      PROVE  Current(s, code_mark(ps)) /\ (drained => Fresh(s, code_mark(ps)))
  <2>1. PICK p \in page_set : s = made(p)
    BY <1>6
  <2>2. /\ code_mark(ps)[s.pp].marked /\ code_mark(ps)[s.pp].dirty = pages[s.pp].dirty
        /\ code_mark(ps)[s.pp].gen = pages[s.pp].gen /\ code_mark(ps)[s.pp].bytes = pages[s.pp].bytes
        /\ s.pp \in Physical
    BY <1>2, <1>3, <1>9, <2>1 DEF code_mark, PageStates
  <2>3. s.gen = pages[s.pp].gen /\ s.ver = pages[s.pp].bytes /\ s.gen \in Nat
    BY <1>2, <1>3, <2>1
  <2> QED
    BY <2>2, <2>3 DEF Current, Fresh, drained
<1>10. ASSUME \A a, b \in page_set : a[1] = b[1] => a = b
       PROVE  Distinct(src)
  BY <1>3, <1>6, <1>10 DEF Distinct
<1> QED
  BY <1>4, <1>5, <1>7, <1>8, <1>9, <1>10 DEF src

-----------------------------------------------------------------------------
(* Steps that compile nothing.                                             *)

(* Entries, owners and claims only go, in a sound way.                     *)
LEMMA TameHolds ==
  ASSUME NEW j, NEW P, NEW pg, NEW space \in Spaces, NEW n \in Nat, Holding(j, P, pg, space, n),
         NEW i, Sound(i, {}, {}, 0, {}), LinesAgree(i, space), Tame(i, j), Cuts(i, j)
  PROVE  Holding(i, P, pg, space, n)
<1>1. EntriesCurrent(i, pg)
  BY DEF EntriesCurrent, Cuts, Holding
<1>2. PendingSound(i, P, pg, n)
  BY TamePending DEF Holding
<1> QED
  BY <1>1, <1>2 DEF Holding

(* Entries are dropped with their lines.                                   *)
LEMMA WithoutHolds ==
  ASSUME NEW j, NEW P, NEW pg, NEW space \in Spaces, NEW n \in Nat, Holding(j, P, pg, space, n),
         NEW i, Sound(i, {}, {}, 0, {}), NEW D, Without(i, j, D)
  PROVE  Holding(i, P, pg, space, n)
<1>1. LinesAgree(i, space) /\ Tame(i, j) /\ Cuts(i, j)
  BY FollowsTame DEF Without, Follows, Cuts, Holding
<1> QED
  BY <1>1, TameHolds

(* What every step of the program keeps.                                   *)
Kept ==
  /\ satp' \in Spaces /\ tickets' \in 0 .. scope.issues /\ pages' \in PageStates
  /\ Holding(jit', pending', pages', satp', tickets')

(* The parts of the invariant.                                             *)
LEMMA Parts ==
  ASSUME OwnershipInv
  PROVE  /\ jit \in JitStates /\ DOMAIN jit = JitFields /\ satp \in Spaces /\ tickets \in Nat
         /\ pages \in PageStates /\ scope.issues \in 0 .. MaxTickets /\ scope.pcs \subseteq Pcs
         /\ Holding(jit, pending, pages, satp, tickets) /\ Sound(jit, {}, {}, 0, {})
         /\ LinesAgree(jit, satp) /\ EntriesCurrent(jit, pages)
         /\ PendingSound(jit, pending, pages, tickets)
<1>1. scope.issues \in 0 .. MaxTickets /\ scope.pcs \subseteq Pcs /\ MaxTickets \in Nat
  BY OwnershipAssumption DEF OwnershipInv
<1>2. jit \in JitStates /\ DOMAIN jit = JitFields
  BY FieldType DEF OwnershipInv, Holding, Sound
<1>3. tickets \in Nat
  BY <1>1 DEF OwnershipInv
<1> QED
  BY <1>1, <1>2, <1>3 DEF OwnershipInv, Holding

(* Steps of the JitState alone.                                            *)
LEMMA JitStep ==
  ASSUME OwnershipInv, UNCHANGED <<pending, pages, satp, tickets>>,
         Holding(jit', pending, pages, satp, tickets)
  PROVE  Kept
BY DEF Kept, OwnershipInv

(* The TLB refill is turned on.                                            *)
LEMMA FillKept == ASSUME OwnershipInv, EnableFill PROVE Kept
<1> DEFINE i == [jit EXCEPT !.fill = TRUE]
<1>1. /\ jit \in JitStates /\ DOMAIN jit = JitFields /\ satp \in Spaces /\ tickets \in Nat
      /\ Holding(jit, pending, pages, satp, tickets) /\ Sound(jit, {}, {}, 0, {})
      /\ LinesAgree(jit, satp)
  BY Parts
<1>2. i \in JitStates
  BY <1>1 DEF JitStates
<1>3. Same(i, jit, {"fill"})
  BY <1>1 DEF Same, JitFields
<1> HIDE DEF i
<1>4. /\ i.cache = jit.cache /\ i.lines = jit.lines /\ i.slot_owner = jit.slot_owner
      /\ i.modules = jit.modules
      /\ i.claims = jit.claims /\ i.stage = jit.stage /\ i.coverage = jit.coverage
  BY <1>3 DEF Same, JitFields
<1>5. Sound(i, {}, {}, 0, {})
  <2>1. Same(i, jit, {"lines", "modules", "superblocked", "claims", "stage", "coverage", "fill"})
    BY <1>3 DEF Same
  <2> QED
    BY <1>1, <1>2, <1>4, <2>1, SoundFields
<1>6. LinesAgree(i, satp) /\ Tame(i, jit) /\ Cuts(i, jit)
  BY <1>1, <1>4 DEF LinesAgree, Tame, Cuts
<1>7. Holding(i, pending, pages, satp, tickets)
  BY <1>1, <1>5, <1>6, TameHolds
<1> QED
  BY <1>7, JitStep DEF i, EnableFill

(* A call makes its owner the warmest.                                     *)
LEMMA TouchKept == ASSUME OwnershipInv, NEW pc \in Pcs, touch(pc) PROVE Kept
<1> DEFINE o == jit.slot_owner[jit.cache[pc].idx]
           c == Append(RemoveFirst(jit.cold, o), o)
           i == [jit EXCEPT !.cold = c]
<1>1. /\ jit \in JitStates /\ DOMAIN jit = JitFields /\ satp \in Spaces /\ tickets \in Nat
      /\ Holding(jit, pending, pages, satp, tickets) /\ Sound(jit, {}, {}, 0, {})
      /\ LinesAgree(jit, satp)
      /\ jit.cold \in Seq(Tickets) /\ jit.cache \in [Pcs -> Entry]
      /\ jit.slot_owner \in [Slots -> Tickets \cup {0}]
  BY Parts, FieldType
<1>2. jit' = i
  BY <1>1 DEF touch, update_owner_recency
<1>3. o \in Tickets /\ owns(jit, o)
  <2>1. jit.cache[pc].idx > 0
    BY DEF touch, cached
  <2>2. jit.cache[pc].idx \in Slots
    BY <1>1, <2>1, EntryType
  <2>3. o # 0
    BY <1>1, <2>1 DEF Sound, EntriesOwned
  <2> QED
    BY <1>1, <2>2, <2>3 DEF owns
<1> HIDE DEF o
<1>4. c \in Seq(Tickets) /\ Once(c) /\ \A x : Holds(c, x) <=> Holds(jit.cold, x) \/ x = o
  <2>1. Once(jit.cold) /\ Tickets \subseteq Nat
    BY <1>1, TicketType DEF Sound, ColdOwners
  <2> QED
    BY <1>1, <1>3, <2>1, MadeWarmest
<1> HIDE DEF c
<1>5. i \in JitStates /\ Same(i, jit, {"cold"}) /\ i.cold = c
  BY <1>1, <1>4 DEF JitStates, Same, JitFields
<1> HIDE DEF i
<1>6. /\ i.cache = jit.cache /\ i.refs = jit.refs /\ i.slot_owner = jit.slot_owner /\ i.live = jit.live
      /\ i.owner_entries = jit.owner_entries /\ i.module_owner = jit.module_owner
      /\ i.modules = jit.modules /\ i.regions = jit.regions /\ i.exits = jit.exits
      /\ i.ext_queue = jit.ext_queue /\ i.page_blocks = jit.page_blocks /\ i.lines = jit.lines
      /\ i.claims = jit.claims /\ i.stage = jit.stage /\ i.coverage = jit.coverage
  BY <1>5 DEF Same, JitFields
<1>7. Sound(i, {}, {}, 0, {})
  <2>1. CountsRefs(i) /\ EntriesOwned(i) /\ SlotsUsed(i, {}) /\ LiveOwned(i) /\ IdleClean(i)
    BY <1>1, <1>6 DEF Sound, CountsRefs, EntriesOwned, SlotsUsed, LiveOwned, IdleClean, users
  <2>2. EntriesListed(i, {}) /\ ModulesOwned(i, 0)
    BY <1>1, <1>6 DEF Sound, EntriesListed, ModulesOwned, owns
  <2>3. ColdOwners(i)
    BY <1>1, <1>3, <1>4, <1>5, <1>6 DEF Sound, ColdOwners, owns
  <2>4. Indexed(i, {})
    <3>1. \A x \in Pcs : block_physical_pages(i, x, i.cache[x]) = block_physical_pages(jit, x, jit.cache[x])
      BY <1>6, SamePages
    <3>2. Indexed(jit, {})
      BY <1>1 DEF Sound
    <3> QED
      BY <1>6, <3>1, <3>2, Zenon DEF Indexed
  <2>5. RegionsCover(i) /\ ExitsCover(i)
    BY <1>1, <1>6 DEF Sound, RegionsCover, Covering, ExitsCover, users
  <2> QED
    BY <1>5, <2>1, <2>2, <2>3, <2>4, <2>5 DEF Sound
<1>8. LinesAgree(i, satp) /\ Tame(i, jit) /\ Cuts(i, jit)
  BY <1>1, <1>6 DEF LinesAgree, Tame, Cuts
<1>9. Holding(i, pending, pages, satp, tickets)
  BY <1>1, <1>7, <1>8, TameHolds
<1> QED
  BY <1>2, <1>9, JitStep DEF touch

(* An entry is dropped for what its calls were like.                       *)
LEMMA DropKept == ASSUME OwnershipInv, NEW pc \in Pcs, DropEntry(pc) PROVE Kept
<1> DEFINE i == retire_entry(jit, pc)
<1>1. /\ Holding(jit, pending, pages, satp, tickets) /\ Sound(jit, {}, {}, 0, {})
      /\ satp \in Spaces /\ tickets \in Nat
  BY Parts
<1>2. Sound(i, {}, {}, 0, {}) /\ \E D \in SUBSET Pcs : pc \in D /\ Without(i, jit, D)
  BY <1>1, RetireEntrySound
<1>3. jit' = i
  BY DEF DropEntry
<1> HIDE DEF i
<1>4. Holding(i, pending, pages, satp, tickets)
  BY <1>1, <1>2, WithoutHolds
<1> QED
  BY <1>3, <1>4, JitStep DEF DropEntry

(* Changes of lines only, which stay in agreement with the cache.          *)
LEMMA LinesHold ==
  ASSUME NEW j, NEW P, NEW pg, NEW space \in Spaces, NEW n \in Nat, Holding(j, P, pg, space, n),
         NEW i \in JitStates, Same(i, j, {"lines"}), NEW to \in Spaces, LinesAgree(i, to)
  PROVE  Holding(i, P, pg, to, n)
<1>1. /\ i.cache = j.cache /\ i.slot_owner = j.slot_owner /\ i.modules = j.modules
      /\ i.claims = j.claims /\ i.stage = j.stage /\ i.coverage = j.coverage
  BY DEF Same, JitFields
<1>2. Sound(i, {}, {}, 0, {})
  BY LinesApart DEF Holding
<1>3. EntriesCurrent(i, pg)
  BY <1>1 DEF Holding, EntriesCurrent
<1>4. PendingSound(i, P, pg, n)
  BY <1>1 DEF Holding, PendingSound
<1> QED
  BY <1>2, <1>3, <1>4 DEF Holding

(* A line is filled with an entry whose pages map as they did, or the      *)
(* entry goes.                                                             *)
LEMMA LookupKept == ASSUME OwnershipInv, NEW pc \in Pcs, Lookup(pc) PROVE Kept
<1> DEFINE e == jit.cache[pc]
           gone == retire_entry(jit, pc)
           line == [pc |-> pc, idx |-> e.idx, fresh |-> TRUE]
           filled == [jit EXCEPT !.lines[Dslot[pc]] = line]
           cleared == [gone EXCEPT !.lines[Dslot[pc]] = NoLine]
<1>1. /\ Holding(jit, pending, pages, satp, tickets) /\ Sound(jit, {}, {}, 0, {})
      /\ satp \in Spaces /\ tickets \in Nat /\ LinesAgree(jit, satp)
      /\ jit \in JitStates /\ DOMAIN jit = JitFields
      /\ jit.lines \in [Lines -> Line] /\ jit.cache \in [Pcs -> Entry]
  BY Parts, FieldType
<1>2. /\ e # NoEntry /\ UNCHANGED <<pending, pages, satp, tickets>>
      /\ \/ jit' = filled /\ self_ok(pc, e) /\ region_ok(e)
         \/ jit' = gone
         \/ jit' = cleared
  BY DEF Lookup
<1>3. Sound(gone, {}, {}, 0, {}) /\ \E D \in SUBSET Pcs : pc \in D /\ Without(gone, jit, D)
  BY <1>1, RetireEntrySound
<1>4. Dslot[pc] \in Lines
  BY DEF Lines
<1> HIDE DEF gone, e
<1>5. Holding(gone, pending, pages, satp, tickets)
  BY <1>1, <1>3, WithoutHolds
<1>6. Holding(cleared, pending, pages, satp, tickets)
  <2>1. gone \in JitStates /\ DOMAIN gone = JitFields /\ gone.lines \in [Lines -> Line] /\ LinesAgree(gone, satp)
    BY <1>3, <1>5, FieldType DEF Sound, Holding
  <2>2. NoLine \in Line
    BY DEF Line
  <2>3. cleared \in JitStates /\ Same(cleared, gone, {"lines"})
    BY <1>4, <2>1, <2>2 DEF JitStates, Same, JitFields
  <2> DEFINE ls == [gone.lines EXCEPT ![Dslot[pc]] = NoLine]
  <2>4. cleared.lines = ls
    BY <2>1 DEF JitFields
  <2>5. \A n \in Lines : ls[n] = IF n = Dslot[pc] THEN NoLine ELSE gone.lines[n]
    BY <2>1
  <2> HIDE DEF cleared, ls
  <2>6. \A n \in Lines : cleared.lines[n] \in {gone.lines[n], NoLine}
    BY <2>4, <2>5
  <2>7. cleared.cache = gone.cache
    BY <2>3 DEF Same, JitFields
  <2>8. LinesAgree(cleared, satp)
    BY <2>1, <2>6, <2>7 DEF LinesAgree, NoLine
  <2> QED
    BY <1>1, <1>5, <2>3, <2>8, LinesHold DEF cleared
<1>7. ASSUME self_ok(pc, e), region_ok(e)
      PROVE  Holding(filled, pending, pages, satp, tickets)
  <2>1. e \in Entry /\ e.idx \in Slots \cup {0} /\ e = jit.cache[pc] /\ e.idx \in Int
    BY <1>1, <1>2, EntryType DEF e
  <2>2. Maps(satp, e.src)
    <3>1. Covering(jit, pc, e.idx, e.src)
      BY <1>1, <1>2, <2>1 DEF Sound, RegionsCover
    <3>2. CASE e.idx > 0 /\ jit.regions[e.idx] = e.src
      BY <1>7, <3>2 DEF region_ok, maps_as, Maps
    <3>3. CASE Single(pc, e.src)
      <4>1. PICK s \in e.src : e.src = {s} /\ s.va = PageOf[pc]
        BY <3>3 DEF Single
      <4>2. physical_page(pc, e.src) = s.pp
        <5>1. (CHOOSE x \in e.src : x.va = PageOf[pc]) = s
          BY <4>1
        <5> QED
          BY <5>1 DEF physical_page
      <4>3. Mapping[<<satp, PageOf[pc]>>] = s.pp
        BY <1>7, <4>2 DEF self_ok
      <4> QED
        BY <4>1, <4>3 DEF Maps
    <3> QED
      BY <3>1, <3>2, <3>3 DEF Covering
  <2>3. line \in Line
    BY <2>1 DEF Line
  <2>4. line.pc = pc /\ line.idx = e.idx /\ line.fresh
    OBVIOUS
  <2> HIDE DEF line
  <2>5. filled \in JitStates /\ Same(filled, jit, {"lines"})
    BY <1>1, <1>4, <2>3 DEF JitStates, Same, JitFields
  <2> DEFINE ls == [jit.lines EXCEPT ![Dslot[pc]] = line]
  <2>6. filled.lines = ls
    BY <1>1 DEF JitFields
  <2>7. \A n \in Lines : ls[n] = IF n = Dslot[pc] THEN line ELSE jit.lines[n]
    BY <1>1
  <2> HIDE DEF filled, ls
  <2>8. filled.cache = jit.cache
    BY <2>5 DEF Same, JitFields
  <2>9. LinesAgree(filled, satp)
    BY <1>1, <1>2, <2>1, <2>2, <2>4, <2>6, <2>7, <2>8 DEF LinesAgree
  <2> QED
    BY <1>1, <2>5, <2>9, LinesHold DEF filled
<1> HIDE DEF cleared, filled
<1>8. Holding(jit', pending, pages, satp, tickets)
  BY <1>2, <1>5, <1>6, <1>7
<1> QED
  BY <1>2, <1>8, JitStep

(* A store, or a device's write.                                           *)
LEMMA WriteKept == ASSUME OwnershipInv, NEW p \in Physical, GuestWrite(p) PROVE Kept
<1>1. /\ jit \in JitStates /\ pages \in PageStates /\ satp \in Spaces
      /\ Holding(jit, pending, pages, satp, tickets)
  BY Parts
<1>2. pages' = note_page_write(p) /\ UNCHANGED <<jit, pending, satp, tickets>>
  BY DEF GuestWrite
<1> DEFINE q == note_page_write(p)
<1>3. q \in PageStates /\ Ages(q, pages)
  BY <1>1, WriteAges
<1> HIDE DEF q
<1>4. Holding(jit, pending, q, satp, tickets)
  BY <1>1, <1>3, AgesSound DEF Holding
<1> QED
  BY <1>2, <1>3, <1>4 DEF Kept, OwnershipInv, q

(* The address space changes: no line is used without a look at the cache. *)
LEMMA SwitchKept ==
  ASSUME OwnershipInv, NEW space \in Spaces, NEW full \in BOOLEAN, SwitchSpace(space, full)
  PROVE  Kept
<1> DEFINE ls == [n \in DOMAIN jit.lines |-> [jit.lines[n] EXCEPT !.fresh = FALSE]]
           i == [jit EXCEPT !.lines = ls]
           cl == [k \in Keys |-> NoClaim]
           ms == [k \in Keys |-> IF jit.modules[k].is = "attempted" THEN NoModule ELSE jit.modules[k]]
           g == [[[i EXCEPT !.superblocked = {}] EXCEPT !.claims = cl] EXCEPT !.modules = ms]
<1>1. /\ Holding(jit, pending, pages, satp, tickets) /\ Sound(jit, {}, {}, 0, {})
      /\ satp \in Spaces /\ tickets \in Nat /\ LinesAgree(jit, satp)
      /\ jit \in JitStates /\ DOMAIN jit = JitFields
      /\ jit.lines \in [Lines -> Line] /\ jit.modules \in [Keys -> Module]
  BY Parts, FieldType
<1>2. /\ jit' = IF ~full THEN i ELSE g
      /\ satp' = space /\ UNCHANGED <<pending, pages, tickets>>
  <2>1. i.modules = jit.modules
    BY <1>1 DEF JitFields
  <2> QED
    BY <1>1, <2>1 DEF SwitchSpace, JitFields
<1>3. ls \in [Lines -> Line] /\ \A n \in Lines : /\ ls[n].pc = jit.lines[n].pc /\ ls[n].idx = jit.lines[n].idx
                                                 /\ ~ls[n].fresh
  <2> SUFFICES ASSUME NEW n \in Lines
               PROVE  /\ ls[n] \in Line /\ ls[n].pc = jit.lines[n].pc
                      /\ ls[n].idx = jit.lines[n].idx /\ ~ls[n].fresh
    BY <1>1
  <2> DEFINE l == jit.lines[n]
  <2>1. l \in Line /\ ls[n] = [l EXCEPT !.fresh = FALSE]
    BY <1>1
  <2> HIDE DEF l, ls
  <2>2. ASSUME NEW x \in Line
        PROVE  [x EXCEPT !.fresh = FALSE] \in Line /\ [x EXCEPT !.fresh = FALSE].pc = x.pc
               /\ [x EXCEPT !.fresh = FALSE].idx = x.idx /\ ~[x EXCEPT !.fresh = FALSE].fresh
    <3>1. CASE x = NoLine
      <4>1. [x EXCEPT !.fresh = FALSE] = NoLine
        <5> DEFINE y == [x EXCEPT !.fresh = FALSE]
                   F == {"pc", "idx", "fresh"}
        <5>1. DOMAIN y = F /\ DOMAIN NoLine = F
          BY <3>1 DEF NoLine
        <5>2. y = [f \in DOMAIN y |-> y[f]] /\ NoLine = [f \in DOMAIN NoLine |-> NoLine[f]]
          <6>1. y = [f \in DOMAIN y |-> y[f]]
            OBVIOUS
          <6>2. NoLine = [f \in DOMAIN NoLine |-> NoLine[f]]
            BY Zenon DEF NoLine
          <6> QED
            BY <6>1, <6>2
        <5>3. \A f \in F : y[f] = NoLine[f]
          <6>1. y["pc"] = NoLine["pc"] /\ y["idx"] = NoLine["idx"]
            BY <3>1 DEF NoLine
          <6>2. y["fresh"] = FALSE
            BY <5>1, <3>1, Zenon
          <6>3. NoLine["fresh"] = FALSE
            BY Zenon DEF NoLine
          <6> QED
            BY <6>1, <6>2, <6>3, Zenon
        <5> HIDE DEF y, F
        <5>4. y = NoLine
          BY <5>1, <5>2, <5>3
        <5> QED
          BY <5>4 DEF y
      <4> QED
        BY <3>1, <4>1 DEF NoLine, Line
    <3>2. CASE x \in [pc : Pcs, idx : Slots \cup {0}, fresh : BOOLEAN]
      BY <3>2 DEF Line
    <3> QED
      BY <3>1, <3>2 DEF Line
  <2>3. ls[n] \in Line /\ ls[n].pc = l.pc /\ ls[n].idx = l.idx /\ ~ls[n].fresh
    BY <2>1, <2>2
  <2> QED
    BY <2>3 DEF l
<1> HIDE DEF ls
<1>4. i \in JitStates /\ Same(i, jit, {"lines"}) /\ i.lines = ls
  BY <1>1, <1>3 DEF JitStates, Same, JitFields
<1>5. cl \in [Keys -> Claim] /\ \A k \in Keys : cl[k] = NoClaim
  BY DEF Claim
<1>6. ms \in [Keys -> Module] /\ \A k \in Keys :
        /\ active_owner(ms[k]) = active_owner(jit.modules[k])
        /\ ms[k].is = "pending" => ms[k] = jit.modules[k]
  BY <1>1 DEF Module, NoModule, active_owner
<1> HIDE DEF i, cl, ms
<1>7. Holding(i, pending, pages, space, tickets)
  <2>1. i.cache = jit.cache
    BY <1>4 DEF Same, JitFields
  <2>2. LinesAgree(i, space)
    BY <1>1, <1>3, <1>4, <2>1 DEF LinesAgree
  <2> QED
    BY <1>1, <1>4, <2>2, LinesHold
<1>8. Holding(g, pending, pages, space, tickets)
  <2>1. i \in JitStates /\ DOMAIN i = JitFields
    BY <1>4, FieldType
  <2>2. g \in JitStates
    BY <1>5, <1>6, <2>1 DEF JitStates
  <2>3. /\ Same(g, i, {"lines", "modules", "superblocked", "claims", "stage", "coverage", "fill"})
        /\ g.modules = ms /\ g.claims = cl /\ g.lines = i.lines /\ g.cache = i.cache
        /\ g.slot_owner = i.slot_owner /\ g.stage = i.stage /\ g.coverage = i.coverage
    BY <2>1 DEF Same, JitFields
  <2>4. i.modules = jit.modules
    BY <1>4 DEF Same, JitFields
  <2> HIDE DEF g
  <2>5. Sound(g, {}, {}, 0, {})
    BY <1>6, <1>7, <2>2, <2>3, <2>4, SoundFields DEF Holding
  <2>6. LinesAgree(g, space) /\ Tame(g, i) /\ Cuts(g, i)
    BY <1>5, <1>6, <1>7, <2>3, <2>4 DEF LinesAgree, Tame, Cuts, Holding
  <2> QED
    BY <1>1, <1>7, <2>5, <2>6, TameHolds DEF g
<1> HIDE DEF g
<1>9. Holding(jit', pending, pages, space, tickets)
  BY <1>2, <1>7, <1>8
<1> QED
  BY <1>2, <1>9 DEF Kept, OwnershipInv

(* What is known of a slot's region goes, or its exits are to be looked    *)
(* at: no entry is concerned.                                              *)
LEMMA RegionChange ==
  ASSUME NEW j, Sound(j, {}, {}, 0, {}), NEW i \in JitStates, NEW idx \in Slots,
         Same(i, j, {"regions", "exits", "ext_queue"}),
         \A s \in Slots : s # idx => i.regions[s] = j.regions[s] /\ i.exits[s] = j.exits[s],
         i.regions[idx] = j.regions[idx] \/ (i.regions[idx] = {} /\ users(j, idx) = {}),
         i.exits[idx] \in {j.exits[idx], NoExits},
         \A s \in Slots : s \in i.ext_queue => s \in j.ext_queue \/ (s = idx /\ j.exits[idx] # NoExits)
  PROVE  Sound(i, {}, {}, 0, {}) /\ Without(i, j, {})
<1>1. /\ i.cache = j.cache /\ i.refs = j.refs /\ i.slot_owner = j.slot_owner /\ i.live = j.live
      /\ i.owner_entries = j.owner_entries /\ i.cold = j.cold /\ i.module_owner = j.module_owner
      /\ i.modules = j.modules /\ i.lines = j.lines /\ i.page_blocks = j.page_blocks
      /\ j.cache \in [Pcs -> Entry]
  BY FieldType DEF Same, JitFields, Sound
<1>2. /\ CountsRefs(j) /\ EntriesOwned(j) /\ SlotsUsed(j, {}) /\ LiveOwned(j) /\ IdleClean(j)
      /\ EntriesListed(j, {}) /\ ModulesOwned(j, 0) /\ ColdOwners(j)
      /\ Indexed(j, {}) /\ RegionsCover(j) /\ ExitsCover(j)
  BY DEF Sound
<1>3. \A s : users(i, s) = users(j, s)
  BY <1>1 DEF users
<1>4. \A x \in Pcs : i.cache[x].idx > 0 => i.regions[i.cache[x].idx] = j.regions[i.cache[x].idx]
  <2> SUFFICES ASSUME NEW x \in Pcs, i.cache[x].idx > 0
               PROVE  i.regions[i.cache[x].idx] = j.regions[i.cache[x].idx]
    OBVIOUS
  <2>1. j.cache[x] \in Entry /\ i.cache[x] = j.cache[x]
    BY <1>1
  <2>2. i.cache[x].idx \in Slots
    BY <2>1, EntryType
  <2>3. x \in users(j, i.cache[x].idx)
    BY <2>1 DEF users
  <2> QED
    BY <2>2, <2>3
<1>5. CountsRefs(i) /\ EntriesOwned(i) /\ SlotsUsed(i, {}) /\ LiveOwned(i)
  BY <1>1, <1>2, <1>3 DEF CountsRefs, EntriesOwned, SlotsUsed, LiveOwned
<1>6. IdleClean(i)
  BY <1>1, <1>2 DEF IdleClean
<1>7. EntriesListed(i, {}) /\ ModulesOwned(i, 0) /\ ColdOwners(i)
  BY <1>1, <1>2 DEF EntriesListed, ModulesOwned, ColdOwners, owns
<1>8. \A x \in Pcs : block_physical_pages(i, x, i.cache[x]) = block_physical_pages(j, x, j.cache[x])
  BY <1>1, <1>4, SamePages
<1>9. Indexed(i, {})
  BY <1>1, <1>2, <1>8, Zenon DEF Indexed
<1>10. RegionsCover(i)
  <2> SUFFICES ASSUME NEW x \in Pcs, i.cache[x] # NoEntry
               PROVE  Covering(i, x, i.cache[x].idx, i.cache[x].src)
    BY DEF RegionsCover
  <2>1. Covering(j, x, i.cache[x].idx, i.cache[x].src) /\ i.cache[x] = j.cache[x]
    BY <1>1, <1>2 DEF RegionsCover
  <2> QED
    BY <1>4, <2>1 DEF Covering
<1>11. ExitsCover(i)
  BY <1>2, <1>3 DEF ExitsCover
<1>12. Follows(i, j)
  <2>1. Keeps(i, j)
    BY <1>1 DEF Keeps, Weaker, Same
  <2>2. \A space \in Spaces : LinesAgree(j, space) => LinesAgree(i, space)
    BY <1>1 DEF LinesAgree
  <2> QED
    BY <2>1, <2>2 DEF Follows
<1> QED
  BY <1>1, <1>5, <1>6, <1>7, <1>9, <1>10, <1>11, <1>12 DEF Sound, Without

(* A region's exits are due to be looked at.                               *)
LEMMA RecordKept == ASSUME OwnershipInv, NEW idx \in Slots, record_region_exit(idx) PROVE Kept
<1> DEFINE q == jit.ext_queue \cup {idx}
           i == [jit EXCEPT !.ext_queue = q]
<1>1. /\ Holding(jit, pending, pages, satp, tickets) /\ Sound(jit, {}, {}, 0, {})
      /\ satp \in Spaces /\ tickets \in Nat /\ jit \in JitStates /\ DOMAIN jit = JitFields
      /\ jit.ext_queue \in SUBSET Slots
  BY Parts, FieldType
<1>2. jit' = i /\ jit.exits[idx] # NoExits
  BY <1>1 DEF record_region_exit, profiled
<1>3. i \in JitStates /\ Same(i, jit, {"ext_queue"}) /\ i.ext_queue = q
  BY <1>1 DEF JitStates, Same, JitFields
<1> HIDE DEF i
<1>4. i.regions = jit.regions /\ i.exits = jit.exits /\ Same(i, jit, {"regions", "exits", "ext_queue"})
  BY <1>3 DEF Same, JitFields
<1>5. Sound(i, {}, {}, 0, {}) /\ Without(i, jit, {})
  BY <1>1, <1>2, <1>3, <1>4, RegionChange
<1>6. Holding(i, pending, pages, satp, tickets)
  BY <1>1, <1>5, WithoutHolds
<1> QED
  BY <1>2, <1>6, JitStep DEF record_region_exit

(* The record of a region's exits goes.                                    *)
LEMMA ExitsGone ==
  ASSUME NEW j, Sound(j, {}, {}, 0, {}), NEW idx \in Slots
  PROVE  LET i == [j EXCEPT !.exits[idx] = NoExits] IN
         /\ Sound(i, {}, {}, 0, {}) /\ Without(i, j, {})
<1> DEFINE i == [j EXCEPT !.exits[idx] = NoExits]
<1>1. j \in JitStates /\ DOMAIN j = JitFields /\ j.exits \in [Slots -> Exits] /\ NoExits \in Exits
  BY FieldType DEF Sound, Exits
<1>2. i \in JitStates
  BY <1>1 DEF JitStates
<1>3. Same(i, j, {"exits"}) /\ i.exits = [j.exits EXCEPT ![idx] = NoExits]
  BY <1>1 DEF Same, JitFields
<1> HIDE DEF i
<1>4. i.regions = j.regions /\ i.ext_queue = j.ext_queue /\ Same(i, j, {"regions", "exits", "ext_queue"})
  BY <1>3 DEF Same, JitFields
<1>5. \A s \in Slots : i.exits[s] = IF s = idx THEN NoExits ELSE j.exits[s]
  BY <1>1, <1>3
<1>6. Sound(i, {}, {}, 0, {}) /\ Without(i, j, {})
  BY <1>2, <1>4, <1>5, RegionChange
<1> QED
  BY <1>6 DEF i

(* A slot leaves the queue.                                                *)
LEMMA Dequeued ==
  ASSUME NEW j, Sound(j, {}, {}, 0, {}), NEW idx \in Slots
  PROVE  LET i == [j EXCEPT !.ext_queue = @ \ {idx}] IN
         /\ Sound(i, {}, {}, 0, {}) /\ Without(i, j, {})
<1> DEFINE q == j.ext_queue \ {idx}
           i == [j EXCEPT !.ext_queue = q]
<1>1. j \in JitStates /\ DOMAIN j = JitFields /\ j.ext_queue \in SUBSET Slots
  BY FieldType DEF Sound
<1>2. i \in JitStates /\ Same(i, j, {"ext_queue"}) /\ i.ext_queue = q
  BY <1>1 DEF JitStates, Same, JitFields
<1> HIDE DEF i
<1>4. i.regions = j.regions /\ i.exits = j.exits /\ Same(i, j, {"regions", "exits", "ext_queue"})
  BY <1>2 DEF Same, JitFields
<1>5. Sound(i, {}, {}, 0, {}) /\ Without(i, j, {})
  BY <1>2, <1>4, RegionChange
<1> QED
  BY <1>5 DEF i

(* A region whose visits are short: its entries go, and it with them.      *)
LEMMA DemoteKept == ASSUME OwnershipInv, NEW idx \in Slots, demote_region(idx) PROVE Kept
<1> DEFINE a == [jit EXCEPT !.exits[idx] = NoExits]
           mine == {pc \in jit.exits[idx].entries : jit.cache[pc].idx = idx}
           d == drop_all(a, mine)
           g == [d EXCEPT !.regions[idx] = {}]
           r == [g EXCEPT !.ext_queue = @ \ {idx}]
<1>1. /\ Holding(jit, pending, pages, satp, tickets) /\ Sound(jit, {}, {}, 0, {})
      /\ satp \in Spaces /\ tickets \in Nat
      /\ jit \in JitStates /\ jit.exits \in [Slots -> Exits]
  BY Parts, FieldType
<1>2. jit' = r /\ jit.exits[idx] # NoExits /\ UNCHANGED <<pending, pages, satp, tickets>>
  <2>1. d \in JitStates => g.ext_queue = d.ext_queue
    BY FieldType DEF JitFields
  <2> QED
    BY DEF demote_region, profiled
<1>3. mine \in SUBSET Pcs /\ users(jit, idx) \subseteq mine
  <2>1. jit.exits[idx] \in Exits
    BY <1>1
  <2>2. jit.exits[idx].entries \in SUBSET Pcs
    BY <1>2, <2>1 DEF Exits
  <2>3. users(jit, idx) \subseteq jit.exits[idx].entries
    BY <1>1, <1>2 DEF Sound, ExitsCover
  <2> QED
    BY <2>2, <2>3 DEF users
<1> HIDE DEF mine
<1>4. Sound(a, {}, {}, 0, {}) /\ Without(a, jit, {})
  BY <1>1, ExitsGone
<1> HIDE DEF a
<1>5. Sound(d, {}, {}, 0, {}) /\ Without(d, a, mine)
  <2>1. {} \ (Physical \X mine) = {}
    OBVIOUS
  <2>2. Sound(d, {}, {}, 0, {} \ (Physical \X mine)) /\ Without(d, a, mine)
    BY <1>3, <1>4, DropAllSound
  <2> HIDE DEF d
  <2> QED
    BY <2>1, <2>2
<1> HIDE DEF d
<1>6. users(d, idx) = {}
  <2>1. \A x \in Pcs : d.cache[x] = IF x \in mine THEN NoEntry ELSE jit.cache[x]
    BY <1>4, <1>5 DEF Without
  <2>2. \A x \in Pcs : d.cache[x].idx # idx
    <3>1. idx > 0
      BY OwnershipAssumption
    <3> QED
      BY <1>3, <2>1, <3>1 DEF users, NoEntry
  <2> QED
    BY <2>2 DEF users
<1>7. Sound(g, {}, {}, 0, {}) /\ Without(g, d, {})
  <2>1. d \in JitStates /\ DOMAIN d = JitFields /\ d.regions \in [Slots -> SUBSET Source]
    BY <1>5, FieldType DEF Sound
  <2>2. g \in JitStates
    BY <2>1 DEF JitStates
  <2>3. Same(g, d, {"regions"}) /\ g.regions = [d.regions EXCEPT ![idx] = {}]
    BY <2>1 DEF Same, JitFields
  <2> HIDE DEF g
  <2>4. g.exits = d.exits /\ g.ext_queue = d.ext_queue /\ Same(g, d, {"regions", "exits", "ext_queue"})
    BY <2>3 DEF Same, JitFields
  <2>5. \A s \in Slots : g.regions[s] = IF s = idx THEN {} ELSE d.regions[s]
    BY <2>1, <2>3
  <2> QED
    BY <1>5, <1>6, <2>2, <2>4, <2>5, RegionChange
<1> HIDE DEF g
<1>8. Sound(r, {}, {}, 0, {}) /\ Without(r, g, {})
  BY <1>7, Dequeued
<1> HIDE DEF r
<1>9. Holding(a, pending, pages, satp, tickets)
  BY <1>1, <1>4, WithoutHolds
<1>10. Holding(d, pending, pages, satp, tickets)
  BY <1>1, <1>5, <1>9, WithoutHolds
<1>11. Holding(g, pending, pages, satp, tickets)
  BY <1>1, <1>7, <1>10, WithoutHolds
<1>12. Holding(r, pending, pages, satp, tickets)
  BY <1>1, <1>8, <1>11, WithoutHolds
<1> QED
  BY <1>2, <1>12, JitStep

-----------------------------------------------------------------------------
(* A new machine.                                                          *)

(* The new state is sound.                                               *)
LEMMA NewSound == Sound(new, {}, {}, 0, {}) /\ \A space \in Spaces : LinesAgree(new, space)
<1>1. /\ new.cache = [pc \in Pcs |-> NoEntry] /\ new.refs = [i \in Slots |-> 0]
      /\ new.slot_owner = [i \in Slots |-> 0] /\ new.live = {}
      /\ new.owner_entries = [o \in Tickets |-> {}] /\ new.cold = <<>>
      /\ new.module_owner = [o \in Tickets |-> <<>>] /\ new.modules = [k \in Keys |-> NoModule]
      /\ new.superblocked = {} /\ new.claims = [k \in Keys |-> NoClaim]
      /\ new.regions = [i \in Slots |-> {}] /\ new.exits = [i \in Slots |-> NoExits]
      /\ new.ext_queue = {} /\ new.lines = [n \in Lines |-> NoLine]
      /\ new.page_blocks = [p \in Physical |-> {}] /\ new.stage = <<>>
      /\ new.coverage = [sp \in Spaces \X Pcs |-> 0] /\ new.fill = FALSE
  BY DEF new, Lines
<1>2. new \in JitStates
  <2>1. NoEntry \in Entry /\ NoModule \in Module /\ NoClaim \in Claim /\ NoExits \in Exits /\ NoLine \in Line
    BY DEF Entry, Module, Claim, Exits, Line
  <2>2. /\ [pc \in Pcs |-> NoEntry] \in [Pcs -> Entry] /\ [i \in Slots |-> 0] \in [Slots -> Nat]
        /\ [i \in Slots |-> 0] \in [Slots -> Tickets \cup {0}]
        /\ [o \in Tickets |-> {}] \in [Tickets -> SUBSET Pcs] /\ <<>> \in Seq(Tickets)
        /\ [o \in Tickets |-> <<>>] \in [Tickets -> Keys \cup {<<>>}]
        /\ [k \in Keys |-> NoModule] \in [Keys -> Module]
        /\ [k \in Keys |-> NoClaim] \in [Keys -> Claim]
        /\ [i \in Slots |-> {}] \in [Slots -> SUBSET Source]
        /\ [i \in Slots |-> NoExits] \in [Slots -> Exits]
        /\ [n \in Lines |-> NoLine] \in [Lines -> Line]
        /\ [p \in Physical |-> {}] \in [Physical -> SUBSET Pcs]
        /\ <<>> \in Seq(Trace)
        /\ [sp \in Spaces \X Pcs |-> 0] \in [Spaces \X Pcs -> Nat]
    BY <2>1
  <2> QED
    BY <2>2 DEF new, JitStates, Lines
<1>3. \A i : i \in Slots => users(new, i) = {}
  <2>1. \A i \in Slots : i > 0
    BY OwnershipAssumption
  <2> QED
    BY <1>1, <2>1 DEF users, NoEntry
<1>4. CountsRefs(new)
  BY <1>1, <1>3, NoUsers DEF CountsRefs
<1>5. EntriesOwned(new) /\ SlotsUsed(new, {}) /\ LiveOwned(new) /\ IdleClean(new)
  BY <1>1 DEF EntriesOwned, SlotsUsed, LiveOwned, IdleClean, NoEntry
<1>6. EntriesListed(new, {}) /\ Indexed(new, {})
  BY <1>1 DEF EntriesListed, Indexed, NoEntry
<1>7. ModulesOwned(new, 0)
  BY <1>1 DEF ModulesOwned, active_owner, NoModule
<1>8. ColdOwners(new)
  BY <1>1, TicketType DEF ColdOwners, Once, Holds, owns
<1>9. RegionsCover(new) /\ ExitsCover(new)
  BY <1>1 DEF RegionsCover, ExitsCover
<1>10. \A space \in Spaces : LinesAgree(new, space)
  BY <1>1 DEF LinesAgree, NoLine
<1> QED
  BY <1>2, <1>4, <1>5, <1>6, <1>7, <1>8, <1>9, <1>10 DEF Sound

(* Nothing is compiled, staged or under way.                               *)
LEMMA NewHolds ==
  ASSUME NEW pg, NEW space \in Spaces, NEW n \in Nat
  PROVE  Holding(new, <<>>, pg, space, n)
<1>1. /\ new.cache = [pc \in Pcs |-> NoEntry] /\ new.slot_owner = [i \in Slots |-> 0]
      /\ new.modules = [k \in Keys |-> NoModule] /\ new.claims = [k \in Keys |-> NoClaim]
      /\ new.stage = <<>> /\ new.coverage = [sp \in Spaces \X Pcs |-> 0]
  BY DEF new
<1>2. EntriesCurrent(new, pg)
  BY <1>1 DEF EntriesCurrent
<1>3. DOMAIN <<>> = {}
  OBVIOUS
<1>4. /\ StageSound(new.stage, pg) /\ ClaimsHold(new.claims, <<>>, pg)
      /\ ClaimsTracked(new.claims, <<>>) /\ ModulesTracked(new.modules, <<>>)
      /\ OwnersAnswered(new.slot_owner, <<>>, n)
  BY <1>1, <1>3 DEF StageSound, ClaimsHold, ClaimsTracked, ModulesTracked, OwnersAnswered, NoModule
<1>5. CoverageHolds(new.coverage, new.stage, <<>>)
  <2>1. \A s, pc : CoveringIn(<<>>, s, pc) = {} /\ CoveringPending(<<>>, s, pc) = {}
    BY <1>3 DEF CoveringIn, CoveringPending
  <2>2. Cardinality({}) = 0
    BY FS_EmptySet
  <2> SUFFICES ASSUME NEW s \in Spaces, NEW pc \in Pcs
               PROVE  new.coverage[<<s, pc>>] = Cardinality(CoveringIn(new.stage, s, pc))
                                                  + Cardinality(CoveringPending(<<>>, s, pc))
    BY Zenon DEF CoverageHolds
  <2>3. new.coverage[<<s, pc>>] = 0
    BY <1>1
  <2>4. Cardinality(CoveringIn(new.stage, s, pc)) = 0 /\ Cardinality(CoveringPending(<<>>, s, pc)) = 0
    BY <1>1, <2>1, <2>2
  <2> QED
    BY <2>3, <2>4
<1> QED
  BY <1>2, <1>3, <1>4, <1>5, NewSound DEF Holding, PendingSound

(* The pages of a new machine.                                           *)
LEMMA NewPages ==
  [p \in Physical |-> [marked |-> FALSE, dirty |-> FALSE, gen |-> 0, bytes |-> 0]] \in PageStates
BY DEF PageStates

(* The invariant holds initially.                                        *)
LEMMA InitHolds == ASSUME Init PROVE OwnershipInv
<1>1. scope.issues \in 0 .. MaxTickets /\ MaxTickets \in Nat /\ satp \in Spaces
  BY OwnershipAssumption DEF Init
<1>2. tickets \in 0 .. scope.issues /\ tickets \in Nat
  BY <1>1 DEF Init
<1>3. Holding(new, <<>>, pages, satp, tickets)
  BY <1>1, <1>2, NewHolds
<1> QED
  BY <1>1, <1>2, <1>3, NewPages DEF Init, OwnershipInv

(* A reset leaves a new machine, whose tickets go on.                    *)
LEMMA ResetKept == ASSUME OwnershipInv, reset_full_system_jit PROVE Kept
<1>1. satp \in Spaces /\ tickets \in Nat
  BY Parts
<1>2. Holding(new, <<>>, pages', satp, tickets)
  BY <1>1, NewHolds
<1> QED
  BY <1>1, <1>2, NewPages DEF reset_full_system_jit, Kept, OwnershipInv

-----------------------------------------------------------------------------
(* What covers a pc is counted.                                            *)

(* Sets apart from each other are counted one by one.                      *)
LEMMA Apart ==
  ASSUME NEW S, IsFiniteSet(S), NEW T, IsFiniteSet(T), S \cap T = {}
  PROVE  IsFiniteSet(S \cup T) /\ Cardinality(S \cup T) = Cardinality(S) + Cardinality(T)
<1>1. /\ IsFiniteSet(S \cup T)
      /\ Cardinality(S \cup T) = Cardinality(S) + Cardinality(T) - Cardinality(S \cap T)
  BY FS_Union
<1>2. Cardinality(S \cap T) = 0
  BY FS_EmptySet
<1>3. Cardinality(S) \in Nat /\ Cardinality(T) \in Nat
  BY FS_CardinalityType
<1> QED
  BY <1>1, <1>2, <1>3

(* The traces of a sequence that cover a pc are finitely many.           *)
LEMMA CoveringFinite ==
  ASSUME NEW s \in Seq(Trace), NEW space, NEW pc
  PROVE  /\ CoveringIn(s, space, pc) \subseteq 1 .. Len(s)
         /\ IsFiniteSet(CoveringIn(s, space, pc)) /\ Cardinality(CoveringIn(s, space, pc)) \in Nat
<1>1. DOMAIN s = 1 .. Len(s) /\ Len(s) \in Nat /\ IsFiniteSet(1 .. Len(s))
  BY LenProperties, FS_Interval
<1>2. CoveringIn(s, space, pc) \in SUBSET (1 .. Len(s))
  BY <1>1 DEF CoveringIn
<1> QED
  BY <1>1, <1>2, FS_Subset, FS_CardinalityType

(* One more trace is staged.                                               *)
LEMMA CoveringAppend ==
  ASSUME NEW s \in Seq(Trace), NEW b \in Trace, NEW space, NEW pc
  PROVE  Cardinality(CoveringIn(Append(s, b), space, pc)) =
           Cardinality(CoveringIn(s, space, pc)) + (IF covers(b, space, pc) THEN 1 ELSE 0)
<1> DEFINE C == CoveringIn(s, space, pc)  D == CoveringIn(Append(s, b), space, pc)
<1>1. /\ DOMAIN s = 1 .. Len(s) /\ Len(s) \in Nat
      /\ DOMAIN Append(s, b) = 1 .. Len(s) + 1
      /\ \A n \in 1 .. Len(s) : Append(s, b)[n] = s[n]
      /\ Append(s, b)[Len(s) + 1] = b
  BY LenProperties, AppendProperties
<1>2. IsFiniteSet(C) /\ Cardinality(C) \in Nat /\ C \subseteq 1 .. Len(s)
  BY CoveringFinite
<1>3. Len(s) + 1 \notin C
  BY <1>1, <1>2
<1>4. D = IF covers(b, space, pc) THEN C \cup {Len(s) + 1} ELSE C
  BY <1>1 DEF CoveringIn
<1> HIDE DEF C, D
<1>5. Cardinality(C \cup {Len(s) + 1}) = Cardinality(C) + 1
  BY <1>2, <1>3, FS_AddElement
<1> QED
  BY <1>2, <1>4, <1>5 DEF C, D

(* A batch is taken from the front of the stage.                           *)
LEMMA CoveringCut ==
  ASSUME NEW s \in Seq(Trace), NEW m \in 0 .. Len(s)
  PROVE  \E u, v \in Seq(Trace) :
           /\ u = SubSeq(s, 1, m) /\ v = SubSeq(s, m + 1, Len(s)) /\ Len(u) = m
           /\ \A n \in DOMAIN u : n \in DOMAIN s /\ u[n] = s[n]
           /\ \A n \in DOMAIN v : n + m \in DOMAIN s /\ v[n] = s[n + m]
           /\ \A space, pc : Cardinality(CoveringIn(s, space, pc)) =
                Cardinality(CoveringIn(u, space, pc)) + Cardinality(CoveringIn(v, space, pc))
<1> DEFINE u == SubSeq(s, 1, m)  v == SubSeq(s, m + 1, Len(s))
<1>1. DOMAIN s = 1 .. Len(s) /\ Len(s) \in Nat /\ m \in Nat /\ m <= Len(s)
      /\ \A n \in 1 .. Len(s) : s[n] \in Trace
  BY LenProperties, ElementOfSeq
<1>2. /\ u \in Seq(Trace) /\ Len(u) = m /\ \A n \in 1 .. m : u[n] = s[n]
  <2>1. \A i \in 1 .. m : s[i] \in Trace
    BY <1>1
  <2>2. /\ u \in Seq(Trace) /\ Len(u) = (IF 1 <= m THEN m - 1 + 1 ELSE 0)
        /\ \A n \in 1 .. m - 1 + 1 : u[n] = s[1 + n - 1]
    BY <1>1, <2>1, SubSeqProperties
  <2>3. m - 1 + 1 = m /\ \A n \in 1 .. m : 1 + n - 1 = n
    BY <1>1
  <2> HIDE DEF u
  <2>4. Len(u) = m
    BY <1>1, <2>2
  <2>5. \A n \in 1 .. m : u[n] = s[n]
    <3> SUFFICES ASSUME NEW n \in 1 .. m
                 PROVE  u[n] = s[n]
      OBVIOUS
    <3>1. n \in 1 .. m - 1 + 1 /\ 1 + n - 1 = n
      BY <2>3
    <3>2. u[n] = s[1 + n - 1]
      BY <2>2, <3>1
    <3> QED
      BY <3>1, <3>2
  <2> QED
    BY <2>2, <2>4, <2>5
<1>3. /\ v \in Seq(Trace) /\ Len(v) = Len(s) - m /\ \A n \in 1 .. Len(s) - m : v[n] = s[n + m]
  <2>1. \A i \in m + 1 .. Len(s) : s[i] \in Trace
    BY <1>1
  <2>2. /\ v \in Seq(Trace) /\ Len(v) = (IF m + 1 <= Len(s) THEN Len(s) - (m + 1) + 1 ELSE 0)
        /\ \A n \in 1 .. Len(s) - (m + 1) + 1 : v[n] = s[(m + 1) + n - 1]
    BY <1>1, <2>1, SubSeqProperties
  <2>3. Len(s) - (m + 1) + 1 = Len(s) - m /\ \A n \in 1 .. Len(s) - m : (m + 1) + n - 1 = n + m
    BY <1>1
  <2> HIDE DEF v
  <2>4. Len(v) = Len(s) - m
    <3> DEFINE l == Len(s)
    <3>1. l \in Nat /\ m \in Nat /\ m <= l
      BY <1>1
    <3>2. Len(v) = (IF m + 1 <= l THEN l - (m + 1) + 1 ELSE 0)
      BY <2>2
    <3> HIDE DEF l
    <3>3. (IF m + 1 <= l THEN l - (m + 1) + 1 ELSE 0) = l - m
      BY <3>1
    <3> QED
      BY <3>2, <3>3 DEF l
  <2>5. \A n \in 1 .. Len(s) - m : v[n] = s[n + m]
    <3> SUFFICES ASSUME NEW n \in 1 .. Len(s) - m
                 PROVE  v[n] = s[n + m]
      OBVIOUS
    <3>1. n \in 1 .. Len(s) - (m + 1) + 1 /\ (m + 1) + n - 1 = n + m
      BY <2>3
    <3>2. v[n] = s[(m + 1) + n - 1]
      BY <2>2, <3>1
    <3> QED
      BY <3>1, <3>2
  <2> QED
    BY <2>2, <2>4, <2>5
<1> HIDE DEF u, v
<1>4. DOMAIN u = 1 .. m /\ DOMAIN v = 1 .. Len(s) - m
  BY <1>1, <1>2, <1>3, LenProperties
<1>8. ASSUME NEW space, NEW pc
      PROVE  Cardinality(CoveringIn(s, space, pc)) =
               Cardinality(CoveringIn(u, space, pc)) + Cardinality(CoveringIn(v, space, pc))
  <2> DEFINE C == CoveringIn(s, space, pc)  U == CoveringIn(u, space, pc)  V == CoveringIn(v, space, pc)
             W == {n \in C : n > m}
  <2>5. /\ IsFiniteSet(C) /\ C \subseteq 1 .. Len(s) /\ IsFiniteSet(U) /\ IsFiniteSet(V)
        /\ U \subseteq 1 .. m /\ V \subseteq 1 .. Len(s) - m
    BY <1>2, <1>3, CoveringFinite
  <2>6. C = U \cup W /\ U \cap W = {}
    <3>1. \A n : n \in U <=> n \in C /\ n <= m
      BY <1>1, <1>2, <1>4 DEF CoveringIn
    <3>2. \A n \in C : n \in Int
      BY <2>5
    <3> HIDE DEF C, U
    <3> QED
      BY <1>1, <3>1, <3>2
  <2>7. IsFiniteSet(W) /\ Cardinality(W) = Cardinality(V)
    <3> DEFINE f == [n \in V |-> n + m]
    <3>1. \A n \in V : n \in Nat /\ n + m \in W
      BY <1>1, <1>3, <1>4, <2>5 DEF CoveringIn
    <3>2. \A n \in W : n \in Nat /\ n - m \in V /\ (n - m) + m = n
      BY <1>1, <1>3, <1>4, <2>5 DEF CoveringIn
    <3> HIDE DEF V, W
    <3>3. f \in Bijection(V, W)
      BY <1>1, <3>1, <3>2 DEF Bijection, Injection, Surjection, IsInjective
    <3>4. ExistsBijection(V, W)
      BY <3>3 DEF ExistsBijection
    <3> QED
      BY <2>5, <3>4, FS_Bijection
  <2> HIDE DEF C, U, V, W
  <2>8. Cardinality(C) = Cardinality(U) + Cardinality(V)
    BY <2>5, <2>6, <2>7, Apart
  <2> QED
    BY <2>8 DEF C, U, V
<1>9. \A n \in 1 .. Len(s) - m : n + m \in 1 .. Len(s)
  BY <1>1
<1>10. /\ u \in Seq(Trace) /\ v \in Seq(Trace) /\ Len(u) = m
       /\ \A n \in DOMAIN u : n \in DOMAIN s /\ u[n] = s[n]
       /\ \A n \in DOMAIN v : n + m \in DOMAIN s /\ v[n] = s[n + m]
  <2>1. 1 .. m \subseteq 1 .. Len(s)
    BY <1>1
  <2> QED
    BY <1>1, <1>2, <1>3, <1>4, <1>9, <2>1
<1>11. u = SubSeq(s, 1, m) /\ v = SubSeq(s, m + 1, Len(s))
  BY DEF u, v
<1> QED
  BY <1>8, <1>10, <1>11, Zenon

(* The compiles but one, and that one.                                     *)
Except(P, t) == [x \in DOMAIN P \ {t} |-> P[x]]

(* Finitely many traces cover a pc.                                        *)
LEMMA PendingFinite ==
  ASSUME NEW P, NEW n \in Nat, DOMAIN P \subseteq 1 .. n,
         \A x \in DOMAIN P : P[x].members \in Seq(Trace), NEW space, NEW pc
  PROVE  /\ IsFiniteSet(CoveringPending(P, space, pc))
         /\ Cardinality(CoveringPending(P, space, pc)) \in Nat
<1> DEFINE part(x) == {<<x, m>> : m \in CoveringIn(P[x].members, space, pc)}
           D == DOMAIN P
           V == CoveringPending(P, space, pc)
           Q == {part(x) : x \in D}
           g == [x \in D |-> part(x)]
<1>1. \A x \in D : IsFiniteSet(part(x))
  <2> SUFFICES ASSUME NEW x \in D
               PROVE  IsFiniteSet(part(x))
    OBVIOUS
  <2> DEFINE S == CoveringIn(P[x].members, space, pc)
             f == [m \in S |-> <<x, m>>]
  <2>1. IsFiniteSet(S)
    BY CoveringFinite
  <2>2. f \in Surjection(S, part(x))
    BY DEF Surjection
  <2> HIDE DEF S, f, part
  <2> QED
    BY <2>1, <2>2, FS_Surjection
<1>2. IsFiniteSet(D)
  <2>1. IsFiniteSet(1 .. n) /\ D \in SUBSET (1 .. n)
    BY FS_Interval
  <2> QED
    BY <2>1, FS_Subset
<1>3. g \in Surjection(D, Q)
  BY DEF Surjection
<1>4. (\A S \in Q : IsFiniteSet(S)) /\ V = UNION Q
  BY <1>1 DEF CoveringPending
<1> HIDE DEF part, D, Q, g, V
<1>5. IsFiniteSet(Q)
  BY <1>2, <1>3, FS_Surjection
<1>6. IsFiniteSet(V)
  BY <1>4, <1>5, FS_UNION
<1> QED
  BY <1>6, FS_CardinalityType DEF V

(* The traces of one compile are apart from the others'.                   *)
LEMMA PendingSplit ==
  ASSUME NEW P, NEW n \in Nat, DOMAIN P \subseteq 1 .. n,
         \A x \in DOMAIN P : P[x].members \in Seq(Trace),
         NEW t \in DOMAIN P, NEW space, NEW pc
  PROVE  Cardinality(CoveringPending(P, space, pc)) =
           Cardinality(CoveringPending(Except(P, t), space, pc))
             + Cardinality(CoveringIn(P[t].members, space, pc))
<1> DEFINE part(x) == {<<x, m>> : m \in CoveringIn(P[x].members, space, pc)}
           C == CoveringIn(P[t].members, space, pc)
           W == CoveringPending(P, space, pc)
           V == CoveringPending(Except(P, t), space, pc)
<1>1. DOMAIN Except(P, t) = DOMAIN P \ {t} /\ \A x \in DOMAIN P \ {t} : Except(P, t)[x] = P[x]
  BY DEF Except
<1>2. W = UNION {part(x) : x \in DOMAIN P} /\ V = UNION {part(x) : x \in DOMAIN P \ {t}}
  BY <1>1 DEF CoveringPending
<1>3. \A x \in DOMAIN P : IsFiniteSet(part(x))
  <2> SUFFICES ASSUME NEW x \in DOMAIN P
               PROVE  IsFiniteSet(part(x))
    OBVIOUS
  <2> DEFINE S == CoveringIn(P[x].members, space, pc)
             f == [m \in S |-> <<x, m>>]
  <2>1. IsFiniteSet(S)
    BY CoveringFinite
  <2>2. f \in Surjection(S, part(x))
    BY DEF Surjection
  <2> HIDE DEF S, f, part
  <2> QED
    BY <2>1, <2>2, FS_Surjection
<1>5. IsFiniteSet(V)
  <2>1. \A x \in DOMAIN Except(P, t) : Except(P, t)[x].members \in Seq(Trace)
    BY <1>1
  <2> HIDE DEF V
  <2> QED
    BY <1>1, <2>1, PendingFinite DEF V
<1>6. W = V \cup part(t)
  BY <1>2
<1>7. V \cap part(t) = {}
  BY <1>2
<1>8. Cardinality(part(t)) = Cardinality(C)
  <2> DEFINE f == [m \in C |-> <<t, m>>]
  <2>1. f \in Bijection(C, part(t))
    BY DEF Bijection, Injection, Surjection, IsInjective
  <2>2. IsFiniteSet(C)
    BY CoveringFinite
  <2> HIDE DEF f, C, part
  <2>3. ExistsBijection(C, part(t))
    BY <2>1 DEF ExistsBijection
  <2> QED
    BY <2>2, <2>3, FS_Bijection
<1>9. IsFiniteSet(part(t))
  BY <1>3
<1> HIDE DEF part, W, V, C
<1>10. Cardinality(W) = Cardinality(V) + Cardinality(C)
  BY <1>5, <1>6, <1>7, <1>8, <1>9, Apart
<1> QED
  BY <1>10 DEF W, V, C

(* One trace covers a pc once.                                             *)
Coverage == [Spaces \X Pcs -> Nat]
once(b, space, pc) == IF covers(b, space, pc) THEN 1 ELSE 0

(* Coverage moves by what one trace covers.                              *)
LEMMA CoverageMoves ==
  ASSUME NEW cov \in Coverage, NEW b \in Trace
  PROVE  /\ add_coverage(cov, b, 1) \in Coverage /\ remove_confirmed_coverage(cov, b) \in Coverage
         /\ \A space \in Spaces, pc \in Pcs :
              /\ add_coverage(cov, b, 1)[<<space, pc>>] = cov[<<space, pc>>] + once(b, space, pc)
              /\ cov[<<space, pc>>] >= once(b, space, pc) =>
                   remove_confirmed_coverage(cov, b)[<<space, pc>>] = cov[<<space, pc>>] - once(b, space, pc)
<1> DEFINE D == Spaces \X Pcs
           up == add_coverage(cov, b, 1)
           low == add_coverage(cov, b, -1)
           down == remove_confirmed_coverage(cov, b)
<1>1. DOMAIN cov = D /\ \A sp \in D : cov[sp] \in Nat
  BY DEF Coverage
<1>2. /\ DOMAIN up = D /\ DOMAIN low = D
      /\ \A sp \in D : /\ up[sp] = cov[sp] + once(b, sp[1], sp[2]) /\ low[sp] = cov[sp] - once(b, sp[1], sp[2])
                       /\ up[sp] \in Nat /\ low[sp] \in Int
  BY <1>1 DEF add_coverage, once, covers
<1>3. DOMAIN down = D /\ \A sp \in D : down[sp] = Max({0, low[sp]})
  BY <1>1 DEF remove_confirmed_coverage
<1>4. \A n \in Int : Max({0, n}) = IF n > 0 THEN n ELSE 0
  <2> SUFFICES ASSUME NEW n \in Int
               PROVE  Max({0, n}) = IF n > 0 THEN n ELSE 0
    OBVIOUS
  <2>1. Max({0, n}) = CHOOSE x \in {0, n} : \A y \in {0, n} : x >= y
    BY Zenon DEF Max
  <2> QED
    BY <2>1
<1> HIDE DEF up, low
<1>5. \A sp \in D : down[sp] \in Nat /\ (cov[sp] >= once(b, sp[1], sp[2]) =>
                                           down[sp] = cov[sp] - once(b, sp[1], sp[2]))
  <2> SUFFICES ASSUME NEW sp \in D
               PROVE  down[sp] \in Nat /\ (cov[sp] >= once(b, sp[1], sp[2]) =>
                                             down[sp] = cov[sp] - once(b, sp[1], sp[2]))
    OBVIOUS
  <2>1. once(b, sp[1], sp[2]) \in {0, 1}
    BY DEF once
  <2>2. low[sp] \in Int /\ low[sp] = cov[sp] - once(b, sp[1], sp[2]) /\ cov[sp] \in Nat
    BY <1>1, <1>2
  <2>3. down[sp] = IF low[sp] > 0 THEN low[sp] ELSE 0
    BY <1>3, <1>4, <2>2
  <2> HIDE DEF down
  <2> QED
    BY <2>1, <2>2, <2>3
<1>6. up = [sp \in D |-> up[sp]] /\ down = [sp \in D |-> down[sp]]
  BY <1>2, <1>3 DEF up, add_coverage, remove_confirmed_coverage
<1> HIDE DEF down
<1>7. up \in Coverage /\ down \in Coverage
  BY <1>2, <1>5, <1>6 DEF Coverage
<1>8. ASSUME NEW space \in Spaces, NEW pc \in Pcs
      PROVE  /\ up[<<space, pc>>] = cov[<<space, pc>>] + once(b, space, pc)
             /\ cov[<<space, pc>>] >= once(b, space, pc) =>
                  down[<<space, pc>>] = cov[<<space, pc>>] - once(b, space, pc)
  <2> DEFINE sp == <<space, pc>>
  <2>1. sp \in D /\ sp[1] = space /\ sp[2] = pc
    OBVIOUS
  <2> HIDE DEF sp
  <2>2. /\ up[sp] = cov[sp] + once(b, space, pc)
        /\ cov[sp] >= once(b, space, pc) => down[sp] = cov[sp] - once(b, space, pc)
    BY <1>2, <1>5, <2>1
  <2> QED
    BY <2>2 DEF sp
<1> QED
  BY <1>7, <1>8, Zenon DEF up, down

(* What a module's traces covered is taken off one by one.                *)
LEMMA CoverageFold ==
  ASSUME NEW blocks, NEW D, blocks \in Seq(Trace), D = DOMAIN blocks, NEW base \in Coverage,
         NEW R, <<{}, base>> \in R,
         \A s \in SUBSET D : \A x \in s : \A v \in Coverage :
           <<s \ {x}, v>> \in R => remove_confirmed_coverage(v, blocks[x]) \in Coverage /\ <<s, remove_confirmed_coverage(v, blocks[x])>> \in R
  PROVE  <<D, remove_pending_coverage(base, blocks)>> \in R
<1> DEFINE V == Coverage
           pick == [s \in SUBSET D |-> Max(s)]
           H == [p \in D \X V |-> IF remove_confirmed_coverage(p[2], blocks[p[1]]) \in V THEN remove_confirmed_coverage(p[2], blocks[p[1]]) ELSE base]
           body(it) == [s \in SUBSET D |->
                          IF s = {} THEN base
                          ELSE remove_confirmed_coverage(it[s \ {Max(s)}], blocks[Max(s)])]
           it == CHOOSE i : i = body(i)
<1>0. IsFiniteSet(D) /\ D = 1 .. Len(blocks)
  BY LenProperties, FS_Interval
<1>1. remove_pending_coverage(base, blocks) = it[D]
  BY Zenon DEF remove_pending_coverage, FoldLeft, MapThenFoldSet
<1>2. H \in [D \X V -> V]
  OBVIOUS
<1>3. \A s \in SUBSET D : s # {} => pick[s] \in s /\ pick[s] = Max(s)
  <2> SUFFICES ASSUME NEW s \in SUBSET D, s # {}
               PROVE  Max(s) \in s
    OBVIOUS
  <2>1. s \in SUBSET (1 .. Len(blocks)) /\ Len(blocks) \in Nat
    BY <1>0, LenProperties
  <2> QED
    BY <2>1, MaxIn
<1>4. ASSUME NEW s \in SUBSET D, NEW x \in s, NEW v \in V, <<s \ {x}, v>> \in R
      PROVE  H[<<x, v>>] = remove_confirmed_coverage(v, blocks[x]) /\ <<s, remove_confirmed_coverage(v, blocks[x])>> \in R
  <2>1. remove_confirmed_coverage(v, blocks[x]) \in V /\ <<s, remove_confirmed_coverage(v, blocks[x])>> \in R /\ <<x, v>> \in D \X V
    BY <1>4
  <2> QED
    BY <2>1
<1> HIDE DEF H, pick, V
<1>5. PICK i \in [SUBSET D -> V] : Folded(i, D, V, base, H, pick, R)
  <2>1. base \in V
    BY DEF V
  <2>2. \A s \in SUBSET D : \A x \in s : \A v \in V :
          <<s \ {x}, v>> \in R => <<s, H[<<x, v>>]>> \in R
    BY <1>4, Zenon
  <2>3. \A s \in SUBSET D : s # {} => pick[s] \in s
    BY <1>3
  <2> QED
    BY <1>0, <1>2, <2>1, <2>2, <2>3, FoldSolved, Zenon
<1>6. i = body(i)
  <2>1. ASSUME NEW s \in SUBSET D, s # {}
        PROVE  i[s] = remove_confirmed_coverage(i[s \ {pick[s]}], blocks[pick[s]])
    <3> DEFINE m == pick[s]  v == i[s \ {pick[s]}]
    <3>1. m \in s /\ v \in V /\ <<s \ {m}, v>> \in R /\ i[s] = H[<<m, v>>]
      BY <1>5, <2>1 DEF Folded
    <3> HIDE DEF m, v
    <3>2. H[<<m, v>>] = remove_confirmed_coverage(v, blocks[m])
      BY <1>4, <3>1
    <3>3. i[s] = remove_confirmed_coverage(v, blocks[m])
      BY <3>1, <3>2
    <3> QED
      BY <3>3 DEF m, v
  <2>2. ASSUME NEW s \in SUBSET D
        PROVE  i[s] = body(i)[s]
    <3>1. CASE s = {}
      BY <1>5, <3>1 DEF Folded
    <3>2. CASE s # {}
      <4>1. Max(s) = pick[s] /\ Max(s) \in D
        BY <1>3, <3>2
      <4>2. remove_confirmed_coverage(i[s \ {Max(s)}], blocks[Max(s)]) = remove_confirmed_coverage(i[s \ {Max(s)}], blocks[Max(s)])
        BY <4>1
      <4> QED
        BY <2>1, <3>2, <4>1, <4>2
    <3> QED
      BY <3>1, <3>2
  <2> QED
    BY <1>5, <2>2
<1>7. it = body(it)
  <2> HIDE DEF body
  <2>1. \E k : k = body(k)
    BY <1>6
  <2> QED
    BY <2>1, Zenon
<1> HIDE DEF it
<1>8. it[{}] = base /\ \A s \in SUBSET D : s # {} => it[s] = remove_confirmed_coverage(it[s \ {pick[s]}], blocks[pick[s]])
  <2>1. ASSUME NEW s \in SUBSET D, s # {}
        PROVE  it[s] = remove_confirmed_coverage(it[s \ {pick[s]}], blocks[pick[s]])
    <3>1. Max(s) = pick[s] /\ Max(s) \in D
      BY <1>3, <2>1
    <3>2. remove_confirmed_coverage(it[s \ {Max(s)}], blocks[Max(s)]) = remove_confirmed_coverage(it[s \ {Max(s)}], blocks[Max(s)])
      BY <3>1
    <3>3. it[s] = remove_confirmed_coverage(it[s \ {Max(s)}], blocks[Max(s)])
      BY <1>7, <2>1
    <3> QED
      BY <3>1, <3>2, <3>3
  <2>2. it[{}] = base
    BY <1>7
  <2> QED
    BY <2>1, <2>2
<1> DEFINE Rt == R \cap ((SUBSET D) \X V)
<1>9. <<{}, it[{}]>> \in Rt
  BY <1>8 DEF V
<1>10. ASSUME NEW s \in SUBSET D, s # {}
       PROVE  \E m \in s : <<s \ {m}, it[s \ {m}]>> \in Rt => <<s, it[s]>> \in Rt
  <2>1. pick[s] \in s
    BY <1>3, <1>10
  <2> SUFFICES ASSUME <<s \ {pick[s]}, it[s \ {pick[s]}]>> \in Rt
               PROVE  <<s, it[s]>> \in Rt
    BY <2>1
  <2>2. it[s] = remove_confirmed_coverage(it[s \ {pick[s]}], blocks[pick[s]])
    BY <1>8, <1>10
  <2> DEFINE m == pick[s]  v == it[s \ {pick[s]}]
  <2>3. m \in s /\ v \in Coverage /\ <<s \ {m}, v>> \in R /\ it[s] = remove_confirmed_coverage(v, blocks[m])
    BY <2>1, <2>2 DEF V
  <2> HIDE DEF m, v
  <2>4. it[s] \in V /\ <<s, it[s]>> \in R
    BY <2>3 DEF V
  <2> QED
    BY <2>4
<1> HIDE DEF body, Rt
<1>11. <<D, it[D]>> \in Rt
  BY <1>0, <1>9, <1>10, FoldHolds
<1> QED
  BY <1>1, <1>11 DEF Rt

(* The traces among some of a sequence that cover a pc.                    *)
among(s, D, space, pc) == {n \in D : covers(s[n], space, pc)}

(* One trace more counts once, if it covers the pc.                      *)
LEMMA OneCounted ==
  ASSUME NEW s, NEW D, IsFiniteSet(D), NEW x \in D, NEW space, NEW pc
  PROVE  /\ Cardinality(among(s, D, space, pc)) \in Nat
         /\ Cardinality(among(s, D \ {x}, space, pc)) \in Nat
         /\ Cardinality(among(s, D, space, pc)) =
              Cardinality(among(s, D \ {x}, space, pc)) + once(s[x], space, pc)
<1> DEFINE A == among(s, D, space, pc)  B == among(s, D \ {x}, space, pc)
<1>1. IsFiniteSet(A) /\ IsFiniteSet(B)
  <2>1. A \in SUBSET D /\ B \in SUBSET D
    BY DEF among
  <2> QED
    BY <2>1, FS_Subset
<1>2. A = IF covers(s[x], space, pc) THEN B \cup {x} ELSE B
  BY DEF among
<1>3. x \notin B
  BY DEF among
<1> HIDE DEF A, B
<1>4. Cardinality(A) \in Nat /\ Cardinality(B) \in Nat /\ Cardinality(B \cup {x}) = Cardinality(B) + 1
  BY <1>1, <1>3, FS_CardinalityType, FS_AddElement
<1> QED
  BY <1>2, <1>4 DEF A, B, once

(* What the traces of a module covered is taken off again.                 *)
LEMMA CoverageTaken ==
  ASSUME NEW cov \in Coverage, NEW blocks \in Seq(Trace),
         \A space \in Spaces, pc \in Pcs :
           cov[<<space, pc>>] >= Cardinality(CoveringIn(blocks, space, pc))
  PROVE  /\ remove_pending_coverage(cov, blocks) \in Coverage
         /\ \A space \in Spaces, pc \in Pcs :
              remove_pending_coverage(cov, blocks)[<<space, pc>>] =
                cov[<<space, pc>>] - Cardinality(CoveringIn(blocks, space, pc))
<1> DEFINE D == DOMAIN blocks
           Q(s, v) == \A space \in Spaces, pc \in Pcs :
                        v[<<space, pc>>] = cov[<<space, pc>>] - Cardinality(among(blocks, s, space, pc))
           R == {p \in (SUBSET D) \X Coverage : Q(p[1], p[2])}
<1>1. IsFiniteSet(D) /\ \A x \in D : blocks[x] \in Trace
  BY LenProperties, FS_Interval, ElementOfSeq
<1>2. \A space, pc : among(blocks, D, space, pc) = CoveringIn(blocks, space, pc)
  BY DEF among, CoveringIn
<1>3. \A x \in Spaces \X Pcs : cov[x] \in Nat
  BY DEF Coverage
<1>4. Q({}, cov)
  <2>1. \A space, pc : Cardinality(among(blocks, {}, space, pc)) = 0
    <3>1. \A space, pc : among(blocks, {}, space, pc) = {}
      BY DEF among
    <3> QED
      BY <3>1, FS_EmptySet
  <2> SUFFICES ASSUME NEW space \in Spaces, NEW pc \in Pcs
               PROVE  cov[<<space, pc>>] = cov[<<space, pc>>] - Cardinality(among(blocks, {}, space, pc))
    BY Zenon
  <2>2. cov[<<space, pc>>] \in Nat
    BY <1>3
  <2>3. Cardinality(among(blocks, {}, space, pc)) = 0
    BY <2>1
  <2> QED
    BY <2>2, <2>3
<1>5. ASSUME NEW s \in SUBSET D, NEW x \in s, NEW v \in Coverage, Q(s \ {x}, v)
      PROVE  /\ remove_confirmed_coverage(v, blocks[x]) \in Coverage
             /\ Q(s, remove_confirmed_coverage(v, blocks[x]))
  <2> DEFINE w == remove_confirmed_coverage(v, blocks[x])
  <2>1. blocks[x] \in Trace /\ IsFiniteSet(s)
    BY <1>1, FS_Subset
  <2>2. w \in Coverage /\ \A space \in Spaces, pc \in Pcs :
          v[<<space, pc>>] >= once(blocks[x], space, pc) =>
            w[<<space, pc>>] = v[<<space, pc>>] - once(blocks[x], space, pc)
    BY <2>1, CoverageMoves
  <2> HIDE DEF w
  <2>3. ASSUME NEW space \in Spaces, NEW pc \in Pcs
        PROVE  w[<<space, pc>>] = cov[<<space, pc>>] - Cardinality(among(blocks, s, space, pc))
    <3> DEFINE a == Cardinality(among(blocks, s, space, pc))
               b == Cardinality(among(blocks, s \ {x}, space, pc))
               all == Cardinality(among(blocks, D, space, pc))
               n == cov[<<space, pc>>]  m == v[<<space, pc>>]  e == once(blocks[x], space, pc)
    <3>1. a \in Nat /\ b \in Nat /\ a = b + e
      BY <2>1, OneCounted
    <3>2. m = n - b
      BY <1>5
    <3>3. n >= all /\ n \in Nat
      BY <1>2, <1>3
    <3>4. a <= all /\ all \in Nat
      <4>1. among(blocks, s, space, pc) \subseteq among(blocks, D, space, pc)
        BY DEF among
      <4>2. IsFiniteSet(among(blocks, D, space, pc))
        <5>1. among(blocks, D, space, pc) \in SUBSET D
          BY DEF among
        <5> QED
          BY <1>1, <5>1, FS_Subset
      <4> QED
        BY <4>1, <4>2, FS_Subset, FS_CardinalityType
    <3>5. e \in {0, 1}
      BY DEF once
    <3>6. m >= e => w[<<space, pc>>] = m - e
      BY <2>2
    <3> HIDE DEF a, b, all, n, m, e
    <3>7. w[<<space, pc>>] = n - a
      <4>1. e \in Int
        BY <3>5
      <4>2. m >= e
        BY <3>1, <3>2, <3>3, <3>4, <4>1
      <4>3. m - e = n - a
        BY <3>1, <3>2, <3>3, <4>1
      <4> QED
        BY <3>6, <4>2, <4>3
    <3> QED
      BY <3>7 DEF n, a
  <2> QED
    BY <2>2, <2>3, Zenon DEF w
<1> HIDE DEF Q
<1>6. <<{}, cov>> \in R
  BY <1>4
<1>7. \A s \in SUBSET D : \A x \in s : \A v \in Coverage :
        <<s \ {x}, v>> \in R => /\ remove_confirmed_coverage(v, blocks[x]) \in Coverage
                                /\ <<s, remove_confirmed_coverage(v, blocks[x])>> \in R
  <2> SUFFICES ASSUME NEW s \in SUBSET D, NEW x \in s, NEW v \in Coverage, <<s \ {x}, v>> \in R
               PROVE  /\ remove_confirmed_coverage(v, blocks[x]) \in Coverage
                      /\ <<s, remove_confirmed_coverage(v, blocks[x])>> \in R
    BY Zenon
  <2>1. Q(s \ {x}, v)
    OBVIOUS
  <2>2. remove_confirmed_coverage(v, blocks[x]) \in Coverage /\ Q(s, remove_confirmed_coverage(v, blocks[x]))
    BY <1>5, <2>1
  <2> QED
    BY <2>2
<1> HIDE DEF R
<1>8. <<D, remove_pending_coverage(cov, blocks)>> \in R
  BY <1>6, <1>7, CoverageFold
<1>9. remove_pending_coverage(cov, blocks) \in Coverage /\ Q(D, remove_pending_coverage(cov, blocks))
  BY <1>8 DEF R
<1> QED
  BY <1>2, <1>9, Zenon DEF Q

-----------------------------------------------------------------------------
(* A compile is handed out.                                                *)
With(P, t, c) == [x \in DOMAIN P \cup {t} |-> IF x = t THEN c ELSE P[x]]

(* What it may change: the stage that it is taken from, the module of its  *)
(* page, the claims on its pages.                                          *)
LEMMA SubmitSound ==
  ASSUME NEW j \in JitStates, NEW P, NEW pg, NEW n \in Nat, PendingSound(j, P, pg, n),
         NEW c, SoundCompile(c, pg), NEW i \in JitStates, StageSound(i.stage, pg),
         \A s \in Slots : i.slot_owner[s] \in {j.slot_owner[s], 0},
         \A k \in Keys : \/ i.modules[k] = j.modules[k] \/ i.modules[k].is # "pending"
                         \/ i.modules[k].ticket = n + 1 /\ c.kind = "page" /\ c.key = k,
         \A k \in Keys : \/ i.claims[k] = j.claims[k]
                         \/ /\ i.claims[k].ticket = n + 1 /\ c.kind = "region" /\ c.space = k[1]
                            /\ \E s \in c.src : s.va = k[2],
         c.kind = "region" =>
           \A s \in c.src : i.claims[<<c.space, s.va>>].page = s.pp /\ Current(s, pg),
         \A space \in Spaces, pc \in Pcs :
           i.coverage[<<space, pc>>] + Cardinality(CoveringIn(j.stage, space, pc)) =
             j.coverage[<<space, pc>>] + Cardinality(CoveringIn(i.stage, space, pc))
               + Cardinality(CoveringIn(c.members, space, pc))
  PROVE  PendingSound(i, With(P, n + 1, c), pg, n + 1)
<1> DEFINE t == n + 1
           Q == With(P, t, c)
<1>1. /\ DOMAIN P \subseteq 1 .. n /\ t \notin DOMAIN P /\ t \in Nat
      /\ DOMAIN Q = DOMAIN P \cup {t} /\ Q[t] = c
      /\ \A x \in DOMAIN P : Q[x] = P[x] /\ x # t
  BY DEF PendingSound, With
<1> HIDE DEF Q
<1>2. DOMAIN Q \subseteq 1 .. t
  BY <1>1
<1>3. \A x \in DOMAIN Q : SoundCompile(Q[x], pg)
  BY <1>1 DEF PendingSound
<1>4. ClaimsHold(i.claims, Q, pg)
  <2> SUFFICES ASSUME NEW x \in DOMAIN Q, Q[x].kind = "region", NEW s \in Q[x].src,
                      i.claims[<<Q[x].space, s.va>>].ticket = x
               PROVE  i.claims[<<Q[x].space, s.va>>].page = s.pp /\ Current(s, pg)
    BY Zenon DEF ClaimsHold
  <2>1. CASE x = t
    BY <1>1, <2>1
  <2>2. CASE x \in DOMAIN P
    <3> DEFINE k == <<P[x].space, s.va>>
    <3>1. SoundCompile(P[x], pg) /\ Q[x] = P[x] /\ x # t
      BY <1>1, <2>2 DEF PendingSound
    <3>2. P[x].space \in Spaces /\ s \in Source
      BY <3>1 DEF SoundCompile, RegionTraces
    <3>3. k \in Keys
      BY <3>2 DEF Keys, Source
    <3>4. i.claims[k] = j.claims[k]
      <4>1. i.claims[k].ticket # t
        BY <3>1
      <4> HIDE DEF k
      <4> QED
        BY <3>3, <4>1
    <3>5. j.claims[k].page = s.pp /\ Current(s, pg)
      <4>1. P[x].kind = "region" /\ s \in P[x].src /\ j.claims[k].ticket = x
        BY <3>1, <3>4
      <4>2. ClaimsHold(j.claims, P, pg)
        BY DEF PendingSound
      <4> QED
        BY <2>2, <4>1, <4>2, Zenon DEF ClaimsHold
    <3> QED
      BY <3>1, <3>4, <3>5
  <2> QED
    BY <1>1, <2>1, <2>2
<1>5. ClaimsTracked(i.claims, Q)
  <2> SUFFICES ASSUME NEW k \in Keys, i.claims[k] # NoClaim
               PROVE  /\ i.claims[k].ticket \in DOMAIN Q
                      /\ Q[i.claims[k].ticket].kind = "region" /\ Q[i.claims[k].ticket].space = k[1]
                      /\ \E s \in Q[i.claims[k].ticket].src : s.va = k[2]
    BY Zenon DEF ClaimsTracked
  <2>1. CASE i.claims[k] = j.claims[k]
    <3>1. /\ j.claims[k].ticket \in DOMAIN P
          /\ P[j.claims[k].ticket].kind = "region" /\ P[j.claims[k].ticket].space = k[1]
          /\ \E s \in P[j.claims[k].ticket].src : s.va = k[2]
      BY <2>1, Zenon DEF PendingSound, ClaimsTracked
    <3> QED
      BY <1>1, <2>1, <3>1
  <2>2. CASE i.claims[k] # j.claims[k]
    BY <1>1, <2>2
  <2> QED
    BY <2>1, <2>2
<1>6. ModulesTracked(i.modules, Q)
  <2> SUFFICES ASSUME NEW k \in Keys, i.modules[k].is = "pending"
               PROVE  /\ i.modules[k].ticket \in DOMAIN Q
                      /\ Q[i.modules[k].ticket].kind = "page" /\ Q[i.modules[k].ticket].key = k
    BY Zenon DEF ModulesTracked
  <2>1. CASE i.modules[k] = j.modules[k]
    <3>1. /\ j.modules[k].ticket \in DOMAIN P
          /\ P[j.modules[k].ticket].kind = "page" /\ P[j.modules[k].ticket].key = k
      BY <2>1, Zenon DEF PendingSound, ModulesTracked
    <3> QED
      BY <1>1, <2>1, <3>1
  <2>2. CASE i.modules[k] # j.modules[k]
    BY <1>1, <2>2
  <2> QED
    BY <2>1, <2>2
<1>7. OwnersAnswered(i.slot_owner, Q, t)
  <2> SUFFICES ASSUME NEW s \in Slots
               PROVE  i.slot_owner[s] <= t /\ i.slot_owner[s] \notin DOMAIN Q
    BY DEF OwnersAnswered
  <2>1. /\ i.slot_owner[s] \in {j.slot_owner[s], 0} /\ j.slot_owner[s] <= n
        /\ j.slot_owner[s] \notin DOMAIN P
    BY DEF PendingSound, OwnersAnswered
  <2>2. j.slot_owner[s] \in Int
    <3>1. j.slot_owner \in [Slots -> Tickets \cup {0}]
      BY FieldType
    <3>2. j.slot_owner[s] \in Tickets \/ j.slot_owner[s] = 0
      BY <3>1
    <3>3. j.slot_owner[s] \in Tickets => j.slot_owner[s] \in Nat
      BY TicketType, Zenon
    <3> QED
      BY <3>2, <3>3
  <2> QED
    BY <1>1, <2>1, <2>2
<1>8. CoverageHolds(i.coverage, i.stage, Q)
  <2> SUFFICES ASSUME NEW space \in Spaces, NEW pc \in Pcs
               PROVE  i.coverage[<<space, pc>>] = Cardinality(CoveringIn(i.stage, space, pc))
                                                    + Cardinality(CoveringPending(Q, space, pc))
    BY Zenon DEF CoverageHolds
  <2> DEFINE a == i.coverage[<<space, pc>>]  b == j.coverage[<<space, pc>>]
             u == Cardinality(CoveringIn(i.stage, space, pc))
             v == Cardinality(CoveringIn(j.stage, space, pc))
             m == Cardinality(CoveringIn(c.members, space, pc))
             p == Cardinality(CoveringPending(P, space, pc))
             q == Cardinality(CoveringPending(Q, space, pc))
  <2>1. \A x \in DOMAIN Q : Q[x].members \in Seq(Trace)
    BY <1>3 DEF SoundCompile
  <2>2. q = Cardinality(CoveringPending(Except(Q, t), space, pc)) + m
    BY <1>1, <1>2, <2>1, PendingSplit
  <2>3. CoveringPending(Except(Q, t), space, pc) = CoveringPending(P, space, pc)
    <3>1. DOMAIN Except(Q, t) = DOMAIN P /\ \A x \in DOMAIN P : Except(Q, t)[x] = P[x]
      BY <1>1 DEF Except
    <3> QED
      BY <3>1 DEF CoveringPending
  <2>4. u \in Nat /\ v \in Nat /\ m \in Nat
    <3>1. i.stage \in Seq(Trace) /\ j.stage \in Seq(Trace) /\ c.members \in Seq(Trace)
      BY FieldType DEF SoundCompile
    <3> QED
      BY <3>1, CoveringFinite
  <2>5. a \in Nat /\ b \in Nat
    <3>1. i.coverage \in [Spaces \X Pcs -> Nat] /\ j.coverage \in [Spaces \X Pcs -> Nat]
      BY FieldType
    <3> QED
      BY <3>1
  <2>6. a + v = b + u + m
    OBVIOUS
  <2>7. b = v + p
    BY Zenon DEF PendingSound, CoverageHolds
  <2>8. q = p + m
    BY <2>2, <2>3
  <2>9. p \in Nat
    <3>1. DOMAIN P \subseteq 1 .. n /\ \A x \in DOMAIN P : P[x].members \in Seq(Trace)
      BY DEF PendingSound, SoundCompile
    <3> QED
      BY <3>1, PendingFinite
  <2> HIDE DEF a, b, u, v, m, p, q
  <2>10. a = u + q
    BY <2>4, <2>5, <2>6, <2>7, <2>8, <2>9
  <2> QED
    BY <2>10 DEF a, u, q
<1> QED
  BY <1>2, <1>3, <1>4, <1>5, <1>6, <1>7, <1>8 DEF PendingSound, Q

(* Where a page of the current address space is.                           *)
LEMMA PageHere ==
  ASSUME satp \in Spaces, NEW va \in Virtual
  PROVE  page_here(va) \in Virtual \X Physical /\ page_here(va)[1] = va
<1>1. <<satp, va>> \in DOMAIN Mapping
  BY OwnershipAssumption DEF Keys
<1>2. Mapping[<<satp, va>>] \in Physical
  BY <1>1 DEF Physical
<1> QED
  BY <1>2 DEF page_here

(* A trace made after the drain, of a page that is marked for it.          *)
LEMMA BlockMade ==
  ASSUME OwnershipInv, NEW pc \in Pcs, NEW cover \in SUBSET Pcs, NEW ps,
         page_here(PageOf[pc])[2] \in ps
  PROVE  /\ block(pc, cover) \in Trace /\ Single(pc, block(pc, cover).src)
         /\ block(pc, cover).pc = pc /\ block(pc, cover).space = satp
         /\ block(pc, cover).cover = cover
         /\ block(pc, cover).src = source({page_here(PageOf[pc])})
         /\ \A s \in block(pc, cover).src : Current(s, code_mark(ps))
         /\ drained => SoundTrace(block(pc, cover), code_mark(ps))
<1> DEFINE here == page_here(PageOf[pc])
           src == source({here})
           b == block(pc, cover)
<1>1. satp \in Spaces /\ pages \in PageStates
  BY DEF OwnershipInv
<1>2. PageOf[pc] \in Virtual
  BY DEF Virtual
<1>3. here \in Virtual \X Physical /\ here[1] = PageOf[pc]
  BY <1>1, <1>2, PageHere
<1>4. b = [pc |-> pc, space |-> satp, src |-> src, cover |-> cover]
  BY DEF block
<1> HIDE DEF here
<1>5. /\ src \in SUBSET Source
      /\ \A s \in src : <<s.va, s.pp>> \in {here}
      /\ \A p \in {here} : \E s \in src : s.va = p[1] /\ s.pp = p[2]
      /\ \A s \in src : s.pp \in ps => Current(s, code_mark(ps)) /\ (drained => Fresh(s, code_mark(ps)))
  <2>1. {here} \in SUBSET (Virtual \X Physical)
    BY <1>3
  <2> QED
    BY <1>1, <2>1, SourceMade
<1>6. src = {[va |-> here[1], pp |-> here[2], gen |-> pages[here[2]].gen, ver |-> pages[here[2]].bytes]}
  BY DEF source
<1> HIDE DEF src, b
<1>7. Single(pc, src)
  <2> DEFINE s == [va |-> here[1], pp |-> here[2], gen |-> pages[here[2]].gen, ver |-> pages[here[2]].bytes]
  <2>1. s.va = PageOf[pc]
    BY <1>3
  <2>2. src = {s}
    BY <1>6
  <2> HIDE DEF s
  <2> QED
    BY <2>1, <2>2 DEF Single
<1>8. \A s \in src : s.pp \in ps
  BY <1>3, <1>5 DEF here
<1>9. b \in Trace
  BY <1>1, <1>4, <1>5 DEF Trace
<1>10. b.pc = pc /\ b.space = satp /\ b.cover = cover /\ b.src = src
  BY <1>4
<1>11. drained => SoundTrace(b, code_mark(ps))
  BY <1>5, <1>7, <1>8, <1>9, <1>10 DEF SoundTrace
<1> QED
  BY <1>5, <1>7, <1>8, <1>9, <1>10, <1>11 DEF b, src, here

(* A compile is handed out under the next ticket.                          *)
LEMMA SubmitKept ==
  ASSUME OwnershipInv, NEW c, submit_pending_jit(c), satp' = satp, pages' \in PageStates,
         Sound(jit', {}, {}, 0, {}), LinesAgree(jit', satp), EntriesCurrent(jit', pages'),
         PendingSound(jit', With(pending, tickets + 1, c), pages', tickets + 1)
  PROVE  Kept
<1>1. pending' = With(pending, tickets + 1, c) /\ tickets' = tickets + 1 /\ tickets < scope.issues
  BY DEF submit_pending_jit, issue_allowed, With
<1>2. scope.issues \in 0 .. MaxTickets /\ tickets \in 0 .. scope.issues /\ satp \in Spaces
  BY Parts DEF OwnershipInv
<1>3. tickets + 1 \in 0 .. scope.issues
  BY <1>1, <1>2, OwnershipAssumption
<1>4. Holding(jit', pending', pages', satp', tickets')
  BY <1>1 DEF Holding
<1> QED
  BY <1>1, <1>2, <1>3, <1>4 DEF Kept

(* A pc's trace is compiled.                                               *)
LEMMA CompileBlockKept == ASSUME OwnershipInv, NEW pc \in Pcs, CompileBlock(pc) PROVE Kept
<1> DEFINE b == block(pc, {})
           c == compile("block", <<b>>)
           ps == {page_here(PageOf[pc])[2]}
           q == code_mark(ps)
<1>1. /\ jit \in JitStates /\ satp \in Spaces /\ tickets \in Nat /\ pages \in PageStates
      /\ Sound(jit, {}, {}, 0, {}) /\ LinesAgree(jit, satp) /\ EntriesCurrent(jit, pages)
      /\ PendingSound(jit, pending, pages, tickets)
  BY Parts
<1>2. /\ drained /\ pages' = q /\ submit_pending_jit(c) /\ UNCHANGED <<jit, satp>>
  BY DEF CompileBlock
<1>3. b \in Trace /\ SoundTrace(b, q) /\ b.cover = {}
  BY <1>2, BlockMade
<1>4. q \in PageStates /\ Ages(q, pages)
  BY <1>1, MarkAges
<1> HIDE DEF q, b
<1>5. PendingSound(jit, pending, q, tickets) /\ EntriesCurrent(jit, q)
  BY <1>1, <1>4, AgesSound
<1>6. c.members = <<b>> /\ c.members \in Seq(Trace) /\ Len(c.members) = 1 /\ c.kind = "block"
  BY <1>3 DEF compile
<1> HIDE DEF c
<1>7. DOMAIN c.members = {1} /\ c.members[1] = b
  BY <1>6
<1>8. SoundCompile(c, q)
  <2>1. \A x \in blocks_of(c) : x = b
    BY <1>7 DEF blocks_of
  <2> QED
    BY <1>3, <1>6, <2>1 DEF SoundCompile
<1>9. ASSUME NEW space \in Spaces, NEW x \in Pcs
      PROVE  jit.coverage[<<space, x>>] + Cardinality(CoveringIn(jit.stage, space, x)) =
               jit.coverage[<<space, x>>] + Cardinality(CoveringIn(jit.stage, space, x))
                 + Cardinality(CoveringIn(c.members, space, x))
  <2>1. CoveringIn(c.members, space, x) = {}
    BY <1>3, <1>7 DEF CoveringIn, covers
  <2>2. Cardinality(CoveringIn(c.members, space, x)) = 0
    BY <2>1, FS_EmptySet
  <2>3. jit.coverage[<<space, x>>] \in Nat /\ Cardinality(CoveringIn(jit.stage, space, x)) \in Nat
    <3>1. jit.coverage \in [Spaces \X Pcs -> Nat] /\ jit.stage \in Seq(Trace)
      BY <1>1, FieldType
    <3> QED
      BY <3>1, CoveringFinite
  <2> QED
    BY <2>2, <2>3
<1>10. PendingSound(jit, With(pending, tickets + 1, c), q, tickets + 1)
  <2>1. StageSound(jit.stage, q)
    BY <1>5 DEF PendingSound
  <2>2. c.kind # "region"
    BY <1>6
  <2> QED
    BY <1>1, <1>5, <1>8, <1>9, <2>1, <2>2, SubmitSound
<1> QED
  BY <1>1, <1>2, <1>4, <1>5, <1>10, SubmitKept DEF q

(* It is put on record that there is none.                                 *)
LEMMA BlacklistKept == ASSUME OwnershipInv, NEW pc \in Pcs, Blacklist(pc) PROVE Kept
<1> DEFINE b == block(pc, {})
           src == source({page_here(PageOf[pc])})
           e == [idx |-> 0, region |-> TRUE, fp |-> FALSE, src |-> src]
           ps == {page_here(PageOf[pc])[2]}
           q == code_mark(ps)
           r == cache_insert(jit, pc, e)
<1>1. /\ jit \in JitStates /\ satp \in Spaces /\ tickets \in Nat /\ pages \in PageStates
      /\ Sound(jit, {}, {}, 0, {}) /\ LinesAgree(jit, satp) /\ EntriesCurrent(jit, pages)
      /\ PendingSound(jit, pending, pages, tickets)
  BY Parts
<1>2. /\ pages' = q /\ jit' = r /\ UNCHANGED <<pending, satp, tickets>> /\ jit.cache[pc] = NoEntry
  BY DEF Blacklist, wanted, uncompiled
<1>3. b \in Trace /\ Single(pc, b.src) /\ b.src = src /\ \A s \in b.src : Current(s, q)
  <2>1. page_here(PageOf[pc])[2] \in ps /\ {} \in SUBSET Pcs
    OBVIOUS
  <2> HIDE DEF ps
  <2> QED
    BY <2>1, BlockMade
<1>4. q \in PageStates /\ Ages(q, pages)
  BY <1>1, MarkAges
<1> HIDE DEF q, b, src
<1>5. e \in Entry /\ e # NoEntry /\ e.idx = 0 /\ e.src = src
  BY <1>3 DEF Entry, Trace, NoEntry
<1> HIDE DEF e
<1>6. 0 \notin Slots
  BY OwnershipAssumption
<1>7. Installable(jit, pc, e.idx, e.src)
  BY <1>3, <1>5, <1>6 DEF Installable, Covering
<1>8. /\ Sound(r, {}, {}, 0, {}) /\ Keeps(r, jit) /\ r.lines = jit.lines
      /\ \A x \in Pcs : r.cache[x] = IF x = pc THEN e ELSE jit.cache[x]
  <2>1. {} \ {e.idx} = {}
    OBVIOUS
  <2>2. /\ Sound(r, {} \ {e.idx}, {}, 0, {}) /\ Keeps(r, jit) /\ r.lines = jit.lines
        /\ \A x \in Pcs : r.cache[x] = IF x = pc THEN e ELSE jit.cache[x]
    BY <1>1, <1>5, <1>7, InsertSound
  <2> HIDE DEF r
  <2> QED
    BY <2>1, <2>2
<1> HIDE DEF r
<1>9. \A space \in Spaces : LinesAgree(jit, space) => LinesAgree(r, space)
  <2> SUFFICES ASSUME NEW space \in Spaces, LinesAgree(jit, space), NEW n \in Lines, r.lines[n].pc # 0
               PROVE  /\ Dslot[r.lines[n].pc] = n /\ r.cache[r.lines[n].pc] # NoEntry
                      /\ r.cache[r.lines[n].pc].idx = r.lines[n].idx
                      /\ r.lines[n].fresh => Maps(space, r.cache[r.lines[n].pc].src)
    BY Zenon DEF LinesAgree
  <2> DEFINE x == jit.lines[n].pc
  <2>1. /\ Dslot[x] = n /\ jit.cache[x] # NoEntry /\ jit.cache[x].idx = jit.lines[n].idx
        /\ jit.lines[n].fresh => Maps(space, jit.cache[x].src)
    BY <1>8 DEF LinesAgree
  <2>2. x \in Pcs
    <3>1. jit.lines[n] \in Line
      BY <1>1, FieldType
    <3> QED
      BY <1>8, <3>1 DEF Line, NoLine
  <2>3. r.cache[x] = jit.cache[x]
    BY <1>2, <1>8, <2>1, <2>2
  <2> QED
    BY <1>8, <2>1, <2>3
<1>10. Tame(r, jit)
  BY <1>8, <1>9, FollowsTame DEF Follows
<1>11. PendingSound(r, pending, q, tickets) /\ EntriesCurrent(jit, q)
  BY <1>1, <1>4, <1>10, AgesSound, TamePending
<1>12. EntriesCurrent(r, q)
  BY <1>3, <1>5, <1>8, <1>11 DEF EntriesCurrent
<1>13. Holding(r, pending, q, satp, tickets)
  BY <1>1, <1>8, <1>9, <1>11, <1>12 DEF Holding
<1> QED
  BY <1>1, <1>2, <1>4, <1>13 DEF Kept, OwnershipInv

-----------------------------------------------------------------------------
(* Traces that are staged.                                                 *)

(* A batch is taken from the front of the stage.                           *)
LEMMA BatchTaken ==
  ASSUME NEW j \in JitStates, NEW P, NEW pg, NEW n \in Nat, PendingSound(j, P, pg, n),
         Sound(j, {}, {}, 0, {}), NEW m \in 1 .. Len(j.stage)
  PROVE  LET i == [j EXCEPT !.stage = SubSeq(@, m + 1, Len(@))]
             c == compile("batch", SubSeq(j.stage, 1, m))
         IN  /\ Sound(i, {}, {}, 0, {}) /\ PendingSound(i, With(P, n + 1, c), pg, n + 1)
             /\ i.cache = j.cache /\ i.lines = j.lines
<1> DEFINE s == j.stage
<1>1. s \in Seq(Trace) /\ m \in 0 .. Len(s) /\ m > 0 /\ DOMAIN j = JitFields
  BY FieldType, LenProperties
<1> HIDE DEF s
<1>2. PICK u, v \in Seq(Trace) :
        /\ u = SubSeq(s, 1, m) /\ v = SubSeq(s, m + 1, Len(s)) /\ Len(u) = m
        /\ \A x \in DOMAIN u : x \in DOMAIN s /\ u[x] = s[x]
        /\ \A x \in DOMAIN v : x + m \in DOMAIN s /\ v[x] = s[x + m]
        /\ \A space, pc : Cardinality(CoveringIn(s, space, pc)) =
             Cardinality(CoveringIn(u, space, pc)) + Cardinality(CoveringIn(v, space, pc))
  BY <1>1, CoveringCut, Zenon
<1> DEFINE i == [j EXCEPT !.stage = v]
           c == compile("batch", u)
<1>0. /\ Len(u) = m
      /\ \A x \in DOMAIN u : x \in DOMAIN s /\ u[x] = s[x]
      /\ \A x \in DOMAIN v : x + m \in DOMAIN s /\ v[x] = s[x + m]
      /\ \A space, pc : Cardinality(CoveringIn(s, space, pc)) =
           Cardinality(CoveringIn(u, space, pc)) + Cardinality(CoveringIn(v, space, pc))
  BY <1>2, Zenon
<1>3. i \in JitStates /\ Same(i, j, {"stage"}) /\ i.stage = v
  BY <1>1, <1>0 DEF JitStates, Same, JitFields
<1> HIDE DEF i
<1>4. /\ i.cache = j.cache /\ i.lines = j.lines /\ i.slot_owner = j.slot_owner /\ i.modules = j.modules
      /\ i.claims = j.claims /\ i.coverage = j.coverage
  BY <1>3 DEF Same, JitFields
<1>5. Sound(i, {}, {}, 0, {})
  <2>1. Same(i, j, {"lines", "modules", "superblocked", "claims", "stage", "coverage", "fill"})
    BY <1>3 DEF Same
  <2> QED
    BY <1>3, <1>4, <2>1, SoundFields
<1>6. StageSound(s, pg)
  BY DEF PendingSound, s
<1>7. StageSound(v, pg)
  BY <1>0, <1>6 DEF StageSound
<1>8. SoundCompile(c, pg)
  <2>1. c.members = u /\ c.kind = "batch"
    BY DEF compile
  <2> HIDE DEF c
  <2>2. \A b \in blocks_of(c) : SoundTrace(b, pg)
    BY <1>0, <1>6, <2>1, Zenon DEF blocks_of, StageSound
  <2> QED
    BY <1>1, <1>0, <2>1, <2>2 DEF SoundCompile
<1>9. c.kind # "region" /\ c.members = u
  BY DEF compile
<1> HIDE DEF c
<1>10. ASSUME NEW space \in Spaces, NEW pc \in Pcs
       PROVE  i.coverage[<<space, pc>>] + Cardinality(CoveringIn(j.stage, space, pc)) =
                j.coverage[<<space, pc>>] + Cardinality(CoveringIn(i.stage, space, pc))
                  + Cardinality(CoveringIn(c.members, space, pc))
  <2>1. j.coverage[<<space, pc>>] \in Nat
    <3>1. j.coverage \in [Spaces \X Pcs -> Nat]
      BY FieldType
    <3> QED
      BY <3>1
  <2>2. /\ Cardinality(CoveringIn(s, space, pc)) \in Nat /\ Cardinality(CoveringIn(u, space, pc)) \in Nat
        /\ Cardinality(CoveringIn(v, space, pc)) \in Nat
    BY <1>1, <1>0, CoveringFinite
  <2>3. Cardinality(CoveringIn(s, space, pc)) =
          Cardinality(CoveringIn(u, space, pc)) + Cardinality(CoveringIn(v, space, pc))
    BY <1>0
  <2> DEFINE k == j.coverage[<<space, pc>>]
             x == Cardinality(CoveringIn(s, space, pc))
             y == Cardinality(CoveringIn(u, space, pc))
             z == Cardinality(CoveringIn(v, space, pc))
  <2>4. k + x = k + z + y
    <3> HIDE DEF k, x, y, z
    <3>1. k \in Nat /\ x \in Nat /\ y \in Nat /\ z \in Nat /\ x = y + z
      BY <2>1, <2>2, <2>3 DEF k, x, y, z
    <3> QED
      BY <3>1
  <2> QED
    BY <1>3, <1>4, <1>9, <2>4, Zenon DEF s
<1>11. PendingSound(i, With(P, n + 1, c), pg, n + 1)
  BY <1>3, <1>4, <1>7, <1>8, <1>9, <1>10, SubmitSound
<1> QED
  BY <1>2, <1>4, <1>5, <1>11 DEF i, c, s

(* One more trace waits.                                                   *)
LEMMA Staged ==
  ASSUME NEW j \in JitStates, NEW P, NEW pg, NEW n \in Nat, PendingSound(j, P, pg, n),
         Sound(j, {}, {}, 0, {}), NEW b, SoundTrace(b, pg)
  PROVE  LET i == [j EXCEPT !.stage = Append(@, b), !.coverage = add_coverage(@, b, 1)] IN
         /\ Sound(i, {}, {}, 0, {}) /\ PendingSound(i, P, pg, n)
         /\ i.cache = j.cache /\ i.lines = j.lines
<1> DEFINE s == Append(j.stage, b)
           cov == add_coverage(j.coverage, b, 1)
           h == [j EXCEPT !.stage = s]
           i == [h EXCEPT !.coverage = cov]
<1>1. /\ j.stage \in Seq(Trace) /\ j.coverage \in Coverage /\ DOMAIN j = JitFields /\ b \in Trace
  BY FieldType DEF Coverage, SoundTrace
<1>2. /\ s \in Seq(Trace) /\ Len(s) = Len(j.stage) + 1 /\ DOMAIN s = 1 .. Len(j.stage) + 1
      /\ DOMAIN j.stage = 1 .. Len(j.stage) /\ Len(j.stage) \in Nat
      /\ \A x \in DOMAIN j.stage : s[x] = j.stage[x]
      /\ s[Len(j.stage) + 1] = b
  BY <1>1, AppendProperties, LenProperties
<1>3. \A space, pc : Cardinality(CoveringIn(s, space, pc)) =
                       Cardinality(CoveringIn(j.stage, space, pc)) + once(b, space, pc)
  BY <1>1, CoveringAppend, Zenon DEF once
<1>4. cov \in Coverage /\ \A space \in Spaces, pc \in Pcs :
        cov[<<space, pc>>] = j.coverage[<<space, pc>>] + once(b, space, pc)
  BY <1>1, CoverageMoves, Zenon
<1>5. [j EXCEPT !.stage = Append(@, b), !.coverage = add_coverage(@, b, 1)] = i
  BY <1>1 DEF JitFields
<1> HIDE DEF s, cov
<1>6. h \in JitStates /\ DOMAIN h = JitFields
  BY <1>1, <1>2 DEF JitStates, JitFields
<1>7. i \in JitStates /\ Same(i, j, {"stage", "coverage"}) /\ i.stage = s /\ i.coverage = cov
  BY <1>1, <1>4, <1>6 DEF JitStates, Same, JitFields, Coverage
<1> HIDE DEF i, h
<1>8. /\ i.cache = j.cache /\ i.lines = j.lines /\ i.slot_owner = j.slot_owner /\ i.modules = j.modules
      /\ i.claims = j.claims
  BY <1>7 DEF Same, JitFields
<1>9. Sound(i, {}, {}, 0, {})
  <2>1. Same(i, j, {"lines", "modules", "superblocked", "claims", "stage", "coverage", "fill"})
    BY <1>7 DEF Same
  <2> QED
    BY <1>7, <1>8, <2>1, SoundFields
<1>10. StageSound(i.stage, pg)
  <2>1. StageSound(j.stage, pg)
    BY DEF PendingSound
  <2> SUFFICES ASSUME NEW x \in DOMAIN s
               PROVE  SoundTrace(s[x], pg)
    BY <1>7, Zenon DEF StageSound
  <2>2. x \in DOMAIN j.stage \/ x = Len(j.stage) + 1
    BY <1>2
  <2>3. ASSUME x \in DOMAIN j.stage
        PROVE  SoundTrace(s[x], pg)
    BY <1>2, <2>1, <2>3, Zenon DEF StageSound
  <2> QED
    BY <1>2, <2>2, <2>3
<1>11. CoverageHolds(i.coverage, i.stage, P)
  <2> SUFFICES ASSUME NEW space \in Spaces, NEW pc \in Pcs
               PROVE  cov[<<space, pc>>] = Cardinality(CoveringIn(s, space, pc))
                                             + Cardinality(CoveringPending(P, space, pc))
    BY <1>7, Zenon DEF CoverageHolds
  <2> DEFINE a == Cardinality(CoveringIn(j.stage, space, pc))
             p == Cardinality(CoveringPending(P, space, pc))
             o == once(b, space, pc)
  <2>1. j.coverage[<<space, pc>>] = a + p
    BY Zenon DEF PendingSound, CoverageHolds
  <2>2. /\ cov[<<space, pc>>] = j.coverage[<<space, pc>>] + o
        /\ Cardinality(CoveringIn(s, space, pc)) = a + o
    BY <1>3, <1>4
  <2>3. a \in Nat /\ o \in {0, 1}
    BY <1>1, CoveringFinite DEF once
  <2>4. p \in Nat
    <3>1. DOMAIN P \subseteq 1 .. n /\ \A x \in DOMAIN P : P[x].members \in Seq(Trace)
      BY DEF PendingSound, SoundCompile
    <3> QED
      BY <3>1, PendingFinite
  <2> HIDE DEF a, p, o
  <2> QED
    BY <2>1, <2>2, <2>3, <2>4 DEF p
<1>12. PendingSound(i, P, pg, n)
  BY <1>8, <1>10, <1>11 DEF PendingSound
<1> QED
  BY <1>5, <1>8, <1>9, <1>12, Zenon

(* A batch is handed out of a stage that is long enough.                   *)
LEMMA BatchKept ==
  ASSUME OwnershipInv, NEW j \in JitStates, pages' \in PageStates, satp' = satp,
         PendingSound(j, pending, pages', tickets), Sound(j, {}, {}, 0, {}),
         LinesAgree(j, satp), EntriesCurrent(j, pages'),
         stage_full(j), submit_confirmed_stage(j)
  PROVE  Kept
<1> DEFINE m == scope.batch
           i == [j EXCEPT !.stage = SubSeq(@, m + 1, Len(@))]
           c == compile("batch", SubSeq(j.stage, 1, m))
<1>1. m \in 1 .. Len(j.stage) /\ tickets \in Nat
  <2>1. m \in Nat \ {0} /\ m <= Len(j.stage)
    BY OwnershipAssumption DEF OwnershipInv, stage_full
  <2>2. j.stage \in Seq(Trace)
    BY FieldType
  <2> QED
    BY <2>1, <2>2, LenProperties, Parts
<1>2. jit' = i /\ submit_pending_jit(c)
  BY DEF submit_confirmed_stage
<1> HIDE DEF m
<1>3. /\ Sound(i, {}, {}, 0, {}) /\ PendingSound(i, With(pending, tickets + 1, c), pages', tickets + 1)
      /\ i.cache = j.cache /\ i.lines = j.lines
  BY <1>1, BatchTaken
<1> HIDE DEF i, c
<1>4. LinesAgree(i, satp) /\ EntriesCurrent(i, pages')
  BY <1>3 DEF LinesAgree, EntriesCurrent
<1> QED
  BY <1>2, <1>3, <1>4, SubmitKept

(* The stage is submitted at the top of the loop.                        *)
LEMMA SubmitStageKept == ASSUME OwnershipInv, SubmitStage PROVE Kept
<1>1. /\ jit \in JitStates /\ pages \in PageStates
      /\ Sound(jit, {}, {}, 0, {}) /\ LinesAgree(jit, satp) /\ EntriesCurrent(jit, pages)
      /\ PendingSound(jit, pending, pages, tickets)
  BY Parts
<1>2. stage_full(jit) /\ submit_confirmed_stage(jit) /\ UNCHANGED <<pages, satp>>
  BY DEF SubmitStage
<1> QED
  BY <1>1, <1>2, BatchKept

(* A confirmed trace is staged.                                            *)
LEMMA StageBlockKept ==
  ASSUME OwnershipInv, NEW pc \in Pcs, NEW cover \in SUBSET Pcs, StageBlock(pc, cover)
  PROVE  Kept
<1> DEFINE b == block(pc, cover \cup {pc})
           ps == {page_here(PageOf[pc])[2]}
           q == code_mark(ps)
           j == [jit EXCEPT !.stage = Append(@, b), !.coverage = add_coverage(@, b, 1)]
<1>1. /\ jit \in JitStates /\ satp \in Spaces /\ tickets \in Nat /\ pages \in PageStates
      /\ Sound(jit, {}, {}, 0, {}) /\ LinesAgree(jit, satp) /\ EntriesCurrent(jit, pages)
      /\ PendingSound(jit, pending, pages, tickets)
  BY Parts
<1>2. /\ drained /\ pages' = q /\ satp' = satp
      /\ IF stage_full(j) THEN submit_confirmed_stage(j) ELSE jit' = j /\ UNCHANGED <<pending, tickets>>
  BY DEF StageBlock
<1>3. SoundTrace(b, q)
  <2>1. cover \cup {pc} \in SUBSET Pcs
    OBVIOUS
  <2> QED
    BY <1>2, <2>1, BlockMade
<1>4. q \in PageStates /\ Ages(q, pages)
  BY <1>1, MarkAges
<1> HIDE DEF q, b
<1>5. PendingSound(jit, pending, q, tickets) /\ EntriesCurrent(jit, q)
  BY <1>1, <1>4, AgesSound
<1>6. /\ Sound(j, {}, {}, 0, {}) /\ PendingSound(j, pending, q, tickets)
      /\ j.cache = jit.cache /\ j.lines = jit.lines
  BY <1>1, <1>3, <1>5, Staged, Zenon
<1> HIDE DEF j
<1>7. LinesAgree(j, satp) /\ EntriesCurrent(j, q) /\ j \in JitStates
  BY <1>1, <1>5, <1>6 DEF LinesAgree, EntriesCurrent, Sound
<1>8. CASE stage_full(j)
  BY <1>2, <1>4, <1>6, <1>7, <1>8, BatchKept
<1>9. CASE ~stage_full(j)
  <2>1. jit' = j /\ UNCHANGED <<pending, tickets>>
    BY <1>2, <1>9
  <2> QED
    BY <1>1, <1>2, <1>4, <1>6, <1>7, <2>1 DEF Kept, Holding, OwnershipInv
<1> QED
  BY <1>8, <1>9

-----------------------------------------------------------------------------
(* Page modules.                                                           *)

(* The elements of a finite set, as a sequence.                            *)
LEMMA SetToSeqType ==
  ASSUME NEW S, IsFiniteSet(S)
  PROVE  SetToSeq(S) \in Seq(S) /\ \A n \in DOMAIN SetToSeq(S) : SetToSeq(S)[n] \in S
<1>1. Cardinality(S) \in Nat /\ ExistsBijection(1 .. Cardinality(S), S)
  BY FS_CardinalityType
<1>2. PICK f \in Bijection(1 .. Cardinality(S), S) : TRUE
  BY <1>1 DEF ExistsBijection
<1>3. f \in [1 .. Cardinality(S) -> S] /\ IsInjective(f)
  BY <1>2 DEF Bijection, Injection
<1>4. SetToSeq(S) \in [1 .. Cardinality(S) -> S]
  BY <1>3, Zenon DEF SetToSeq
<1> QED
  BY <1>1, <1>4, SeqDef

(* A module changes, its owner does not.                                   *)
LEMMA ModuleSet ==
  ASSUME NEW j, NEW Unused, NEW Gone, NEW Prior, NEW Out, Sound(j, Unused, Gone, Prior, Out),
         NEW k \in Keys, NEW m \in Module, active_owner(m) = active_owner(j.modules[k])
  PROVE  LET i == [j EXCEPT !.modules[k] = m] IN
         /\ Sound(i, Unused, Gone, Prior, Out) /\ Same(i, j, {"modules"})
         /\ \A x \in Keys : i.modules[x] = IF x = k THEN m ELSE j.modules[x]
<1> DEFINE ms == [j.modules EXCEPT ![k] = m]
           i == [j EXCEPT !.modules[k] = m]
<1>1. j \in JitStates /\ DOMAIN j = JitFields /\ j.modules \in [Keys -> Module]
  BY FieldType DEF Sound
<1>2. i \in JitStates
  BY <1>1 DEF JitStates
<1>3. Same(i, j, {"modules"}) /\ i.modules = ms
  BY <1>1 DEF Same, JitFields
<1>4. \A x \in Keys : ms[x] = IF x = k THEN m ELSE j.modules[x]
  BY <1>1
<1> HIDE DEF i, ms
<1>5. Sound(i, Unused, Gone, Prior, Out)
  <2>1. Same(i, j, {"lines", "modules", "superblocked", "claims", "stage", "coverage", "fill"})
    BY <1>3 DEF Same
  <2>2. \A x \in Keys : active_owner(i.modules[x]) = active_owner(j.modules[x])
    BY <1>3, <1>4
  <2> QED
    BY <1>2, <2>1, <2>2, SoundFields
<1> QED
  BY <1>3, <1>4, <1>5 DEF i

(* What a module is given when a build of it is started or has failed.     *)
LEMMA ModuleMade ==
  ASSUME NEW owner \in Tickets \cup {0}, NEW src \in ModuleSource, NEW prior \in ModuleSource
  PROVE  /\ \A t \in Tickets : /\ Pending(t, owner, src, prior) \in Module
                               /\ active_owner(Pending(t, owner, src, prior)) = owner
                               /\ Pending(t, owner, src, prior).ticket = t
                               /\ Live(t, src) \in Module /\ active_owner(Live(t, src)) = t
                               /\ Live(t, src).is = "live"
         /\ owner # 0 => Live(owner, prior) \in Module
         /\ active_owner(Live(owner, prior)) = owner /\ Live(owner, prior).is = "live"
         /\ Attempted(src) \in Module /\ active_owner(Attempted(src)) = 0
         /\ Attempted(src).is = "attempted"
         /\ NoModule \in Module /\ active_owner(NoModule) = 0 /\ NoModule.is = "none"
BY DEF Pending, Live, Attempted, NoModule, Module, active_owner

(* A page's hot pcs are compiled as one module, or that did not work.      *)
LEMMA IssuePageModuleKept ==
  ASSUME OwnershipInv, NEW pc \in Pcs, NEW ok \in BOOLEAN, IssuePageModule(pc, same_page(pc), ok)
  PROVE  Kept
<1> DEFINE k == key_of(satp, pc)
           m == jit.modules[k]
           src == module_source(pc)
           owner == active_owner(m)
           prior == IF m.is = "live" THEN m.source ELSE src
           es == same_page(pc) \cup {pc}
           B == {block(e, {}) : e \in es}
           members == SetToSeq(B)
           c == [kind |-> "page", members |-> members, key |-> k]
           ps == {src.pp}
           q == code_mark(ps)
<1>1. /\ jit \in JitStates /\ satp \in Spaces /\ tickets \in Nat /\ pages \in PageStates
      /\ Sound(jit, {}, {}, 0, {}) /\ LinesAgree(jit, satp) /\ EntriesCurrent(jit, pages)
      /\ PendingSound(jit, pending, pages, tickets)
      /\ jit.modules \in [Keys -> Module] /\ jit.fill \in BOOLEAN
      /\ scope.issues \in 0 .. MaxTickets /\ scope.pcs \subseteq Pcs
  BY Parts, FieldType
<1>2. /\ drained /\ wanted(pc) /\ satp' = satp
      /\ IF ok THEN /\ submit_pending_jit(c) /\ pages' = q
                    /\ jit' = [jit EXCEPT !.modules[k] = Pending(tickets + 1, owner, src, prior)]
               ELSE /\ jit' = record_page_module_failure(jit, k, src, owner, prior)
                    /\ UNCHANGED <<pending, tickets, pages>>
  BY DEF IssuePageModule
<1>3. PageOf[pc] \in Virtual /\ k \in Keys
  BY <1>1 DEF Virtual, key_of, Keys
<1>4. src \in ModuleSource /\ src.pp = page_here(PageOf[pc])[2]
  <2>1. page_here(PageOf[pc])[2] \in Physical
    BY <1>1, <1>3, PageHere
  <2> QED
    BY <1>1, <2>1 DEF module_source, ModuleSource, PageStates
<1> HIDE DEF k, src
<1>5. m \in Module
  BY <1>1, <1>3
<1> HIDE DEF m
<1>6. owner \in Tickets \cup {0} /\ prior \in ModuleSource /\ owner = active_owner(jit.modules[k])
  BY <1>4, <1>5, ModuleType DEF Module, NoModule, m
<1> HIDE DEF owner, prior
<1>7. CASE ~ok
  <2> DEFINE x == IF owner # 0 THEN Live(owner, prior) ELSE Attempted(src)
             i == [jit EXCEPT !.modules[k] = x]
  <2>1. jit' = i /\ UNCHANGED <<pending, tickets, pages, satp>>
    BY <1>2, <1>7 DEF record_page_module_failure, give_back
  <2>2. x \in Module /\ active_owner(x) = owner /\ x.is # "pending"
    BY <1>4, <1>6, ModuleMade
  <2> HIDE DEF x
  <2>3. /\ Sound(i, {}, {}, 0, {}) /\ Same(i, jit, {"modules"})
        /\ \A y \in Keys : i.modules[y] = IF y = k THEN x ELSE jit.modules[y]
    BY <1>1, <1>3, <1>6, <2>2, ModuleSet
  <2> HIDE DEF i
  <2>4. /\ i.cache = jit.cache /\ i.lines = jit.lines /\ i.slot_owner = jit.slot_owner
        /\ i.claims = jit.claims /\ i.stage = jit.stage /\ i.coverage = jit.coverage
    BY <2>3 DEF Same, JitFields
  <2>5. LinesAgree(i, satp) /\ Tame(i, jit) /\ Cuts(i, jit)
    BY <1>1, <2>2, <2>3, <2>4 DEF LinesAgree, Tame, Cuts
  <2>6. Holding(i, pending, pages, satp, tickets)
    BY <1>1, <2>3, <2>5, TameHolds DEF Holding
  <2> QED
    BY <2>1, <2>6, JitStep
<1>8. CASE ok
  <2> DEFINE t == tickets + 1
             x == Pending(t, owner, src, prior)
             i == [jit EXCEPT !.modules[k] = x]
  <2>1. jit' = i /\ submit_pending_jit(c) /\ pages' = q
    BY <1>2, <1>8
  <2>2. t \in Tickets
    BY <1>1, <2>1, OwnershipAssumption DEF submit_pending_jit, issue_allowed, Tickets
  <2>3. x \in Module /\ active_owner(x) = owner /\ x.ticket = t
    BY <1>4, <1>6, <2>2, ModuleMade
  <2> HIDE DEF x, q, c
  <2>4. /\ Sound(i, {}, {}, 0, {}) /\ Same(i, jit, {"modules"})
        /\ \A y \in Keys : i.modules[y] = IF y = k THEN x ELSE jit.modules[y]
    BY <1>1, <1>3, <1>6, <2>3, ModuleSet
  <2> HIDE DEF i
  <2>5. /\ i.cache = jit.cache /\ i.lines = jit.lines /\ i.slot_owner = jit.slot_owner
        /\ i.claims = jit.claims /\ i.stage = jit.stage /\ i.coverage = jit.coverage /\ i \in JitStates
    BY <2>4 DEF Same, JitFields, Sound
  <2>6. q \in PageStates /\ Ages(q, pages)
    BY <1>1, MarkAges DEF q
  <2>7. PendingSound(jit, pending, q, tickets) /\ EntriesCurrent(jit, q)
    BY <1>1, <2>6, AgesSound
  <2>8. ASSUME NEW e \in es
        PROVE  SoundTrace(block(e, {}), q) /\ block(e, {}).cover = {} /\ block(e, {}) \in Trace
    <3>1. e \in Pcs /\ PageOf[e] = PageOf[pc]
      BY <1>1 DEF same_page
    <3>2. page_here(PageOf[e])[2] \in ps
      BY <1>4, <3>1
    <3> HIDE DEF ps
    <3> QED
      BY <1>2, <3>1, <3>2, BlockMade DEF q
  <2>9. IsFiniteSet(B)
    <3> DEFINE f == [e \in es |-> block(e, {})]
    <3>1. es \in SUBSET Pcs
      BY <1>1 DEF same_page
    <3>2. f \in Surjection(es, B)
      BY DEF Surjection
    <3> HIDE DEF f, es, B
    <3>3. IsFiniteSet(es)
      BY <3>1, OwnershipAssumption, FS_Subset
    <3> QED
      BY <3>2, <3>3, FS_Surjection
  <2>10. /\ \A b \in B : SoundTrace(b, q) /\ b.cover = {} /\ b \in Trace
    BY <2>8
  <2> HIDE DEF B, es
  <2>11. members \in Seq(B) /\ \A n \in DOMAIN members : members[n] \in B
    BY <2>9, SetToSeqType
  <2> HIDE DEF members
  <2>12. members \in Seq(Trace)
    <3>1. B \subseteq Trace
      BY <2>10
    <3> QED
      BY <2>11, <3>1, LenProperties, ElementOfSeq, SeqDef
  <2>13. c.kind = "page" /\ c.members = members /\ c.key = k
    BY DEF c
  <2>14. SoundCompile(c, q)
    <3>1. \A b \in blocks_of(c) : SoundTrace(b, q)
      BY <2>10, <2>11, <2>13 DEF blocks_of
    <3> QED
      BY <1>3, <2>12, <2>13, <3>1 DEF SoundCompile
  <2>15. ASSUME NEW space \in Spaces, NEW y \in Pcs
         PROVE  i.coverage[<<space, y>>] + Cardinality(CoveringIn(jit.stage, space, y)) =
                  jit.coverage[<<space, y>>] + Cardinality(CoveringIn(i.stage, space, y))
                    + Cardinality(CoveringIn(c.members, space, y))
    <3>1. CoveringIn(c.members, space, y) = {}
      BY <2>10, <2>11, <2>13 DEF CoveringIn, covers
    <3>2. Cardinality(CoveringIn(c.members, space, y)) = 0
      BY <3>1, FS_EmptySet
    <3>3. jit.coverage[<<space, y>>] \in Nat /\ Cardinality(CoveringIn(jit.stage, space, y)) \in Nat
      <4>1. jit.coverage \in [Spaces \X Pcs -> Nat] /\ jit.stage \in Seq(Trace)
        BY <1>1, FieldType
      <4> QED
        BY <4>1, CoveringFinite
    <3> QED
      BY <2>5, <3>2, <3>3
  <2>16. PendingSound(i, With(pending, t, c), q, t)
    <3>1. StageSound(i.stage, q)
      BY <2>5, <2>7 DEF PendingSound
    <3>2. c.kind # "region"
      BY <2>13
    <3> QED
      BY <1>1, <2>3, <2>4, <2>5, <2>7, <2>13, <2>14, <2>15, <3>1, <3>2, SubmitSound
  <2>17. LinesAgree(i, satp) /\ EntriesCurrent(i, q)
    BY <1>1, <2>5, <2>7 DEF LinesAgree, EntriesCurrent
  <2> QED
    BY <1>2, <2>1, <2>4, <2>6, <2>16, <2>17, SubmitKept
<1> QED
  BY <1>7, <1>8

-----------------------------------------------------------------------------
(* Superblocks.                                                            *)

(* Other claims make another state.                                        *)
LEMMA ClaimsTyped ==
  ASSUME NEW j \in JitStates, NEW cl \in [Keys -> Claim]
  PROVE  [j EXCEPT !.claims = cl] \in JitStates /\ DOMAIN [j EXCEPT !.claims = cl] = JitFields
BY DEF JitStates, JitFields

(* Pages are claimed for a superblock, each where it is.                   *)
LEMMA ClaimSound ==
  ASSUME NEW j, Sound(j, {}, {}, 0, {}), NEW t \in Tickets, NEW space \in Spaces,
         NEW page_set \in SUBSET (Virtual \X Physical), one_page_each(page_set)
  PROVE  LET i == claim_pending_superblock(j, t, space, page_set) IN
         /\ Sound(i, {}, {}, 0, {}) /\ Same(i, j, {"claims", "superblocked"})
         /\ \A k \in Keys : \/ i.claims[k] = j.claims[k]
                            \/ /\ i.claims[k].ticket = t /\ k[1] = space
                               /\ \E p \in page_set : p[1] = k[2]
         /\ \A p \in page_set : i.claims[<<space, p[1]>>].page = p[2]
<1> DEFINE ks == {<<space, s[1]>> : s \in page_set}
           page(k) == (CHOOSE s \in page_set : s[1] = k[2])[2]
           prior(k) == IF j.claims[k] = NoClaim THEN k \in j.superblocked ELSE j.claims[k].prior
           claim(k) == [ticket |-> t, prior |-> prior(k), page |-> page(k)]
           cl == [k \in Keys |-> IF k \in ks THEN claim(k) ELSE j.claims[k]]
           sb == j.superblocked \cup ks
           h == [j EXCEPT !.claims = cl]
           i == [h EXCEPT !.superblocked = sb]
           r == claim_pending_superblock(j, t, space, page_set)
<1>1. /\ j \in JitStates /\ DOMAIN j = JitFields /\ j.claims \in [Keys -> Claim]
      /\ j.superblocked \in SUBSET Keys
  BY FieldType DEF Sound
<1>2. r = i
  BY <1>1 DEF claim_pending_superblock, JitFields
<1>3. ASSUME NEW p \in page_set
      PROVE  page(<<space, p[1]>>) = p[2] /\ <<space, p[1]>> \in Keys /\ p[2] \in Physical
  <2>1. (CHOOSE s \in page_set : s[1] = p[1]) = p
    BY DEF one_page_each
  <2> QED
    BY <2>1 DEF Keys
<1>4. \A k \in ks : \E p \in page_set : k = <<space, p[1]>>
  OBVIOUS
<1>5. ks \in SUBSET Keys /\ \A k \in ks : page(k) \in Physical
  BY <1>3, <1>4
<1>6. \A k \in Keys : prior(k) \in BOOLEAN
  <2> SUFFICES ASSUME NEW k \in Keys
               PROVE  prior(k) \in BOOLEAN
    OBVIOUS
  <2>1. CASE j.claims[k] = NoClaim
    <3>1. prior(k) = (k \in j.superblocked)
      BY <2>1
    <3>2. (k \in j.superblocked) \in BOOLEAN
      OBVIOUS
    <3> HIDE DEF prior
    <3> QED
      BY <3>1, <3>2
  <2>2. CASE j.claims[k] # NoClaim
    <3>1. j.claims[k] \in Claim /\ prior(k) = j.claims[k].prior
      BY <1>1, <2>2
    <3> QED
      BY <2>2, <3>1 DEF Claim
  <2> QED
    BY <2>1, <2>2
<1> HIDE DEF page, prior
<1>7. \A k \in ks : claim(k) \in Claim /\ claim(k).ticket = t /\ claim(k).page = page(k)
  BY <1>5, <1>6 DEF Claim
<1> HIDE DEF claim
<1>8. cl \in [Keys -> Claim] /\ \A k \in Keys : cl[k] = IF k \in ks THEN claim(k) ELSE j.claims[k]
  BY <1>1, <1>7
<1>9. sb \in SUBSET Keys
  BY <1>1, <1>5
<1> HIDE DEF cl, sb, r
<1>10. h \in JitStates /\ DOMAIN h = JitFields
  BY <1>1, <1>8, ClaimsTyped
<1>11. i \in JitStates /\ Same(i, j, {"claims", "superblocked"}) /\ i.claims = cl
  BY <1>1, <1>9, <1>10 DEF JitStates, Same, JitFields
<1> HIDE DEF i, h
<1>12. Sound(i, {}, {}, 0, {})
  <2>1. Same(i, j, {"lines", "modules", "superblocked", "claims", "stage", "coverage", "fill"})
    BY <1>11 DEF Same
  <2>2. i.modules = j.modules
    BY <1>11 DEF Same, JitFields
  <2> QED
    BY <1>11, <2>1, <2>2, SoundFields
<1>13. ASSUME NEW k \in Keys, i.claims[k] # j.claims[k]
       PROVE  i.claims[k].ticket = t /\ k[1] = space /\ \E p \in page_set : p[1] = k[2]
  <2>1. k \in ks /\ i.claims[k] = claim(k)
    BY <1>8, <1>11, <1>13
  <2>2. PICK p \in page_set : k = <<space, p[1]>>
    BY <1>4, <2>1
  <2> QED
    BY <1>7, <2>1, <2>2
<1>14. ASSUME NEW p \in page_set
       PROVE  i.claims[<<space, p[1]>>].page = p[2]
  <2>1. <<space, p[1]>> \in ks
    OBVIOUS
  <2>2. <<space, p[1]>> \in Keys /\ page(<<space, p[1]>>) = p[2]
    BY <1>3
  <2> QED
    BY <1>7, <1>8, <1>11, <2>1, <2>2
<1> QED
  BY <1>2, <1>11, <1>12, <1>13, <1>14, Zenon DEF r

(* A superblock is built.                                                  *)
LEMMA IssueRegionKept ==
  ASSUME OwnershipInv, NEW j, Sound(j, {}, {}, 0, {}), LinesAgree(j, satp), EntriesCurrent(j, pages),
         PendingSound(j, pending, pages, tickets),
         NEW page_set \in SUBSET (Virtual \X Physical), one_page_each(page_set),
         issue_region(j, satp, page_set), satp' = satp
  PROVE  Kept
<1> DEFINE src == source(page_set)
           entries == {pc \in scope.pcs : \E s \in src : s.va = PageOf[pc]}
           trace(e) == [pc |-> e, space |-> satp, src |-> src, cover |-> {}]
           B == {trace(e) : e \in entries}
           members == SetToSeq(B)
           c == [kind |-> "region", members |-> members, space |-> satp, src |-> src]
           ps == {s[2] : s \in page_set}
           q == code_mark(ps)
           t == tickets + 1
           i == claim_pending_superblock(j, t, satp, page_set)
<1>1. /\ satp \in Spaces /\ tickets \in Nat /\ pages \in PageStates /\ j \in JitStates
      /\ scope.issues \in 0 .. MaxTickets /\ scope.pcs \subseteq Pcs
  BY Parts DEF Sound
<1>2. submit_pending_jit(c) /\ pages' = q /\ jit' = i
  BY DEF issue_region
<1>3. t \in Tickets
  BY <1>1, <1>2, OwnershipAssumption DEF submit_pending_jit, issue_allowed, Tickets
<1>4. /\ src \in SUBSET Source /\ IsFiniteSet(src) /\ \A s \in src : <<s.va, s.pp>> \in page_set
      /\ \A s \in src : s.pp \in ps => Current(s, q)
      /\ Distinct(src)
  <2>1. \A a, b \in page_set : a[1] = b[1] => a = b
    BY DEF one_page_each
  <2> HIDE DEF ps
  <2> QED
    BY <1>1, <2>1, SourceMade
<1>5. \A s \in src : s.pp \in ps
  <2> HIDE DEF src
  <2> SUFFICES ASSUME NEW s \in src
               PROVE  \E p \in page_set : s.pp = p[2]
    OBVIOUS
  <2>1. <<s.va, s.pp>> \in page_set /\ <<s.va, s.pp>>[2] = s.pp
    BY <1>4
  <2> QED
    BY <2>1
<1>6. q \in PageStates /\ Ages(q, pages)
  BY <1>1, MarkAges
<1> HIDE DEF q, ps, src
<1>7. PendingSound(j, pending, q, tickets) /\ EntriesCurrent(j, q)
  BY <1>1, <1>6, AgesSound
<1>8. /\ Sound(i, {}, {}, 0, {}) /\ Same(i, j, {"claims", "superblocked"})
      /\ \A k \in Keys : \/ i.claims[k] = j.claims[k]
                         \/ i.claims[k].ticket = t /\ k[1] = satp /\ \E p \in page_set : p[1] = k[2]
      /\ \A p \in page_set : i.claims[<<satp, p[1]>>].page = p[2]
  BY <1>1, <1>3, ClaimSound
<1> HIDE DEF i
<1>9. /\ i.cache = j.cache /\ i.lines = j.lines /\ i.slot_owner = j.slot_owner /\ i.modules = j.modules
      /\ i.stage = j.stage /\ i.coverage = j.coverage /\ i \in JitStates
  BY <1>8 DEF Same, JitFields, Sound
<1>10. entries \in SUBSET Pcs /\ \A e \in entries : \E s \in src : s.va = PageOf[e]
  BY <1>1
<1> HIDE DEF entries
<1>11. \A b \in B : b \in Trace /\ b.cover = {} /\ b.src = src /\ \E s \in src : s.va = PageOf[b.pc]
  BY <1>1, <1>4, <1>10 DEF Trace
<1>12. IsFiniteSet(B)
  <2> DEFINE f == [e \in entries |-> trace(e)]
  <2>1. f \in Surjection(entries, B)
    BY DEF Surjection
  <2>2. IsFiniteSet(entries)
    BY <1>10, OwnershipAssumption, FS_Subset
  <2> HIDE DEF f, B, trace
  <2> QED
    BY <2>1, <2>2, FS_Surjection
<1> HIDE DEF B
<1>13. members \in Seq(B) /\ \A n \in DOMAIN members : members[n] \in B
  BY <1>12, SetToSeqType
<1> HIDE DEF members
<1>14. members \in Seq(Trace)
  <2>1. B \subseteq Trace
    BY <1>11
  <2> QED
    BY <1>13, <2>1, LenProperties, ElementOfSeq, SeqDef
<1>15. c.kind = "region" /\ c.members = members /\ c.space = satp /\ c.src = src
  OBVIOUS
<1> HIDE DEF c
<1>16. SoundCompile(c, q)
  <2>1. \A b \in blocks_of(c) : b.src = c.src /\ \E s \in c.src : s.va = PageOf[b.pc]
    BY <1>11, <1>13, <1>15 DEF blocks_of
  <2>2. RegionTraces(c)
    BY <1>1, <1>4, <1>14, <1>15, <2>1 DEF RegionTraces
  <2> QED
    BY <1>14, <1>15, <2>2 DEF SoundCompile
<1>17. \A k \in Keys : \/ i.claims[k] = j.claims[k]
                       \/ /\ i.claims[k].ticket = t /\ c.kind = "region" /\ c.space = k[1]
                          /\ \E s \in c.src : s.va = k[2]
  <2>1. \A p \in page_set : \E s \in src : s.va = p[1]
    <3>1. \A p \in page_set : \E s \in source(page_set) : s.va = p[1] /\ s.pp = p[2]
      BY <1>1, SourceMade
    <3> QED
      BY <3>1 DEF src
  <2> SUFFICES ASSUME NEW k \in Keys, i.claims[k] # j.claims[k]
               PROVE  /\ i.claims[k].ticket = t /\ c.kind = "region" /\ c.space = k[1]
                      /\ \E s \in c.src : s.va = k[2]
    OBVIOUS
  <2>2. i.claims[k].ticket = t /\ k[1] = satp /\ \E p \in page_set : p[1] = k[2]
    BY <1>8
  <2> QED
    BY <1>15, <2>1, <2>2
<1>18. \A s \in c.src : i.claims[<<c.space, s.va>>].page = s.pp /\ Current(s, q)
  <2> SUFFICES ASSUME NEW s \in src
               PROVE  i.claims[<<satp, s.va>>].page = s.pp /\ Current(s, q)
    BY <1>15
  <2> DEFINE p == <<s.va, s.pp>>
  <2>1. p \in page_set /\ p[1] = s.va /\ p[2] = s.pp
    BY <1>4
  <2> HIDE DEF p
  <2>2. i.claims[<<satp, p[1]>>].page = p[2]
    BY <1>8, <2>1
  <2> QED
    BY <1>4, <1>5, <2>1, <2>2
<1>19. ASSUME NEW space \in Spaces, NEW y \in Pcs
       PROVE  i.coverage[<<space, y>>] + Cardinality(CoveringIn(j.stage, space, y)) =
                j.coverage[<<space, y>>] + Cardinality(CoveringIn(i.stage, space, y))
                  + Cardinality(CoveringIn(c.members, space, y))
  <2>1. CoveringIn(c.members, space, y) = {}
    BY <1>11, <1>13, <1>15 DEF CoveringIn, covers
  <2>2. Cardinality(CoveringIn(c.members, space, y)) = 0
    BY <2>1, FS_EmptySet
  <2>3. j.coverage[<<space, y>>] \in Nat /\ Cardinality(CoveringIn(j.stage, space, y)) \in Nat
    <3>1. j.coverage \in [Spaces \X Pcs -> Nat] /\ j.stage \in Seq(Trace)
      BY <1>1, FieldType
    <3> QED
      BY <3>1, CoveringFinite
  <2> QED
    BY <1>9, <2>2, <2>3
<1>20. PendingSound(i, With(pending, t, c), q, t)
  <2>1. StageSound(i.stage, q)
    BY <1>7, <1>9 DEF PendingSound
  <2> QED
    BY <1>1, <1>7, <1>9, <1>16, <1>17, <1>18, <1>19, <2>1, SubmitSound
<1>21. LinesAgree(i, satp) /\ EntriesCurrent(i, q)
  BY <1>7, <1>9 DEF LinesAgree, EntriesCurrent
<1> QED
  BY <1>2, <1>6, <1>8, <1>20, <1>21, SubmitKept

(* Around a hot pc.                                                        *)
LEMMA BuildSuperblockKept ==
  ASSUME OwnershipInv, NEW pc \in Pcs, NEW vas \in SUBSET Virtual, BuildSuperblock(pc, vas)
  PROVE  Kept
<1> DEFINE page_set == {page_here(va) : va \in vas \cup {PageOf[pc]}}
<1>1. /\ Sound(jit, {}, {}, 0, {}) /\ LinesAgree(jit, satp) /\ EntriesCurrent(jit, pages)
      /\ PendingSound(jit, pending, pages, tickets) /\ satp \in Spaces
  BY Parts
<1>2. issue_region(jit, satp, page_set) /\ satp' = satp
  BY DEF BuildSuperblock
<1>3. \A va \in vas \cup {PageOf[pc]} : page_here(va) \in Virtual \X Physical /\ page_here(va)[1] = va
  <2>1. PageOf[pc] \in Virtual
    BY DEF Virtual
  <2> QED
    BY <1>1, <2>1, PageHere
<1>4. page_set \in SUBSET (Virtual \X Physical) /\ one_page_each(page_set)
  BY <1>3 DEF one_page_each
<1> QED
  BY <1>1, <1>2, <1>4, IssueRegionKept

(* With the pages that a region's exits lead to.                           *)
LEMMA TryExtendKept ==
  ASSUME OwnershipInv, NEW idx \in Slots, NEW added \in SUBSET (Virtual \X Physical),
         try_extend_region(idx, added)
  PROVE  Kept
<1> DEFINE r == jit.exits[idx]
           old == {<<s.va, s.pp>> : s \in r.src}
           taken == [jit EXCEPT !.ext_queue = @ \ {idx}]
           spent == [taken EXCEPT !.exits[idx] = NoExits]
<1>1. /\ Holding(jit, pending, pages, satp, tickets) /\ Sound(jit, {}, {}, 0, {})
      /\ satp \in Spaces /\ tickets \in Nat
      /\ jit \in JitStates /\ jit.exits \in [Slots -> Exits]
  BY Parts, FieldType
<1>2. /\ r # NoExits /\ added \subseteq exit_targets(old) /\ one_page_each(added) /\ satp' = satp
      /\ \/ jit' = taken /\ UNCHANGED <<pending, pages, tickets>>
         \/ issue_region(spent, satp, old \cup added)
         \/ jit' = spent /\ UNCHANGED <<pending, pages, tickets>>
  BY DEF try_extend_region, profiled
<1>3. Sound(taken, {}, {}, 0, {}) /\ Without(taken, jit, {})
  BY <1>1, Dequeued
<1> HIDE DEF taken
<1>4. Sound(spent, {}, {}, 0, {}) /\ Without(spent, taken, {})
  BY <1>3, ExitsGone
<1> HIDE DEF spent
<1>5. Holding(taken, pending, pages, satp, tickets)
  BY <1>1, <1>3, WithoutHolds
<1>6. Holding(spent, pending, pages, satp, tickets)
  BY <1>1, <1>4, <1>5, WithoutHolds
<1>7. /\ old \cup added \in SUBSET (Virtual \X Physical) /\ one_page_each(old \cup added)
  <2>1. r.src \in SUBSET Source /\ Distinct(r.src)
    <3>1. r \in Exits
      BY <1>1
    <3> QED
      BY <1>1, <1>2, <3>1 DEF Exits, Sound, ExitsCover
  <2>2. old \in SUBSET (Virtual \X Physical)
    BY <2>1 DEF Source
  <2>3. one_page_each(old)
    BY <2>1 DEF one_page_each, Distinct
  <2>4. \A a \in added : a[1] \notin {s[1] : s \in old}
    BY <1>2 DEF exit_targets
  <2> HIDE DEF old, r
  <2>5. one_page_each(old \cup added)
    BY <1>2, <2>3, <2>4 DEF one_page_each
  <2> QED
    BY <2>2, <2>5
<1>8. CASE issue_region(spent, satp, old \cup added)
  <2> HIDE DEF old
  <2> QED
    BY <1>2, <1>6, <1>7, <1>8, IssueRegionKept DEF Holding
<1>9. CASE jit' \in {taken, spent} /\ UNCHANGED <<pending, pages, tickets>>
  BY <1>2, <1>5, <1>6, <1>9, JitStep
<1> QED
  BY <1>2, <1>8, <1>9

-----------------------------------------------------------------------------
(* A compile is answered.                                                  *)

(* Slots may be the answered ticket's, and nothing else is new.            *)
Settles(i, j, t) ==
  /\ \A s \in Slots : i.slot_owner[s] \in {j.slot_owner[s], 0, t}
  /\ \A k \in Keys : i.modules[k].is = "pending" =>
       j.modules[k].is = "pending" /\ i.modules[k].ticket = j.modules[k].ticket
  /\ \A k \in Keys : i.claims[k] \in {j.claims[k], NoClaim}
  /\ i.stage = j.stage /\ i.coverage = j.coverage
(* Nothing is on record as under way with the ticket.                      *)
Cleared(j, t) ==
  \A k \in Keys : j.claims[k].ticket # t /\ (j.modules[k].is = "pending" => j.modules[k].ticket # t)

(* Settling is transitive, and a ticket off the record stays off.        *)
LEMMA SettlesOn ==
  ASSUME NEW i, NEW j, NEW k, NEW t \in Tickets
  PROVE  /\ Tame(i, j) => Settles(i, j, t)
         /\ Settles(i, j, t) /\ Settles(j, k, t) => Settles(i, k, t)
         /\ Settles(i, j, t) /\ Cleared(j, t) => Cleared(i, t)
<1>1. ASSUME Settles(i, j, t), Cleared(j, t)
      PROVE  Cleared(i, t)
  <2> SUFFICES ASSUME NEW x \in Keys
               PROVE  i.claims[x].ticket # t /\ (i.modules[x].is = "pending" => i.modules[x].ticket # t)
    BY DEF Cleared
  <2>1. NoClaim.ticket # t
    BY TicketType DEF NoClaim
  <2>2. i.claims[x] \in {j.claims[x], NoClaim} /\ j.claims[x].ticket # t
    BY <1>1 DEF Settles, Cleared
  <2>3. i.modules[x].is = "pending" => j.modules[x].ticket # t /\ i.modules[x].ticket = j.modules[x].ticket
    BY <1>1, Zenon DEF Settles, Cleared
  <2> QED
    BY <2>1, <2>2, <2>3
<1>2. ASSUME Settles(i, j, t), Settles(j, k, t)
      PROVE  Settles(i, k, t)
  <2>1. \A s \in Slots : i.slot_owner[s] \in {k.slot_owner[s], 0, t}
    BY <1>2 DEF Settles
  <2>2. \A x \in Keys : i.modules[x].is = "pending" =>
          k.modules[x].is = "pending" /\ i.modules[x].ticket = k.modules[x].ticket
    BY <1>2, Zenon DEF Settles
  <2>3. \A x \in Keys : i.claims[x] \in {k.claims[x], NoClaim}
    BY <1>2 DEF Settles
  <2>4. i.stage = k.stage /\ i.coverage = k.coverage
    BY <1>2 DEF Settles
  <2> QED
    BY <2>1, <2>2, <2>3, <2>4 DEF Settles
<1>3. Tame(i, j) => Settles(i, j, t)
  BY DEF Tame, Settles
<1> QED
  BY <1>1, <1>2, <1>3

(* The traces of a compile are counted apart from the others.              *)
LEMMA CountedApart ==
  ASSUME NEW j \in JitStates, NEW P, NEW pg, NEW n \in Nat, PendingSound(j, P, pg, n),
         NEW t \in DOMAIN P, NEW space \in Spaces, NEW pc \in Pcs
  PROVE  LET a == Cardinality(CoveringIn(j.stage, space, pc))
             q == Cardinality(CoveringPending(Except(P, t), space, pc))
             m == Cardinality(CoveringIn(P[t].members, space, pc))
         IN  j.coverage[<<space, pc>>] = a + q + m /\ a \in Nat /\ q \in Nat /\ m \in Nat
<1> DEFINE Q == Except(P, t)
           a == Cardinality(CoveringIn(j.stage, space, pc))
           q == Cardinality(CoveringPending(Q, space, pc))
           m == Cardinality(CoveringIn(P[t].members, space, pc))
           p == Cardinality(CoveringPending(P, space, pc))
<1>1. DOMAIN P \subseteq 1 .. n /\ \A x \in DOMAIN P : P[x].members \in Seq(Trace)
  BY DEF PendingSound, SoundCompile
<1>2. DOMAIN Q \subseteq 1 .. n /\ \A x \in DOMAIN Q : Q[x].members \in Seq(Trace)
  BY <1>1 DEF Except
<1>3. j.stage \in Seq(Trace)
  BY FieldType
<1> HIDE DEF Q
<1>4. j.coverage[<<space, pc>>] = a + p
  BY Zenon DEF PendingSound, CoverageHolds
<1>5. p = q + m
  BY <1>1, PendingSplit DEF Q
<1>6. a \in Nat /\ m \in Nat
  BY <1>1, <1>3, CoveringFinite
<1>7. q \in Nat
  BY <1>2, PendingFinite
<1> HIDE DEF a, q, m, p
<1>8. j.coverage[<<space, pc>>] = a + q + m /\ a \in Nat /\ q \in Nat /\ m \in Nat
  BY <1>4, <1>5, <1>6, <1>7
<1> QED
  BY <1>8 DEF a, q, m, Q

(* The other compiles, when the one with the ticket is done with.          *)
LEMMA AnsweredSound ==
  ASSUME NEW j \in JitStates, NEW P, NEW pg, NEW n \in Nat, PendingSound(j, P, pg, n),
         NEW t \in DOMAIN P, t \in Tickets, NEW h,
         h.coverage = remove_pending_coverage(j.coverage, P[t].members),
         h.slot_owner = j.slot_owner, h.modules = j.modules, h.claims = j.claims, h.stage = j.stage,
         NEW i, Settles(i, h, t), Cleared(i, t)
  PROVE  PendingSound(i, Except(P, t), pg, n)
<1> DEFINE Q == Except(P, t)
<1>1. /\ DOMAIN P \subseteq 1 .. n /\ DOMAIN Q = DOMAIN P \ {t}
      /\ \A x \in DOMAIN Q : x \in DOMAIN P /\ x # t /\ Q[x] = P[x]
  BY DEF PendingSound, Except
<1> HIDE DEF Q
<1>2. /\ \A s \in Slots : i.slot_owner[s] \in {j.slot_owner[s], 0, t}
      /\ \A k \in Keys : i.modules[k].is = "pending" =>
           /\ j.modules[k].is = "pending" /\ i.modules[k].ticket = j.modules[k].ticket
           /\ j.modules[k].ticket # t
      /\ \A k \in Keys : i.claims[k] \in {j.claims[k], NoClaim} /\ i.claims[k].ticket # t
      /\ i.stage = j.stage /\ i.coverage = h.coverage
  BY Zenon DEF Settles, Cleared
<1>3. \A x \in DOMAIN Q : SoundCompile(Q[x], pg)
  BY <1>1 DEF PendingSound
<1>4. ClaimsHold(i.claims, Q, pg)
  <2> SUFFICES ASSUME NEW x \in DOMAIN Q, Q[x].kind = "region", NEW s \in Q[x].src,
                      i.claims[<<Q[x].space, s.va>>].ticket = x
               PROVE  i.claims[<<Q[x].space, s.va>>].page = s.pp /\ Current(s, pg)
    BY Zenon DEF ClaimsHold
  <2> DEFINE k == <<P[x].space, s.va>>
  <2>1. SoundCompile(P[x], pg) /\ Q[x] = P[x] /\ x \in DOMAIN P /\ x \in Nat /\ x # 0
    BY <1>1 DEF PendingSound
  <2>2. P[x].space \in Spaces /\ s \in Source
    BY <2>1 DEF SoundCompile, RegionTraces
  <2>3. k \in Keys
    BY <2>2 DEF Keys, Source
  <2>4. i.claims[k].ticket = x
    BY <2>1
  <2> HIDE DEF k
  <2>5. i.claims[k] = j.claims[k]
    BY <1>2, <2>1, <2>3, <2>4 DEF NoClaim
  <2>6. P[x].kind = "region" /\ s \in P[x].src /\ j.claims[<<P[x].space, s.va>>].ticket = x
    BY <2>1, <2>4, <2>5 DEF k
  <2>7. ClaimsHold(j.claims, P, pg)
    BY DEF PendingSound
  <2>8. j.claims[k].page = s.pp /\ Current(s, pg)
    BY <2>1, <2>6, <2>7, Zenon DEF ClaimsHold, k
  <2> QED
    BY <2>1, <2>5, <2>8 DEF k
<1>5. ClaimsTracked(i.claims, Q)
  <2> SUFFICES ASSUME NEW k \in Keys, i.claims[k] # NoClaim
               PROVE  /\ i.claims[k].ticket \in DOMAIN Q
                      /\ Q[i.claims[k].ticket].kind = "region" /\ Q[i.claims[k].ticket].space = k[1]
                      /\ \E s \in Q[i.claims[k].ticket].src : s.va = k[2]
    BY Zenon DEF ClaimsTracked
  <2>1. i.claims[k] = j.claims[k] /\ j.claims[k] # NoClaim /\ i.claims[k].ticket # t
    BY <1>2
  <2>2. /\ j.claims[k].ticket \in DOMAIN P
        /\ P[j.claims[k].ticket].kind = "region" /\ P[j.claims[k].ticket].space = k[1]
        /\ \E s \in P[j.claims[k].ticket].src : s.va = k[2]
    BY <2>1, Zenon DEF PendingSound, ClaimsTracked
  <2> QED
    BY <1>1, <2>1, <2>2
<1>6. ModulesTracked(i.modules, Q)
  <2> SUFFICES ASSUME NEW k \in Keys, i.modules[k].is = "pending"
               PROVE  /\ i.modules[k].ticket \in DOMAIN Q
                      /\ Q[i.modules[k].ticket].kind = "page" /\ Q[i.modules[k].ticket].key = k
    BY Zenon DEF ModulesTracked
  <2>1. /\ j.modules[k].is = "pending" /\ i.modules[k].ticket = j.modules[k].ticket
        /\ j.modules[k].ticket # t
    BY <1>2
  <2>2. /\ j.modules[k].ticket \in DOMAIN P
        /\ P[j.modules[k].ticket].kind = "page" /\ P[j.modules[k].ticket].key = k
    BY <2>1, Zenon DEF PendingSound, ModulesTracked
  <2> QED
    BY <1>1, <2>1, <2>2
<1>7. OwnersAnswered(i.slot_owner, Q, n)
  <2> SUFFICES ASSUME NEW s \in Slots
               PROVE  i.slot_owner[s] <= n /\ i.slot_owner[s] \notin DOMAIN Q
    BY DEF OwnersAnswered
  <2>1. /\ i.slot_owner[s] \in {j.slot_owner[s], 0, t} /\ j.slot_owner[s] <= n
        /\ j.slot_owner[s] \notin DOMAIN P
    BY <1>2 DEF PendingSound, OwnersAnswered
  <2> QED
    BY <1>1, <2>1
<1>8. CoverageHolds(i.coverage, i.stage, Q)
  <2>1. \A x \in DOMAIN P : P[x].members \in Seq(Trace)
    BY DEF PendingSound, SoundCompile
  <2>2. j.coverage \in Coverage /\ j.stage \in Seq(Trace)
    BY FieldType DEF Coverage
  <2>3. ASSUME NEW space \in Spaces, NEW pc \in Pcs
        PROVE  LET a == Cardinality(CoveringIn(j.stage, space, pc))
                   q == Cardinality(CoveringPending(Q, space, pc))
                   m == Cardinality(CoveringIn(P[t].members, space, pc))
               IN  j.coverage[<<space, pc>>] = a + q + m /\ a \in Nat /\ q \in Nat /\ m \in Nat
    BY CountedApart, Zenon DEF Q
  <2>4. \A space \in Spaces, pc \in Pcs :
          j.coverage[<<space, pc>>] >= Cardinality(CoveringIn(P[t].members, space, pc))
    <3> SUFFICES ASSUME NEW space \in Spaces, NEW pc \in Pcs
                 PROVE  j.coverage[<<space, pc>>] >= Cardinality(CoveringIn(P[t].members, space, pc))
      BY Zenon
    <3> QED
      BY <2>3
  <2>5. \A space \in Spaces, pc \in Pcs :
          h.coverage[<<space, pc>>] = j.coverage[<<space, pc>>] - Cardinality(CoveringIn(P[t].members, space, pc))
    BY <2>1, <2>2, <2>4, CoverageTaken, Zenon
  <2> SUFFICES ASSUME NEW space \in Spaces, NEW pc \in Pcs
               PROVE  i.coverage[<<space, pc>>] = Cardinality(CoveringIn(i.stage, space, pc))
                                                    + Cardinality(CoveringPending(Q, space, pc))
    BY Zenon DEF CoverageHolds
  <2>6. h.coverage[<<space, pc>>] = j.coverage[<<space, pc>>] - Cardinality(CoveringIn(P[t].members, space, pc))
    BY <2>5, Zenon
  <2> QED
    BY <1>2, <2>3, <2>6
<1>9. StageSound(i.stage, pg)
  BY <1>2 DEF PendingSound
<1>10. DOMAIN Q \subseteq 1 .. n
  BY <1>1
<1>11. PendingSound(i, Q, pg, n)
  BY <1>3, <1>4, <1>5, <1>6, <1>7, <1>8, <1>9, <1>10 DEF PendingSound
<1> QED
  BY <1>11 DEF Q

(* What is not a claim of a compile, and its record when it is one.        *)
LEMMA ClaimTicket == ASSUME NEW t \in Tickets PROVE NoClaim.ticket # t
BY TicketType DEF NoClaim

(* A superblock is done with: its claims end.                              *)
LEMMA FinishSuperblock ==
  ASSUME NEW j, NEW Unused, Sound(j, Unused, {}, 0, {}), NEW P, ClaimsTracked(j.claims, P),
         ModulesTracked(j.modules, P), NEW t \in DOMAIN P, t \in Tickets, P[t].kind = "region",
         NEW landed \in BOOLEAN
  PROVE  LET r == finish_pending_superblock(j, t, P[t], landed) IN
         /\ Sound(r, Unused, {}, 0, {}) /\ Same(r, j, {"claims", "superblocked"})
         /\ Settles(r, j, t) /\ Cleared(r, t)
<1> DEFINE c == P[t]
           mine == {k \in Keys : k[1] = c.space /\ (\E s \in c.src : s.va = k[2]) /\ j.claims[k].ticket = t}
           cl == [k \in Keys |-> IF k \in mine THEN NoClaim ELSE j.claims[k]]
           sb == IF landed THEN j.superblocked ELSE j.superblocked \ {k \in mine : ~j.claims[k].prior}
           i == [j EXCEPT !.claims = cl]
           r == [i EXCEPT !.superblocked = sb]
<1>1. j \in JitStates /\ DOMAIN j = JitFields
  BY FieldType DEF Sound
<1>2. j.claims \in [Keys -> Claim] /\ j.superblocked \in SUBSET Keys
  BY <1>1, FieldType
<1>3. cl \in [Keys -> Claim] /\ sb \in SUBSET Keys
  BY <1>2 DEF Claim
<1>4. \A k \in Keys : cl[k] = IF k \in mine THEN NoClaim ELSE j.claims[k]
  OBVIOUS
<1>5. finish_pending_superblock(j, t, P[t], landed) = r
  BY DEF finish_pending_superblock
<1>6. \A k \in Keys : cl[k].ticket # t
  <2> SUFFICES ASSUME NEW k \in Keys, cl[k].ticket = t
               PROVE  FALSE
    OBVIOUS
  <2>1. k \notin mine /\ j.claims[k].ticket = t
    BY <1>4, ClaimTicket
  <2>2. j.claims[k] # NoClaim
    BY <2>1, ClaimTicket
  <2>3. c.space = k[1] /\ \E s \in c.src : s.va = k[2]
    BY <2>1, <2>2, Zenon DEF ClaimsTracked
  <2> QED
    BY <2>1, <2>3
<1>7. \A k \in Keys : cl[k] \in {j.claims[k], NoClaim}
  BY <1>4
<1> HIDE DEF cl, sb, mine
<1>8. i \in JitStates /\ i.superblocked = j.superblocked
  BY <1>1, <1>3 DEF JitStates
<1>9. r \in JitStates
  BY <1>3, <1>8 DEF JitStates
<1>10. r.claims = cl /\ Same(r, j, {"claims", "superblocked"})
  BY <1>1 DEF Same, JitFields
<1> HIDE DEF i, r
<1>11. r.slot_owner = j.slot_owner /\ r.modules = j.modules /\ r.stage = j.stage /\ r.coverage = j.coverage
  BY <1>10 DEF Same, JitFields
<1>12. Sound(r, Unused, {}, 0, {})
  <2>1. Same(r, j, {"lines", "modules", "superblocked", "claims", "stage", "coverage", "fill"})
    BY <1>10 DEF Same, JitFields
  <2> QED
    BY <1>9, <1>11, <2>1, SoundFields
<1>13. Settles(r, j, t)
  BY <1>7, <1>10, <1>11 DEF Settles
<1>14. Cleared(r, t)
  <2>1. \A k \in Keys : j.modules[k].is = "pending" => j.modules[k].ticket # t
    BY Zenon DEF ModulesTracked
  <2> QED
    BY <1>6, <1>10, <1>11, <2>1, Zenon DEF Cleared
<1> QED
  BY <1>5, <1>10, <1>12, <1>13, <1>14

(* The module that a compile of a page's is to make.                       *)
LEMMA PendingModule ==
  ASSUME NEW m \in Module, m.is = "pending"
  PROVE  /\ m.ticket \in Tickets /\ m.owner \in Tickets \cup {0}
         /\ m.source \in ModuleSource /\ m.prior \in ModuleSource /\ active_owner(m) = m.owner
BY DEF Module, NoModule, active_owner

(* Nothing but its own record names the ticket of a page module.           *)
LEMMA PageTicket ==
  ASSUME NEW j, NEW P, ClaimsTracked(j.claims, P), ModulesTracked(j.modules, P),
         NEW t \in DOMAIN P, t \in Tickets, P[t].kind # "region"
  PROVE  /\ \A k \in Keys : j.claims[k].ticket # t
         /\ \A k \in Keys : j.modules[k].is = "pending" /\ j.modules[k].ticket = t =>
              P[t].kind = "page" /\ P[t].key = k
<1>1. ASSUME NEW k \in Keys, j.claims[k].ticket = t
      PROVE  FALSE
  <2>1. j.claims[k] # NoClaim
    BY <1>1, ClaimTicket
  <2> QED
    BY <1>1, <2>1, Zenon DEF ClaimsTracked
<1>2. \A k \in Keys : j.modules[k].is = "pending" /\ j.modules[k].ticket = t =>
        P[t].kind = "page" /\ P[t].key = k
  BY Zenon DEF ModulesTracked
<1> QED
  BY <1>1, <1>2

(* A compile that does not land: its page's module is what it was.         *)
LEMMA GiveUpSound ==
  ASSUME NEW j, NEW Unused, Sound(j, Unused, {}, 0, {}), NEW P, ClaimsTracked(j.claims, P),
         ModulesTracked(j.modules, P), NEW t \in DOMAIN P, t \in Tickets,
         NEW pg, SoundCompile(P[t], pg), NEW how \in {"cancelled", "failed"}
  PROVE  LET r == give_up(j, t, P[t], how) IN
         /\ Sound(r, Unused, {}, 0, {}) /\ Same(r, j, {"claims", "superblocked", "modules"})
         /\ Settles(r, j, t) /\ Cleared(r, t)
<1> DEFINE c == P[t]
           r == give_up(j, t, P[t], how)
<1>1. CASE c.kind = "region"
  <2>1. r = finish_pending_superblock(j, t, c, FALSE)
    BY <1>1 DEF give_up
  <2> HIDE DEF r
  <2> DEFINE f == finish_pending_superblock(j, t, c, FALSE)
  <2>2. /\ Sound(f, Unused, {}, 0, {}) /\ Same(f, j, {"claims", "superblocked"})
        /\ Settles(f, j, t) /\ Cleared(f, t)
    BY <1>1, FinishSuperblock, Zenon
  <2> HIDE DEF f
  <2>3. Same(f, j, {"claims", "superblocked", "modules"})
    BY <2>2 DEF Same
  <2> QED
    BY <2>1, <2>2, <2>3 DEF f, r
<1>2. ASSUME c.kind # "region", r = j, ~module_pending(j, t, c)
      PROVE  Sound(r, Unused, {}, 0, {}) /\ Same(r, j, {"claims", "superblocked", "modules"})
             /\ Settles(r, j, t) /\ Cleared(r, t)
  <2> HIDE DEF r
  <2>1. Settles(j, j, t)
    BY DEF Settles
  <2>2. /\ \A k \in Keys : j.claims[k].ticket # t
        /\ \A k \in Keys : j.modules[k].is = "pending" /\ j.modules[k].ticket = t => c.kind = "page" /\ c.key = k
    BY <1>2, PageTicket
  <2>3. Cleared(j, t)
    <3> SUFFICES ASSUME NEW k \in Keys, j.modules[k].is = "pending", j.modules[k].ticket = t
                 PROVE  FALSE
      BY <2>2, Zenon DEF Cleared
    <3> QED
      BY <1>2, <2>2 DEF module_pending
  <2> QED
    BY <1>2, <2>1, <2>3 DEF Same
<1>3. CASE c.kind # "region" /\ c.kind # "page"
  <2>1. r = j /\ ~module_pending(j, t, c)
    BY <1>3 DEF give_up, module_pending
  <2> QED
    BY <1>2, <1>3, <2>1
<1>4. CASE c.kind = "page" /\ ~module_pending(j, t, c)
  <2>1. r = j
    BY <1>4 DEF give_up, finish_pending_page_module
  <2> QED
    BY <1>2, <1>4, <2>1
<1>5. CASE c.kind = "page" /\ module_pending(j, t, c)
  <2> DEFINE m == j.modules[c.key]
             v == IF m.owner # 0 THEN Live(m.owner, m.prior)
                  ELSE IF how = "failed" THEN Attempted(m.source) ELSE NoModule
             i == [j EXCEPT !.modules[c.key] = v]
  <2>1. r = i
    BY <1>5 DEF give_up, finish_pending_page_module, record_page_module_failure, give_back
  <2>2. c.key \in Keys /\ m.is = "pending" /\ m.ticket = t
    BY <1>5 DEF SoundCompile, module_pending
  <2>3. m \in Module
    BY <2>2, FieldType DEF Sound
  <2>4. /\ m.owner \in Tickets \cup {0} /\ m.source \in ModuleSource /\ m.prior \in ModuleSource
        /\ active_owner(m) = m.owner
    BY <2>2, <2>3, PendingModule
  <2>5. v \in Module /\ active_owner(v) = active_owner(m) /\ v.is # "pending"
    <3>1. CASE m.owner # 0
      BY <2>4, <3>1, ModuleMade
    <3>2. CASE m.owner = 0
      BY <2>4, <3>2, ModuleMade
    <3> QED
      BY <3>1, <3>2
  <2> HIDE DEF v, r, m
  <2>12. PICK k \in Keys : k = c.key
    BY <2>2
  <2>13. active_owner(v) = active_owner(j.modules[k]) /\ v \in Module
    BY <2>5, <2>12 DEF m
  <2>14. LET f == [j EXCEPT !.modules[k] = v] IN
         /\ Sound(f, Unused, {}, 0, {}) /\ Same(f, j, {"modules"})
         /\ \A x \in Keys : f.modules[x] = IF x = k THEN v ELSE j.modules[x]
    BY <2>13, ModuleSet
  <2>6. /\ Sound(i, Unused, {}, 0, {}) /\ Same(i, j, {"modules"})
        /\ \A x \in Keys : i.modules[x] = IF x = c.key THEN v ELSE j.modules[x]
    BY <2>12, <2>14
  <2> HIDE DEF i
  <2>7. /\ Same(i, j, {"claims", "superblocked", "modules"})
        /\ i.claims = j.claims /\ i.slot_owner = j.slot_owner /\ i.stage = j.stage
        /\ i.coverage = j.coverage
    BY <2>6 DEF Same, JitFields
  <2>8. Settles(i, j, t)
    BY <2>5, <2>6, <2>7 DEF Settles
  <2>9. Cleared(i, t)
    <3>1. /\ \A x \in Keys : j.claims[x].ticket # t
          /\ \A x \in Keys : j.modules[x].is = "pending" /\ j.modules[x].ticket = t => c.key = x
      BY <1>5, PageTicket
    <3> QED
      BY <2>5, <2>6, <2>7, <3>1 DEF Cleared
  <2> QED
    BY <2>1, <2>6, <2>7, <2>8, <2>9 DEF i, r
<1> QED
  BY <1>1, <1>3, <1>4, <1>5

(* The slots that no entry was put on are retired, at the end.             *)
LEMMA IdleRetired ==
  ASSUME NEW j, NEW run \in SUBSET Slots, Sound(j, run, {}, 0, {}), NEW t \in Tickets,
         \A s \in run : j.slot_owner[s] \in {t, 0}
  PROVE  LET r == retire_unreferenced_slots(j, t) IN
         Sound(r, {}, {}, 0, {}) /\ Follows(r, j) /\ r.cache = j.cache
<1> DEFINE D == owner_slots(j, t)
           r == retire_unreferenced(j, D)
<1>1. retire_unreferenced_slots(j, t) = r /\ D \in SUBSET Slots
  BY DEF retire_unreferenced_slots, owner_slots
<1>2. \A s \in Slots : s \in D <=> j.slot_owner[s] = t
  BY DEF owner_slots
<1> HIDE DEF D
<1>3. /\ Sound(r, run \ D, {}, 0, {}) /\ Quiet(r, j)
      /\ \A s \in Slots : r.slot_owner[s] = IF s \in D /\ users(j, s) = {} THEN 0 ELSE j.slot_owner[s]
  BY <1>1, RetireAllSound, Zenon
<1> HIDE DEF r
<1>4. \A s \in run \ D : r.slot_owner[s] = 0
  BY <1>2, <1>3
<1>5. SlotsUsed(r, {})
  BY <1>3, <1>4 DEF Sound, SlotsUsed
<1>6. Sound(r, {}, {}, 0, {})
  BY <1>3, <1>5 DEF Sound
<1> QED
  BY <1>1, <1>3, <1>6 DEF Quiet, r

(* The module of a page is live, and owns its slot; the owner it replaces  *)
(* is still there.                                                         *)
LEMMA ModuleLanded ==
  ASSUME NEW j, NEW Unused, Sound(j, Unused, {}, 0, {}), NEW t \in Tickets, owns(j, t),
         j.module_owner[t] = <<>>, NEW c, c.key \in Keys, module_pending(j, t, c)
  PROVE  LET i == finish_pending_page_module(j, t, c, "landed")
             prior == j.modules[c.key].owner
         IN  /\ prior \in Tickets \cup {0} /\ prior # t
             /\ Sound(i, Unused, {}, prior, {}) /\ Same(i, j, {"modules", "module_owner"})
             /\ \A x \in Keys : x # c.key => i.modules[x] = j.modules[x]
             /\ i.modules[c.key].is = "live"
<1>1. PICK k \in Keys : k = c.key
  OBVIOUS
<1> DEFINE m == j.modules[k]
           v == Live(t, m.source)
           i == [j EXCEPT !.modules[k] = v]
           r == [i EXCEPT !.module_owner[t] = k]
<1>2. finish_pending_page_module(j, t, c, "landed") = r
  BY <1>1 DEF finish_pending_page_module
<1>3. j \in JitStates /\ DOMAIN j = JitFields /\ m \in Module /\ j.modules \in [Keys -> Module]
      /\ j.module_owner \in [Tickets -> Keys \cup {<<>>}]
  BY FieldType DEF Sound
<1>4. m.is = "pending" /\ c.kind = "page" /\ m.ticket = t
  BY <1>1 DEF module_pending
<1>5. m.owner \in Tickets \cup {0} /\ m.source \in ModuleSource /\ active_owner(m) = m.owner
  BY <1>3, <1>4, PendingModule
<1>6. v \in Module /\ active_owner(v) = t /\ v.is = "live"
  BY <1>5, ModuleMade
<1>7. i \in JitStates
  <2> DEFINE mm == [j.modules EXCEPT ![k] = v]
  <2>1. mm \in [Keys -> Module]
    BY <1>3, <1>6
  <2>2. i = [j EXCEPT !.modules = mm]
    OBVIOUS
  <2> HIDE DEF mm, i
  <2> QED
    BY <1>3, <2>1, <2>2 DEF JitStates
<1>8. Same(i, j, {"modules"}) /\ \A x \in Keys : i.modules[x] = IF x = k THEN v ELSE j.modules[x]
  <2> HIDE DEF v
  <2> QED
    BY <1>3 DEF Same, JitFields
<1> HIDE DEF i
<1>9. i.module_owner = j.module_owner /\ DOMAIN i = JitFields
  BY <1>7, <1>8, FieldType DEF Same, JitFields
<1>10. r \in JitStates
  <2> DEFINE mo == [i.module_owner EXCEPT ![t] = k]
  <2>1. mo \in [Tickets -> Keys \cup {<<>>}]
    BY <1>3, <1>9
  <2>2. r = [i EXCEPT !.module_owner = mo]
    OBVIOUS
  <2> HIDE DEF mo, r
  <2> QED
    BY <1>7, <2>1, <2>2 DEF JitStates
<1>11. /\ Same(r, i, {"module_owner"})
       /\ \A o \in Tickets : r.module_owner[o] = IF o = t THEN k ELSE i.module_owner[o]
  BY <1>3, <1>9 DEF Same, JitFields
<1> HIDE DEF r
<1>12. /\ Same(r, j, {"modules", "module_owner"}) /\ r.modules = i.modules
       /\ \A o \in Tickets : r.module_owner[o] = IF o = t THEN k ELSE j.module_owner[o]
  BY <1>8, <1>9, <1>11 DEF Same, JitFields
<1>13. m.owner # t
  <2>1. m.owner = t => j.module_owner[t] = k
    BY <1>5, TicketType, Zenon DEF Sound, ModulesOwned
  <2> QED
    BY <2>1, TicketType
<1> HIDE DEF v
<1>14. \A x \in Keys : active_owner(r.modules[x]) = IF x = k THEN t ELSE active_owner(j.modules[x])
  BY <1>6, <1>8, <1>12
<1>15. \A x \in Keys : active_owner(j.modules[x]) \in Tickets \cup {0}
  BY <1>3, ModuleType
<1>16. r.slot_owner = j.slot_owner
  BY <1>12 DEF Same, JitFields
<1>17. \A o : owns(r, o) <=> owns(j, o)
  BY <1>16 DEF owns
<1>18. ModulesOwned(j, 0)
  BY DEF Sound
<1>19. ModulesOwned(r, m.owner)
  <2>1. ASSUME NEW o \in Tickets, r.module_owner[o] # <<>>
        PROVE  owns(r, o) /\ (active_owner(r.modules[r.module_owner[o]]) = o \/ o = m.owner)
    <3>1. CASE o = t
      BY <1>12, <1>14, <1>17, <3>1
    <3>2. CASE o # t
      <4>1. r.module_owner[o] = j.module_owner[o]
        BY <1>12, <3>2
      <4>2. owns(j, o) /\ (active_owner(j.modules[j.module_owner[o]]) = o \/ o = 0)
        BY <1>18, <2>1, <4>1, Zenon DEF ModulesOwned
      <4>3. o # 0 /\ j.module_owner[o] \in Keys
        BY <1>3, <2>1, <4>1, TicketType
      <4> QED
        BY <1>5, <1>14, <1>17, <4>1, <4>2, <4>3
    <3> QED
      BY <3>1, <3>2
  <2>2. ASSUME NEW x \in Keys, active_owner(r.modules[x]) # 0
        PROVE  r.module_owner[active_owner(r.modules[x])] = x
    <3>1. CASE x = k
      BY <1>12, <1>14, <3>1
    <3>2. CASE x # k
      <4> DEFINE a == active_owner(j.modules[x])
      <4>1. active_owner(r.modules[x]) = a
        BY <1>14, <3>2
      <4>2. a \in Tickets
        BY <1>15, <2>2, <4>1
      <4>3. j.module_owner[a] = x
        BY <1>18, <2>2, <4>1, Zenon DEF ModulesOwned
      <4> HIDE DEF a
      <4>4. a # t
        BY <4>3, TicketType
      <4> QED
        BY <1>12, <4>1, <4>2, <4>3, <4>4
    <3> QED
      BY <3>1, <3>2
  <2> QED
    BY <2>1, <2>2, Zenon DEF ModulesOwned
<1>20. Sound(r, Unused, {}, m.owner, {})
  <2>1. /\ r.cache = j.cache /\ r.refs = j.refs /\ r.live = j.live /\ r.regions = j.regions
        /\ r.exits = j.exits /\ r.ext_queue = j.ext_queue /\ r.owner_entries = j.owner_entries
        /\ r.cold = j.cold /\ r.page_blocks = j.page_blocks
    BY <1>12 DEF Same, JitFields
  <2>2. \A s : users(r, s) = users(j, s)
    BY <2>1 DEF users
  <2>3. CountsRefs(r) /\ EntriesOwned(r) /\ SlotsUsed(r, Unused) /\ LiveOwned(r)
    BY <1>16, <2>1, <2>2 DEF Sound, CountsRefs, EntriesOwned, SlotsUsed, LiveOwned
  <2>4. IdleClean(r) /\ EntriesListed(r, {}) /\ ExitsCover(r)
    BY <1>16, <2>1, <2>2 DEF Sound, IdleClean, EntriesListed, ExitsCover
  <2>5. ColdOwners(r)
    BY <1>17, <2>1, Zenon DEF Sound, ColdOwners
  <2>6. RegionsCover(r)
    BY <2>1 DEF Sound, RegionsCover, Covering
  <2>7. Indexed(r, {})
    <3>1. \A pc, e : block_physical_pages(r, pc, e) = block_physical_pages(j, pc, e)
      BY <2>1 DEF block_physical_pages
    <3>2. Indexed(j, {})
      BY DEF Sound
    <3> SUFFICES ASSUME NEW p \in Physical, NEW pc \in Pcs
                 PROVE  pc \in r.page_blocks[p] <=> /\ r.cache[pc] # NoEntry
                                                    /\ p \in block_physical_pages(r, pc, r.cache[pc])
                                                    /\ <<p, pc>> \notin {}
      BY Zenon DEF Indexed
    <3>3. pc \in j.page_blocks[p] <=> /\ j.cache[pc] # NoEntry
                                      /\ p \in block_physical_pages(j, pc, j.cache[pc])
      BY <3>2 DEF Indexed
    <3> QED
      BY <2>1, <3>1, <3>3
  <2> QED
    BY <1>10, <1>19, <2>3, <2>4, <2>5, <2>6, <2>7 DEF Sound
<1>21. (\A x \in Keys : x # k => r.modules[x] = j.modules[x]) /\ r.modules[k].is = "live"
  BY <1>6, <1>8, <1>12
<1> QED
  BY <1>1, <1>2, <1>5, <1>12, <1>13, <1>20, <1>21

(* The run of slots a compile is to land on.                               *)
Ready(j, t, run) ==
  \A s \in run : /\ j.slot_owner[s] = t /\ users(j, s) = {}
                 /\ j.regions[s] = {} /\ j.exits[s] = NoExits
(* What a landing leaves: the traces of the compile and the entries there  *)
(* were, owners, modules and claims but its own.                           *)
Landing(r, j, t, c, run) ==
  /\ Sound(r, run, {}, 0, {}) /\ Settles(r, j, t) /\ Cleared(r, t)
  /\ \A space \in Spaces : LinesAgree(j, space) => LinesAgree(r, space)
  /\ LandedFrom(r, j, blocks_of(c))
  /\ \A s \in Slots : r.slot_owner[s] \in {j.slot_owner[s], 0}

(* What follows a sound state with nothing of the ticket on record.        *)
LEMMA LandingFollows ==
  ASSUME NEW j, NEW t \in Tickets, NEW c, NEW run, Cleared(j, t),
         NEW r, Sound(r, run, {}, 0, {}), Follows(r, j), LandedFrom(r, j, blocks_of(c))
  PROVE  Landing(r, j, t, c, run)
<1>1. Settles(r, j, t)
  BY FollowsTame, SettlesOn
<1>2. Cleared(r, t)
  BY <1>1, SettlesOn
<1> QED
  BY <1>1, <1>2 DEF Landing, Follows, Keeps

(* A trace lands on its slot.                                              *)
LEMMA BlockLanding ==
  ASSUME NEW j, NEW run \in SUBSET Slots, Sound(j, run, {}, 0, {}), NEW t \in Tickets, Cleared(j, t),
         Ready(j, t, run), NEW base \in run,
         NEW c, NEW pg, SoundCompile(c, pg), c.kind = "block"
  PROVE  Landing(land_block(j, c.members[1], base), j, t, c, run)
<1> DEFINE b == c.members[1]
           r == land_block(j, b, base)
<1>1. c.members \in Seq(Trace) /\ Len(c.members) = 1 /\ \A x \in blocks_of(c) : SoundTrace(x, pg)
  BY DEF SoundCompile
<1>2. b \in blocks_of(c)
  BY <1>1 DEF blocks_of
<1>3. b \in Trace /\ Single(b.pc, b.src)
  BY <1>1, <1>2 DEF SoundTrace
<1>4. base \in Slots /\ Landable(j, base)
  BY TicketType DEF Ready, Landable
<1> HIDE DEF b
<1>5. Sound(r, run, {}, 0, {}) /\ (r = j \/ Installed(r, j, b, base))
  BY <1>3, <1>4, LandBlockSound, Zenon
<1> HIDE DEF r
<1>6. Follows(r, j)
  BY <1>5, Zenon DEF Installed, Follows, Keeps, Same, Weaker
<1>7. LandedFrom(j, j, blocks_of(c))
  BY DEF LandedFrom
<1>8. LandedFrom(r, j, blocks_of(c))
  BY <1>2, <1>5, <1>7, LandedOn, Zenon
<1> QED
  BY <1>5, <1>6, <1>8, LandingFollows DEF r, b

(* The traces of a module land on the slots that it has.                   *)
LEMMA MembersOpen ==
  ASSUME NEW j, NEW run \in SUBSET Slots, NEW t \in Tickets, Ready(j, t, run),
         NEW base \in Int, NEW c, NEW pg, SoundCompile(c, pg), c.kind \in {"batch", "page"},
         run = base .. base + slot_count(c) - 1
  PROVE  /\ c.members \in Seq(Trace)
         /\ \A n \in DOMAIN c.members : /\ Single(c.members[n].pc, c.members[n].src)
                                        /\ slot(c, n, base) \in Slots /\ Open(j, c, n, base)
<1>1. c.members \in Seq(Trace) /\ \A x \in blocks_of(c) : SoundTrace(x, pg)
  BY DEF SoundCompile
<1> SUFFICES ASSUME NEW n \in DOMAIN c.members
             PROVE  /\ Single(c.members[n].pc, c.members[n].src)
                    /\ slot(c, n, base) \in Slots /\ Open(j, c, n, base)
  BY <1>1
<1>2. Single(c.members[n].pc, c.members[n].src)
  BY <1>1 DEF blocks_of, SoundTrace
<1>3. slot(c, n, base) \in run
  <2>1. n \in 1 .. Len(c.members)
    BY <1>1
  <2> QED
    BY <2>1, <1>1 DEF slot, slot_count
<1>4. Open(j, c, n, base)
  <2> DEFINE s == slot(c, n, base)
  <2>1. j.slot_owner[s] = t /\ users(j, s) = {} /\ j.regions[s] = {} /\ j.exits[s] = NoExits
    BY <1>3 DEF Ready
  <2> HIDE DEF s
  <2> QED
    BY <2>1, TicketType DEF Open, Landable, s
<1> QED
  BY <1>2, <1>3, <1>4

(* A batch lands on its run of slots.                                    *)
LEMMA BatchLanding ==
  ASSUME NEW j, NEW run \in SUBSET Slots, Sound(j, run, {}, 0, {}), NEW t \in Tickets, Cleared(j, t),
         Ready(j, t, run), NEW base \in Int, NEW c, NEW pg, SoundCompile(c, pg), c.kind = "batch",
         run = base .. base + slot_count(c) - 1
  PROVE  Landing(complete_batch_landing(j, c, base), j, t, c, run)
<1> DEFINE r == complete_batch_landing(j, c, base)
<1>1. /\ c.members \in Seq(Trace)
      /\ \A n \in DOMAIN c.members : /\ Single(c.members[n].pc, c.members[n].src)
                                     /\ slot(c, n, base) \in Slots /\ Open(j, c, n, base)
  BY MembersOpen
<1>2. Sound(r, run, {}, 0, {}) /\ Follows(r, j) /\ LandedFrom(r, j, blocks_of(c))
  BY <1>1, LandAllSound, Zenon
<1> HIDE DEF r
<1> QED
  BY <1>2, LandingFollows DEF r

(* What ends the claims or the module of the ticket comes before.          *)
LEMMA LandingAfter ==
  ASSUME NEW r, NEW i, NEW j, NEW t \in Tickets, NEW c, NEW run, Landing(r, i, t, c, run),
         Settles(i, j, t), i.cache = j.cache, i.lines = j.lines, i.slot_owner = j.slot_owner
  PROVE  Landing(r, j, t, c, run)
<1>1. Settles(r, j, t)
  BY SettlesOn DEF Landing
<1>2. \A space \in Spaces : LinesAgree(j, space) => LinesAgree(i, space)
  BY DEF LinesAgree
<1>3. \A space \in Spaces : LinesAgree(j, space) => LinesAgree(r, space)
  BY <1>2 DEF Landing
<1>4. LandedFrom(r, j, blocks_of(c))
  BY DEF Landing, LandedFrom
<1> QED
  BY <1>1, <1>3, <1>4 DEF Landing

(* A page module lands, and the one that it replaces goes.                 *)
LEMMA PageLanding ==
  ASSUME NEW j, NEW run \in SUBSET Slots, Sound(j, run, {}, 0, {}), NEW P, ClaimsTracked(j.claims, P),
         ModulesTracked(j.modules, P), NEW t \in DOMAIN P, t \in Tickets, Ready(j, t, run),
         j.module_owner[t] = <<>>,
         NEW base \in run, base \in Int, NEW pg, SoundCompile(P[t], pg), P[t].kind = "page",
         module_pending(j, t, P[t]), run = base .. base + slot_count(P[t]) - 1
  PROVE  Landing(land(j, t, P[t], base), j, t, P[t], run)
<1> DEFINE i == finish_pending_page_module(j, t, P[t], "landed")
           prior == j.modules[P[t].key].owner
           q == complete_batch_landing(i, P[t], base)
           r == IF prior # 0 THEN retire_owner(q, prior) ELSE q
<1>1. PICK c : c = P[t]
  OBVIOUS
<1>2. land(j, t, P[t], base) = r
  BY DEF land
<1>3. owns(j, t)
  BY DEF Ready, owns
<1>4. P[t].key \in Keys
  BY DEF SoundCompile
<1>5. /\ prior \in Tickets \cup {0} /\ prior # t
      /\ Sound(i, run, {}, prior, {}) /\ Same(i, j, {"modules", "module_owner"})
      /\ \A x \in Keys : x # P[t].key => i.modules[x] = j.modules[x]
      /\ i.modules[P[t].key].is = "live"
  BY <1>3, <1>4, ModuleLanded
<1> HIDE DEF i, prior
<1>6. /\ i.cache = j.cache /\ i.lines = j.lines /\ i.slot_owner = j.slot_owner
      /\ i.regions = j.regions /\ i.exits = j.exits /\ i.claims = j.claims
      /\ i.stage = j.stage /\ i.coverage = j.coverage
  BY <1>5 DEF Same, JitFields
<1>7. \A s : users(i, s) = users(j, s)
  BY <1>6 DEF users
<1>8. Ready(i, t, run)
  BY <1>6, <1>7 DEF Ready
<1>9. Settles(i, j, t)
  BY <1>5, <1>6 DEF Settles
<1>10. Cleared(i, t)
  <2>1. /\ \A k \in Keys : j.claims[k].ticket # t
        /\ \A k \in Keys : j.modules[k].is = "pending" /\ j.modules[k].ticket = t => P[t].key = k
    BY PageTicket
  <2> QED
    BY <1>5, <1>6, <2>1 DEF Cleared
<1>11. /\ P[t].members \in Seq(Trace)
       /\ \A n \in DOMAIN P[t].members :
            /\ Single(P[t].members[n].pc, P[t].members[n].src)
            /\ slot(P[t], n, base) \in Slots /\ Open(i, P[t], n, base)
  BY <1>8, MembersOpen
<1>12. /\ Sound(q, run, {}, prior, {}) /\ Follows(q, i) /\ LandedFrom(q, i, blocks_of(P[t]))
  BY <1>5, <1>11, LandAllSound, Zenon
<1> HIDE DEF q
<1>13. Sound(r, run, {}, 0, {}) /\ Follows(r, i) /\ LandedFrom(r, i, blocks_of(P[t]))
  <2>1. CASE prior = 0
    BY <1>12, <2>1
  <2>2. CASE prior # 0
    <3>1. r = retire_owner(q, prior)
      BY <2>2
    <3>2. prior \in Tickets
      BY <1>5, <2>2
    <3>3. /\ Sound(r, run, {}, IF prior = prior THEN 0 ELSE prior, {})
          /\ Without(r, q, q.owner_entries[prior])
      BY <1>12, <3>1, <3>2, RetireOwnerSound, Zenon
    <3> HIDE DEF r
    <3>4. Follows(r, i)
      BY <1>12, <3>3, KeepsOn DEF Without
    <3>5. \A x \in Pcs : r.cache[x] \in {q.cache[x], NoEntry}
      BY <3>3 DEF Without
    <3>6. LandedFrom(r, i, blocks_of(P[t]))
      <4> SUFFICES ASSUME NEW x \in Pcs
                   PROVE  \/ r.cache[x] \in {i.cache[x], NoEntry}
                          \/ \E b \in blocks_of(P[t]) : b.pc = x /\ r.cache[x].src = b.src
        BY Zenon DEF LandedFrom
      <4>1. CASE r.cache[x] = NoEntry
        BY <4>1
      <4>2. CASE r.cache[x] = q.cache[x]
        BY <1>12, <4>2 DEF LandedFrom
      <4> QED
        BY <3>5, <4>1, <4>2
    <3> QED
      BY <3>3, <3>4, <3>6
  <2> QED
    BY <2>1, <2>2
<1> HIDE DEF r
<1>14. Landing(r, i, t, P[t], run)
  BY <1>10, <1>13, LandingFollows
<1>15. Landing(r, j, t, P[t], run)
  BY <1>6, <1>9, <1>14, LandingAfter
<1> QED
  BY <1>2, <1>15

(* A region lands, and its claims end.                                     *)
LEMMA RegionLanding ==
  ASSUME NEW j, NEW run \in SUBSET Slots, Sound(j, run, {}, 0, {}), NEW P, ClaimsTracked(j.claims, P),
         ModulesTracked(j.modules, P), NEW t \in DOMAIN P, t \in Tickets, Ready(j, t, run),
         NEW base \in run, NEW pg, SoundCompile(P[t], pg), P[t].kind = "region"
  PROVE  Landing(land(j, t, P[t], base), j, t, P[t], run)
<1> DEFINE i == finish_pending_superblock(j, t, P[t], TRUE)
           r == complete_region_landing(i, P[t], base)
<1>1. land(j, t, P[t], base) = r
  BY DEF land
<1>2. /\ Sound(i, run, {}, 0, {}) /\ Same(i, j, {"claims", "superblocked"})
      /\ Settles(i, j, t) /\ Cleared(i, t)
  BY FinishSuperblock, Zenon
<1> HIDE DEF i
<1>3. i.cache = j.cache /\ i.lines = j.lines /\ i.slot_owner = j.slot_owner
  BY <1>2 DEF Same, JitFields
<1>4. base \in Slots /\ i.slot_owner[base] # 0 /\ users(i, base) = {}
  BY <1>3, TicketType DEF Ready, users
<1>5. RegionTraces(P[t])
  BY DEF SoundCompile
<1>6. Sound(r, run, {}, 0, {}) /\ Follows(r, i) /\ LandedFrom(r, i, blocks_of(P[t]))
  BY <1>2, <1>4, <1>5, RegionLandingSound, Zenon
<1> HIDE DEF r
<1>7. Landing(r, i, t, P[t], run)
  BY <1>2, <1>6, LandingFollows
<1>8. Landing(r, j, t, P[t], run)
  BY <1>2, <1>3, <1>7, LandingAfter
<1> QED
  BY <1>1, <1>8

(* Whatever lands.                                                         *)
LEMMA LandSound ==
  ASSUME NEW j, NEW run \in SUBSET Slots, Sound(j, run, {}, 0, {}), NEW P, ClaimsTracked(j.claims, P),
         ModulesTracked(j.modules, P), NEW t \in DOMAIN P, t \in Tickets, Ready(j, t, run),
         j.module_owner[t] = <<>>, is_current(j, t, P[t]),
         NEW base \in run, base \in Int, NEW pg, SoundCompile(P[t], pg),
         run = base .. base + slot_count(P[t]) - 1
  PROVE  Landing(land(j, t, P[t], base), j, t, P[t], run)
<1>1. CASE P[t].kind = "region"
  BY <1>1, RegionLanding
<1>2. CASE P[t].kind = "page"
  <2>1. module_pending(j, t, P[t])
    BY <1>2 DEF is_current
  <2> QED
    BY <1>2, <2>1, PageLanding
<1>3. ASSUME P[t].kind \in {"block", "batch"}
      PROVE  Cleared(j, t)
  <2>1. /\ \A k \in Keys : j.claims[k].ticket # t
        /\ \A k \in Keys : j.modules[k].is = "pending" /\ j.modules[k].ticket = t => P[t].kind = "page"
    BY <1>3, PageTicket
  <2> QED
    BY <1>3, <2>1 DEF Cleared
<1>4. CASE P[t].kind = "block"
  <2>1. land(j, t, P[t], base) = land_block(j, P[t].members[1], base)
    BY <1>4 DEF land
  <2> QED
    BY <1>3, <1>4, <2>1, BlockLanding
<1>5. CASE P[t].kind = "batch"
  <2>1. land(j, t, P[t], base) = complete_batch_landing(j, P[t], base)
    BY <1>5 DEF land
  <2> QED
    BY <1>3, <1>5, <2>1, BatchLanding
<1> QED
  BY <1>1, <1>2, <1>4, <1>5 DEF SoundCompile

(* A compile under way, and what is left of the coverage without it.       *)
LEMMA AnswerOpened ==
  ASSUME OwnershipInv, NEW t \in DOMAIN pending
  PROVE  LET c == pending[t]
             J == [jit EXCEPT !.coverage = remove_pending_coverage(@, c.members)]
         IN  /\ t \in Tickets /\ SoundCompile(c, pages)
             /\ ClaimsTracked(J.claims, pending) /\ ModulesTracked(J.modules, pending)
             /\ Sound(J, {}, {}, 0, {}) /\ Same(J, jit, {"coverage"})
             /\ J.coverage = remove_pending_coverage(jit.coverage, c.members)
<1> DEFINE c == pending[t]
           cv == remove_pending_coverage(jit.coverage, c.members)
           J == [jit EXCEPT !.coverage = cv]
<1>1. /\ jit \in JitStates /\ DOMAIN jit = JitFields /\ PendingSound(jit, pending, pages, tickets)
      /\ Sound(jit, {}, {}, 0, {}) /\ tickets \in Nat
  BY Parts
<1>2. /\ SoundCompile(c, pages) /\ c.members \in Seq(Trace)
      /\ ClaimsTracked(jit.claims, pending) /\ ModulesTracked(jit.modules, pending)
  BY <1>1 DEF PendingSound, SoundCompile
<1>3. t \in Tickets
  <2>1. t \in 1 .. tickets
    BY <1>1 DEF PendingSound
  <2>2. tickets \in 0 .. scope.issues /\ scope.issues \in 0 .. MaxTickets
    BY Parts DEF OwnershipInv
  <2> QED
    BY <2>1, <2>2, OwnershipAssumption DEF Tickets
<1>4. jit.coverage \in Coverage
  BY <1>1, FieldType DEF Coverage
<1>5. \A space \in Spaces, pc \in Pcs :
        jit.coverage[<<space, pc>>] >= Cardinality(CoveringIn(c.members, space, pc))
  <2> SUFFICES ASSUME NEW space \in Spaces, NEW pc \in Pcs
               PROVE  jit.coverage[<<space, pc>>] >= Cardinality(CoveringIn(c.members, space, pc))
    BY Zenon
  <2> DEFINE a == Cardinality(CoveringIn(jit.stage, space, pc))
             q == Cardinality(CoveringPending(Except(pending, t), space, pc))
             m == Cardinality(CoveringIn(c.members, space, pc))
  <2>1. jit.coverage[<<space, pc>>] = a + q + m /\ a \in Nat /\ q \in Nat /\ m \in Nat
    BY <1>1, CountedApart, Zenon
  <2> HIDE DEF a, q, m
  <2>2. jit.coverage[<<space, pc>>] >= m
    BY <2>1
  <2> QED
    BY <2>2 DEF m
<1>6. cv \in Coverage
  BY <1>2, <1>4, <1>5, CoverageTaken, Zenon
<1> HIDE DEF cv
<1>7. J \in JitStates
  BY <1>1, <1>6 DEF JitStates, Coverage
<1>8. Same(J, jit, {"coverage"}) /\ J.coverage = cv
  BY <1>1 DEF Same, JitFields
<1>9. J = [jit EXCEPT !.coverage = remove_pending_coverage(@, c.members)]
  BY DEF cv
<1> HIDE DEF J
<1>10. J.claims = jit.claims /\ J.modules = jit.modules
  BY <1>8 DEF Same, JitFields
<1>11. Sound(J, {}, {}, 0, {})
  <2>1. Same(J, jit, {"lines", "modules", "superblocked", "claims", "stage", "coverage", "fill"})
    BY <1>8 DEF Same, JitFields
  <2> QED
    BY <1>1, <1>7, <1>10, <2>1, SoundFields
<1> QED
  BY <1>2, <1>3, <1>8, <1>9, <1>10, <1>11 DEF cv

(* A compile is answered.                                                  *)
LEMMA Answered ==
  ASSUME OwnershipInv, NEW t \in DOMAIN pending, t \in Tickets,
         NEW J, Same(J, jit, {"coverage"}),
         J.coverage = remove_pending_coverage(jit.coverage, pending[t].members),
         Sound(jit', {}, {}, 0, {}), LinesAgree(jit', satp), EntriesCurrent(jit', pages),
         Settles(jit', J, t), Cleared(jit', t),
         pending' = Except(pending, t), UNCHANGED <<pages, satp, tickets>>
  PROVE  Kept
<1>1. /\ J.slot_owner = jit.slot_owner /\ J.modules = jit.modules /\ J.claims = jit.claims
      /\ J.stage = jit.stage
  BY DEF Same, JitFields
<1>2. jit \in JitStates /\ PendingSound(jit, pending, pages, tickets) /\ tickets \in Nat
  BY Parts
<1>3. PendingSound(jit', Except(pending, t), pages, tickets)
  BY <1>1, <1>2, AnsweredSound
<1> QED
  BY <1>3 DEF Kept, Holding, OwnershipInv

(* It does not land.                                                       *)
LEMMA GivenUp ==
  ASSUME OwnershipInv, NEW t \in DOMAIN pending, t \in Tickets, SoundCompile(pending[t], pages),
         NEW J, Same(J, jit, {"coverage"}), Sound(J, {}, {}, 0, {}),
         ClaimsTracked(J.claims, pending), ModulesTracked(J.modules, pending),
         NEW how \in {"cancelled", "failed"}
  PROVE  LET g == give_up(J, t, pending[t], how) IN
         /\ Sound(g, {}, {}, 0, {}) /\ LinesAgree(g, satp) /\ EntriesCurrent(g, pages)
         /\ Settles(g, J, t) /\ Cleared(g, t)
<1> DEFINE g == give_up(J, t, pending[t], how)
<1>1. /\ Sound(g, {}, {}, 0, {}) /\ Same(g, J, {"claims", "superblocked", "modules"})
      /\ Settles(g, J, t) /\ Cleared(g, t)
  BY GiveUpSound, Zenon
<1> HIDE DEF g
<1>2. g.cache = jit.cache /\ g.lines = jit.lines
  BY <1>1 DEF Same, JitFields
<1>3. LinesAgree(jit, satp) /\ EntriesCurrent(jit, pages)
  BY Parts
<1>4. LinesAgree(g, satp) /\ EntriesCurrent(g, pages)
  BY <1>2, <1>3 DEF LinesAgree, EntriesCurrent
<1> QED
  BY <1>1, <1>4 DEF g

(* The traces of a compile that may land are of what their pages hold.     *)
LEMMA LandsCurrent ==
  ASSUME OwnershipInv, NEW t \in DOMAIN pending, SoundCompile(pending[t], pages),
         ~any_stale(pending[t]), NEW J, J.claims = jit.claims, is_current(J, t, pending[t]),
         NEW b \in blocks_of(pending[t]), NEW s \in b.src
  PROVE  Current(s, pages)
<1>1. CASE pending[t].kind = "region"
  <2>1. b.src = pending[t].src
    BY <1>1 DEF SoundCompile, RegionTraces
  <2>2. jit.claims[<<pending[t].space, s.va>>].ticket = t
    BY <1>1, <2>1 DEF is_current
  <2>3. ClaimsHold(jit.claims, pending, pages)
    BY Parts DEF PendingSound
  <2> QED
    BY <1>1, <2>1, <2>2, <2>3, Zenon DEF ClaimsHold
<1>2. CASE pending[t].kind # "region"
  <2>1. Fresh(s, pages)
    BY <1>2 DEF SoundCompile, SoundTrace
  <2>2. pages[s.pp].gen = s.gen /\ pages[s.pp].marked
    BY DEF any_stale, source_stale
  <2> QED
    BY <2>1, <2>2 DEF Fresh, Current
<1> QED
  BY <1>1, <1>2

(* The run of slots the host takes is no one's.                            *)
LEMMA RunFree ==
  ASSUME OwnershipInv, NEW n \in Nat \ {0}, NEW base \in Slots, base = first_fit(n)
  PROVE  /\ base \in Nat /\ base .. base + n - 1 \subseteq Slots /\ base \in base .. base + n - 1
         /\ \A s \in base .. base + n - 1 : jit.slot_owner[s] = 0
<1> DEFINE fits == {b \in Slots : b .. b + n - 1 \subseteq Slots \ jit.live}
<1>1. Slots \subseteq Nat \ {0}
  BY OwnershipAssumption
<1>2. base \in Nat /\ base # 0
  BY <1>1
<1>3. fits # {} /\ base = Min(fits) /\ fits \in SUBSET Nat /\ fits \subseteq Slots
  BY <1>1, <1>2 DEF first_fit
<1> HIDE DEF fits
<1>4. \E b \in fits : \A x \in fits : b <= x
  BY <1>3, LeastNat
<1>5. base \in fits
  BY <1>3, <1>4 DEF Min
<1>6. base .. base + n - 1 \subseteq Slots \ jit.live
  BY <1>5 DEF fits
<1>7. \A s \in Slots : s \in jit.live <=> jit.slot_owner[s] # 0
  BY Parts DEF Sound, LiveOwned
<1>8. base \in base .. base + n - 1
  BY <1>2
<1> QED
  BY <1>2, <1>6, <1>7, <1>8

(* The slots are the compile's, which is not known to have any.            *)
LEMMA RunTracked ==
  ASSUME OwnershipInv, NEW t \in DOMAIN pending, t \in Tickets,
         NEW J, Same(J, jit, {"coverage"}), Sound(J, {}, {}, 0, {}),
         NEW run \in SUBSET Slots, run # {}, \A s \in run : jit.slot_owner[s] = 0
  PROVE  LET o == track_owner(J, t, run) IN
         /\ Sound(o, run, {}, 0, {}) /\ Settles(o, J, t) /\ Ready(o, t, run)
         /\ o.claims = jit.claims /\ o.modules = jit.modules
         /\ o.cache = jit.cache /\ o.lines = jit.lines /\ o.module_owner[t] = <<>>
<1> DEFINE o == track_owner(J, t, run)
<1>1. /\ J.slot_owner = jit.slot_owner /\ J.modules = jit.modules /\ J.claims = jit.claims
      /\ J.cache = jit.cache /\ J.lines = jit.lines
  BY DEF Same, JitFields
<1>2. ~owns(J, t)
  <2>1. OwnersAnswered(jit.slot_owner, pending, tickets)
    BY Parts DEF PendingSound
  <2> QED
    BY <1>1, <2>1 DEF OwnersAnswered, owns
<1>3. \A s \in run : J.slot_owner[s] = 0
  BY <1>1
<1>4. /\ Sound(o, run, {}, 0, {}) /\ Same(o, J, {"slot_owner", "live", "cold"})
      /\ \A s \in Slots : o.slot_owner[s] = IF s \in run THEN t ELSE J.slot_owner[s]
      /\ \A s \in run : users(o, s) = {} /\ o.regions[s] = {} /\ o.exits[s] = NoExits
      /\ J.module_owner[t] = <<>>
  BY <1>2, <1>3, TrackSound, Zenon
<1> HIDE DEF o
<1>5. /\ o.claims = J.claims /\ o.modules = J.modules /\ o.cache = J.cache /\ o.lines = J.lines
      /\ o.module_owner = J.module_owner /\ o.stage = J.stage /\ o.coverage = J.coverage
  BY <1>4 DEF Same, JitFields
<1>6. Settles(o, J, t)
  BY <1>4, <1>5 DEF Settles
<1>7. Ready(o, t, run)
  BY <1>4 DEF Ready
<1> QED
  BY <1>1, <1>4, <1>5, <1>6, <1>7 DEF o

(* Code that lands, or that is out of date and does not.                   *)
LEMMA LandedOrNot ==
  ASSUME OwnershipInv, NEW t \in DOMAIN pending, t \in Tickets, SoundCompile(pending[t], pages),
         NEW o, NEW run \in SUBSET Slots, Sound(o, run, {}, 0, {}), Ready(o, t, run),
         o.claims = jit.claims, o.modules = jit.modules, o.cache = jit.cache, o.lines = jit.lines,
         o.module_owner[t] = <<>>, is_current(o, t, pending[t]),
         NEW base \in run, base \in Int, run = base .. base + slot_count(pending[t]) - 1
  PROVE  LET x == IF any_stale(pending[t]) THEN give_up(o, t, pending[t], "cancelled")
                                           ELSE land(o, t, pending[t], base)
         IN  /\ Sound(x, run, {}, 0, {}) /\ Settles(x, o, t) /\ Cleared(x, t)
             /\ LinesAgree(x, satp) /\ EntriesCurrent(x, pages)
             /\ \A s \in run : x.slot_owner[s] \in {t, 0}
<1> DEFINE x == IF any_stale(pending[t]) THEN give_up(o, t, pending[t], "cancelled")
                                         ELSE land(o, t, pending[t], base)
<1>1. ClaimsTracked(o.claims, pending) /\ ModulesTracked(o.modules, pending)
  BY Parts DEF PendingSound
<1>2. LinesAgree(o, satp) /\ EntriesCurrent(o, pages)
  <2>1. LinesAgree(jit, satp) /\ EntriesCurrent(jit, pages)
    BY Parts
  <2> QED
    BY <2>1 DEF LinesAgree, EntriesCurrent
<1>3. satp \in Spaces
  BY Parts
<1>4. CASE any_stale(pending[t])
  <2> DEFINE g == give_up(o, t, pending[t], "cancelled")
  <2>1. x = g
    BY <1>4
  <2>2. /\ Sound(g, run, {}, 0, {}) /\ Same(g, o, {"claims", "superblocked", "modules"})
        /\ Settles(g, o, t) /\ Cleared(g, t)
    BY <1>1, GiveUpSound, Zenon
  <2> HIDE DEF g
  <2>3. g.cache = o.cache /\ g.lines = o.lines /\ g.slot_owner = o.slot_owner
    BY <2>2 DEF Same, JitFields
  <2>4. LinesAgree(g, satp) /\ EntriesCurrent(g, pages)
    BY <1>2, <2>3 DEF LinesAgree, EntriesCurrent
  <2>5. \A s \in run : g.slot_owner[s] \in {t, 0}
    BY <2>3 DEF Ready
  <2> HIDE DEF x
  <2>6. /\ Sound(x, run, {}, 0, {}) /\ Settles(x, o, t) /\ Cleared(x, t)
        /\ LinesAgree(x, satp) /\ EntriesCurrent(x, pages)
        /\ \A s \in run : x.slot_owner[s] \in {t, 0}
    BY <2>1, <2>2, <2>4, <2>5
  <2> QED
    BY <2>6 DEF x
<1>5. CASE ~any_stale(pending[t])
  <2> DEFINE l == land(o, t, pending[t], base)
  <2>1. x = l
    BY <1>5
  <2>2. Landing(l, o, t, pending[t], run)
    BY <1>1, LandSound
  <2> HIDE DEF l
  <2>3. \A b \in blocks_of(pending[t]) : \A s \in b.src : Current(s, pages)
    BY <1>5, LandsCurrent
  <2>4. EntriesCurrent(l, pages)
    <3> SUFFICES ASSUME NEW pc \in Pcs, l.cache[pc] # NoEntry, NEW s \in l.cache[pc].src
                 PROVE  Current(s, pages)
      BY DEF EntriesCurrent
    <3>1. CASE l.cache[pc] = o.cache[pc]
      BY <1>2, <3>1 DEF EntriesCurrent
    <3>2. CASE \E b \in blocks_of(pending[t]) : b.pc = pc /\ l.cache[pc].src = b.src
      BY <2>3, <3>2
    <3> QED
      BY <2>2, <3>1, <3>2 DEF Landing, LandedFrom
  <2>5. LinesAgree(l, satp)
    BY <1>2, <1>3, <2>2 DEF Landing
  <2>6. \A s \in run : l.slot_owner[s] \in {t, 0}
    BY <2>2 DEF Landing, Ready
  <2> HIDE DEF x
  <2>7. /\ Sound(x, run, {}, 0, {}) /\ Settles(x, o, t) /\ Cleared(x, t)
        /\ LinesAgree(x, satp) /\ EntriesCurrent(x, pages)
        /\ \A s \in run : x.slot_owner[s] \in {t, 0}
    BY <2>1, <2>2, <2>4, <2>5, <2>6 DEF Landing
  <2> QED
    BY <2>7 DEF x
<1> QED
  BY <1>4, <1>5

(* A compile is answered, in whatever way.                                 *)
LEMMA CompleteKept ==
  ASSUME OwnershipInv, NEW t \in DOMAIN pending, NEW base \in Slots \cup {0, -1}, complete_jit(t, base)
  PROVE  Kept
<1> DEFINE J == [jit EXCEPT !.coverage = remove_pending_coverage(@, pending[t].members)]
           n == slot_count(pending[t])
           run == base .. base + n - 1
           o == track_owner(J, t, run)
           x == IF any_stale(pending[t]) THEN give_up(o, t, pending[t], "cancelled")
                                         ELSE land(o, t, pending[t], base)
           cancelled == give_up(J, t, pending[t], "cancelled")
           failed == give_up(J, t, pending[t], "failed")
<1>1. /\ base > 0 => base = first_fit(n)
      /\ pending' = Except(pending, t) /\ UNCHANGED <<pages, satp, tickets>>
      /\ jit' = IF ~is_current(J, t, pending[t]) THEN cancelled
                ELSE IF base = -1 THEN evict_cold_owner(cancelled)
                ELSE IF base = 0 THEN failed
                ELSE retire_unreferenced_slots(x, t)
  BY DEF complete_jit, Except
<1>2. /\ t \in Tickets /\ SoundCompile(pending[t], pages)
      /\ ClaimsTracked(J.claims, pending) /\ ModulesTracked(J.modules, pending)
      /\ Sound(J, {}, {}, 0, {}) /\ Same(J, jit, {"coverage"})
      /\ J.coverage = remove_pending_coverage(jit.coverage, pending[t].members)
  BY AnswerOpened, Zenon
<1> HIDE DEF J
<1>3. ASSUME Sound(jit', {}, {}, 0, {}), LinesAgree(jit', satp), EntriesCurrent(jit', pages),
             Settles(jit', J, t), Cleared(jit', t)
      PROVE  Kept
  BY <1>1, <1>2, <1>3, Answered
<1>4. /\ Sound(cancelled, {}, {}, 0, {}) /\ LinesAgree(cancelled, satp)
      /\ EntriesCurrent(cancelled, pages) /\ Settles(cancelled, J, t) /\ Cleared(cancelled, t)
  BY <1>2, GivenUp, Zenon
<1>5. /\ Sound(failed, {}, {}, 0, {}) /\ LinesAgree(failed, satp)
      /\ EntriesCurrent(failed, pages) /\ Settles(failed, J, t) /\ Cleared(failed, t)
  BY <1>2, GivenUp, Zenon
<1> HIDE DEF cancelled, failed
<1>6. CASE ~is_current(J, t, pending[t])
  <2>1. jit' = cancelled
    BY <1>1, <1>6
  <2> QED
    BY <1>3, <1>4, <2>1
<1>7. CASE is_current(J, t, pending[t]) /\ base = -1
  <2> DEFINE e == evict_cold_owner(cancelled)
  <2>1. jit' = e
    BY <1>1, <1>7
  <2>2. Sound(e, {}, {}, 0, {}) /\ \E D \in SUBSET Pcs : Without(e, cancelled, D)
    BY <1>4, EvictSound
  <2> HIDE DEF e
  <2>3. PICK D \in SUBSET Pcs : Without(e, cancelled, D)
    BY <2>2
  <2>4. Follows(e, cancelled) /\ \A pc \in Pcs : e.cache[pc] \in {cancelled.cache[pc], NoEntry}
    BY <2>3 DEF Without
  <2>5. Settles(e, cancelled, t)
    BY <1>2, <2>4, FollowsTame, SettlesOn
  <2>6. Settles(e, J, t) /\ Cleared(e, t)
    BY <1>2, <1>4, <2>5, SettlesOn
  <2>7. satp \in Spaces
    BY Parts
  <2>8. LinesAgree(e, satp)
    BY <1>4, <2>4, <2>7 DEF Follows
  <2>9. EntriesCurrent(e, pages)
    BY <1>4, <2>4 DEF EntriesCurrent
  <2> QED
    BY <1>3, <2>1, <2>2, <2>6, <2>8, <2>9
<1>8. CASE is_current(J, t, pending[t]) /\ base = 0
  <2>1. jit' = failed
    BY <1>1, <1>8
  <2> QED
    BY <1>3, <1>5, <2>1
<1>9. CASE is_current(J, t, pending[t]) /\ base # 0 /\ base # -1
  <2>1. base \in Slots /\ jit' = retire_unreferenced_slots(x, t)
    BY <1>1, <1>9
  <2>2. n \in Nat \ {0}
    <3>1. pending[t].members \in Seq(Trace) /\ (pending[t].kind = "batch" => Len(pending[t].members) > 0)
      BY <1>2 DEF SoundCompile
    <3>2. Len(pending[t].members) \in Nat
      BY <3>1
    <3> QED
      BY <3>1, <3>2 DEF slot_count
  <2> HIDE DEF n
  <2>3. base = first_fit(n)
    <3>1. base > 0
      BY <2>1, OwnershipAssumption
    <3> QED
      BY <1>1, <3>1
  <2>4. base \in Nat /\ run \subseteq Slots /\ base \in run /\ \A s \in run : jit.slot_owner[s] = 0
    BY <2>1, <2>2, <2>3, RunFree
  <2>5. run = base .. base + slot_count(pending[t]) - 1
    BY DEF n
  <2> HIDE DEF run
  <2>6. run \in SUBSET Slots /\ run # {}
    BY <2>4
  <2>7. /\ Sound(o, run, {}, 0, {}) /\ Settles(o, J, t) /\ Ready(o, t, run)
        /\ o.claims = jit.claims /\ o.modules = jit.modules
        /\ o.cache = jit.cache /\ o.lines = jit.lines /\ o.module_owner[t] = <<>>
    BY <1>2, <2>4, <2>6, RunTracked, Zenon
  <2> HIDE DEF o
  <2>8. is_current(o, t, pending[t])
    <3>1. J.claims = jit.claims /\ J.modules = jit.modules
      BY <1>2 DEF Same, JitFields
    <3> QED
      BY <1>9, <2>7, <3>1 DEF is_current, module_pending
  <2>9. base \in Int
    BY <2>4
  <2>10. /\ Sound(x, run, {}, 0, {}) /\ Settles(x, o, t) /\ Cleared(x, t)
         /\ LinesAgree(x, satp) /\ EntriesCurrent(x, pages)
         /\ \A s \in run : x.slot_owner[s] \in {t, 0}
    BY <1>2, <2>4, <2>5, <2>6, <2>7, <2>8, <2>9, LandedOrNot, Zenon
  <2> HIDE DEF x
  <2> DEFINE r == retire_unreferenced_slots(x, t)
  <2>11. Sound(r, {}, {}, 0, {}) /\ Follows(r, x) /\ r.cache = x.cache
    BY <1>2, <2>6, <2>10, IdleRetired, Zenon
  <2>12. jit' = r
    BY <2>1
  <2> HIDE DEF r
  <2>13. Settles(r, x, t)
    BY <1>2, <2>11, FollowsTame, SettlesOn
  <2>14. Settles(r, J, t) /\ Cleared(r, t)
    <3>1. Settles(x, J, t)
      BY <1>2, <2>7, <2>10, SettlesOn
    <3> QED
      BY <1>2, <2>10, <2>13, <3>1, SettlesOn
  <2>15. satp \in Spaces
    BY Parts
  <2>16. LinesAgree(r, satp) /\ EntriesCurrent(r, pages)
    BY <2>10, <2>11, <2>15 DEF Follows, EntriesCurrent
  <2> QED
    BY <1>3, <2>11, <2>12, <2>14, <2>16
<1> QED
  BY <1>6, <1>7, <1>8, <1>9

-----------------------------------------------------------------------------
(* The dirty pages are drained.                                            *)

(* The loops of drain_page, TakeDirty and invalidate_superblock_state.     *)
restaged(j, blocks, p) == FoldLeft(LAMBDA i, b : restage(i, p, b), j, blocks)
drain_all(j, dirty) == FoldSet(LAMBDA p, i : drain_page(i, p), j, dirty)
retire_all(j, owners) == FoldSet(LAMBDA o, i : retire_owner(i, o), j, owners)

(* What is kept while the staged traces are looked at one by one.          *)
LEMMA RestageFold ==
  ASSUME NEW p, NEW blocks, NEW D, blocks \in Seq(Trace), D = DOMAIN blocks, NEW base \in JitStates,
         NEW R, <<{}, base>> \in R,
         \A s \in SUBSET D : \A x \in s : \A v \in JitStates :
           <<s \ {x}, v>> \in R => restage(v, p, blocks[x]) \in JitStates /\ <<s, restage(v, p, blocks[x])>> \in R
  PROVE  <<D, restaged(base, blocks, p)>> \in R
<1> DEFINE V == JitStates
           pick == [s \in SUBSET D |-> Max(s)]
           H == [y \in D \X V |-> IF restage(y[2], p, blocks[y[1]]) \in V THEN restage(y[2], p, blocks[y[1]]) ELSE base]
           body(it) == [s \in SUBSET D |->
                          IF s = {} THEN base
                          ELSE restage(it[s \ {Max(s)}], p, blocks[Max(s)])]
           it == CHOOSE i : i = body(i)
<1>0. IsFiniteSet(D) /\ D = 1 .. Len(blocks)
  BY LenProperties, FS_Interval
<1>1. restaged(base, blocks, p) = it[D]
  BY Zenon DEF restaged, FoldLeft, MapThenFoldSet
<1>2. H \in [D \X V -> V]
  OBVIOUS
<1>3. \A s \in SUBSET D : s # {} => pick[s] \in s /\ pick[s] = Max(s)
  <2> SUFFICES ASSUME NEW s \in SUBSET D, s # {}
               PROVE  Max(s) \in s
    OBVIOUS
  <2>1. s \in SUBSET (1 .. Len(blocks)) /\ Len(blocks) \in Nat
    BY <1>0, LenProperties
  <2> QED
    BY <2>1, MaxIn
<1>4. ASSUME NEW s \in SUBSET D, NEW x \in s, NEW v \in V, <<s \ {x}, v>> \in R
      PROVE  H[<<x, v>>] = restage(v, p, blocks[x]) /\ <<s, restage(v, p, blocks[x])>> \in R
  <2>1. restage(v, p, blocks[x]) \in V /\ <<s, restage(v, p, blocks[x])>> \in R /\ <<x, v>> \in D \X V
    BY <1>4
  <2> QED
    BY <2>1
<1> HIDE DEF H, pick, V
<1>5. PICK i \in [SUBSET D -> V] : Folded(i, D, V, base, H, pick, R)
  <2>1. base \in V
    BY DEF V
  <2>2. \A s \in SUBSET D : \A x \in s : \A v \in V :
          <<s \ {x}, v>> \in R => <<s, H[<<x, v>>]>> \in R
    BY <1>4, Zenon
  <2>3. \A s \in SUBSET D : s # {} => pick[s] \in s
    BY <1>3
  <2> QED
    BY <1>0, <1>2, <2>1, <2>2, <2>3, FoldSolved, Zenon
<1>6. i = body(i)
  <2>1. ASSUME NEW s \in SUBSET D, s # {}
        PROVE  i[s] = restage(i[s \ {pick[s]}], p, blocks[pick[s]])
    <3> DEFINE m == pick[s]  v == i[s \ {pick[s]}]
    <3>1. m \in s /\ v \in V /\ <<s \ {m}, v>> \in R /\ i[s] = H[<<m, v>>]
      BY <1>5, <2>1 DEF Folded
    <3> HIDE DEF m, v
    <3>2. H[<<m, v>>] = restage(v, p, blocks[m])
      BY <1>4, <3>1
    <3>3. i[s] = restage(v, p, blocks[m])
      BY <3>1, <3>2
    <3> QED
      BY <3>3 DEF m, v
  <2>2. ASSUME NEW s \in SUBSET D
        PROVE  i[s] = body(i)[s]
    <3>1. CASE s = {}
      BY <1>5, <3>1 DEF Folded
    <3>2. CASE s # {}
      <4>1. Max(s) = pick[s] /\ Max(s) \in D
        BY <1>3, <3>2
      <4>2. restage(i[s \ {Max(s)}], p, blocks[Max(s)]) = restage(i[s \ {Max(s)}], p, blocks[Max(s)])
        BY <4>1
      <4> QED
        BY <2>1, <3>2, <4>1, <4>2
    <3> QED
      BY <3>1, <3>2
  <2> QED
    BY <1>5, <2>2
<1>7. it = body(it)
  <2> HIDE DEF body
  <2>1. \E k : k = body(k)
    BY <1>6
  <2> QED
    BY <2>1, Zenon
<1> HIDE DEF it
<1>8. it[{}] = base /\ \A s \in SUBSET D : s # {} => it[s] = restage(it[s \ {pick[s]}], p, blocks[pick[s]])
  <2>1. ASSUME NEW s \in SUBSET D, s # {}
        PROVE  it[s] = restage(it[s \ {pick[s]}], p, blocks[pick[s]])
    <3>1. Max(s) = pick[s] /\ Max(s) \in D
      BY <1>3, <2>1
    <3>2. restage(it[s \ {Max(s)}], p, blocks[Max(s)]) = restage(it[s \ {Max(s)}], p, blocks[Max(s)])
      BY <3>1
    <3>3. it[s] = restage(it[s \ {Max(s)}], p, blocks[Max(s)])
      BY <1>7, <2>1
    <3> QED
      BY <3>1, <3>2, <3>3
  <2>2. it[{}] = base
    BY <1>7
  <2> QED
    BY <2>1, <2>2
<1> DEFINE Rt == R \cap ((SUBSET D) \X V)
<1>9. <<{}, it[{}]>> \in Rt
  BY <1>8 DEF V
<1>10. ASSUME NEW s \in SUBSET D, s # {}
       PROVE  \E m \in s : <<s \ {m}, it[s \ {m}]>> \in Rt => <<s, it[s]>> \in Rt
  <2>1. pick[s] \in s
    BY <1>3, <1>10
  <2> SUFFICES ASSUME <<s \ {pick[s]}, it[s \ {pick[s]}]>> \in Rt
               PROVE  <<s, it[s]>> \in Rt
    BY <2>1
  <2>2. it[s] = restage(it[s \ {pick[s]}], p, blocks[pick[s]])
    BY <1>8, <1>10
  <2> DEFINE m == pick[s]  v == it[s \ {pick[s]}]
  <2>3. m \in s /\ v \in JitStates /\ <<s \ {m}, v>> \in R /\ it[s] = restage(v, p, blocks[m])
    BY <2>1, <2>2 DEF V
  <2> HIDE DEF m, v
  <2>4. it[s] \in V /\ <<s, it[s]>> \in R
    BY <2>3 DEF V
  <2> QED
    BY <2>4
<1> HIDE DEF body, Rt
<1>11. <<D, it[D]>> \in Rt
  BY <1>0, <1>9, <1>10, FoldHolds
<1> QED
  BY <1>1, <1>11 DEF Rt

(* What is kept while the dirty pages are drained one by one.              *)
LEMMA DrainFold ==
  ASSUME NEW D, IsFiniteSet(D), NEW base \in JitStates,
         NEW R, <<{}, base>> \in R,
         \A s \in SUBSET D : \A x \in s : \A v \in JitStates :
           <<s \ {x}, v>> \in R => drain_page(v, x) \in JitStates /\ <<s, drain_page(v, x)>> \in R
  PROVE  <<D, drain_all(base, D)>> \in R
<1> DEFINE V == JitStates
           pick == [s \in SUBSET D |-> CHOOSE x \in s : TRUE]
           H == [p \in D \X V |-> IF drain_page(p[2], p[1]) \in V THEN drain_page(p[2], p[1]) ELSE base]
           body(it) == [s \in SUBSET D |->
                          IF s = {} THEN base
                          ELSE drain_page(it[s \ {CHOOSE x \in s : TRUE}], CHOOSE x \in s : TRUE)]
           it == CHOOSE i : i = body(i)
<1>1. drain_all(base, D) = it[D]
  BY Zenon DEF drain_all, FoldSet, MapThenFoldSet
<1>2. H \in [D \X V -> V]
  OBVIOUS
<1>3. \A s \in SUBSET D : s # {} => pick[s] \in s /\ pick[s] = CHOOSE x \in s : TRUE
  OBVIOUS
<1>4. ASSUME NEW s \in SUBSET D, NEW x \in s, NEW v \in V, <<s \ {x}, v>> \in R
      PROVE  H[<<x, v>>] = drain_page(v, x) /\ <<s, drain_page(v, x)>> \in R
  <2>1. drain_page(v, x) \in V /\ <<s, drain_page(v, x)>> \in R /\ <<x, v>> \in D \X V
    BY <1>4
  <2> QED
    BY <2>1
<1> HIDE DEF H, pick, V
<1>5. PICK i \in [SUBSET D -> V] : Folded(i, D, V, base, H, pick, R)
  <2>1. base \in V
    BY DEF V
  <2>2. \A s \in SUBSET D : \A x \in s : \A v \in V :
          <<s \ {x}, v>> \in R => <<s, H[<<x, v>>]>> \in R
    BY <1>4, Zenon
  <2>3. \A s \in SUBSET D : s # {} => pick[s] \in s
    BY <1>3
  <2> QED
    BY <1>2, <2>1, <2>2, <2>3, FoldSolved, Zenon
<1>6. i = body(i)
  <2>1. ASSUME NEW s \in SUBSET D, s # {}
        PROVE  i[s] = drain_page(i[s \ {pick[s]}], pick[s])
    BY <1>4, <1>5, <2>1 DEF Folded
  <2>2. \A s \in SUBSET D : i[s] = body(i)[s]
    BY <1>3, <1>5, <2>1 DEF Folded
  <2> QED
    BY <1>5, <2>2
<1>7. it = body(it)
  <2> HIDE DEF body
  <2>1. \E k : k = body(k)
    BY <1>6
  <2> QED
    BY <2>1, Zenon
<1> HIDE DEF it
<1>8. it[{}] = base /\ \A s \in SUBSET D : s # {} => it[s] = drain_page(it[s \ {pick[s]}], pick[s])
  BY <1>3, <1>7
<1> DEFINE Rt == R \cap ((SUBSET D) \X V)
<1>9. <<{}, it[{}]>> \in Rt
  BY <1>8 DEF V
<1>10. ASSUME NEW s \in SUBSET D, s # {}
       PROVE  \E c \in s : <<s \ {c}, it[s \ {c}]>> \in Rt => <<s, it[s]>> \in Rt
  <2>1. pick[s] \in s
    BY <1>3, <1>10
  <2> SUFFICES ASSUME <<s \ {pick[s]}, it[s \ {pick[s]}]>> \in Rt
               PROVE  <<s, it[s]>> \in Rt
    BY <2>1
  <2>2. it[s] = drain_page(it[s \ {pick[s]}], pick[s])
    BY <1>8, <1>10
  <2> DEFINE c == pick[s]  v == it[s \ {pick[s]}]
  <2>3. c \in s /\ v \in JitStates /\ <<s \ {c}, v>> \in R /\ it[s] = drain_page(v, c)
    BY <2>1, <2>2 DEF V
  <2> HIDE DEF c, v
  <2>4. it[s] \in V /\ <<s, it[s]>> \in R
    BY <2>3 DEF V
  <2> QED
    BY <2>4
<1> HIDE DEF body, Rt
<1>11. <<D, it[D]>> \in Rt
  BY <1>9, <1>10, FoldHolds
<1> QED
  BY <1>1, <1>11 DEF Rt

(* What is kept while owners are retired one by one.                       *)
LEMMA RetireFold ==
  ASSUME NEW D, IsFiniteSet(D), NEW base \in JitStates,
         NEW R, <<{}, base>> \in R,
         \A s \in SUBSET D : \A x \in s : \A v \in JitStates :
           <<s \ {x}, v>> \in R => retire_owner(v, x) \in JitStates /\ <<s, retire_owner(v, x)>> \in R
  PROVE  <<D, retire_all(base, D)>> \in R
<1> DEFINE V == JitStates
           pick == [s \in SUBSET D |-> CHOOSE x \in s : TRUE]
           H == [p \in D \X V |-> IF retire_owner(p[2], p[1]) \in V THEN retire_owner(p[2], p[1]) ELSE base]
           body(it) == [s \in SUBSET D |->
                          IF s = {} THEN base
                          ELSE retire_owner(it[s \ {CHOOSE x \in s : TRUE}], CHOOSE x \in s : TRUE)]
           it == CHOOSE i : i = body(i)
<1>1. retire_all(base, D) = it[D]
  BY Zenon DEF retire_all, FoldSet, MapThenFoldSet
<1>2. H \in [D \X V -> V]
  OBVIOUS
<1>3. \A s \in SUBSET D : s # {} => pick[s] \in s /\ pick[s] = CHOOSE x \in s : TRUE
  OBVIOUS
<1>4. ASSUME NEW s \in SUBSET D, NEW x \in s, NEW v \in V, <<s \ {x}, v>> \in R
      PROVE  H[<<x, v>>] = retire_owner(v, x) /\ <<s, retire_owner(v, x)>> \in R
  <2>1. retire_owner(v, x) \in V /\ <<s, retire_owner(v, x)>> \in R /\ <<x, v>> \in D \X V
    BY <1>4
  <2> QED
    BY <2>1
<1> HIDE DEF H, pick, V
<1>5. PICK i \in [SUBSET D -> V] : Folded(i, D, V, base, H, pick, R)
  <2>1. base \in V
    BY DEF V
  <2>2. \A s \in SUBSET D : \A x \in s : \A v \in V :
          <<s \ {x}, v>> \in R => <<s, H[<<x, v>>]>> \in R
    BY <1>4, Zenon
  <2>3. \A s \in SUBSET D : s # {} => pick[s] \in s
    BY <1>3
  <2> QED
    BY <1>2, <2>1, <2>2, <2>3, FoldSolved, Zenon
<1>6. i = body(i)
  <2>1. ASSUME NEW s \in SUBSET D, s # {}
        PROVE  i[s] = retire_owner(i[s \ {pick[s]}], pick[s])
    BY <1>4, <1>5, <2>1 DEF Folded
  <2>2. \A s \in SUBSET D : i[s] = body(i)[s]
    BY <1>3, <1>5, <2>1 DEF Folded
  <2> QED
    BY <1>5, <2>2
<1>7. it = body(it)
  <2> HIDE DEF body
  <2>1. \E k : k = body(k)
    BY <1>6
  <2> QED
    BY <2>1, Zenon
<1> HIDE DEF it
<1>8. it[{}] = base /\ \A s \in SUBSET D : s # {} => it[s] = retire_owner(it[s \ {pick[s]}], pick[s])
  BY <1>3, <1>7
<1> DEFINE Rt == R \cap ((SUBSET D) \X V)
<1>9. <<{}, it[{}]>> \in Rt
  BY <1>8 DEF V
<1>10. ASSUME NEW s \in SUBSET D, s # {}
       PROVE  \E c \in s : <<s \ {c}, it[s \ {c}]>> \in Rt => <<s, it[s]>> \in Rt
  <2>1. pick[s] \in s
    BY <1>3, <1>10
  <2> SUFFICES ASSUME <<s \ {pick[s]}, it[s \ {pick[s]}]>> \in Rt
               PROVE  <<s, it[s]>> \in Rt
    BY <2>1
  <2>2. it[s] = retire_owner(it[s \ {pick[s]}], pick[s])
    BY <1>8, <1>10
  <2> DEFINE c == pick[s]  v == it[s \ {pick[s]}]
  <2>3. c \in s /\ v \in JitStates /\ <<s \ {c}, v>> \in R /\ it[s] = retire_owner(v, c)
    BY <2>1, <2>2 DEF V
  <2> HIDE DEF c, v
  <2>4. it[s] \in V /\ <<s, it[s]>> \in R
    BY <2>3 DEF V
  <2> QED
    BY <2>4
<1> HIDE DEF body, Rt
<1>11. <<D, it[D]>> \in Rt
  BY <1>9, <1>10, FoldHolds
<1> QED
  BY <1>1, <1>11 DEF Rt

(* One trace stays staged, or goes with what it covered.                   *)
LEMMA RestageOne ==
  ASSUME NEW j \in JitStates, NEW b \in Trace, NEW p,
         \A space \in Spaces, pc \in Pcs : j.coverage[<<space, pc>>] >= once(b, space, pc)
  PROVE  LET r == restage(j, p, b) IN
         /\ r \in JitStates /\ Same(r, j, {"stage", "coverage"})
         /\ r.stage = j.stage \/ r.stage = Append(j.stage, b)
         /\ \A space \in Spaces, pc \in Pcs :
              r.coverage[<<space, pc>>] + Cardinality(CoveringIn(j.stage, space, pc)) + once(b, space, pc) =
                j.coverage[<<space, pc>>] + Cardinality(CoveringIn(r.stage, space, pc))
<1> DEFINE r == restage(j, p, b)
           cv == remove_confirmed_coverage(j.coverage, b)
           st == Append(j.stage, b)
<1>1. /\ DOMAIN j = JitFields /\ j.coverage \in Coverage /\ j.stage \in Seq(Trace)
      /\ \A sp \in Spaces \X Pcs : j.coverage[sp] \in Nat
  BY FieldType DEF Coverage
<1>2. cv \in Coverage /\ \A space \in Spaces, pc \in Pcs :
        cv[<<space, pc>>] = j.coverage[<<space, pc>>] - once(b, space, pc)
  BY <1>1, CoverageMoves
<1>3. st \in Seq(Trace)
  BY <1>1
<1>4. \A space, pc : Cardinality(CoveringIn(st, space, pc)) =
                       Cardinality(CoveringIn(j.stage, space, pc)) + once(b, space, pc)
  BY <1>1, CoveringAppend DEF once
<1>5. \A space, pc : Cardinality(CoveringIn(j.stage, space, pc)) \in Nat /\ once(b, space, pc) \in {0, 1}
  BY <1>1, CoveringFinite DEF once
<1>6. CASE on_page(b, p)
  <2> HIDE DEF cv
  <2> DEFINE i == [j EXCEPT !.coverage = cv]
  <2>1. r = i
    BY <1>6 DEF restage, cv
  <2>2. i \in JitStates
    BY <1>1, <1>2 DEF JitStates, Coverage
  <2>3. Same(i, j, {"stage", "coverage"}) /\ i.stage = j.stage /\ i.coverage = cv
    BY <1>1 DEF Same, JitFields
  <2> HIDE DEF i, r
  <2>4. ASSUME NEW space \in Spaces, NEW pc \in Pcs
        PROVE  r.coverage[<<space, pc>>] + Cardinality(CoveringIn(j.stage, space, pc)) + once(b, space, pc) =
                 j.coverage[<<space, pc>>] + Cardinality(CoveringIn(r.stage, space, pc))
    <3> DEFINE a == Cardinality(CoveringIn(j.stage, space, pc))  e == once(b, space, pc)
               n == j.coverage[<<space, pc>>]
    <3>1. r.coverage[<<space, pc>>] = n - e /\ r.stage = j.stage
      BY <1>2, <2>1, <2>3
    <3>2. a \in Nat /\ e \in {0, 1} /\ n \in Nat
      BY <1>1, <1>5
    <3> HIDE DEF a, e, n
    <3>3. r.coverage[<<space, pc>>] + a + e = n + a
      BY <3>1, <3>2
    <3> QED
      BY <3>1, <3>3 DEF a, e, n
  <2> QED
    BY <2>1, <2>2, <2>3, <2>4, Zenon DEF r
<1>7. CASE ~on_page(b, p)
  <2> HIDE DEF st
  <2> DEFINE i == [j EXCEPT !.stage = st]
  <2>1. r = i
    BY <1>7 DEF restage, st
  <2>2. i \in JitStates
    BY <1>1, <1>3 DEF JitStates
  <2>3. Same(i, j, {"stage", "coverage"}) /\ i.stage = st /\ i.coverage = j.coverage
    BY <1>1 DEF Same, JitFields
  <2> HIDE DEF i, r
  <2>4. ASSUME NEW space \in Spaces, NEW pc \in Pcs
        PROVE  r.coverage[<<space, pc>>] + Cardinality(CoveringIn(j.stage, space, pc)) + once(b, space, pc) =
                 j.coverage[<<space, pc>>] + Cardinality(CoveringIn(r.stage, space, pc))
    <3> DEFINE a == Cardinality(CoveringIn(j.stage, space, pc))  e == once(b, space, pc)
               n == j.coverage[<<space, pc>>]  z == Cardinality(CoveringIn(r.stage, space, pc))
    <3>1. r.coverage[<<space, pc>>] = n /\ z = a + e
      BY <1>4, <2>1, <2>3
    <3>2. a \in Nat /\ e \in {0, 1} /\ n \in Nat
      BY <1>1, <1>5
    <3> HIDE DEF a, e, n, z
    <3>3. r.coverage[<<space, pc>>] + a + e = n + z
      BY <3>1, <3>2
    <3> QED
      BY <3>3 DEF a, e, n, z
  <2>5. r.stage = Append(j.stage, b)
    BY <2>1, <2>3 DEF st
  <2> QED
    BY <2>1, <2>2, <2>3, <2>4, <2>5, Zenon DEF r
<1> QED
  BY <1>6, <1>7

(* The staged traces that are on the page go, with what they covered.      *)
LEMMA RestageSound ==
  ASSUME NEW j \in JitStates, NEW p,
         \A space \in Spaces, pc \in Pcs :
           j.coverage[<<space, pc>>] >= Cardinality(CoveringIn(j.stage, space, pc))
  PROVE  LET r == restaged([j EXCEPT !.stage = <<>>], j.stage, p) IN
         /\ r \in JitStates /\ Same(r, j, {"stage", "coverage"})
         /\ \A n \in DOMAIN r.stage : \E m \in DOMAIN j.stage : r.stage[n] = j.stage[m]
         /\ \A space \in Spaces, pc \in Pcs :
              r.coverage[<<space, pc>>] + Cardinality(CoveringIn(j.stage, space, pc)) =
                j.coverage[<<space, pc>>] + Cardinality(CoveringIn(r.stage, space, pc))
<1> DEFINE L == j.stage
           j0 == [j EXCEPT !.stage = <<>>]
           D == DOMAIN L
           Q(s, v) ==
             /\ Same(v, j, {"stage", "coverage"})
             /\ \A n \in DOMAIN v.stage : \E m \in D : v.stage[n] = L[m]
             /\ \A space \in Spaces, pc \in Pcs :
                  v.coverage[<<space, pc>>] + Cardinality(among(L, s, space, pc)) =
                    j.coverage[<<space, pc>>] + Cardinality(CoveringIn(v.stage, space, pc))
           R == {y \in (SUBSET D) \X JitStates : Q(y[1], y[2])}
<1>1. L \in Seq(Trace) /\ \A sp \in Spaces \X Pcs : j.coverage[sp] \in Nat
  BY FieldType
<1>2. IsFiniteSet(D) /\ \A x \in D : L[x] \in Trace
  BY <1>1, Indexes
<1>3. \A space, pc : among(L, D, space, pc) = CoveringIn(L, space, pc)
  BY DEF among, CoveringIn
<1>4. j0 \in JitStates /\ Same(j0, j, {"stage"}) /\ j0.stage = <<>> /\ j0.coverage = j.coverage
  <2>1. <<>> \in Seq(Trace) /\ DOMAIN j = JitFields
    BY FieldType
  <2> QED
    BY <2>1 DEF JitStates, Same, JitFields
<1> HIDE DEF j0
<1>5. Q({}, j0)
  <2>1. ASSUME NEW space, NEW pc
        PROVE  Cardinality(among(L, {}, space, pc)) = 0 /\ Cardinality(CoveringIn(<<>>, space, pc)) = 0
    <3>1. among(L, {}, space, pc) = {} /\ CoveringIn(<<>>, space, pc) = {}
      BY DEF among, CoveringIn
    <3> QED
      BY <3>1, FS_EmptySet
  <2>2. ASSUME NEW space \in Spaces, NEW pc \in Pcs
        PROVE  j0.coverage[<<space, pc>>] + Cardinality(among(L, {}, space, pc)) =
                 j.coverage[<<space, pc>>] + Cardinality(CoveringIn(j0.stage, space, pc))
    BY <1>4, <2>1
  <2>3. Same(j0, j, {"stage", "coverage"}) /\ DOMAIN j0.stage = {}
    BY <1>4 DEF Same
  <2> QED
    BY <2>2, <2>3, Zenon
<1>6. ASSUME NEW s \in SUBSET D, NEW x \in s, NEW v \in JitStates, Q(s \ {x}, v)
      PROVE  restage(v, p, L[x]) \in JitStates /\ Q(s, restage(v, p, L[x]))
  <2> DEFINE b == L[x]
             w == restage(v, p, b)
  <2>1. b \in Trace /\ IsFiniteSet(s) /\ x \in D
    BY <1>2, FS_Subset
  <2>2. \A space, pc : /\ Cardinality(among(L, s, space, pc)) \in Nat
                       /\ Cardinality(among(L, s \ {x}, space, pc)) \in Nat
                       /\ Cardinality(among(L, s, space, pc)) =
                            Cardinality(among(L, s \ {x}, space, pc)) + once(b, space, pc)
    BY <2>1, OneCounted
  <2>3. v.stage \in Seq(Trace) /\ \A sp \in Spaces \X Pcs : v.coverage[sp] \in Nat
    BY FieldType
  <2>4. \A space, pc : /\ Cardinality(CoveringIn(v.stage, space, pc)) \in Nat
                       /\ once(b, space, pc) \in {0, 1}
    BY <2>3, CoveringFinite DEF once
  <2>5. ASSUME NEW space \in Spaces, NEW pc \in Pcs
        PROVE  v.coverage[<<space, pc>>] >= once(b, space, pc)
    <3> DEFINE all == Cardinality(among(L, D, space, pc))
               a == Cardinality(among(L, s, space, pc))
               c == Cardinality(among(L, s \ {x}, space, pc))
               e == once(b, space, pc)  n == j.coverage[<<space, pc>>]
               m == v.coverage[<<space, pc>>]  z == Cardinality(CoveringIn(v.stage, space, pc))
    <3>1. a \in Nat /\ c \in Nat /\ a = c + e /\ e \in {0, 1} /\ z \in Nat /\ m \in Nat /\ n \in Nat
      BY <1>1, <2>2, <2>3, <2>4
    <3>2. n >= all
      BY <1>3
    <3>3. a <= all /\ all \in Nat
      <4>1. among(L, s, space, pc) \subseteq among(L, D, space, pc)
        BY DEF among
      <4>2. IsFiniteSet(among(L, D, space, pc))
        <5>1. among(L, D, space, pc) \in SUBSET D
          BY DEF among
        <5> QED
          BY <1>2, <5>1, FS_Subset
      <4> QED
        BY <4>1, <4>2, FS_Subset, FS_CardinalityType
    <3>4. m + c = n + z
      BY <1>6
    <3> HIDE DEF all, a, c, e, n, m, z
    <3>5. m >= e
      BY <3>1, <3>2, <3>3, <3>4
    <3> QED
      BY <3>5 DEF m, e
  <2> HIDE DEF b
  <2>6. /\ w \in JitStates /\ Same(w, v, {"stage", "coverage"})
        /\ w.stage = v.stage \/ w.stage = Append(v.stage, b)
        /\ \A space \in Spaces, pc \in Pcs :
             w.coverage[<<space, pc>>] + Cardinality(CoveringIn(v.stage, space, pc)) + once(b, space, pc) =
               v.coverage[<<space, pc>>] + Cardinality(CoveringIn(w.stage, space, pc))
    BY <2>1, <2>5, RestageOne, Zenon
  <2> HIDE DEF w
  <2>7. Same(w, j, {"stage", "coverage"})
    BY <1>6, <2>6 DEF Same
  <2>8. \A n \in DOMAIN w.stage : \E m \in D : w.stage[n] = L[m]
    <3>1. \A n \in DOMAIN v.stage : \E m \in D : v.stage[n] = L[m]
      BY <1>6
    <3>2. CASE w.stage = v.stage
      BY <3>1, <3>2
    <3>3. CASE w.stage = Append(v.stage, b)
      <4> SUFFICES ASSUME NEW n \in DOMAIN w.stage
                   PROVE  \E m \in D : w.stage[n] = L[m]
        OBVIOUS
      <4>1. (n \in DOMAIN v.stage /\ w.stage[n] = v.stage[n]) \/ w.stage[n] = b
        BY <2>1, <2>3, <3>3, AppendProperties, LenProperties
      <4> QED
        BY <2>1, <3>1, <4>1 DEF b
    <3> QED
      BY <2>6, <3>2, <3>3
  <2>9. ASSUME NEW space \in Spaces, NEW pc \in Pcs
        PROVE  w.coverage[<<space, pc>>] + Cardinality(among(L, s, space, pc)) =
                 j.coverage[<<space, pc>>] + Cardinality(CoveringIn(w.stage, space, pc))
    <3> DEFINE a == Cardinality(among(L, s, space, pc))
               c == Cardinality(among(L, s \ {x}, space, pc))
               e == once(b, space, pc)  n == j.coverage[<<space, pc>>]
               m == v.coverage[<<space, pc>>]  z == Cardinality(CoveringIn(v.stage, space, pc))
               y == w.coverage[<<space, pc>>]  u == Cardinality(CoveringIn(w.stage, space, pc))
    <3>1. a \in Nat /\ c \in Nat /\ a = c + e /\ e \in {0, 1} /\ z \in Nat /\ m \in Nat /\ n \in Nat
      BY <1>1, <2>2, <2>3, <2>4
    <3>2. y \in Nat /\ u \in Nat
      <4>1. w.stage \in Seq(Trace) /\ w.coverage[<<space, pc>>] \in Nat
        BY <2>6, FieldType
      <4> QED
        BY <4>1, CoveringFinite
    <3>3. m + c = n + z
      BY <1>6
    <3>4. y + z + e = m + u
      BY <2>6
    <3> HIDE DEF a, c, e, n, m, z, y, u
    <3>5. y + a = n + u
      BY <3>1, <3>2, <3>3, <3>4
    <3> QED
      BY <3>5 DEF y, a, n, u
  <2> QED
    BY <2>6, <2>7, <2>8, <2>9, Zenon DEF w, b
<1> HIDE DEF Q
<1>7. <<{}, j0>> \in R
  BY <1>4, <1>5
<1>8. \A s \in SUBSET D : \A x \in s : \A v \in JitStates :
        <<s \ {x}, v>> \in R => restage(v, p, L[x]) \in JitStates /\ <<s, restage(v, p, L[x])>> \in R
  <2> SUFFICES ASSUME NEW s \in SUBSET D, NEW x \in s, NEW v \in JitStates, <<s \ {x}, v>> \in R
               PROVE  restage(v, p, L[x]) \in JitStates /\ <<s, restage(v, p, L[x])>> \in R
    BY Zenon
  <2>1. Q(s \ {x}, v)
    OBVIOUS
  <2>2. restage(v, p, L[x]) \in JitStates /\ Q(s, restage(v, p, L[x]))
    BY <1>6, <2>1
  <2> QED
    BY <2>2
<1> HIDE DEF R, L, D
<1> DEFINE r == restaged(j0, L, p)
<1>9. <<D, r>> \in R
  BY <1>1, <1>4, <1>7, <1>8, RestageFold DEF D
<1>10. r \in JitStates /\ Q(D, r)
  BY <1>9 DEF R
<1> HIDE DEF r
<1>11. /\ Same(r, j, {"stage", "coverage"})
       /\ \A n \in DOMAIN r.stage : \E m \in D : r.stage[n] = L[m]
       /\ \A space \in Spaces, pc \in Pcs :
            r.coverage[<<space, pc>>] + Cardinality(among(L, D, space, pc)) =
              j.coverage[<<space, pc>>] + Cardinality(CoveringIn(r.stage, space, pc))
  BY <1>10, Zenon DEF Q
<1>12. \A space \in Spaces, pc \in Pcs :
         r.coverage[<<space, pc>>] + Cardinality(CoveringIn(L, space, pc)) =
           j.coverage[<<space, pc>>] + Cardinality(CoveringIn(r.stage, space, pc))
  <2> SUFFICES ASSUME NEW space \in Spaces, NEW pc \in Pcs
               PROVE  r.coverage[<<space, pc>>] + Cardinality(CoveringIn(L, space, pc)) =
                        j.coverage[<<space, pc>>] + Cardinality(CoveringIn(r.stage, space, pc))
    BY Zenon
  <2>1. among(L, D, space, pc) = CoveringIn(L, space, pc)
    BY <1>3, Zenon
  <2>2. r.coverage[<<space, pc>>] + Cardinality(among(L, D, space, pc)) =
          j.coverage[<<space, pc>>] + Cardinality(CoveringIn(r.stage, space, pc))
    BY <1>11, Zenon
  <2> QED
    BY <2>1, <2>2, Zenon
<1> QED
  BY <1>10, <1>11, <1>12, Zenon DEF r, j0, L, D

(* The pages an entry was made from are those it is indexed at.            *)
LEMMA OnPages ==
  ASSUME NEW j, NEW Unused, NEW Gone, NEW Prior, NEW Out, Sound(j, Unused, Gone, Prior, Out),
         NEW pc \in Pcs, j.cache[pc] # NoEntry, NEW s \in j.cache[pc].src
  PROVE  s.pp \in block_physical_pages(j, pc, j.cache[pc]) /\ s.pp \in Physical
<1> DEFINE e == j.cache[pc]
<1>1. Covering(j, pc, e.idx, e.src)
  BY DEF Sound, RegionsCover
<1>2. s \in Source
  <2>1. e \in Entry
    BY FieldType DEF Sound
  <2> HIDE DEF e
  <2>2. e # NoEntry => e.src \in SUBSET Source
    BY <2>1, EntryType
  <2> QED
    BY <2>2 DEF e
<1>3. CASE e.idx > 0 /\ j.regions[e.idx] = e.src /\ e.src # {}
  BY <1>2, <1>3 DEF block_physical_pages, Source
<1>4. CASE (e.idx > 0 => j.regions[e.idx] = {}) /\ Single(pc, e.src)
  <2>1. PICK x \in e.src : e.src = {x} /\ x.va = PageOf[pc]
    BY <1>4 DEF Single
  <2>2. s = x
    BY <2>1
  <2>3. (CHOOSE y \in e.src : y.va = PageOf[pc]) = x
    BY <2>1
  <2>4. physical_page(pc, e.src) = s.pp
    BY <2>2, <2>3 DEF physical_page
  <2>5. block_physical_pages(j, pc, e) = {physical_page(pc, e.src)}
    BY <1>4 DEF block_physical_pages
  <2> QED
    BY <1>2, <2>4, <2>5 DEF Source
<1> QED
  BY <1>1, <1>3, <1>4 DEF Covering

(* What the drain of some pages leaves.                                    *)
Drained(i, j, S) ==
  /\ \A s \in Slots : i.slot_owner[s] \in {j.slot_owner[s], 0}
  /\ \A k \in Keys : Weaker(i.modules[k], j.modules[k])
  /\ i.claims = j.claims
  /\ \A space \in Spaces : LinesAgree(j, space) => LinesAgree(i, space)
  /\ Cuts(i, j)
  /\ \A pc \in Pcs : i.cache[pc] # NoEntry => \A s \in i.cache[pc].src : s.pp \notin S
StageHolds(j, pg, P) == StageSound(j.stage, pg) /\ CoverageHolds(j.coverage, j.stage, P)

(* One after the other.                                                    *)
LEMMA DrainedOn ==
  ASSUME NEW i, NEW j, NEW k, NEW S, NEW T, Drained(i, j, S), Drained(j, k, T)
  PROVE  Drained(i, k, S \cup T)
<1>1. \A s \in Slots : i.slot_owner[s] \in {k.slot_owner[s], 0}
  BY DEF Drained
<1>2. \A x \in Keys : Weaker(i.modules[x], k.modules[x])
  <2> SUFFICES ASSUME NEW x \in Keys
               PROVE  Weaker(i.modules[x], k.modules[x])
    OBVIOUS
  <2>1. Weaker(i.modules[x], j.modules[x]) /\ Weaker(j.modules[x], k.modules[x])
    BY DEF Drained
  <2> QED
    BY <2>1 DEF Weaker
<1>3. i.claims = k.claims /\ \A space \in Spaces : LinesAgree(k, space) => LinesAgree(i, space)
  BY DEF Drained
<1>4. Cuts(i, k)
  BY DEF Drained, Cuts
<1>5. \A pc \in Pcs : i.cache[pc] # NoEntry => \A s \in i.cache[pc].src : s.pp \notin S \cup T
  BY DEF Drained, Cuts
<1> QED
  BY <1>1, <1>2, <1>3, <1>4, <1>5 DEF Drained

(* The index of a page is emptied before its entries go.                   *)
LEMMA IndexEmptied ==
  ASSUME NEW j, Sound(j, {}, {}, 0, {}), NEW p \in Physical
  PROVE  LET k == [j EXCEPT !.page_blocks[p] = {}] IN
         Sound(k, {}, {}, 0, {p} \X j.page_blocks[p]) /\ Same(k, j, {"page_blocks"})
<1> DEFINE pb == [j.page_blocks EXCEPT ![p] = {}]
           k == [j EXCEPT !.page_blocks = pb]
           Out == {p} \X j.page_blocks[p]
<1>1. j \in JitStates /\ DOMAIN j = JitFields /\ j.page_blocks \in [Physical -> SUBSET Pcs]
  BY FieldType DEF Sound
<1>2. pb \in [Physical -> SUBSET Pcs] /\ \A q \in Physical : pb[q] = IF q = p THEN {} ELSE j.page_blocks[q]
  BY <1>1
<1> HIDE DEF pb
<1>3. k \in JitStates /\ Same(k, j, {"page_blocks"}) /\ k.page_blocks = pb
  BY <1>1, <1>2 DEF JitStates, Same, JitFields
<1>4. k = [j EXCEPT !.page_blocks[p] = {}]
  BY DEF pb
<1> HIDE DEF k
<1>5. /\ k.cache = j.cache /\ k.refs = j.refs /\ k.live = j.live /\ k.regions = j.regions
      /\ k.exits = j.exits /\ k.ext_queue = j.ext_queue /\ k.owner_entries = j.owner_entries
      /\ k.cold = j.cold /\ k.slot_owner = j.slot_owner /\ k.modules = j.modules
      /\ k.module_owner = j.module_owner
  BY <1>3 DEF Same, JitFields
<1>6. \A s : users(k, s) = users(j, s)
  BY <1>5 DEF users
<1>7. CountsRefs(k) /\ EntriesOwned(k) /\ SlotsUsed(k, {}) /\ LiveOwned(k) /\ IdleClean(k)
  BY <1>5, <1>6 DEF Sound, CountsRefs, EntriesOwned, SlotsUsed, LiveOwned, IdleClean
<1>8. EntriesListed(k, {}) /\ ExitsCover(k) /\ RegionsCover(k)
  BY <1>5, <1>6 DEF Sound, EntriesListed, ExitsCover, RegionsCover, Covering
<1>9. \A o : owns(k, o) <=> owns(j, o)
  BY <1>5 DEF owns
<1>10. ModulesOwned(k, 0) /\ ColdOwners(k)
  BY <1>5, <1>9, Zenon DEF Sound, ModulesOwned, ColdOwners
<1>11. Indexed(k, Out)
  <2>1. Indexed(j, {})
    BY DEF Sound
  <2>2. \A pc, e : block_physical_pages(k, pc, e) = block_physical_pages(j, pc, e)
    BY <1>5 DEF block_physical_pages
  <2> SUFFICES ASSUME NEW q \in Physical, NEW pc \in Pcs
               PROVE  pc \in k.page_blocks[q] <=> /\ k.cache[pc] # NoEntry
                                                  /\ q \in block_physical_pages(k, pc, k.cache[pc])
                                                  /\ <<q, pc>> \notin Out
    BY Zenon DEF Indexed
  <2>3. pc \in j.page_blocks[q] <=> /\ j.cache[pc] # NoEntry
                                    /\ q \in block_physical_pages(j, pc, j.cache[pc])
    BY <2>1 DEF Indexed
  <2>4. <<q, pc>> \in Out <=> q = p /\ pc \in j.page_blocks[p]
    OBVIOUS
  <2>5. pc \in k.page_blocks[q] <=> q # p /\ pc \in j.page_blocks[q]
    BY <1>2, <1>3
  <2> QED
    BY <1>5, <2>2, <2>3, <2>4, <2>5
<1>12. Sound(k, {}, {}, 0, Out)
  BY <1>3, <1>7, <1>8, <1>10, <1>11 DEF Sound
<1> QED
  BY <1>3, <1>4, <1>12

(* The compiles under way, as far as they are counted.                     *)
Counted(P, n) == DOMAIN P \subseteq 1 .. n /\ \A x \in DOMAIN P : P[x].members \in Seq(Trace)

(* A dirty page is drained: its entries and its staged traces go.          *)
LEMMA DrainPageSound ==
  ASSUME NEW j, Sound(j, {}, {}, 0, {}), NEW p \in Physical, NEW n \in Nat, NEW P, Counted(P, n),
         NEW pg, StageHolds(j, pg, P)
  PROVE  LET r == drain_page(j, p) IN
         Sound(r, {}, {}, 0, {}) /\ Drained(r, j, {p}) /\ StageHolds(r, pg, P)
<1> DEFINE st == restaged([j EXCEPT !.stage = <<>>], j.stage, p)
           D == j.page_blocks[p]
           k == [st EXCEPT !.page_blocks[p] = {}]
           r == drop_all(k, D)
<1>1. drain_page(j, p) = r
  BY DEF drain_page, restaged
<1>2. j \in JitStates /\ j.stage \in Seq(Trace) /\ j.page_blocks \in [Physical -> SUBSET Pcs]
      /\ \A sp \in Spaces \X Pcs : j.coverage[sp] \in Nat
  BY FieldType DEF Sound
<1>3. ASSUME NEW space \in Spaces, NEW pc \in Pcs
      PROVE  LET a == Cardinality(CoveringIn(j.stage, space, pc))
                 q == Cardinality(CoveringPending(P, space, pc))
             IN  j.coverage[<<space, pc>>] = a + q /\ a \in Nat /\ q \in Nat
  <2>1. j.coverage[<<space, pc>>] = Cardinality(CoveringIn(j.stage, space, pc))
                                      + Cardinality(CoveringPending(P, space, pc))
    BY Zenon DEF StageHolds, CoverageHolds
  <2>2. Cardinality(CoveringIn(j.stage, space, pc)) \in Nat
    BY <1>2, CoveringFinite
  <2>3. Cardinality(CoveringPending(P, space, pc)) \in Nat
    BY PendingFinite DEF Counted
  <2> QED
    BY <2>1, <2>2, <2>3
<1>4. \A space \in Spaces, pc \in Pcs :
        j.coverage[<<space, pc>>] >= Cardinality(CoveringIn(j.stage, space, pc))
  <2> SUFFICES ASSUME NEW space \in Spaces, NEW pc \in Pcs
               PROVE  j.coverage[<<space, pc>>] >= Cardinality(CoveringIn(j.stage, space, pc))
    BY Zenon
  <2> QED
    BY <1>3
<1>5. /\ st \in JitStates /\ Same(st, j, {"stage", "coverage"})
      /\ \A x \in DOMAIN st.stage : \E m \in DOMAIN j.stage : st.stage[x] = j.stage[m]
      /\ \A space \in Spaces, pc \in Pcs :
           st.coverage[<<space, pc>>] + Cardinality(CoveringIn(j.stage, space, pc)) =
             j.coverage[<<space, pc>>] + Cardinality(CoveringIn(st.stage, space, pc))
  BY <1>2, <1>4, RestageSound, Zenon
<1> HIDE DEF st
<1>6. StageHolds(st, pg, P)
  <2>1. StageSound(st.stage, pg)
    <3> SUFFICES ASSUME NEW x \in DOMAIN st.stage
                 PROVE  SoundTrace(st.stage[x], pg)
      BY DEF StageSound
    <3>1. PICK m \in DOMAIN j.stage : st.stage[x] = j.stage[m]
      BY <1>5
    <3> QED
      BY <3>1 DEF StageHolds, StageSound
  <2>2. CoverageHolds(st.coverage, st.stage, P)
    <3> SUFFICES ASSUME NEW space \in Spaces, NEW pc \in Pcs
                 PROVE  st.coverage[<<space, pc>>] = Cardinality(CoveringIn(st.stage, space, pc))
                                                       + Cardinality(CoveringPending(P, space, pc))
      BY Zenon DEF CoverageHolds
    <3> DEFINE a == Cardinality(CoveringIn(j.stage, space, pc))
               q == Cardinality(CoveringPending(P, space, pc))
               z == Cardinality(CoveringIn(st.stage, space, pc))
               y == st.coverage[<<space, pc>>]  x == j.coverage[<<space, pc>>]
    <3>1. x = a + q /\ a \in Nat /\ q \in Nat
      BY <1>3
    <3>2. y + a = x + z
      BY <1>5
    <3>3. y \in Nat /\ z \in Nat
      <4>1. st.stage \in Seq(Trace) /\ st.coverage[<<space, pc>>] \in Nat
        BY <1>5, FieldType
      <4> QED
        BY <4>1, CoveringFinite
    <3> HIDE DEF a, q, z, y, x
    <3>4. y = z + q
      BY <3>1, <3>2, <3>3
    <3> QED
      BY <3>4 DEF y, z, q
  <2> QED
    BY <2>1, <2>2 DEF StageHolds
<1>7. /\ st.cache = j.cache /\ st.lines = j.lines /\ st.slot_owner = j.slot_owner
      /\ st.modules = j.modules /\ st.claims = j.claims /\ st.page_blocks = j.page_blocks
      /\ st.regions = j.regions
  BY <1>5 DEF Same, JitFields
<1>8. Sound(st, {}, {}, 0, {})
  <2>1. Same(st, j, {"lines", "modules", "superblocked", "claims", "stage", "coverage", "fill"})
    BY <1>5 DEF Same, JitFields
  <2> QED
    BY <1>5, <1>7, <2>1, SoundFields
<1>9. Sound(k, {}, {}, 0, {p} \X D) /\ Same(k, st, {"page_blocks"})
  <2>1. /\ Sound(k, {}, {}, 0, {p} \X st.page_blocks[p]) /\ Same(k, st, {"page_blocks"})
    BY <1>8, IndexEmptied, Zenon
  <2> HIDE DEF k
  <2> QED
    BY <1>7, <2>1
<1> HIDE DEF k
<1>10. /\ k.cache = j.cache /\ k.lines = j.lines /\ k.slot_owner = j.slot_owner
       /\ k.modules = j.modules /\ k.claims = j.claims
       /\ k.stage = st.stage /\ k.coverage = st.coverage
  BY <1>7, <1>9 DEF Same, JitFields
<1>11. D \in SUBSET Pcs
  BY <1>2
<1>12. Sound(r, {}, {}, 0, {}) /\ Without(r, k, D)
  <2>1. Sound(r, {}, {}, 0, ({p} \X D) \ (Physical \X D)) /\ Without(r, k, D)
    BY <1>9, <1>11, DropAllSound, Zenon
  <2>2. ({p} \X D) \ (Physical \X D) = {}
    OBVIOUS
  <2> HIDE DEF r, D
  <2> QED
    BY <2>1, <2>2
<1> HIDE DEF r
<1>13. Follows(r, k) /\ \A x \in Pcs : r.cache[x] = IF x \in D THEN NoEntry ELSE j.cache[x]
  BY <1>10, <1>12 DEF Without
<1>14. r.claims = j.claims /\ r.stage = st.stage /\ r.coverage = st.coverage
  BY <1>10, <1>13 DEF Follows, Keeps, Same, JitFields
<1>15. \A pc \in Pcs : r.cache[pc] # NoEntry => \A s \in r.cache[pc].src : s.pp \notin {p}
  <2> SUFFICES ASSUME NEW pc \in Pcs, r.cache[pc] # NoEntry, NEW s \in r.cache[pc].src, s.pp = p
               PROVE  FALSE
    OBVIOUS
  <2>1. pc \notin D /\ r.cache[pc] = j.cache[pc]
    BY <1>13
  <2>2. p \in block_physical_pages(j, pc, j.cache[pc])
    BY <2>1, OnPages
  <2>3. pc \in D
    BY <2>1, <2>2 DEF Sound, Indexed
  <2> QED
    BY <2>1, <2>3
<1>16. Drained(r, j, {p})
  <2>1. \A s \in Slots : r.slot_owner[s] \in {j.slot_owner[s], 0}
    BY <1>10, <1>13 DEF Follows, Keeps
  <2>2. \A x \in Keys : Weaker(r.modules[x], j.modules[x])
    BY <1>10, <1>13 DEF Follows, Keeps
  <2>3. ASSUME NEW space \in Spaces, LinesAgree(j, space)
        PROVE  LinesAgree(r, space)
    <3>1. LinesAgree(k, space)
      BY <1>10, <2>3 DEF LinesAgree
    <3> QED
      BY <1>13, <3>1 DEF Follows
  <2>4. Cuts(r, j)
    BY <1>13 DEF Cuts
  <2> QED
    BY <1>14, <1>15, <2>1, <2>2, <2>3, <2>4 DEF Drained
<1>17. StageHolds(r, pg, P)
  BY <1>6, <1>14 DEF StageHolds
<1> QED
  BY <1>1, <1>12, <1>16, <1>17

(* All the dirty pages are.                                                *)
LEMMA DrainAllSound ==
  ASSUME NEW j, Sound(j, {}, {}, 0, {}), NEW dirty \in SUBSET Physical, NEW n \in Nat,
         NEW P, Counted(P, n), NEW pg, StageHolds(j, pg, P)
  PROVE  LET r == drain_all(j, dirty) IN
         Sound(r, {}, {}, 0, {}) /\ Drained(r, j, dirty) /\ StageHolds(r, pg, P)
<1> DEFINE Q(s, v) == Sound(v, {}, {}, 0, {}) /\ Drained(v, j, s) /\ StageHolds(v, pg, P)
           R == {x \in (SUBSET dirty) \X JitStates : Q(x[1], x[2])}
<1>1. IsFiniteSet(dirty) /\ j \in JitStates
  BY Finite, FS_Subset DEF Sound
<1>2. Q({}, j)
  BY DEF Drained, Weaker, Cuts
<1>3. ASSUME NEW s \in SUBSET dirty, NEW x \in s, NEW v \in JitStates, Q(s \ {x}, v)
      PROVE  drain_page(v, x) \in JitStates /\ Q(s, drain_page(v, x))
  <2> DEFINE d == drain_page(v, x)
  <2>1. Sound(v, {}, {}, 0, {}) /\ Drained(v, j, s \ {x}) /\ StageHolds(v, pg, P) /\ x \in Physical
    BY <1>3
  <2>2. Sound(d, {}, {}, 0, {}) /\ Drained(d, v, {x}) /\ StageHolds(d, pg, P)
    BY <2>1, DrainPageSound, Zenon
  <2> HIDE DEF d
  <2>3. Drained(d, j, {x} \cup (s \ {x}))
    BY <2>1, <2>2, DrainedOn
  <2>4. {x} \cup (s \ {x}) = s
    OBVIOUS
  <2>5. d \in JitStates
    BY <2>2 DEF Sound
  <2> QED
    BY <2>2, <2>3, <2>4, <2>5 DEF d
<1> HIDE DEF Q
<1>4. <<{}, j>> \in R
  BY <1>1, <1>2
<1>5. \A s \in SUBSET dirty : \A x \in s : \A v \in JitStates :
        <<s \ {x}, v>> \in R => drain_page(v, x) \in JitStates /\ <<s, drain_page(v, x)>> \in R
  <2> SUFFICES ASSUME NEW s \in SUBSET dirty, NEW x \in s, NEW v \in JitStates, <<s \ {x}, v>> \in R
               PROVE  drain_page(v, x) \in JitStates /\ <<s, drain_page(v, x)>> \in R
    BY Zenon
  <2>1. Q(s \ {x}, v)
    OBVIOUS
  <2>2. drain_page(v, x) \in JitStates /\ Q(s, drain_page(v, x))
    BY <1>3, <2>1
  <2> QED
    BY <2>2
<1> HIDE DEF R
<1>6. <<dirty, drain_all(j, dirty)>> \in R
  BY <1>1, <1>4, <1>5, DrainFold
<1>7. Q(dirty, drain_all(j, dirty))
  BY <1>6 DEF R
<1> QED
  BY <1>7 DEF Q

(* Owners are retired: none of them has a slot.                            *)
LEMMA RetireOwnersSound ==
  ASSUME NEW j, Sound(j, {}, {}, 0, {}), NEW owners \in SUBSET Tickets
  PROVE  LET r == retire_all(j, owners) IN
         /\ Sound(r, {}, {}, 0, {}) /\ Follows(r, j) /\ Cuts(r, j)
         /\ \A o \in owners, s \in Slots : r.slot_owner[s] # o
<1> DEFINE Q(S, v) == /\ Sound(v, {}, {}, 0, {}) /\ Follows(v, j) /\ Cuts(v, j)
                      /\ \A o \in S, s \in Slots : v.slot_owner[s] # o
           R == {x \in (SUBSET owners) \X JitStates : Q(x[1], x[2])}
<1>1. IsFiniteSet(owners) /\ j \in JitStates
  <2>1. IsFiniteSet(Tickets)
    BY OwnershipAssumption, FS_Interval DEF Tickets
  <2> QED
    BY <2>1, FS_Subset DEF Sound
<1>2. Q({}, j)
  BY DEF Follows, Keeps, Weaker, Same, Cuts
<1>3. ASSUME NEW S \in SUBSET owners, NEW x \in S, NEW v \in JitStates, Q(S \ {x}, v)
      PROVE  retire_owner(v, x) \in JitStates /\ Q(S, retire_owner(v, x))
  <2> DEFINE d == retire_owner(v, x)
  <2>1. /\ Sound(v, {}, {}, 0, {}) /\ Follows(v, j) /\ Cuts(v, j) /\ x \in Tickets
        /\ \A o \in S \ {x}, s \in Slots : v.slot_owner[s] # o
    BY <1>3
  <2>2. /\ Sound(d, {}, {}, IF 0 = x THEN 0 ELSE 0, {})
        /\ Without(d, v, v.owner_entries[x])
        /\ \A s \in Slots : d.slot_owner[s] # x
    BY <2>1, RetireOwnerSound, Zenon
  <2> HIDE DEF d
  <2>3. Sound(d, {}, {}, 0, {}) /\ d \in JitStates
    BY <2>2 DEF Sound
  <2>4. Follows(d, j)
    BY <2>1, <2>2, KeepsOn DEF Without
  <2>5. Cuts(d, j)
    BY <2>1, <2>2 DEF Without, Cuts
  <2>6. \A o \in S, s \in Slots : d.slot_owner[s] # o
    <3> SUFFICES ASSUME NEW o \in S, NEW s \in Slots, d.slot_owner[s] = o
                 PROVE  FALSE
      OBVIOUS
    <3>1. o # x /\ o \in Tickets /\ v.slot_owner[s] # o
      BY <2>1, <2>2
    <3>2. d.slot_owner[s] \in {v.slot_owner[s], 0} /\ o # 0
      BY <2>2, <3>1, TicketType DEF Without, Follows, Keeps
    <3> QED
      BY <3>1, <3>2
  <2> QED
    BY <2>3, <2>4, <2>5, <2>6 DEF d
<1> HIDE DEF Q
<1>4. <<{}, j>> \in R
  BY <1>1, <1>2
<1>5. \A s \in SUBSET owners : \A x \in s : \A v \in JitStates :
        <<s \ {x}, v>> \in R => retire_owner(v, x) \in JitStates /\ <<s, retire_owner(v, x)>> \in R
  <2> SUFFICES ASSUME NEW s \in SUBSET owners, NEW x \in s, NEW v \in JitStates, <<s \ {x}, v>> \in R
               PROVE  retire_owner(v, x) \in JitStates /\ <<s, retire_owner(v, x)>> \in R
    BY Zenon
  <2>1. Q(s \ {x}, v)
    OBVIOUS
  <2>2. retire_owner(v, x) \in JitStates /\ Q(s, retire_owner(v, x))
    BY <1>3, <2>1
  <2> QED
    BY <2>2
<1> HIDE DEF R
<1>6. <<owners, retire_all(j, owners)>> \in R
  BY <1>1, <1>4, <1>5, RetireFold
<1>7. Q(owners, retire_all(j, owners))
  BY <1>6 DEF R
<1> QED
  BY <1>7, Zenon DEF Q

(* The claims and modules of dirty pages end.                              *)
LEMMA InvalidateSound ==
  ASSUME NEW j, Sound(j, {}, {}, 0, {}), NEW exact \in SUBSET Keys, NEW broad
  PROVE  LET r == invalidate_superblock_state(j, exact, broad) IN
         /\ Sound(r, {}, {}, 0, {}) /\ Tame(r, j) /\ Cuts(r, j)
         /\ \A space \in Spaces : LinesAgree(j, space) => LinesAgree(r, space)
         /\ \A k \in exact : r.claims[k] = NoClaim
<1> DEFINE owners == {active_owner(j.modules[k]) : k \in exact} \ {0}
           i == retire_all(j, owners)
           keep(k) == k \notin exact /\ k[2] \notin broad
           m == [k \in Keys |-> IF k \in exact THEN NoModule ELSE i.modules[k]]
           b == {k \in i.superblocked : keep(k)}
           c == [k \in Keys |-> IF keep(k) THEN i.claims[k] ELSE NoClaim]
           i1 == [i EXCEPT !.modules = m]
           i2 == [i1 EXCEPT !.superblocked = b]
           r == [i2 EXCEPT !.claims = c]
<1>1. invalidate_superblock_state(j, exact, broad) = r
  BY Zenon DEF invalidate_superblock_state, retire_all
<1>2. owners \in SUBSET Tickets
  <2>1. \A k \in Keys : active_owner(j.modules[k]) \in Tickets \cup {0}
    <3>1. \A k \in Keys : j.modules[k] \in Module
      BY FieldType DEF Sound
    <3> QED
      BY <3>1, ModuleType
  <2> QED
    BY <2>1
<1>3. \A k \in exact : active_owner(j.modules[k]) \in owners \cup {0}
  OBVIOUS
<1> HIDE DEF owners
<1>4. /\ Sound(i, {}, {}, 0, {}) /\ Follows(i, j) /\ Cuts(i, j)
      /\ \A o \in owners, s \in Slots : i.slot_owner[s] # o
  BY <1>2, RetireOwnersSound, Zenon
<1> HIDE DEF i
<1>5. /\ i \in JitStates /\ DOMAIN i = JitFields /\ i.modules \in [Keys -> Module]
      /\ i.claims \in [Keys -> Claim] /\ i.superblocked \in SUBSET Keys
  BY <1>4, FieldType DEF Sound
<1>6. m \in [Keys -> Module] /\ b \in SUBSET Keys /\ c \in [Keys -> Claim]
  BY <1>5 DEF Module, Claim
<1>7. /\ \A k \in Keys : m[k] = IF k \in exact THEN NoModule ELSE i.modules[k]
      /\ \A k \in Keys : c[k] \in {i.claims[k], NoClaim}
      /\ \A k \in exact : c[k] = NoClaim
  OBVIOUS
<1> HIDE DEF m, b, c, keep
<1>8. i1 \in JitStates
  BY <1>5, <1>6 DEF JitStates
<1>9. i2 \in JitStates
  <2> HIDE DEF i1
  <2> QED
    BY <1>6, <1>8 DEF JitStates
<1>10. r \in JitStates
  <2> HIDE DEF i2
  <2> QED
    BY <1>6, <1>9 DEF JitStates
<1>11. /\ Same(r, i, {"modules", "superblocked", "claims"}) /\ r.modules = m /\ r.claims = c
  BY <1>5 DEF Same, JitFields
<1> HIDE DEF r
<1>12. \A k \in Keys : active_owner(r.modules[k]) = active_owner(i.modules[k])
  <2> SUFFICES ASSUME NEW k \in Keys, k \in exact
               PROVE  active_owner(NoModule) = active_owner(i.modules[k])
    BY <1>7, <1>11
  <2>1. active_owner(NoModule) = 0
    BY DEF active_owner, NoModule
  <2> DEFINE a == active_owner(i.modules[k])
  <2>2. a \in {active_owner(j.modules[k]), 0}
    BY <1>4 DEF Follows, Keeps, Weaker
  <2>3. a \in owners \cup {0}
    BY <1>3, <2>2
  <2>4. a # 0 => i.module_owner[a] = k
    BY <1>4, Zenon DEF Sound, ModulesOwned
  <2>5. i.module_owner[a] # <<>> /\ a \in Tickets => owns(i, a)
    BY <1>4, Zenon DEF Sound, ModulesOwned
  <2> HIDE DEF a
  <2>6. a = 0
    <3> SUFFICES ASSUME a # 0
                 PROVE  FALSE
      OBVIOUS
    <3>1. a \in Tickets /\ a \in owners /\ i.module_owner[a] # <<>>
      BY <1>2, <2>3, <2>4, TicketType
    <3> QED
      BY <1>4, <2>5, <3>1 DEF owns
  <2> QED
    BY <2>1, <2>6 DEF a
<1>13. Sound(r, {}, {}, 0, {})
  <2>1. Same(r, i, {"lines", "modules", "superblocked", "claims", "stage", "coverage", "fill"})
    BY <1>11 DEF Same, JitFields
  <2> QED
    BY <1>4, <1>10, <1>12, <2>1, SoundFields
<1>14. /\ r.cache = i.cache /\ r.lines = i.lines /\ r.slot_owner = i.slot_owner
       /\ r.stage = i.stage /\ r.coverage = i.coverage
  BY <1>11 DEF Same, JitFields
<1>15. i.claims = j.claims /\ i.stage = j.stage /\ i.coverage = j.coverage
  BY <1>4 DEF Follows, Keeps, Same, JitFields
<1>16. Tame(r, j)
  <2>1. \A s \in Slots : r.slot_owner[s] \in {j.slot_owner[s], 0}
    BY <1>4, <1>14 DEF Follows, Keeps
  <2>2. ASSUME NEW k \in Keys, r.modules[k].is = "pending"
        PROVE  j.modules[k].is = "pending" /\ r.modules[k].ticket = j.modules[k].ticket
    <3>1. r.modules[k] = i.modules[k]
      BY <1>7, <1>11, <2>2 DEF NoModule
    <3>2. Weaker(i.modules[k], j.modules[k])
      BY <1>4 DEF Follows, Keeps
    <3> QED
      BY <2>2, <3>1, <3>2 DEF Weaker
  <2>3. \A k \in Keys : r.claims[k] \in {j.claims[k], NoClaim}
    BY <1>7, <1>11, <1>15
  <2> QED
    BY <1>14, <1>15, <2>1, <2>2, <2>3 DEF Tame
<1>17. Cuts(r, j)
  BY <1>4, <1>14 DEF Cuts
<1>18. ASSUME NEW space \in Spaces, LinesAgree(j, space)
       PROVE  LinesAgree(r, space)
  <2>1. LinesAgree(i, space)
    BY <1>4, <1>18 DEF Follows
  <2> QED
    BY <1>14, <2>1 DEF LinesAgree
<1>19. \A k \in exact : r.claims[k] = NoClaim
  BY <1>7, <1>11
<1> QED
  BY <1>1, <1>13, <1>16, <1>17, <1>18, <1>19

(* What TakeDirty makes of the pages.                                      *)
dirty_pages(pg) == {p \in Physical : pg[p].dirty}
clean(w) == [w EXCEPT !.dirty = FALSE, !.marked = FALSE]
cleaned(pg) == [p \in Physical |-> IF p \in dirty_pages(pg) THEN clean(pg[p]) ELSE pg[p]]

(* A page that is no longer dirty is no longer marked, and what was made   *)
(* from it is out of date.                                                 *)
LEMMA DrainAges ==
  ASSUME NEW pg \in PageStates
  PROVE  /\ cleaned(pg) \in PageStates
         /\ \A s \in Source : /\ Fresh(s, pg) => Fresh(s, cleaned(pg))
                              /\ Current(s, pg) /\ s.pp \notin dirty_pages(pg) => Current(s, cleaned(pg))
<1> DEFINE q == cleaned(pg)  dirty == dirty_pages(pg)
<1> DEFINE S == [marked : BOOLEAN, dirty : BOOLEAN, gen : Nat, bytes : Nat]
<1>1. \A p \in Physical : pg[p] \in S
  BY DEF PageStates
<1>2. \A w \in S : clean(w) \in S /\ clean(w).gen = w.gen
  BY DEF clean
<1>6. \A p \in Physical : p \in dirty => pg[p].dirty
  BY DEF dirty_pages
<1>7. q \in [Physical -> S]
  <2>1. \A p \in Physical : clean(pg[p]) \in S
    BY <1>1, <1>2
  <2> HIDE DEF S, dirty
  <2>2. \A p \in Physical : (IF p \in dirty THEN clean(pg[p]) ELSE pg[p]) \in S
    BY <1>1, <2>1
  <2> QED
    BY <2>2, Zenon DEF cleaned, dirty
<1>0. \A p \in Physical : q[p] = IF p \in dirty THEN clean(pg[p]) ELSE pg[p]
  <2> HIDE DEF S, dirty
  <2> QED
    BY Zenon DEF cleaned, dirty
<1>4. q \in PageStates
  BY <1>7 DEF PageStates
<1> HIDE DEF q, dirty, S
<1>3. \A p \in Physical : q[p].gen = pg[p].gen /\ (p \notin dirty => q[p] = pg[p])
  BY <1>0, <1>1, <1>2
<1>5. ASSUME NEW s \in Source
      PROVE  /\ Fresh(s, pg) => Fresh(s, q)
             /\ Current(s, pg) /\ s.pp \notin dirty => Current(s, q)
  <2>1. s.pp \in Physical
    BY DEF Source
  <2>2. CASE s.pp \in dirty
    <3>1. pg[s.pp].dirty /\ q[s.pp].gen = pg[s.pp].gen
      BY <1>3, <1>6, <2>1, <2>2
    <3> QED
      BY <2>2, <3>1 DEF Fresh
  <2>3. CASE s.pp \notin dirty
    <3>1. q[s.pp] = pg[s.pp]
      BY <1>3, <2>1, <2>3
    <3> QED
      BY <3>1 DEF Fresh, Current
  <2> QED
    BY <2>2, <2>3
<1> QED
  BY <1>4, <1>5 DEF q, dirty

(* The dirty pages' code, traces and claims go.                            *)
LEMMA TakeDirtyKept == ASSUME OwnershipInv, TakeDirty PROVE Kept
<1> DEFINE dirty == {p \in Physical : pages[p].dirty}
           exact == UNION {tracked_page_keys_for_physical(jit, p) : p \in dirty}
           broad == {PageOf[pc] : pc \in UNION {jit.page_blocks[p] : p \in dirty}}
           i == drain_all(jit, dirty)
           r == invalidate_superblock_state(i, exact, broad)
           q == cleaned(pages)
<1>1. jit' = r /\ pages' = q /\ UNCHANGED <<pending, satp, tickets>>
  BY Zenon DEF TakeDirty, drain_all, cleaned, dirty_pages, clean
<1>2. /\ satp \in Spaces /\ tickets \in Nat /\ pages \in PageStates
      /\ Sound(jit, {}, {}, 0, {}) /\ LinesAgree(jit, satp) /\ EntriesCurrent(jit, pages)
      /\ PendingSound(jit, pending, pages, tickets)
  BY Parts
<1>3. Counted(pending, tickets) /\ StageHolds(jit, pages, pending)
  BY <1>2 DEF PendingSound, Counted, StageHolds, SoundCompile
<1>4. /\ q \in PageStates
      /\ \A s \in Source : /\ Fresh(s, pages) => Fresh(s, q)
                           /\ Current(s, pages) /\ s.pp \notin dirty => Current(s, q)
  BY <1>2, DrainAges, Zenon DEF dirty_pages
<1>5. dirty \in SUBSET Physical /\ exact \in SUBSET Keys
  BY DEF tracked_page_keys_for_physical
<1>6. \A k \in Keys : jit.claims[k] # NoClaim /\ jit.claims[k].page \in dirty => k \in exact
  BY DEF tracked_page_keys_for_physical
<1> HIDE DEF dirty, q, exact, broad
<1>7. Sound(i, {}, {}, 0, {}) /\ Drained(i, jit, dirty) /\ StageHolds(i, pages, pending)
  BY <1>2, <1>3, <1>5, DrainAllSound, Zenon
<1> HIDE DEF i
<1>8. /\ Sound(r, {}, {}, 0, {}) /\ Tame(r, i) /\ Cuts(r, i)
      /\ \A space \in Spaces : LinesAgree(i, space) => LinesAgree(r, space)
      /\ \A k \in exact : r.claims[k] = NoClaim
  BY <1>5, <1>7, InvalidateSound, Zenon
<1> HIDE DEF r
<1>9. LinesAgree(r, satp)
  BY <1>2, <1>7, <1>8 DEF Drained
<1>10. EntriesCurrent(r, q)
  <2> SUFFICES ASSUME NEW pc \in Pcs, r.cache[pc] # NoEntry, NEW s \in r.cache[pc].src
               PROVE  Current(s, q)
    BY DEF EntriesCurrent
  <2>1. r.cache[pc] = i.cache[pc] /\ i.cache[pc] = jit.cache[pc]
    BY <1>7, <1>8 DEF Drained, Cuts
  <2>2. s.pp \notin dirty
    BY <1>7, <2>1 DEF Drained
  <2>3. Current(s, pages)
    BY <1>2, <2>1 DEF EntriesCurrent
  <2>4. s \in Source
    <3>1. jit.cache[pc] \in Entry
      BY <1>2, FieldType DEF Sound
    <3> QED
      BY <2>1, <3>1, EntryType
  <2> QED
    BY <1>4, <2>2, <2>3, <2>4
<1>11. PendingSound(r, pending, pages, tickets)
  <2> DEFINE J == [stage |-> i.stage, coverage |-> i.coverage, claims |-> jit.claims,
                   modules |-> jit.modules, slot_owner |-> jit.slot_owner]
  <2>1. /\ J.stage = i.stage /\ J.coverage = i.coverage /\ J.claims = jit.claims
        /\ J.modules = jit.modules /\ J.slot_owner = jit.slot_owner
    OBVIOUS
  <2> HIDE DEF J
  <2>2. PendingSound(J, pending, pages, tickets)
    BY <1>2, <1>7, <2>1 DEF PendingSound, StageHolds
  <2>3. Tame(r, J)
    <3>1. \A s \in Slots : r.slot_owner[s] \in {J.slot_owner[s], 0}
      BY <1>7, <1>8, <2>1 DEF Drained, Tame
    <3>2. ASSUME NEW k \in Keys, r.modules[k].is = "pending"
          PROVE  J.modules[k].is = "pending" /\ r.modules[k].ticket = J.modules[k].ticket
      <4>1. i.modules[k].is = "pending" /\ r.modules[k].ticket = i.modules[k].ticket
        BY <1>8, <3>2, Zenon DEF Tame
      <4>2. Weaker(i.modules[k], jit.modules[k])
        BY <1>7 DEF Drained
      <4> QED
        BY <2>1, <4>1, <4>2 DEF Weaker
    <3>3. \A k \in Keys : r.claims[k] \in {J.claims[k], NoClaim}
      BY <1>7, <1>8, <2>1 DEF Drained, Tame
    <3>4. r.stage = J.stage /\ r.coverage = J.coverage
      BY <1>8, <2>1 DEF Tame
    <3> QED
      BY <3>1, <3>2, <3>3, <3>4 DEF Tame
  <2> QED
    BY <1>2, <2>2, <2>3, TamePending
<1>12. PendingSound(r, pending, q, tickets)
  <2>1. ASSUME NEW b, SoundTrace(b, pages)
        PROVE  SoundTrace(b, q)
    <3>1. b.src \in SUBSET Source
      BY <2>1 DEF SoundTrace, Trace
    <3> QED
      BY <1>4, <2>1, <3>1 DEF SoundTrace
  <2>2. ASSUME NEW c, SoundCompile(c, pages)
        PROVE  SoundCompile(c, q)
    BY <2>1, <2>2, Zenon DEF SoundCompile
  <2>3. StageSound(r.stage, q) /\ \A t \in DOMAIN pending : SoundCompile(pending[t], q)
    BY <1>11, <2>1, <2>2, Zenon DEF PendingSound, StageSound
  <2>4. ClaimsHold(r.claims, pending, q)
    <3> SUFFICES ASSUME NEW t \in DOMAIN pending, pending[t].kind = "region", NEW s \in pending[t].src,
                        r.claims[<<pending[t].space, s.va>>].ticket = t
                 PROVE  r.claims[<<pending[t].space, s.va>>].page = s.pp /\ Current(s, q)
      BY Zenon DEF ClaimsHold
    <3> DEFINE k == <<pending[t].space, s.va>>
    <3>1. SoundCompile(pending[t], pages) /\ t \in Nat /\ t # 0
      BY <1>2 DEF PendingSound
    <3>2. s \in Source /\ pending[t].space \in Spaces
      BY <3>1 DEF SoundCompile, RegionTraces
    <3>3. k \in Keys
      BY <3>2 DEF Keys, Source
    <3>4. r.claims[k].page = s.pp /\ Current(s, pages)
      <4>1. ClaimsHold(r.claims, pending, pages)
        BY <1>11 DEF PendingSound
      <4> QED
        BY <4>1, Zenon DEF ClaimsHold
    <3>5. r.claims[k].ticket = t
      OBVIOUS
    <3> HIDE DEF k
    <3>6. r.claims[k] # NoClaim
      BY <3>1, <3>5 DEF NoClaim
    <3>7. r.claims[k] = jit.claims[k] /\ k \notin exact
      BY <1>7, <1>8, <3>3, <3>6 DEF Drained, Tame
    <3>8. s.pp \notin dirty
      BY <1>6, <3>3, <3>4, <3>6, <3>7
    <3>9. Current(s, q)
      BY <1>4, <3>2, <3>4, <3>8
    <3> QED
      BY <3>4, <3>9 DEF k
  <2> QED
    BY <1>11, <2>3, <2>4 DEF PendingSound
<1> QED
  BY <1>1, <1>2, <1>4, <1>8, <1>9, <1>10, <1>12 DEF Kept, Holding, OwnershipInv

-----------------------------------------------------------------------------
(* The invariant of the specification.                                     *)

(* Every kind of compile.                                                  *)
LEMMA CompileKept == ASSUME OwnershipInv, Compile PROVE Kept
<1>1. PICK pc \in Pcs :
        \/ CompileBlock(pc)
        \/ Blacklist(pc)
        \/ \E cover \in {{pc}, same_page(pc)} : StageBlock(pc, cover)
        \/ \E ok \in BOOLEAN : IssuePageModule(pc, same_page(pc), ok)
        \/ \E vas \in SUBSET Virtual : BuildSuperblock(pc, vas)
  BY Zenon DEF Compile
<1>2. {pc} \in SUBSET Pcs /\ same_page(pc) \in SUBSET Pcs
  BY Parts DEF same_page
<1>3. CASE CompileBlock(pc)
  BY <1>3, CompileBlockKept
<1>4. CASE Blacklist(pc)
  BY <1>4, BlacklistKept
<1>5. CASE \E cover \in {{pc}, same_page(pc)} : StageBlock(pc, cover)
  <2>1. PICK cover \in {{pc}, same_page(pc)} : StageBlock(pc, cover)
    BY <1>5
  <2>2. cover \in SUBSET Pcs
    BY <1>2, <2>1
  <2> QED
    BY <2>1, <2>2, StageBlockKept
<1>6. CASE \E ok \in BOOLEAN : IssuePageModule(pc, same_page(pc), ok)
  BY <1>6, IssuePageModuleKept
<1>7. CASE \E vas \in SUBSET Virtual : BuildSuperblock(pc, vas)
  BY <1>7, BuildSuperblockKept
<1> QED
  BY <1>1, <1>3, <1>4, <1>5, <1>6, <1>7

(* Every step of a dispatch, and of a region's exits.                      *)
LEMMA DispatchKept == ASSUME OwnershipInv, Dispatch \/ Region PROVE Kept
<1>1. CASE Dispatch
  <2>1. PICK pc \in Pcs : Lookup(pc) \/ DropEntry(pc) \/ touch(pc)
    BY <1>1, Zenon DEF Dispatch
  <2> QED
    BY <2>1, LookupKept, DropKept, TouchKept
<1>2. CASE Region
  <2>1. PICK idx \in Slots : \/ record_region_exit(idx) \/ demote_region(idx)
                             \/ \E added \in SUBSET (Virtual \X Physical) : try_extend_region(idx, added)
    BY <1>2, Zenon DEF Region
  <2>2. CASE record_region_exit(idx) \/ demote_region(idx)
    BY <2>2, RecordKept, DemoteKept
  <2>3. CASE \E added \in SUBSET (Virtual \X Physical) : try_extend_region(idx, added)
    BY <2>3, TryExtendKept
  <2> QED
    BY <2>1, <2>2, <2>3
<1> QED
  BY <1>1, <1>2

(* Every step of the system keeps what is needed of jit, pages and the     *)
(* compiles that are under way.                                            *)
LEMMA StepKept == ASSUME OwnershipInv, Step PROVE Kept
<1>1. CASE Compile
  BY <1>1, CompileKept
<1>2. CASE SubmitStage
  BY <1>2, SubmitStageKept
<1>3. CASE Complete
  <2>1. PICK t \in DOMAIN pending, base \in Slots \cup {0, -1} : complete_jit(t, base)
    BY <1>3, Zenon DEF Complete
  <2> QED
    BY <2>1, CompleteKept
<1>4. CASE TakeDirty
  BY <1>4, TakeDirtyKept
<1>5. CASE \E p \in Physical : GuestWrite(p)
  BY <1>5, WriteKept
<1>6. CASE \E space \in Spaces, full \in BOOLEAN : SwitchSpace(space, full)
  BY <1>6, SwitchKept
<1>7. CASE Dispatch \/ Region
  BY <1>7, DispatchKept
<1>8. CASE EnableFill
  BY <1>8, FillKept
<1>9. CASE reset_full_system_jit
  BY <1>9, ResetKept
<1> QED
  BY <1>1, <1>2, <1>3, <1>4, <1>5, <1>6, <1>7, <1>8, <1>9, Zenon DEF Step

(* OwnershipInv holds in every reachable state of the JIT's Rust side.     *)
THEOREM OwnershipInvariant == Spec => []OwnershipInv
<1>1. Init => OwnershipInv
  BY InitHolds
<1>2. OwnershipInv /\ [Next]_vars => OwnershipInv'
  <2>1. ASSUME OwnershipInv, Next
        PROVE  OwnershipInv'
    <3>1. Kept /\ scope' = scope
      BY <2>1, StepKept, Zenon DEF Next
    <3> QED
      BY <2>1, <3>1 DEF Kept, OwnershipInv
  <2>2. ASSUME OwnershipInv, UNCHANGED vars
        PROVE  OwnershipInv'
    <3>1. /\ jit' = jit /\ pending' = pending /\ pages' = pages
          /\ satp' = satp /\ tickets' = tickets /\ scope' = scope
      BY <2>2 DEF vars
    <3> QED
      BY <2>2, <3>1 DEF OwnershipInv
  <2> QED
    BY <2>1, <2>2
<1> QED
  BY <1>1, <1>2, PTL DEF Spec

-----------------------------------------------------------------------------
(* What the invariant says of the four properties.                         *)

(* A sequence without repetition is as long as the set of its elements.    *)
LEMMA OnceCounts ==
  ASSUME NEW S, NEW s \in Seq(S), Once(s)
  PROVE  Cardinality(ToSet(s)) = Len(s)
<1> DEFINE n == Len(s)  f == [m \in 1 .. n |-> s[m]]
<1>1. n \in Nat /\ ToSet(s) = {s[m] : m \in 1 .. n}
  BY DEF ToSet
<1>2. \A a, b \in 1 .. n : f[a] = f[b] => a = b
  BY DEF Once
<1>3. f \in Bijection(1 .. n, ToSet(s))
  <2> HIDE DEF n
  <2> QED
    BY <1>1, <1>2 DEF Bijection, Injection, Surjection, IsInjective
<1>4. ExistsBijection(1 .. n, ToSet(s))
  BY <1>3, Zenon DEF ExistsBijection
<1> HIDE DEF n
<1> QED
  BY <1>1, <1>4, FS_CountingElements DEF n

(* The slots: counted, live and owned while an entry runs them.            *)
LEMMA SlotsTold ==
  ASSUME Sound(jit, {}, {}, 0, {}), NEW i \in Slots
  PROVE  /\ jit.refs[i] = Cardinality(running(i))
         /\ jit.slot_owner[i] # 0 <=> running(i) # {}
         /\ i \in jit.live <=> running(i) # {}
         /\ running(i) = {} => jit.regions[i] = {} /\ ~profiled(i) /\ i \notin jit.ext_queue
<1>1. running(i) = users(jit, i) /\ i \in Slots \ {} /\ i > 0
  BY OwnershipAssumption DEF running, users
<1>2. jit.refs[i] = Cardinality(running(i))
  BY <1>1 DEF Sound, CountsRefs
<1>3. jit.slot_owner[i] # 0 => running(i) # {}
  BY <1>1 DEF Sound, SlotsUsed
<1>4. ASSUME NEW pc \in running(i)
      PROVE  jit.slot_owner[i] # 0
  <2>1. pc \in Pcs /\ jit.cache[pc].idx = i
    BY <1>4 DEF running
  <2> QED
    BY <1>1, <2>1 DEF Sound, EntriesOwned
<1>5. jit.slot_owner[i] # 0 <=> running(i) # {}
  BY <1>3, <1>4
<1> QED
  BY <1>2, <1>5 DEF Sound, LiveOwned, IdleClean, profiled

(* The owners: each lists the entries of its slots, and is recent once.    *)
LEMMA OwnersTold ==
  ASSUME Sound(jit, {}, {}, 0, {})
  PROVE  /\ \A o \in Tickets :
              /\ jit.owner_entries[o] = UNION {running(i) : i \in owner_slots(jit, o)}
              /\ jit.module_owner[o] # <<>> =>
                   o \in owning /\ active_owner(jit.modules[jit.module_owner[o]]) = o
         /\ ToSet(jit.cold) = owning /\ Len(jit.cold) = Cardinality(owning)
<1>1. /\ jit.cold \in Seq(Tickets) /\ jit.slot_owner \in [Slots -> Tickets \cup {0}]
      /\ jit.owner_entries \in [Tickets -> SUBSET Pcs] /\ jit.cache \in [Pcs -> Entry]
  BY FieldType DEF Sound
<1>2. \A o \in Tickets : o # 0 /\ (o \in owning <=> owns(jit, o))
  BY TicketType DEF owning, owns
<1>3. owning \subseteq Tickets
  BY <1>1 DEF owning
<1>4. ToSet(jit.cold) = owning
  <2>1. ToSet(jit.cold) = {jit.cold[n] : n \in 1 .. Len(jit.cold)}
    BY <1>1 DEF ToSet
  <2>2. \A o \in Tickets : o \in ToSet(jit.cold) <=> owns(jit, o)
    BY <2>1 DEF Sound, ColdOwners, Holds
  <2>3. ToSet(jit.cold) \subseteq Tickets
    BY <1>1, <2>1
  <2> QED
    BY <1>2, <1>3, <2>2, <2>3
<1>5. Len(jit.cold) = Cardinality(owning)
  <2>1. Once(jit.cold)
    BY DEF Sound, ColdOwners
  <2> QED
    BY <1>1, <1>4, <2>1, OnceCounts
<1>6. ASSUME NEW o \in Tickets
      PROVE  jit.owner_entries[o] = UNION {running(i) : i \in owner_slots(jit, o)}
  <2>1. \A pc \in Pcs : jit.cache[pc].idx > 0 => jit.cache[pc].idx \in Slots
    BY <1>1, EntryType
  <2>2. \A i \in Slots : i > 0
    BY OwnershipAssumption
  <2>3. \A pc \in Pcs : pc \in jit.owner_entries[o] <=>
                          jit.cache[pc].idx > 0 /\ jit.slot_owner[jit.cache[pc].idx] = o
    BY DEF Sound, EntriesListed
  <2>4. \A pc \in Pcs : pc \in jit.owner_entries[o] <=>
                          \E i \in owner_slots(jit, o) : pc \in running(i)
    BY <2>1, <2>2, <2>3 DEF owner_slots, running
  <2>5. \A i : running(i) \subseteq Pcs
    BY DEF running
  <2> QED
    BY <1>1, <2>4, <2>5
<1>7. ASSUME NEW o \in Tickets, jit.module_owner[o] # <<>>
      PROVE  o \in owning /\ active_owner(jit.modules[jit.module_owner[o]]) = o
  BY <1>2, <1>7 DEF Sound, ModulesOwned
<1> QED
  BY <1>4, <1>5, <1>6, <1>7

(* The slots, their owners, the cache, the recency list, the page modules  *)
(* and the index of pages agree in every reachable state.                  *)
THEOREM JitOwnershipSound == Spec => []OwnershipSound
<1>1. OwnershipInv => OwnershipSound
  <2> SUFFICES ASSUME OwnershipInv
               PROVE  OwnershipSound
    OBVIOUS
  <2>1. Sound(jit, {}, {}, 0, {})
    BY Parts
  <2>2. \A k \in Keys : active_owner(jit.modules[k]) # 0 =>
                          jit.module_owner[active_owner(jit.modules[k])] = k
    BY <2>1 DEF Sound, ModulesOwned
  <2>3. ASSUME NEW p \in Physical
        PROVE  jit.page_blocks[p] =
                 {pc \in Pcs : jit.cache[pc] # NoEntry /\ p \in block_physical_pages(jit, pc, jit.cache[pc])}
    <3>1. jit.page_blocks[p] \subseteq Pcs
      BY <2>1, FieldType DEF Sound
    <3>2. \A pc \in Pcs : pc \in jit.page_blocks[p] <=>
             jit.cache[pc] # NoEntry /\ p \in block_physical_pages(jit, pc, jit.cache[pc])
      BY <2>1 DEF Sound, Indexed
    <3> QED
      BY <3>1, <3>2, Zenon
  <2>4. \A i \in Slots : /\ jit.refs[i] = Cardinality(running(i))
                         /\ jit.slot_owner[i] # 0 <=> running(i) # {}
                         /\ i \in jit.live <=> running(i) # {}
                         /\ running(i) = {} => jit.regions[i] = {} /\ ~profiled(i) /\ i \notin jit.ext_queue
    BY <2>1, SlotsTold
  <2> QED
    BY <2>1, <2>2, <2>3, <2>4, OwnersTold, Zenon DEF OwnershipSound
<1> QED
  BY <1>1, OwnershipInvariant, PTL

(* An entry that can be dispatched has code of the bytes its pages hold,   *)
(* or the page is dirty, in every reachable state.                         *)
THEOREM JitCodeCurrent == Spec => []CodeCurrent
<1>1. OwnershipInv => CodeCurrent
  <2> SUFFICES ASSUME OwnershipInv, NEW pc \in Pcs, jit.cache[pc] # NoEntry, NEW s \in jit.cache[pc].src
               PROVE  pages[s.pp].bytes = s.ver \/ pages[s.pp].dirty
    BY DEF CodeCurrent
  <2>1. EntriesCurrent(jit, pages)
    BY Parts
  <2> QED
    BY <2>1 DEF EntriesCurrent, Current
<1> QED
  BY <1>1, OwnershipInvariant, PTL

(* A line that is used as it is runs what the cache has for its pc, mapped *)
(* as it was compiled, in every reachable state.                           *)
THEOREM JitDispatchSafe == Spec => []DispatchSafe
<1>1. OwnershipInv => DispatchSafe
  <2> SUFFICES ASSUME OwnershipInv, NEW pc \in Pcs, line_hit(pc)
               PROVE  /\ jit.cache[pc] # NoEntry /\ jit.cache[pc].idx = jit.lines[Dslot[pc]].idx
                      /\ maps_as(jit.cache[pc].src)
    BY DEF DispatchSafe
  <2>1. LinesAgree(jit, satp)
    BY Parts
  <2>2. Dslot[pc] \in Lines /\ pc # 0
    BY OwnershipAssumption DEF Lines
  <2>3. jit.lines[Dslot[pc]].pc = pc /\ jit.lines[Dslot[pc]].fresh
    BY DEF line_hit
  <2> QED
    BY <2>1, <2>2, <2>3 DEF LinesAgree, Maps, maps_as
<1> QED
  BY <1>1, OwnershipInvariant, PTL

(* What is on record as under way is under way, and coverage counts what   *)
(* is staged and pending, in every reachable state.                        *)
THEOREM JitClaimsSettle == Spec => []ClaimsSettle
<1>1. OwnershipInv => ClaimsSettle
  <2> SUFFICES ASSUME OwnershipInv
               PROVE  ClaimsSettle
    OBVIOUS
  <2>1. PendingSound(jit, pending, pages, tickets)
    BY Parts
  <2>2. \A k \in Keys : /\ jit.claims[k] # NoClaim => jit.claims[k].ticket \in DOMAIN pending
                        /\ jit.modules[k].is = "pending" => jit.modules[k].ticket \in DOMAIN pending
    BY <2>1, Zenon DEF PendingSound, ClaimsTracked, ModulesTracked
  <2>3. \A space, pc : /\ covering(space, pc) = CoveringIn(jit.stage, space, pc)
                       /\ pending_covering(space, pc) = CoveringPending(pending, space, pc)
    BY Zenon DEF covering, pending_covering, CoveringIn, CoveringPending, covers
  <2>4. \A space \in Spaces, pc \in Pcs :
          jit.coverage[<<space, pc>>] = Cardinality(covering(space, pc)) + Cardinality(pending_covering(space, pc))
    BY <2>1, <2>3, Zenon DEF PendingSound, CoverageHolds
  <2> QED
    BY <2>2, <2>4, Zenon DEF ClaimsSettle
<1> QED
  BY <1>1, OwnershipInvariant, PTL
=============================================================================
