-------------------------- MODULE JitPipelineProofs --------------------------
(***************************************************************************)
(* What the code store and the compile pipeline around it keep, for every  *)
(* set of limits, module sizes, compilers and tickets.                     *)
(*                                                                         *)
(* The store's methods are operators from a store to a store, and so are   *)
(* the lemmas: each method takes a sound store to a sound store.  The list *)
(* of free runs and the sums over modules are folds over finite sets; what *)
(* they are is proved by induction on the size of the set, which is        *)
(* derived here from the fact that the naturals are well-founded.          *)
(***************************************************************************)
EXTENDS JitPipeline, FiniteSetTheorems, SequenceTheorems, WellFoundedInduction, TLAPS

-----------------------------------------------------------------------------
(* Induction and recursion.                                                *)

(* A set of naturals has a least element.                                  *)
LEMMA LeastNat ==
  ASSUME NEW T \in SUBSET Nat, NEW t \in T
  PROVE  \E n \in T : \A m \in T : n <= m
<1> DEFINE R == OpToRel(<, Nat)
<1>1. IsWellFoundedOn(R, Nat)
  BY NatLessThanWellFounded, Zenon
<1>2. \A x, y \in Nat : y < x => <<y, x>> \in R
  BY Zenon DEF OpToRel
<1> HIDE DEF R
<1>3. PICK n \in T : \A y \in T : ~(<<y, n>> \in R)
  BY <1>1, WFMin
<1>4. ASSUME NEW m \in T
      PROVE  n <= m
  <2>1. m \in Nat /\ n \in Nat
    OBVIOUS
  <2>2. ~(m < n)
    BY <1>2, <1>3, <2>1, Zenon
  <2> QED
    BY <2>1, <2>2
<1> QED
  BY <1>4

(* A set that has 0 and with each natural the next one has them all.       *)
LEMMA SetInduction ==
  ASSUME NEW S \in SUBSET Nat, 0 \in S, \A n \in S : n + 1 \in S
  PROVE  S = Nat
<1> SUFFICES ASSUME NEW t \in Nat \ S
             PROVE  FALSE
  OBVIOUS
<1>1. PICK n \in Nat \ S : \A m \in Nat \ S : n <= m
  BY LeastNat
<1>2. n # 0 /\ n - 1 \in Nat /\ ~(n <= n - 1)
  BY <1>1
<1>3. n - 1 \in S
  BY <1>1, <1>2
<1>4. (n - 1) + 1 \in S
  BY <1>3
<1> QED
  BY <1>1, <1>4

(* A finite set without one of its elements is smaller by one.             *)
LEMMA OneLess ==
  ASSUME NEW D, IsFiniteSet(D), NEW S \in SUBSET D, NEW x \in S
  PROVE  /\ IsFiniteSet(S) /\ Cardinality(S) \in Nat \ {0}
         /\ S \ {x} \in SUBSET D
         /\ Cardinality(S \ {x}) = Cardinality(S) - 1
<1>1. IsFiniteSet(S)
  BY FS_Subset
<1>2. Cardinality(S) \in Nat /\ Cardinality(S) # 0
  BY <1>1, FS_CardinalityType, FS_EmptySet
<1>3. Cardinality(S \ {x}) = Cardinality(S) - 1
  BY <1>1, FS_RemoveElement
<1> QED
  BY <1>1, <1>2, <1>3

(* The recursion of MapThenFoldSet has a solution, whatever is folded.     *)
Iterates(it, D, base, G, pick) ==
  \A s \in SUBSET D :
    it[s] = IF s = {} THEN base ELSE G[<<pick[s], it[s \ {pick[s]}]>>]

(* A fold of a finite set exists as a function of its subsets: what one    *)
(* element after the other makes of the base.                              *)
LEMMA FoldExists ==
  ASSUME NEW D, IsFiniteSet(D), NEW V, NEW base \in V,
         NEW G \in [D \X V -> V],
         NEW pick, \A s \in SUBSET D : s # {} => pick[s] \in s
  PROVE  \E it \in [SUBSET D -> V] : Iterates(it, D, base, G, pick)
<1> DEFINE Solves(it, s) ==
             it[s] = IF s = {} THEN base ELSE G[<<pick[s], it[s \ {pick[s]}]>>]
           K == {k \in Nat : \E it \in [SUBSET D -> V] :
                   \A s \in SUBSET D : Cardinality(s) <= k => Solves(it, s)}
<1>1. \A s \in SUBSET D : Cardinality(s) \in Nat /\ (Cardinality(s) = 0 => s = {})
  BY FS_Subset, FS_CardinalityType, FS_EmptySet
<1>2. 0 \in K
  <2> DEFINE it == [s \in SUBSET D |-> base]
  <2>1. it \in [SUBSET D -> V]
    OBVIOUS
  <2>2. ASSUME NEW s \in SUBSET D, Cardinality(s) <= 0
        PROVE  Solves(it, s)
    <3>1. s = {}
      BY <1>1, <2>2
    <3> QED
      BY <3>1
  <2> QED
    BY <2>1, <2>2
<1>3. ASSUME NEW k \in K
      PROVE  k + 1 \in K
  <2>1. PICK it \in [SUBSET D -> V] :
          \A s \in SUBSET D : Cardinality(s) <= k => Solves(it, s)
    OBVIOUS
  <2> DEFINE next == [s \in SUBSET D |->
                        IF Cardinality(s) <= k THEN it[s]
                                               ELSE G[<<pick[s], it[s \ {pick[s]}]>>]]
  <2>2. ASSUME NEW s \in SUBSET D, s # {}
        PROVE  /\ pick[s] \in D /\ s \ {pick[s]} \in SUBSET D
               /\ Cardinality(s \ {pick[s]}) = Cardinality(s) - 1
               /\ G[<<pick[s], it[s \ {pick[s]}]>>] \in V
    <3>1. pick[s] \in s /\ pick[s] \in D
      BY <2>2
    <3>2. s \ {pick[s]} \in SUBSET D /\ Cardinality(s \ {pick[s]}) = Cardinality(s) - 1
      BY <3>1, OneLess
    <3> QED
      BY <3>1, <3>2
  <2>3. next \in [SUBSET D -> V]
    <3>1. ASSUME NEW s \in SUBSET D
          PROVE  (IF Cardinality(s) <= k THEN it[s]
                                         ELSE G[<<pick[s], it[s \ {pick[s]}]>>]) \in V
      <4>1. CASE Cardinality(s) <= k
        BY <4>1
      <4>2. CASE ~(Cardinality(s) <= k)
        <5>1. ~(0 <= k) => s # {}
          BY <4>2, FS_EmptySet
        <5>2. s # {}
          BY <5>1, <4>2, <1>1, FS_EmptySet
        <5> QED
          BY <4>2, <5>2, <2>2
      <4> QED
        BY <4>1, <4>2
    <3> QED
      BY <3>1
  <2>4. ASSUME NEW s \in SUBSET D, Cardinality(s) <= k + 1
        PROVE  Solves(next, s)
    <3>1. CASE s = {}
      <4>1. Cardinality(s) <= k
        BY <3>1, FS_EmptySet
      <4>2. next[s] = it[s]
        BY <4>1
      <4>3. it[s] = base
        BY <2>1, <3>1, <4>1
      <4> QED
        BY <3>1, <4>2, <4>3
    <3>2. CASE s # {}
      <4>1. /\ s \ {pick[s]} \in SUBSET D
            /\ Cardinality(s \ {pick[s]}) <= k
        <5>1. Cardinality(s) \in Nat /\ k \in Nat /\ Cardinality(s) <= k + 1
          BY <1>1, <2>4
        <5>2. /\ s \ {pick[s]} \in SUBSET D
              /\ Cardinality(s \ {pick[s]}) = Cardinality(s) - 1
          BY <2>2, <3>2
        <5> QED
          BY <5>1, <5>2
      <4>2. next[s \ {pick[s]}] = it[s \ {pick[s]}]
        BY <4>1
      <4>3. next[s] = G[<<pick[s], it[s \ {pick[s]}]>>]
        <5>1. CASE Cardinality(s) <= k
          <6>1. next[s] = it[s]
            BY <5>1
          <6>2. Solves(it, s)
            BY <2>1, <5>1
          <6> QED
            BY <3>2, <6>1, <6>2
        <5>2. CASE ~(Cardinality(s) <= k)
          BY <5>2
        <5> QED
          BY <5>1, <5>2
      <4> QED
        BY <3>2, <4>2, <4>3
    <3> QED
      BY <3>1, <3>2
  <2> HIDE DEF next, Solves
  <2> QED
    BY <2>3, <2>4
<1>4. K = Nat
  <2> HIDE DEF K
  <2>1. K \in SUBSET Nat
    BY DEF K
  <2> QED
    BY <1>2, <1>3, <2>1, SetInduction
<1>5. Cardinality(D) \in K
  BY <1>4, FS_CardinalityType
<1>6. PICK it \in [SUBSET D -> V] :
        \A s \in SUBSET D : Cardinality(s) <= Cardinality(D) => Solves(it, s)
  BY <1>5
<1>7. \A s \in SUBSET D : Cardinality(s) <= Cardinality(D)
  BY FS_Subset
<1> QED
  BY <1>6, <1>7 DEF Iterates

(* Induction over the subsets of a finite set, taking one element away.    *)
LEMMA SubsetInduction ==
  ASSUME NEW D, IsFiniteSet(D), NEW Q \in SUBSET (SUBSET D), {} \in Q,
         \A s \in SUBSET D : s # {} /\ (\A x \in s : s \ {x} \in Q) => s \in Q
  PROVE  Q = SUBSET D
<1> DEFINE K == {k \in Nat : \A s \in SUBSET D : Cardinality(s) = k => s \in Q}
<1>1. \A s \in SUBSET D : Cardinality(s) \in Nat /\ (Cardinality(s) = 0 => s = {})
  BY FS_Subset, FS_CardinalityType, FS_EmptySet
<1>2. 0 \in K
  BY <1>1
<1>3. ASSUME NEW k \in K
      PROVE  k + 1 \in K
  <2>1. ASSUME NEW s \in SUBSET D, Cardinality(s) = k + 1
        PROVE  s \in Q
    <3>1. s # {}
      <4>1. CASE s = {}
        <5>1. Cardinality(s) = 0 /\ k \in Nat
          BY <4>1, FS_EmptySet
        <5> QED
          BY <2>1, <5>1
      <4> QED
        BY <4>1
    <3>2. ASSUME NEW x \in s
          PROVE  s \ {x} \in Q
      <4>1. s \ {x} \in SUBSET D /\ Cardinality(s \ {x}) = Cardinality(s) - 1 /\ k \in Nat
        BY OneLess
      <4>2. Cardinality(s \ {x}) = k
        BY <2>1, <4>1
      <4> QED
        BY <4>1, <4>2
    <3> QED
      BY <3>1, <3>2
  <2> QED
    BY <2>1
<1>4. K = Nat
  <2> HIDE DEF K
  <2>1. K \in SUBSET Nat
    BY DEF K
  <2> QED
    BY <1>2, <1>3, <2>1, SetInduction
<1> QED
  BY <1>1, <1>4

-----------------------------------------------------------------------------
(* Sums.                                                                   *)

NatOn(f, D) == \A x \in D : f[x] \in Nat

(* The fold of a sum, with the terms taken in any order.                   *)
SumsUp(it, f, D) ==
  /\ it \in [SUBSET D -> Nat]
  /\ it[{}] = 0
  /\ \A s \in SUBSET D : \A x \in s : it[s] = f[x] + it[s \ {x}]

(* SumFunctionOnSet is such a fold, with addition.                         *)
LEMMA SumIterates ==
  ASSUME NEW D, IsFiniteSet(D), NEW f, NatOn(f, D)
  PROVE  \E it : SumsUp(it, f, D) /\ SumFunctionOnSet(f, D) = it[D]
<1> DEFINE pick == [s \in SUBSET D |-> CHOOSE x \in s : TRUE]
           G == [p \in D \X Nat |-> f[p[1]] + p[2]]
           body(it) == [s \in SUBSET D |->
                          IF s = {} THEN 0
                          ELSE f[CHOOSE x \in s : TRUE] + it[s \ {CHOOSE x \in s : TRUE}]]
           it == CHOOSE i : i = body(i)
<1>1. SumFunctionOnSet(f, D) = it[D]
  BY Zenon DEF SumFunctionOnSet, FoldFunctionOnSet, MapThenFoldSet
<1>2. \E i \in [SUBSET D -> Nat] : i = body(i)
  <2>1. G \in [D \X Nat -> Nat]
    BY DEF NatOn
  <2>2. \A s \in SUBSET D : s # {} => pick[s] \in s
    OBVIOUS
  <2>3. PICK i \in [SUBSET D -> Nat] : Iterates(i, D, 0, G, pick)
    <3> HIDE DEF G, pick
    <3>1. 0 \in Nat
      OBVIOUS
    <3> QED
      BY <2>1, <2>2, <3>1, FoldExists, Zenon
  <2>4. ASSUME NEW s \in SUBSET D, s # {}
        PROVE  G[<<pick[s], i[s \ {pick[s]}]>>] = f[pick[s]] + i[s \ {pick[s]}]
    <3>1. pick[s] \in D /\ i[s \ {pick[s]}] \in Nat
      BY <2>2, <2>4
    <3> HIDE DEF pick
    <3> QED
      BY <3>1
  <2>5. \A s \in SUBSET D : s # {} => pick[s] = CHOOSE x \in s : TRUE
    OBVIOUS
  <2>6. \A s \in SUBSET D : i[s] = body(i)[s]
    <3> SUFFICES ASSUME NEW s \in SUBSET D
                 PROVE  i[s] = body(i)[s]
      OBVIOUS
    <3>1. CASE s = {}
      BY <2>3, <3>1 DEF Iterates
    <3>2. CASE s # {}
      <4>1. i[s] = f[pick[s]] + i[s \ {pick[s]}]
        BY <2>3, <2>4, <3>2 DEF Iterates
      <4> QED
        BY <2>5, <3>2, <4>1
    <3> QED
      BY <3>1, <3>2
  <2>7. i = body(i)
    BY <2>6
  <2> QED
    BY <2>7
<1>3. it = body(it)
  <2> HIDE DEF body
  <2>1. \E i : i = body(i)
    BY <1>2
  <2> QED
    BY <2>1, Zenon
<1> HIDE DEF it
<1>4. it[{}] = 0
  BY <1>3
<1>5. \A s \in SUBSET D : s # {} => \E c \in s : it[s] = f[c] + it[s \ {c}]
  BY <1>3
<1> HIDE DEF body
<1>6. \A s \in SUBSET D : it[s] \in Nat
  <2> DEFINE Q == {s \in SUBSET D : it[s] \in Nat}
  <2>1. {} \in Q
    BY <1>4
  <2>2. ASSUME NEW s \in SUBSET D, s # {}, \A x \in s : s \ {x} \in Q
        PROVE  s \in Q
    <3>1. PICK c \in s : it[s] = f[c] + it[s \ {c}]
      BY <1>5, <2>2
    <3> QED
      BY <2>2, <3>1 DEF NatOn
  <2>3. Q = SUBSET D
    <3> HIDE DEF Q
    <3>1. Q \in SUBSET (SUBSET D)
      BY DEF Q
    <3> QED
      BY <2>1, <2>2, <3>1, SubsetInduction
  <2> QED
    BY <2>3
<1>7. \A s \in SUBSET D : \A x \in s : it[s] = f[x] + it[s \ {x}]
  <2> DEFINE Q == {s \in SUBSET D : \A x \in s : it[s] = f[x] + it[s \ {x}]}
  <2>1. {} \in Q
    OBVIOUS
  <2>2. ASSUME NEW s \in SUBSET D, s # {}, \A x \in s : s \ {x} \in Q
        PROVE  s \in Q
    <3>1. PICK c \in s : it[s] = f[c] + it[s \ {c}]
      BY <1>5, <2>2
    <3>2. ASSUME NEW x \in s, x # c
          PROVE  it[s] = f[x] + it[s \ {x}]
      <4>1. x \in s \ {c} /\ c \in s \ {x} /\ (s \ {x}) \ {c} = (s \ {c}) \ {x}
        BY <3>2
      <4>2. it[s \ {c}] = f[x] + it[(s \ {c}) \ {x}]
        BY <2>2, <4>1
      <4>3. it[s \ {x}] = f[c] + it[(s \ {c}) \ {x}]
        BY <2>2, <4>1
      <4>4. f[x] \in Nat /\ f[c] \in Nat /\ it[(s \ {c}) \ {x}] \in Nat
        BY <1>6 DEF NatOn
      <4> QED
        BY <3>1, <4>2, <4>3, <4>4
    <3> QED
      BY <3>1, <3>2
  <2>3. Q = SUBSET D
    <3> HIDE DEF Q
    <3>1. Q \in SUBSET (SUBSET D)
      BY DEF Q
    <3> QED
      BY <2>1, <2>2, <3>1, SubsetInduction
  <2> QED
    BY <2>3
<1>8. it \in [SUBSET D -> Nat]
  BY <1>3, <1>6 DEF body
<1> QED
  BY <1>1, <1>4, <1>7, <1>8 DEF SumsUp

(* A sum without one of its terms.                                         *)
LEMMA SumRemove ==
  ASSUME NEW D, IsFiniteSet(D), NEW f, NatOn(f, D), NEW x \in D
  PROVE  /\ SumFunctionOnSet(f, D) \in Nat
         /\ SumFunctionOnSet(f, D \ {x}) \in Nat
         /\ SumFunctionOnSet(f, D) = f[x] + SumFunctionOnSet(f, D \ {x})
<1> DEFINE E == D \ {x}
<1>1. IsFiniteSet(E) /\ NatOn(f, E)
  BY FS_Subset DEF NatOn
<1>2. PICK it : SumsUp(it, f, D) /\ SumFunctionOnSet(f, D) = it[D]
  BY SumIterates
<1>3. PICK less : SumsUp(less, f, E) /\ SumFunctionOnSet(f, E) = less[E]
  BY <1>1, SumIterates
<1>4. \A s \in SUBSET E : it[s] = less[s]
  <2> DEFINE Q == {s \in SUBSET E : it[s] = less[s]}
  <2>1. {} \in Q
    BY <1>2, <1>3 DEF SumsUp
  <2>2. ASSUME NEW s \in SUBSET E, s # {}, \A y \in s : s \ {y} \in Q
        PROVE  s \in Q
    <3>1. PICK y \in s : TRUE
      BY <2>2
    <3>2. it[s \ {y}] = less[s \ {y}]
      BY <2>2
    <3>3. it[s] = f[y] + it[s \ {y}]
      BY <1>2 DEF SumsUp
    <3>4. less[s] = f[y] + less[s \ {y}]
      BY <1>3 DEF SumsUp
    <3> QED
      BY <3>2, <3>3, <3>4
  <2>3. Q = SUBSET E
    <3> HIDE DEF Q, E
    <3>1. Q \in SUBSET (SUBSET E)
      BY DEF Q
    <3> QED
      BY <1>1, <2>1, <2>2, <3>1, SubsetInduction
  <2> QED
    BY <2>3
<1>5. it[D] = f[x] + it[E]
  BY <1>2 DEF SumsUp
<1>6. it[E] = less[E]
  BY <1>4
<1>7. it[D] \in Nat /\ less[E] \in Nat
  BY <1>2, <1>3 DEF SumsUp
<1> QED
  BY <1>2, <1>3, <1>5, <1>6, <1>7

(* The empty sum.                                                          *)
LEMMA SumEmpty ==
  ASSUME NEW f
  PROVE  SumFunctionOnSet(f, {}) = 0
<1>1. IsFiniteSet({}) /\ NatOn(f, {})
  BY FS_EmptySet DEF NatOn
<1> QED
  BY <1>1, SumIterates DEF SumsUp

(* A sum of naturals is a natural.                                         *)
LEMMA SumNat ==
  ASSUME NEW D, IsFiniteSet(D), NEW f, NatOn(f, D)
  PROVE  SumFunctionOnSet(f, D) \in Nat
<1>1. PICK it : SumsUp(it, f, D) /\ SumFunctionOnSet(f, D) = it[D]
  BY SumIterates
<1> QED
  BY <1>1 DEF SumsUp

(* A sum with one term more.                                               *)
LEMMA SumAdd ==
  ASSUME NEW D, IsFiniteSet(D), NEW f, NEW x, x \notin D, NatOn(f, D \cup {x})
  PROVE  SumFunctionOnSet(f, D \cup {x}) = SumFunctionOnSet(f, D) + f[x]
<1>1. IsFiniteSet(D \cup {x}) /\ x \in D \cup {x} /\ (D \cup {x}) \ {x} = D
  BY FS_AddElement
<1>2. /\ SumFunctionOnSet(f, D) \in Nat
      /\ SumFunctionOnSet(f, D \cup {x}) = f[x] + SumFunctionOnSet(f, D)
  BY <1>1, SumRemove
<1>3. f[x] \in Nat
  BY DEF NatOn
<1> QED
  BY <1>2, <1>3

(* Only the terms matter.                                                  *)
LEMMA SumSame ==
  ASSUME NEW D, IsFiniteSet(D), NEW f, NEW g, NatOn(f, D), \A x \in D : f[x] = g[x]
  PROVE  SumFunctionOnSet(f, D) = SumFunctionOnSet(g, D)
<1> DEFINE Q == {s \in SUBSET D : SumFunctionOnSet(f, s) = SumFunctionOnSet(g, s)}
<1>1. {} \in Q
  BY SumEmpty
<1>2. ASSUME NEW s \in SUBSET D, s # {}, \A x \in s : s \ {x} \in Q
      PROVE  s \in Q
  <2>1. PICK x \in s : TRUE
    BY <1>2
  <2>2. IsFiniteSet(s) /\ NatOn(f, s) /\ NatOn(g, s) /\ f[x] = g[x]
    BY FS_Subset DEF NatOn
  <2>3. SumFunctionOnSet(f, s) = f[x] + SumFunctionOnSet(f, s \ {x})
    BY <2>2, SumRemove
  <2>4. SumFunctionOnSet(g, s) = g[x] + SumFunctionOnSet(g, s \ {x})
    BY <2>2, SumRemove
  <2>5. SumFunctionOnSet(f, s \ {x}) = SumFunctionOnSet(g, s \ {x})
    BY <1>2
  <2> QED
    BY <2>2, <2>3, <2>4, <2>5
<1>3. Q = SUBSET D
  <2> HIDE DEF Q
  <2>1. Q \in SUBSET (SUBSET D)
    BY DEF Q
  <2> QED
    BY <1>1, <1>2, <2>1, SubsetInduction
<1> QED
  BY <1>3

(* A sum in two parts.                                                     *)
LEMMA SumSplit ==
  ASSUME NEW D, IsFiniteSet(D), NEW f, NatOn(f, D), NEW T \in SUBSET D
  PROVE  SumFunctionOnSet(f, D) = SumFunctionOnSet(f, T) + SumFunctionOnSet(f, D \ T)
<1> DEFINE Sum(s) == SumFunctionOnSet(f, s)
           Q == {s \in SUBSET D : Sum(D) = Sum(s) + Sum(D \ s)}
<1>1. \A s \in SUBSET D : /\ IsFiniteSet(s) /\ NatOn(f, s) /\ Sum(s) \in Nat
                         /\ \A x \in s : Sum(s) = f[x] + Sum(s \ {x}) /\ f[x] \in Nat
  <2> SUFFICES ASSUME NEW s \in SUBSET D
               PROVE  /\ IsFiniteSet(s) /\ NatOn(f, s) /\ Sum(s) \in Nat
                      /\ \A x \in s : Sum(s) = f[x] + Sum(s \ {x}) /\ f[x] \in Nat
    OBVIOUS
  <2>1. IsFiniteSet(s) /\ NatOn(f, s)
    BY FS_Subset DEF NatOn
  <2> QED
    BY <2>1, SumNat, SumRemove DEF NatOn
<1>2. {} \in Q
  <2>1. D \ {} = D /\ Sum({}) = 0 /\ Sum(D) \in Nat
    BY <1>1, SumEmpty
  <2> QED
    BY <2>1
<1>3. ASSUME NEW s \in SUBSET D, s # {}, \A x \in s : s \ {x} \in Q
      PROVE  s \in Q
  <2>1. PICK x \in s : TRUE
    BY <1>3
  <2>2. Sum(D) = Sum(s \ {x}) + Sum(D \ (s \ {x}))
    BY <1>3
  <2>3. x \in D \ (s \ {x}) /\ (D \ (s \ {x})) \ {x} = D \ s
    OBVIOUS
  <2> HIDE DEF Sum
  <2>4. Sum(D \ (s \ {x})) = f[x] + Sum(D \ s)
    BY <1>1, <2>3
  <2>5. Sum(s) = f[x] + Sum(s \ {x}) /\ f[x] \in Nat
    BY <1>1
  <2>6. Sum(s \ {x}) \in Nat /\ Sum(D \ s) \in Nat
    BY <1>1
  <2> QED
    BY <2>2, <2>4, <2>5, <2>6
<1>4. Q = SUBSET D
  <2> HIDE DEF Q
  <2>1. Q \in SUBSET (SUBSET D)
    BY DEF Q
  <2> QED
    BY <1>2, <1>3, <2>1, SubsetInduction
<1> QED
  BY <1>4

-----------------------------------------------------------------------------
(* The list of free runs.                                                  *)

Runs == [start : Nat, length : Nat \ {0}]
SlotsOf(r) == RunSlots(r.start, r.length)
End(r) == r.start + r.length
SlotsIn(free) == UNION {RunSlots(free[i].start, free[i].length) : i \in DOMAIN free}

Sorted(free) == \A i, j \in 1 .. Len(free) : i < j => End(free[i]) <= free[j].start
Touches(free, k) == k \in 1 .. Len(free) - 1 /\ End(free[k]) = free[k + 1].start

(* The list the store keeps between its methods: sorted and joined.        *)
Canonical(free) ==
  free \in Seq(Runs) /\ Sorted(free) /\ \A k \in Nat : ~Touches(free, k)

(* The slots of a free list, run by run.                                   *)
LEMMA InSlots ==
  ASSUME NEW free \in Seq(Runs), NEW x
  PROVE  x \in SlotsIn(free) <=>
           x \in Nat /\ \E i \in 1 .. Len(free) : free[i].start <= x /\ x < End(free[i])
<1>1. \A i \in 1 .. Len(free) : /\ free[i].start \in Nat /\ free[i].length \in Nat \ {0}
                                /\ RunSlots(free[i].start, free[i].length) =
                                     free[i].start .. free[i].start + free[i].length - 1
  <2> SUFFICES ASSUME NEW i \in 1 .. Len(free)
               PROVE  /\ free[i].start \in Nat /\ free[i].length \in Nat \ {0}
                      /\ RunSlots(free[i].start, free[i].length) =
                           free[i].start .. free[i].start + free[i].length - 1
    OBVIOUS
  <2>1. free[i] \in Runs
    BY ElementOfSeq
  <2> QED
    BY <2>1 DEF Runs, RunSlots
<1>2. DOMAIN free = 1 .. Len(free)
  OBVIOUS
<1>3. x \in SlotsIn(free) <=>
        \E i \in 1 .. Len(free) : x \in free[i].start .. free[i].start + free[i].length - 1
  BY <1>1, <1>2 DEF SlotsIn
<1> QED
  BY <1>1, <1>3 DEF End

(* The slots of one run.                                                   *)
LEMMA InRun ==
  ASSUME NEW r \in Runs, NEW x
  PROVE  x \in SlotsOf(r) <=> x \in Nat /\ r.start <= x /\ x < End(r)
BY DEF Runs, SlotsOf, RunSlots, End

(* t is s, a sequence over S, with e put in at i; without its element i;   *)
(* with e in the place of its element i.                                   *)
IsInsertion(t, s, i, e, S) ==
  /\ t \in Seq(S) /\ Len(t) = Len(s) + 1
  /\ \A k \in 1 .. Len(s) + 1 :
       t[k] = IF k < i THEN s[k] ELSE IF k = i THEN e ELSE s[k - 1]

IsRemoval(t, s, i, S) ==
  /\ t \in Seq(S) /\ Len(t) = Len(s) - 1
  /\ \A k \in 1 .. Len(s) - 1 : t[k] = IF k < i THEN s[k] ELSE s[k + 1]

IsReplacement(t, s, i, e, S) ==
  /\ t \in Seq(S) /\ Len(t) = Len(s)
  /\ \A k \in 1 .. Len(s) : t[k] = IF k = i THEN e ELSE s[k]

(* What insertion does to a sequence.                                      *)
LEMMA Insertion ==
  ASSUME NEW S, NEW s \in Seq(S), NEW i \in 1 .. Len(s) + 1, NEW e \in S
  PROVE  IsInsertion(InsertAt(s, i, e), s, i, e, S)
<1> DEFINE n == Len(s)  a == SubSeq(s, 1, i - 1)  c == SubSeq(s, i, n)
<1>1. n \in Nat /\ i \in Int /\ 1 <= i /\ i <= n + 1
  BY LenProperties
<1>2. \A k \in 1 .. n : s[k] \in S
  BY ElementOfSeq
<1>3. a \in Seq(S) /\ Len(a) = i - 1 /\ \A k \in 1 .. i - 1 : a[k] = s[k]
  <2>1. \A k \in 1 .. i - 1 : s[k] \in S
    BY <1>1, <1>2
  <2> QED
    BY <1>1, <2>1, SubSeqProperties
<1>4. /\ c \in Seq(S) /\ Len(c) = n - i + 1
      /\ \A k \in 1 .. n - i + 1 : c[k] = s[i + k - 1]
  <2>1. \A k \in i .. n : s[k] \in S
    BY <1>1, <1>2
  <2> QED
    BY <1>1, <2>1, SubSeqProperties
<1>5. <<e>> \in Seq(S) /\ Len(<<e>>) = 1 /\ <<e>>[1] = e
  OBVIOUS
<1>6. InsertAt(s, i, e) = (a \o <<e>>) \o c
  BY DEF InsertAt
<1> DEFINE d == a \o <<e>>
<1> HIDE DEF a, c
<1>7. /\ d \in Seq(S) /\ Len(d) = i
      /\ \A k \in 1 .. i : d[k] = IF k <= i - 1 THEN a[k] ELSE <<e>>[k - (i - 1)]
  BY <1>1, <1>3, <1>5, ConcatProperties
<1> HIDE DEF d
<1>8. /\ d \o c \in Seq(S) /\ Len(d \o c) = n + 1
      /\ \A k \in 1 .. n + 1 : (d \o c)[k] = IF k <= i THEN d[k] ELSE c[k - i]
  <2>1. /\ d \o c \in Seq(S) /\ Len(d \o c) = Len(d) + Len(c)
        /\ \A k \in 1 .. Len(d) + Len(c) :
             (d \o c)[k] = IF k <= Len(d) THEN d[k] ELSE c[k - Len(d)]
    BY <1>4, <1>7, ConcatProperties
  <2>2. Len(d) = i /\ Len(c) = n - i + 1 /\ i + (n - i + 1) = n + 1
    BY <1>1, <1>4, <1>7
  <2> QED
    BY <2>1, <2>2
<1>9. ASSUME NEW k \in 1 .. n + 1
      PROVE  (d \o c)[k] = IF k < i THEN s[k] ELSE IF k = i THEN e ELSE s[k - 1]
  <2>1. CASE k < i
    BY <1>1, <1>3, <1>7, <1>8, <2>1
  <2>2. CASE k = i
    BY <1>1, <1>5, <1>7, <1>8, <2>2
  <2>3. CASE k > i
    <3>1. k - i \in 1 .. n - i + 1 /\ i + (k - i) - 1 = k - 1
      BY <1>1, <2>3
    <3> QED
      BY <1>1, <1>4, <1>8, <2>3, <3>1
  <2>4. k < i \/ k = i \/ k > i
    BY <1>1
  <2> QED
    BY <2>1, <2>2, <2>3, <2>4, Zenon
<1> QED
  BY <1>6, <1>8, <1>9 DEF d, IsInsertion

(* What RemoveAt leaves.                                                   *)
LEMMA Removal ==
  ASSUME NEW S, NEW s \in Seq(S), NEW i \in 1 .. Len(s)
  PROVE  IsRemoval(RemoveAt(s, i), s, i, S)
<1> DEFINE n == Len(s)  a == SubSeq(s, 1, i - 1)  c == SubSeq(s, i + 1, n)
<1>1. n \in Nat /\ i \in Int /\ 1 <= i /\ i <= n
  BY LenProperties
<1>2. \A k \in 1 .. n : s[k] \in S
  BY ElementOfSeq
<1>3. a \in Seq(S) /\ Len(a) = i - 1 /\ \A k \in 1 .. i - 1 : a[k] = s[k]
  <2>1. \A k \in 1 .. i - 1 : s[k] \in S
    BY <1>1, <1>2
  <2> QED
    BY <1>1, <2>1, SubSeqProperties
<1>4. /\ c \in Seq(S) /\ Len(c) = n - i
      /\ \A k \in 1 .. n - i : c[k] = s[i + k]
  <2>1. \A k \in i + 1 .. n : s[k] \in S
    BY <1>1, <1>2
  <2>2. /\ c \in Seq(S) /\ Len(c) = IF i + 1 <= n THEN n - (i + 1) + 1 ELSE 0
        /\ \A k \in 1 .. n - (i + 1) + 1 : c[k] = s[(i + 1) + k - 1]
    BY <1>1, <2>1, SubSeqProperties
  <2> HIDE DEF c
  <2> QED
    BY <1>1, <2>2
<1>5. RemoveAt(s, i) = a \o c
  BY DEF RemoveAt
<1> HIDE DEF a, c
<1>6. /\ a \o c \in Seq(S) /\ Len(a \o c) = n - 1
      /\ \A k \in 1 .. n - 1 : (a \o c)[k] = IF k <= i - 1 THEN a[k] ELSE c[k - (i - 1)]
  <2>1. /\ a \o c \in Seq(S) /\ Len(a \o c) = Len(a) + Len(c)
        /\ \A k \in 1 .. Len(a) + Len(c) :
             (a \o c)[k] = IF k <= Len(a) THEN a[k] ELSE c[k - Len(a)]
    BY <1>3, <1>4, ConcatProperties
  <2>2. Len(a) = i - 1 /\ Len(c) = n - i /\ (i - 1) + (n - i) = n - 1
    BY <1>1, <1>3, <1>4
  <2> QED
    BY <2>1, <2>2
<1>7. ASSUME NEW k \in 1 .. n - 1
      PROVE  (a \o c)[k] = IF k < i THEN s[k] ELSE s[k + 1]
  <2>1. CASE k < i
    BY <1>1, <1>3, <1>6, <2>1
  <2>2. CASE k >= i
    <3>1. k - (i - 1) \in 1 .. n - i /\ i + (k - (i - 1)) = k + 1
      BY <1>1, <2>2
    <3> QED
      BY <1>1, <1>4, <1>6, <2>2, <3>1
  <2>3. k < i \/ k >= i
    BY <1>1
  <2> QED
    BY <2>1, <2>2, <2>3, Zenon
<1> QED
  BY <1>5, <1>6, <1>7 DEF IsRemoval

(* What ReplaceAt changes.                                                 *)
LEMMA Replacement ==
  ASSUME NEW S, NEW s \in Seq(S), NEW i \in 1 .. Len(s), NEW e \in S
  PROVE  IsReplacement(ReplaceAt(s, i, e), s, i, e, S)
BY ExceptSeq DEF ReplaceAt, IsReplacement

(* Joining two neighbours that touch keeps the slots and the order.        *)
LEMMA JoinedKeeps ==
  ASSUME NEW f \in Seq(Runs), Sorted(f), NEW i \in Nat
  PROVE  /\ Joined(f, i) \in Seq(Runs)
         /\ Sorted(Joined(f, i))
         /\ SlotsIn(Joined(f, i)) = SlotsIn(f)
         /\ ~Touches(f, i) => Joined(f, i) = f
         /\ Touches(f, i) =>
              /\ Len(Joined(f, i)) = Len(f) - 1
              /\ \A k \in Nat : Touches(Joined(f, i), k) =>
                   IF k < i THEN Touches(f, k) ELSE Touches(f, k + 1)
<1>1. CASE ~Touches(f, i)
  <2>1. Joined(f, i) = f
    BY <1>1 DEF Joined, Touches, End
  <2> QED
    BY <1>1, <2>1
<1>2. CASE Touches(f, i)
  <2> DEFINE n == Len(f)
             big == Run(f[i].start, f[i].length + f[i + 1].length)
             less == RemoveAt(f, i + 1)
             j == ReplaceAt(less, i, big)
  <2>1. i \in 1 .. n - 1 /\ n \in Nat /\ f[i].start + f[i].length = f[i + 1].start
    BY <1>2 DEF Touches, End
  <2>2. Joined(f, i) = j
    BY <2>1 DEF Joined
  <2>3. \A k \in 1 .. n : f[k] \in Runs /\ f[k].start \in Nat /\ f[k].length \in Nat \ {0}
    <3> SUFFICES ASSUME NEW k \in 1 .. n
                 PROVE  f[k] \in Runs /\ f[k].start \in Nat /\ f[k].length \in Nat \ {0}
      OBVIOUS
    <3>1. f[k] \in Runs
      BY ElementOfSeq
    <3> QED
      BY <3>1 DEF Runs
  <2>4. /\ big \in Runs /\ big.start = f[i].start /\ End(big) = End(f[i + 1])
    BY <2>1, <2>3 DEF Run, Runs, End
  <2>5. /\ less \in Seq(Runs) /\ Len(less) = n - 1
        /\ \A k \in 1 .. n - 1 : less[k] = IF k < i + 1 THEN f[k] ELSE f[k + 1]
    <3> DEFINE next == i + 1
    <3>1. next \in 1 .. Len(f)
      BY <2>1
    <3> HIDE DEF next
    <3>2. IsRemoval(RemoveAt(f, next), f, next, Runs)
      BY <3>1, Removal
    <3> QED
      BY <3>2 DEF IsRemoval, next
  <2> HIDE DEF big, less
  <2>6. /\ j \in Seq(Runs) /\ Len(j) = n - 1
        /\ \A k \in 1 .. n - 1 : j[k] = IF k = i THEN big ELSE less[k]
    <3>1. i \in 1 .. Len(less) /\ big \in Runs
      BY <2>1, <2>4, <2>5
    <3>2. less \in Seq(Runs)
      BY <2>5
    <3> HIDE DEF j
    <3>3. IsReplacement(j, less, i, big, Runs)
      BY <3>1, <3>2, Replacement DEF j
    <3> QED
      BY <2>5, <3>3 DEF IsReplacement
  <2> HIDE DEF j
  <2>7. \A k \in 1 .. n - 1 :
          /\ k \in 1 .. n /\ k + 1 \in 1 .. n
          /\ j[k].start = IF k <= i THEN f[k].start ELSE f[k + 1].start
          /\ End(j[k]) = IF k < i THEN End(f[k]) ELSE End(f[k + 1])
    <3> SUFFICES ASSUME NEW k \in 1 .. n - 1
                 PROVE  /\ k \in 1 .. n /\ k + 1 \in 1 .. n
                        /\ j[k].start = IF k <= i THEN f[k].start ELSE f[k + 1].start
                        /\ End(j[k]) = IF k < i THEN End(f[k]) ELSE End(f[k + 1])
      OBVIOUS
    <3>1. CASE k < i
      <4>1. j[k] = f[k]
        BY <2>1, <2>5, <2>6, <3>1
      <4> QED
        BY <2>1, <3>1, <4>1
    <3>2. CASE k = i
      BY <2>1, <2>4, <2>6, <3>2
    <3>3. CASE k > i
      <4>1. j[k] = f[k + 1]
        BY <2>1, <2>5, <2>6, <3>3
      <4> QED
        BY <2>1, <3>3, <4>1
    <3> QED
      BY <2>1, <3>1, <3>2, <3>3
  <2>8. \A a, b \in 1 .. n : a < b => End(f[a]) <= f[b].start
    BY DEF Sorted
  <2>9. \A k \in 1 .. n : /\ f[k].start \in Nat /\ End(f[k]) \in Nat
                          /\ f[k].start < End(f[k])
    BY <2>3 DEF End
  <2>10. Sorted(j)
    <3> SUFFICES ASSUME NEW a \in 1 .. n - 1, NEW b \in 1 .. n - 1, a < b
                 PROVE  End(j[a]) <= j[b].start
      BY <2>6 DEF Sorted
    <3>1. a \in 1 .. n /\ b \in 1 .. n /\ a + 1 \in 1 .. n /\ b + 1 \in 1 .. n
      BY <2>1
    <3>2. CASE a < i
      BY <2>1, <2>7, <2>8, <3>1, <3>2
    <3>3. CASE a >= i
      BY <2>1, <2>7, <2>8, <3>1, <3>3
    <3> QED
      BY <2>1, <3>2, <3>3
  <2>11. SlotsIn(j) = SlotsIn(f)
    <3>1. ASSUME NEW x \in SlotsIn(j)
          PROVE  x \in SlotsIn(f)
      <4>1. PICK k \in 1 .. n - 1 : x \in Nat /\ j[k].start <= x /\ x < End(j[k])
        BY <2>6, InSlots
      <4>2. CASE k < i
        BY <2>1, <2>7, <4>1, <4>2, InSlots
      <4>3. CASE k > i
        BY <2>1, <2>7, <4>1, <4>3, InSlots
      <4>4. CASE k = i
        <5>1. f[i].start <= x /\ x < End(f[i + 1]) /\ End(f[i]) = f[i + 1].start
          BY <2>1, <2>7, <4>1, <4>4 DEF End
        <5>2. i \in 1 .. n /\ i + 1 \in 1 .. n
          BY <2>1
        <5>3. x < End(f[i]) \/ f[i + 1].start <= x
          BY <2>9, <4>1, <5>1, <5>2
        <5> QED
          BY <4>1, <5>1, <5>2, <5>3, InSlots
      <4> QED
        BY <2>1, <4>2, <4>3, <4>4
    <3>2. ASSUME NEW x \in SlotsIn(f)
          PROVE  x \in SlotsIn(j)
      <4>1. PICK k \in 1 .. n : x \in Nat /\ f[k].start <= x /\ x < End(f[k])
        BY InSlots
      <4>2. CASE k < i
        <5>1. k \in 1 .. n - 1 /\ j[k].start = f[k].start /\ End(j[k]) = End(f[k])
          BY <2>1, <2>7, <4>2
        <5> QED
          BY <2>6, <4>1, <5>1, InSlots
      <4>3. CASE k > i + 1
        <5>1. /\ k - 1 \in 1 .. n - 1 /\ (k - 1) + 1 = k
              /\ j[k - 1].start = f[k].start /\ End(j[k - 1]) = End(f[k])
          BY <2>1, <2>7, <4>3
        <5> QED
          BY <2>6, <4>1, <5>1, InSlots
      <4>4. CASE k = i \/ k = i + 1
        <5>1. /\ i \in 1 .. n - 1 /\ i \in 1 .. n /\ i + 1 \in 1 .. n
              /\ j[i].start = f[i].start /\ End(j[i]) = End(f[i + 1])
          BY <2>1, <2>7
        <5>2. End(f[i]) = f[i + 1].start
          BY <2>1 DEF End
        <5>3. j[i].start <= x /\ x < End(j[i])
          BY <2>9, <4>1, <4>4, <5>1, <5>2
        <5> QED
          BY <2>6, <4>1, <5>1, <5>3, InSlots
      <4> QED
        BY <2>1, <4>2, <4>3, <4>4
    <3> QED
      BY <3>1, <3>2
  <2>12. ASSUME NEW k \in Nat, Touches(j, k)
         PROVE  IF k < i THEN Touches(f, k) ELSE Touches(f, k + 1)
    <3>1. k \in 1 .. n - 2 /\ k \in 1 .. n - 1 /\ k + 1 \in 1 .. n - 1
          /\ End(j[k]) = j[k + 1].start
      BY <2>1, <2>6, <2>12 DEF Touches
    <3>2. CASE k < i
      <4>1. k + 1 <= i
        BY <2>1, <3>2
      <4>2. End(f[k]) = f[k + 1].start
        BY <2>7, <3>1, <3>2, <4>1
      <4> QED
        BY <3>1, <3>2, <4>2 DEF Touches
    <3>3. CASE ~(k < i)
      <4>1. ~(k + 1 <= i) /\ k + 1 \in 1 .. n - 1
        BY <2>1, <3>1, <3>3
      <4>2. End(f[k + 1]) = f[(k + 1) + 1].start
        BY <2>7, <3>1, <3>3, <4>1
      <4> QED
        BY <3>3, <4>1, <4>2 DEF Touches
    <3> QED
      BY <3>2, <3>3
  <2> QED
    BY <1>2, <2>2, <2>6, <2>10, <2>11, <2>12
<1> QED
  BY <1>1, <1>2

(* A list whose only neighbours that touch are joined is canonical.        *)
LEMMA LastJoin ==
  ASSUME NEW f \in Seq(Runs), Sorted(f), NEW i \in Nat,
         \A k \in Nat : Touches(f, k) => k = i
  PROVE  Canonical(Joined(f, i))
<1>1. /\ Joined(f, i) \in Seq(Runs) /\ Sorted(Joined(f, i))
      /\ ~Touches(f, i) => Joined(f, i) = f
      /\ Touches(f, i) => \A k \in Nat : Touches(Joined(f, i), k) =>
           IF k < i THEN Touches(f, k) ELSE Touches(f, k + 1)
  BY JoinedKeeps
<1>2. ASSUME NEW k \in Nat, Touches(Joined(f, i), k)
      PROVE  FALSE
  <2>1. CASE ~Touches(f, i)
    <3>1. Touches(f, k)
      BY <1>1, <1>2, <2>1
    <3> QED
      BY <2>1, <3>1
  <2>2. CASE Touches(f, i)
    <3>1. IF k < i THEN Touches(f, k) ELSE Touches(f, k + 1)
      BY <1>1, <1>2, <2>2
    <3>2. CASE k < i
      <4>1. Touches(f, k)
        BY <3>1, <3>2
      <4> QED
        BY <3>2, <4>1
    <3>3. CASE ~(k < i)
      <4>1. Touches(f, k + 1) /\ k + 1 \in Nat /\ k + 1 # i
        BY <3>1, <3>3
      <4> QED
        BY <4>1
    <3> QED
      BY <3>2, <3>3
  <2> QED
    BY <2>1, <2>2
<1> QED
  BY <1>1, <1>2 DEF Canonical

(* Runs without a common slot lie one after the other.                     *)
LEMMA Apart ==
  ASSUME NEW free \in Seq(Runs), NEW run \in Runs, SlotsOf(run) \cap SlotsIn(free) = {},
         NEW i \in 1 .. Len(free)
  PROVE  End(free[i]) <= run.start \/ End(run) <= free[i].start
<1>1. free[i] \in Runs
  BY ElementOfSeq
<1>2. /\ free[i].start \in Nat /\ End(free[i]) \in Nat /\ free[i].start < End(free[i])
      /\ run.start \in Nat /\ End(run) \in Nat /\ run.start < End(run)
  BY <1>1 DEF Runs, End
<1>3. \A x : x \in Nat /\ run.start <= x /\ x < End(run) =>
           ~(free[i].start <= x /\ x < End(free[i]))
  BY InSlots, InRun
<1>4. ~(free[i].start <= run.start /\ run.start < End(free[i]))
  BY <1>2, <1>3
<1>5. ~(run.start <= free[i].start /\ free[i].start < End(run))
  BY <1>2, <1>3
<1> QED
  BY <1>2, <1>4, <1>5

(* A run put at its place in the list can touch its neighbours only.       *)
LEMMA InsertKeeps ==
  ASSUME NEW f, Canonical(f), NEW run \in Runs, NEW i \in 1 .. Len(f) + 1,
         \A k \in 1 .. Len(f) : IF k < i THEN End(f[k]) <= run.start
                                       ELSE End(run) <= f[k].start
  PROVE  /\ InsertAt(f, i, run) \in Seq(Runs)
         /\ Sorted(InsertAt(f, i, run))
         /\ Len(InsertAt(f, i, run)) = Len(f) + 1
         /\ SlotsIn(InsertAt(f, i, run)) = SlotsIn(f) \cup SlotsOf(run)
         /\ \A k \in Nat : Touches(InsertAt(f, i, run), k) => k = i - 1 \/ k = i
<1> DEFINE n == Len(f)
           j == InsertAt(f, i, run)
<1>1. f \in Seq(Runs) /\ n \in Nat /\ Sorted(f) /\ \A k \in Nat : ~Touches(f, k)
  BY DEF Canonical
<1>2. /\ j \in Seq(Runs) /\ Len(j) = n + 1
      /\ \A k \in 1 .. n + 1 : j[k] = IF k < i THEN f[k] ELSE IF k = i THEN run ELSE f[k - 1]
  <2>1. IsInsertion(j, f, i, run, Runs)
    BY <1>1, Insertion
  <2> QED
    BY <2>1 DEF IsInsertion
<1> HIDE DEF j
<1>3. \A k \in 1 .. n : f[k].start \in Nat /\ End(f[k]) \in Nat /\ f[k].start < End(f[k])
  <2> SUFFICES ASSUME NEW k \in 1 .. n
               PROVE  f[k].start \in Nat /\ End(f[k]) \in Nat /\ f[k].start < End(f[k])
    OBVIOUS
  <2>1. f[k] \in Runs
    BY <1>1, ElementOfSeq
  <2> QED
    BY <2>1 DEF Runs, End
<1>4. run.start \in Nat /\ End(run) \in Nat /\ run.start < End(run)
  BY DEF Runs, End
<1>5. \A a, b \in 1 .. n : a < b => End(f[a]) <= f[b].start
  BY <1>1 DEF Sorted
<1>6. \A k \in 1 .. n : /\ k \in 1 .. n + 1 /\ k + 1 \in 1 .. n + 1
                        /\ k < i => j[k] = f[k]
                        /\ k >= i => j[k + 1] = f[k]
  BY <1>1, <1>2
<1>7. j[i] = run
  BY <1>1, <1>2
<1>8. \A k \in 1 .. n + 1 : k = i \/ (k < i /\ k \in 1 .. n) \/ (k > i /\ k - 1 \in 1 .. n)
  BY <1>1
<1>9. Sorted(j)
  <2> SUFFICES ASSUME NEW a \in 1 .. n + 1, NEW b \in 1 .. n + 1, a < b
               PROVE  End(j[a]) <= j[b].start
    BY <1>2 DEF Sorted
  <2>1. CASE a = i
    <3>1. b - 1 \in 1 .. n /\ ~(b - 1 < i) /\ j[b] = f[b - 1]
      BY <1>1, <1>2, <2>1
    <3> QED
      BY <1>7, <2>1, <3>1
  <2>2. CASE b = i
    <3>1. a \in 1 .. n /\ a < i /\ j[a] = f[a]
      BY <1>1, <1>2, <2>2
    <3> QED
      BY <1>7, <2>2, <3>1
  <2>3. CASE b < i
    <3>1. a \in 1 .. n /\ b \in 1 .. n /\ j[a] = f[a] /\ j[b] = f[b]
      BY <1>1, <1>2, <2>3
    <3> QED
      BY <1>5, <3>1
  <2>4. CASE a > i
    <3>1. /\ a - 1 \in 1 .. n /\ b - 1 \in 1 .. n /\ a - 1 < b - 1
          /\ j[a] = f[a - 1] /\ j[b] = f[b - 1]
      BY <1>1, <1>2, <2>4
    <3> QED
      BY <1>5, <3>1
  <2>5. CASE a < i /\ i < b
    <3>1. a \in 1 .. n /\ b - 1 \in 1 .. n /\ a < i /\ ~(b - 1 < i)
          /\ j[a] = f[a] /\ j[b] = f[b - 1]
      BY <1>1, <1>2, <2>5
    <3>2. End(f[a]) <= run.start /\ End(run) <= f[b - 1].start
      BY <3>1
    <3> QED
      BY <1>3, <1>4, <3>1, <3>2
  <2> QED
    BY <1>1, <2>1, <2>2, <2>3, <2>4, <2>5
<1>10. SlotsIn(j) = SlotsIn(f) \cup SlotsOf(run)
  <2>1. ASSUME NEW x \in SlotsIn(j)
        PROVE  x \in SlotsIn(f) \cup SlotsOf(run)
    <3>1. PICK k \in 1 .. n + 1 : x \in Nat /\ j[k].start <= x /\ x < End(j[k])
      BY <1>2, InSlots
    <3>2. CASE k = i
      BY <1>7, <3>1, <3>2, InRun
    <3>3. CASE k < i /\ k \in 1 .. n
      BY <1>1, <1>6, <3>1, <3>3, InSlots
    <3>4. CASE k > i /\ k - 1 \in 1 .. n
      <4>1. j[k] = f[k - 1]
        BY <1>2, <3>4
      <4> QED
        BY <1>1, <3>1, <3>4, <4>1, InSlots
    <3> QED
      BY <1>8, <3>2, <3>3, <3>4
  <2>2. ASSUME NEW x \in SlotsIn(f)
        PROVE  x \in SlotsIn(j)
    <3>1. PICK k \in 1 .. n : x \in Nat /\ f[k].start <= x /\ x < End(f[k])
      BY <1>1, InSlots
    <3>2. CASE k < i
      BY <1>2, <1>6, <3>1, <3>2, InSlots
    <3>3. CASE k >= i
      BY <1>2, <1>6, <3>1, <3>3, InSlots
    <3> QED
      BY <1>1, <3>2, <3>3
  <2>3. ASSUME NEW x \in SlotsOf(run)
        PROVE  x \in SlotsIn(j)
    <3>1. x \in Nat /\ run.start <= x /\ x < End(run)
      BY <2>3, InRun
    <3>2. i \in 1 .. Len(j)
      BY <1>1, <1>2
    <3> QED
      BY <1>2, <1>7, <3>1, <3>2, InSlots
  <2> QED
    BY <2>1, <2>2, <2>3
<1>11. ASSUME NEW k \in Nat, Touches(j, k)
       PROVE  k = i - 1 \/ k = i
  <2>1. k \in 1 .. n /\ End(j[k]) = j[k + 1].start
    BY <1>1, <1>2, <1>11 DEF Touches
  <2>2. CASE k < i - 1
    <3>1. /\ k \in 1 .. n - 1 /\ k + 1 \in 1 .. n
          /\ j[k] = f[k] /\ j[k + 1] = f[k + 1]
      BY <1>1, <1>2, <2>1, <2>2
    <3>2. Touches(f, k)
      BY <2>1, <3>1 DEF Touches
    <3> QED
      BY <1>1, <3>2
  <2>3. CASE k > i
    <3>1. /\ k - 1 \in 1 .. n - 1 /\ k - 1 \in Nat /\ (k - 1) + 1 = k
          /\ j[k] = f[k - 1] /\ j[k + 1] = f[k]
      BY <1>1, <1>2, <2>1, <2>3
    <3>2. Touches(f, k - 1)
      BY <2>1, <3>1 DEF Touches
    <3> QED
      BY <1>1, <3>1, <3>2
  <2> QED
    BY <1>1, <2>2, <2>3
<1> QED
  BY <1>2, <1>9, <1>10, <1>11 DEF j

(* #releaseRun: the run is part of the list, which stays sorted and joined.*)
LEMMA ReleaseRun ==
  ASSUME NEW free, Canonical(free), NEW run \in Runs, SlotsOf(run) \cap SlotsIn(free) = {}
  PROVE  /\ Canonical(releaseRun(free, run))
         /\ SlotsIn(releaseRun(free, run)) = SlotsIn(free) \cup SlotsOf(run)
<1> DEFINE later == SelectInSeq(free, LAMBDA r : r.start > run.start)
           index == IF later = 0 THEN Len(free) + 1 ELSE later
           inserted == InsertAt(free, index, run)
           joined == Joined(inserted, index - 1)
           I == {i \in 1 .. Len(free) : free[i].start > run.start}
<1>1. free \in Seq(Runs) /\ Len(free) \in Nat /\ Sorted(free)
  BY DEF Canonical
<1>2. \A k \in 1 .. Len(free) :
        /\ free[k].start \in Nat /\ End(free[k]) \in Nat /\ free[k].start < End(free[k])
        /\ End(free[k]) <= run.start \/ End(run) <= free[k].start
  <2> SUFFICES ASSUME NEW k \in 1 .. Len(free)
               PROVE  /\ free[k].start \in Nat /\ End(free[k]) \in Nat
                      /\ free[k].start < End(free[k])
                      /\ End(free[k]) <= run.start \/ End(run) <= free[k].start
    OBVIOUS
  <2>1. free[k] \in Runs
    BY <1>1, ElementOfSeq
  <2>2. End(free[k]) <= run.start \/ End(run) <= free[k].start
    BY <1>1, Apart
  <2> QED
    BY <2>1, <2>2 DEF Runs, End
<1>3. run.start \in Nat /\ End(run) \in Nat /\ run.start < End(run)
  BY DEF Runs, End
<1>4. /\ index \in 1 .. Len(free) + 1
      /\ \A k \in 1 .. Len(free) : IF k < index THEN ~(free[k].start > run.start)
                                              ELSE free[k].start > run.start
  <2>1. CASE I = {}
    <3>1. later = 0
      BY <2>1 DEF SelectInSeq
    <3>2. index = Len(free) + 1
      BY <3>1
    <3>3. \A k \in 1 .. Len(free) : ~(free[k].start > run.start)
      BY <2>1
    <3> HIDE DEF index
    <3> QED
      BY <1>1, <3>2, <3>3
  <2>2. CASE I # {}
    <3>1. later = Min(I)
      BY <2>2 DEF SelectInSeq
    <3>2. \E x \in I : \A y \in I : x <= y
      <4>1. I \in SUBSET Nat
        OBVIOUS
      <4>2. PICK t \in I : TRUE
        BY <2>2
      <4> HIDE DEF I
      <4> QED
        BY <4>1, <4>2, LeastNat
    <3>3. Min(I) \in I /\ \A y \in I : Min(I) <= y
      <4> HIDE DEF I
      <4> QED
        BY <3>2, Zenon DEF Min
    <3> HIDE DEF later
    <3>4. later \in 1 .. Len(free) /\ free[later].start > run.start
          /\ \A k \in 1 .. Len(free) : free[k].start > run.start => later <= k
      BY <3>1, <3>3
    <3>5. index = later
      BY <3>4
    <3> HIDE DEF index
    <3>6. ASSUME NEW k \in 1 .. Len(free), ~(k < index)
          PROVE  free[k].start > run.start
      <4>1. CASE k = index
        BY <3>4, <3>5, <4>1
      <4>2. CASE k > index
        <5>1. End(free[index]) <= free[k].start
          BY <1>1, <3>4, <3>5, <4>2 DEF Sorted
        <5> QED
          BY <1>2, <1>3, <3>4, <3>5, <5>1
      <4> QED
        BY <3>4, <3>5, <3>6, <4>1, <4>2
    <3>7. \A k \in 1 .. Len(free) : k < index => ~(free[k].start > run.start)
      BY <1>1, <3>4, <3>5
    <3> QED
      BY <1>1, <3>4, <3>5, <3>6, <3>7
  <2> QED
    BY <2>1, <2>2
<1> HIDE DEF index
<1>5. \A k \in 1 .. Len(free) : IF k < index THEN End(free[k]) <= run.start
                                          ELSE End(run) <= free[k].start
  BY <1>2, <1>3, <1>4
<1>6. /\ inserted \in Seq(Runs) /\ Sorted(inserted)
      /\ SlotsIn(inserted) = SlotsIn(free) \cup SlotsOf(run)
      /\ \A k \in Nat : Touches(inserted, k) => k = index - 1 \/ k = index
  BY <1>4, <1>5, InsertKeeps
<1> HIDE DEF inserted
<1>7. index - 1 \in Nat /\ index \in Nat
  BY <1>1, <1>4
<1>8. /\ joined \in Seq(Runs) /\ Sorted(joined) /\ SlotsIn(joined) = SlotsIn(inserted)
      /\ ~Touches(inserted, index - 1) => joined = inserted
      /\ Touches(inserted, index - 1) =>
           /\ Len(joined) = Len(inserted) - 1
           /\ \A k \in Nat : Touches(joined, k) =>
                IF k < index - 1 THEN Touches(inserted, k) ELSE Touches(inserted, k + 1)
  BY <1>6, <1>7, JoinedKeeps
<1> HIDE DEF joined
<1>9. releaseRun(free, run) =
        Joined(joined, IF Len(joined) < Len(inserted) THEN index - 1 ELSE index)
  BY DEF releaseRun, joined, inserted, index
<1>10. CASE Touches(inserted, index - 1)
  <2>1. Len(joined) < Len(inserted)
    BY <1>6, <1>8, <1>10
  <2>2. releaseRun(free, run) = Joined(joined, index - 1)
    BY <1>9, <2>1
  <2>3. ASSUME NEW k \in Nat, Touches(joined, k)
        PROVE  k = index - 1
    <3>1. IF k < index - 1 THEN Touches(inserted, k) ELSE Touches(inserted, k + 1)
      BY <1>8, <1>10, <2>3
    <3>2. CASE k < index - 1
      <4>1. Touches(inserted, k)
        BY <3>1, <3>2
      <4>2. k = index - 1 \/ k = index
        BY <1>6, <4>1
      <4> QED
        BY <1>7, <3>2, <4>2
    <3>3. CASE ~(k < index - 1)
      <4>1. Touches(inserted, k + 1) /\ k + 1 \in Nat
        BY <3>1, <3>3
      <4>2. k + 1 = index - 1 \/ k + 1 = index
        BY <1>6, <4>1
      <4> QED
        BY <1>7, <3>3, <4>2
    <3> QED
      BY <3>2, <3>3
  <2>4. Canonical(Joined(joined, index - 1))
    BY <1>7, <1>8, <2>3, LastJoin
  <2>5. SlotsIn(Joined(joined, index - 1)) = SlotsIn(joined)
    BY <1>7, <1>8, JoinedKeeps
  <2> QED
    BY <1>6, <1>8, <2>2, <2>4, <2>5
<1>11. CASE ~Touches(inserted, index - 1)
  <2>1. joined = inserted /\ ~(Len(inserted) < Len(inserted))
    BY <1>6, <1>8, <1>11
  <2>2. releaseRun(free, run) = Joined(inserted, index)
    BY <1>9, <2>1
  <2>3. \A k \in Nat : Touches(inserted, k) => k = index
    BY <1>6, <1>11
  <2>4. Canonical(Joined(inserted, index))
    BY <1>6, <1>7, <2>3, LastJoin
  <2>5. SlotsIn(Joined(inserted, index)) = SlotsIn(inserted)
    BY <1>6, <1>7, JoinedKeeps
  <2> QED
    BY <1>6, <2>2, <2>4, <2>5
<1> QED
  BY <1>10, <1>11

(* Between any two runs of the list there is a gap.                        *)
Gapped(free) == \A a, b \in 1 .. Len(free) : a < b => End(free[a]) < free[b].start

(* Canonical lists are those with a gap between any two runs.              *)
LEMMA CanonicalGapped ==
  ASSUME NEW free \in Seq(Runs)
  PROVE  Canonical(free) <=> Gapped(free)
<1> DEFINE n == Len(free)
<1>1. n \in Nat
  OBVIOUS
<1>2. \A k \in 1 .. n : /\ free[k].start \in Nat /\ End(free[k]) \in Nat
                        /\ free[k].start < End(free[k])
  <2> SUFFICES ASSUME NEW k \in 1 .. n
               PROVE  /\ free[k].start \in Nat /\ End(free[k]) \in Nat
                      /\ free[k].start < End(free[k])
    OBVIOUS
  <2>1. free[k] \in Runs
    BY ElementOfSeq
  <2> QED
    BY <2>1 DEF Runs, End
<1>3. ASSUME Canonical(free)
      PROVE  Gapped(free)
  <2> SUFFICES ASSUME NEW a \in 1 .. n, NEW b \in 1 .. n, a < b
               PROVE  End(free[a]) < free[b].start
    BY DEF Gapped
  <2>1. \A k, m \in 1 .. n : k < m => End(free[k]) <= free[m].start
    BY <1>3 DEF Canonical, Sorted
  <2>2. CASE b = a + 1
    <3>1. a \in Nat /\ a \in 1 .. n - 1
      BY <1>1, <2>2
    <3>2. End(free[a]) # free[a + 1].start
      BY <1>3, <3>1 DEF Canonical, Touches
    <3>3. End(free[a]) <= free[b].start
      BY <2>1
    <3> QED
      BY <1>2, <2>2, <3>2, <3>3
  <2>3. CASE b # a + 1
    <3>1. a + 1 \in 1 .. n /\ a < a + 1 /\ a + 1 < b
      BY <1>1, <2>3
    <3>2. End(free[a]) <= free[a + 1].start /\ End(free[a + 1]) <= free[b].start
      BY <2>1, <3>1
    <3> QED
      BY <1>2, <3>1, <3>2
  <2> QED
    BY <2>2, <2>3
<1>4. ASSUME Gapped(free)
      PROVE  Canonical(free)
  <2>1. Sorted(free)
    BY <1>2, <1>4 DEF Sorted, Gapped
  <2>2. ASSUME NEW k \in Nat, Touches(free, k)
        PROVE  FALSE
    <3>1. k \in 1 .. n /\ k + 1 \in 1 .. n /\ k < k + 1 /\ End(free[k]) = free[k + 1].start
      BY <1>1, <2>2 DEF Touches
    <3> QED
      BY <1>2, <1>4, <3>1 DEF Gapped
  <2> QED
    BY <2>1, <2>2 DEF Canonical
<1> QED
  BY <1>3, <1>4

(* #allocate takes the first slots of a run that is long enough.           *)
TakenFrom(free, i, n) ==
  IF free[i].length = n THEN RemoveAt(free, i)
  ELSE ReplaceAt(free, i, Run(free[i].start + n, free[i].length - n))

(* #allocate takes the front of a free run: the list stays canonical and   *)
(* loses just those slots.                                                 *)
LEMMA TakeRun ==
  ASSUME NEW free, Canonical(free), NEW i \in 1 .. Len(free), NEW n \in Nat \ {0},
         free[i].length >= n
  PROVE  /\ Canonical(TakenFrom(free, i, n))
         /\ SlotsIn(TakenFrom(free, i, n)) = SlotsIn(free) \ RunSlots(free[i].start, n)
         /\ RunSlots(free[i].start, n) \subseteq SlotsIn(free)
         /\ free[i].start \in Nat
<1> DEFINE m == Len(free)
           rest == TakenFrom(free, i, n)
<1>1. free \in Seq(Runs) /\ m \in Nat /\ Gapped(free)
  BY CanonicalGapped DEF Canonical
<1>2. \A k \in 1 .. m : free[k] \in Runs
  BY <1>1, ElementOfSeq
<1>3. \A k \in 1 .. m : /\ free[k].start \in Nat /\ End(free[k]) \in Nat
                        /\ free[k].start < End(free[k])
                        /\ End(free[k]) = free[k].start + free[k].length
  BY <1>2 DEF Runs, End
<1>4. free[i].start \in Nat /\ free[i].length \in Nat \ {0}
  BY <1>2 DEF Runs
<1>5. \A x : x \in RunSlots(free[i].start, n) <=>
              x \in Nat /\ free[i].start <= x /\ x < free[i].start + n
  BY <1>4 DEF RunSlots
<1>6. \A a, b \in 1 .. m : a < b => End(free[a]) < free[b].start
  BY <1>1 DEF Gapped
<1>7. \A x : x \in SlotsIn(free) <=>
              x \in Nat /\ \E k \in 1 .. m : free[k].start <= x /\ x < End(free[k])
  BY <1>1, InSlots
<1>8. RunSlots(free[i].start, n) \subseteq SlotsIn(free)
  <2> SUFFICES ASSUME NEW x \in RunSlots(free[i].start, n)
               PROVE  x \in SlotsIn(free)
    OBVIOUS
  <2>1. x \in Nat /\ free[i].start <= x /\ x < End(free[i])
    BY <1>3, <1>4, <1>5
  <2> QED
    BY <1>7, <2>1
<1>9. CASE free[i].length = n
  <2>1. rest = RemoveAt(free, i)
    BY <1>9 DEF TakenFrom
  <2> HIDE DEF rest
  <2>2. /\ rest \in Seq(Runs) /\ Len(rest) = m - 1
        /\ \A k \in 1 .. m - 1 : rest[k] = IF k < i THEN free[k] ELSE free[k + 1]
    <3>1. IsRemoval(RemoveAt(free, i), free, i, Runs)
      BY <1>1, Removal
    <3> QED
      BY <2>1, <3>1 DEF IsRemoval
  <2>3. \A k \in 1 .. m - 1 : k \in 1 .. m /\ k + 1 \in 1 .. m
    BY <1>1
  <2>4. Gapped(rest)
    <3> SUFFICES ASSUME NEW a \in 1 .. m - 1, NEW b \in 1 .. m - 1, a < b
                 PROVE  End(rest[a]) < rest[b].start
      BY <2>2 DEF Gapped
    <3>1. \E c, d \in 1 .. m : c < d /\ rest[a] = free[c] /\ rest[b] = free[d]
      <4>1. CASE b < i
        <5>1. a < i
          BY <4>1
        <5>2. rest[a] = free[a] /\ rest[b] = free[b]
          BY <2>2, <4>1, <5>1
        <5> QED
          BY <2>3, <5>2
      <4>2. CASE a < i /\ ~(b < i)
        <5>1. rest[a] = free[a] /\ rest[b] = free[b + 1] /\ a < b + 1
          BY <2>2, <4>2
        <5> QED
          BY <2>3, <5>1
      <4>3. CASE ~(a < i)
        <5>1. ~(b < i) /\ a + 1 < b + 1
          BY <4>3
        <5>2. rest[a] = free[a + 1] /\ rest[b] = free[b + 1]
          BY <2>2, <4>3, <5>1
        <5> QED
          BY <2>3, <5>1, <5>2
      <4> QED
        BY <4>1, <4>2, <4>3
    <3> QED
      BY <1>6, <3>1
  <2>5. ASSUME NEW x \in SlotsIn(rest)
        PROVE  x \in SlotsIn(free) \ RunSlots(free[i].start, n)
    <3>1. PICK k \in 1 .. m - 1 : x \in Nat /\ rest[k].start <= x /\ x < End(rest[k])
      BY <2>2, InSlots
    <3>2. PICK c \in 1 .. m : c # i /\ rest[k] = free[c]
      <4>1. CASE k < i
        BY <2>2, <2>3, <4>1
      <4>2. CASE ~(k < i)
        <5>1. k + 1 # i
          BY <4>2
        <5> QED
          BY <2>2, <2>3, <4>2, <5>1
      <4> QED
        BY <4>1, <4>2
    <3>3. x \in SlotsIn(free)
      BY <1>7, <3>1, <3>2
    <3>4. c < i \/ i < c
      BY <3>2
    <3>5. ~(free[i].start <= x /\ x < End(free[i]))
      <4>1. CASE c < i
        BY <1>3, <1>6, <3>1, <3>2, <4>1
      <4>2. CASE i < c
        BY <1>3, <1>6, <3>1, <3>2, <4>2
      <4> QED
        BY <3>4, <4>1, <4>2
    <3>6. x \notin RunSlots(free[i].start, n)
      BY <1>3, <1>5, <1>9, <3>5
    <3> QED
      BY <3>3, <3>6
  <2>6. ASSUME NEW x \in SlotsIn(free) \ RunSlots(free[i].start, n)
        PROVE  x \in SlotsIn(rest)
    <3>1. PICK k \in 1 .. m : x \in Nat /\ free[k].start <= x /\ x < End(free[k])
      BY <1>7
    <3>2. k # i
      BY <1>3, <1>5, <1>9, <2>6, <3>1
    <3>3. CASE k < i
      <4>1. k \in 1 .. m - 1 /\ rest[k] = free[k]
        BY <1>1, <2>2, <3>3
      <4> QED
        BY <2>2, <3>1, <4>1, InSlots
    <3>4. CASE k > i
      <4>1. k - 1 \in 1 .. m - 1 /\ ~(k - 1 < i) /\ (k - 1) + 1 = k
        BY <1>1, <3>4
      <4>2. rest[k - 1] = free[k]
        BY <2>2, <4>1
      <4> QED
        BY <2>2, <3>1, <4>1, <4>2, InSlots
    <3> QED
      BY <3>2, <3>3, <3>4
  <2>7. Canonical(rest)
    BY <2>2, <2>4, CanonicalGapped
  <2> QED
    BY <1>4, <1>8, <2>5, <2>6, <2>7 DEF rest
<1>10. CASE free[i].length # n
  <2> DEFINE left == Run(free[i].start + n, free[i].length - n)
  <2>1. rest = ReplaceAt(free, i, left)
    BY <1>10 DEF TakenFrom
  <2>2. left \in Runs /\ left.start = free[i].start + n /\ End(left) = End(free[i])
    <3>1. left = [start |-> free[i].start + n, length |-> free[i].length - n]
      BY DEF Run
    <3>2. free[i].start + n \in Nat /\ free[i].length - n \in Nat \ {0}
      BY <1>4, <1>10
    <3>3. left \in Runs
      BY <3>1, <3>2 DEF Runs
    <3>4. (free[i].start + n) + (free[i].length - n) = free[i].start + free[i].length
      BY <1>4
    <3> QED
      BY <3>1, <3>3, <3>4 DEF End
  <2> HIDE DEF rest, left
  <2>3. /\ rest \in Seq(Runs) /\ Len(rest) = m
        /\ \A k \in 1 .. m : rest[k] = IF k = i THEN left ELSE free[k]
    <3> HIDE DEF m
    <3>1. left \in Runs
      BY <2>2
    <3>2. free \in Seq(Runs)
      BY <1>1
    <3> DEFINE new == ReplaceAt(free, i, left)
    <3> HIDE DEF new
    <3>3. IsReplacement(new, free, i, left, Runs)
      BY <3>1, <3>2, Replacement DEF new
    <3> QED
      BY <2>1, <3>3 DEF m, new, IsReplacement
  <2>4. \A k \in 1 .. m : /\ End(rest[k]) = End(free[k])
                          /\ k # i => rest[k].start = free[k].start
                          /\ k = i => rest[k].start = free[k].start + n
    BY <2>2, <2>3
  <2>5. Gapped(rest)
    <3> SUFFICES ASSUME NEW a \in 1 .. m, NEW b \in 1 .. m, a < b
                 PROVE  End(rest[a]) < rest[b].start
      BY <2>3 DEF Gapped
    <3>1. End(free[a]) < free[b].start /\ End(rest[a]) = End(free[a])
      BY <1>6, <2>4
    <3>2. rest[b].start = free[b].start \/ rest[b].start = free[b].start + n
      BY <2>4
    <3> QED
      BY <1>3, <3>1, <3>2
  <2>6. ASSUME NEW x \in SlotsIn(rest)
        PROVE  x \in SlotsIn(free) \ RunSlots(free[i].start, n)
    <3>1. PICK k \in 1 .. m : x \in Nat /\ rest[k].start <= x /\ x < End(rest[k])
      BY <2>3, InSlots
    <3>2. free[k].start <= x /\ x < End(free[k])
      BY <1>3, <2>4, <3>1
    <3>3. x \in SlotsIn(free)
      BY <1>7, <3>1, <3>2
    <3>4. ~(free[i].start <= x /\ x < free[i].start + n)
      <4>1. CASE k = i
        BY <2>4, <3>1, <4>1, <1>4
      <4>2. CASE k < i
        BY <1>3, <1>6, <3>1, <3>2, <4>2
      <4>3. CASE k > i
        <5>1. End(free[i]) < free[k].start /\ free[i].start + n <= End(free[i])
          BY <1>3, <1>4, <1>6, <4>3
        <5> QED
          BY <1>3, <1>4, <3>1, <3>2, <5>1
      <4> QED
        BY <4>1, <4>2, <4>3
    <3> QED
      BY <1>5, <3>3, <3>4
  <2>7. ASSUME NEW x \in SlotsIn(free) \ RunSlots(free[i].start, n)
        PROVE  x \in SlotsIn(rest)
    <3>1. PICK k \in 1 .. m : x \in Nat /\ free[k].start <= x /\ x < End(free[k])
      BY <1>7
    <3>2. rest[k].start <= x /\ x < End(rest[k])
      <4>1. CASE k = i
        <5>1. ~(x < free[i].start + n)
          BY <1>5, <2>7, <3>1, <4>1
        <5> QED
          BY <1>4, <2>4, <3>1, <4>1, <5>1
      <4>2. CASE k # i
        BY <2>4, <3>1, <4>2
      <4> QED
        BY <4>1, <4>2
    <3> QED
      BY <2>3, <3>1, <3>2, InSlots
  <2>8. Canonical(rest)
    BY <2>3, <2>5, CanonicalGapped
  <2> QED
    BY <1>4, <1>8, <2>6, <2>7, <2>8 DEF rest
<1> QED
  BY <1>9, <1>10

(* The first run that is long enough, or none is.                          *)
LEMMA FirstFitIs ==
  ASSUME NEW s, Canonical(s.free), NEW n \in Nat
  PROVE  \/ /\ FirstFit(s, n) \in 1 .. Len(s.free) /\ FirstFit(s, n) # 0
            /\ s.free[FirstFit(s, n)].length >= n
         \/ /\ FirstFit(s, n) = 0
            /\ \A i \in 1 .. Len(s.free) : ~(s.free[i].length >= n)
<1> DEFINE I == {i \in 1 .. Len(s.free) : s.free[i].length >= n}
<1>1. CASE I = {}
  BY <1>1 DEF FirstFit, SelectInSeq
<1>2. CASE I # {}
  <2>1. FirstFit(s, n) = Min(I)
    BY <1>2 DEF FirstFit, SelectInSeq
  <2>2. \E x \in I : \A y \in I : x <= y
    <3>1. I \in SUBSET Nat
      OBVIOUS
    <3>2. PICK t \in I : TRUE
      BY <1>2
    <3> HIDE DEF I
    <3> QED
      BY <3>1, <3>2, LeastNat
  <2>3. Min(I) \in I
    <3> HIDE DEF I
    <3> QED
      BY <2>2, Zenon DEF Min
  <2>4. FirstFit(s, n) \in I
    BY <2>1, <2>3
  <2> QED
    BY <2>4
<1> QED
  BY <1>1, <1>2

(* Several runs released one after the other, in whatever order.           *)
Released(free, runs, list) ==
  /\ Canonical(list)
  /\ SlotsIn(list) = SlotsIn(free) \cup UNION {SlotsOf(r) : r \in runs}

(* Several runs are released one after the other, in whatever order: the   *)
(* result is canonical and holds their slots besides those of the list.    *)
LEMMA ReleaseRuns ==
  ASSUME NEW free, Canonical(free), NEW D \in SUBSET Runs, IsFiniteSet(D),
         \A r \in D : SlotsOf(r) \cap SlotsIn(free) = {},
         \A r, q \in D : r # q => SlotsOf(r) \cap SlotsOf(q) = {}
  PROVE  Released(free, D, releaseRuns(free, D))
<1> DEFINE V == Seq(Runs)
           pick == [s \in SUBSET D |-> CHOOSE x \in s : TRUE]
           G == [p \in D \X V |->
                   IF releaseRun(p[2], p[1]) \in V THEN releaseRun(p[2], p[1]) ELSE free]
           body(it) == [s \in SUBSET D |->
                          IF s = {} THEN free
                          ELSE releaseRun(it[s \ {CHOOSE x \in s : TRUE}],
                                          CHOOSE x \in s : TRUE)]
           it == CHOOSE i : i = body(i)
<1>1. releaseRuns(free, D) = it[D]
  BY Zenon DEF releaseRuns, FoldSet, MapThenFoldSet
<1>2. free \in V
  BY DEF Canonical
<1>3. ASSUME NEW list, NEW s \in SUBSET D, NEW x \in s, Released(free, s \ {x}, list)
      PROVE  Released(free, s, releaseRun(list, x)) /\ list \in V /\ releaseRun(list, x) \in V
  <2>1. /\ x \in Runs /\ x \in D /\ Canonical(list)
        /\ SlotsIn(list) = SlotsIn(free) \cup UNION {SlotsOf(r) : r \in s \ {x}}
    BY <1>3 DEF Released
  <2>2. SlotsOf(x) \cap SlotsIn(list) = {}
    BY <2>1
  <2>3. /\ Canonical(releaseRun(list, x))
        /\ SlotsIn(releaseRun(list, x)) = SlotsIn(list) \cup SlotsOf(x)
    BY <2>1, <2>2, ReleaseRun
  <2>4. UNION {SlotsOf(r) : r \in s} = (UNION {SlotsOf(r) : r \in s \ {x}}) \cup SlotsOf(x)
    OBVIOUS
  <2>5. Released(free, s, releaseRun(list, x))
    BY <2>1, <2>3, <2>4 DEF Released
  <2> QED
    BY <2>1, <2>3, <2>5 DEF Canonical
<1>4. Released(free, {}, free)
  BY DEF Released
<1>5. \E i \in [SUBSET D -> V] : i = body(i) /\ \A s \in SUBSET D : Released(free, s, i[s])
  <2>1. G \in [D \X V -> V]
    BY <1>2
  <2>2. \A s \in SUBSET D : s # {} => pick[s] \in s
    OBVIOUS
  <2>3. PICK i : i \in [SUBSET D -> V] /\ Iterates(i, D, free, G, pick)
    <3> HIDE DEF G, pick, V
    <3> QED
      BY <1>2, <2>1, <2>2, FoldExists, Zenon
  <2>4. ASSUME NEW s \in SUBSET D, s # {}, Released(free, s \ {pick[s]}, i[s \ {pick[s]}])
        PROVE  /\ Released(free, s, i[s])
               /\ i[s] = releaseRun(i[s \ {pick[s]}], pick[s])
    <3>1. pick[s] \in s /\ pick[s] \in D
      BY <2>2, <2>4
    <3>2. i[s \ {pick[s]}] \in V
      BY <2>3
    <3> HIDE DEF pick
    <3>3. /\ Released(free, s, releaseRun(i[s \ {pick[s]}], pick[s]))
          /\ releaseRun(i[s \ {pick[s]}], pick[s]) \in V
      BY <1>3, <2>4, <3>1
    <3>4. i[s] = G[<<pick[s], i[s \ {pick[s]}]>>]
      <4> HIDE DEF G
      <4> QED
        BY <2>3, <2>4 DEF Iterates
    <3>5. G[<<pick[s], i[s \ {pick[s]}]>>] = releaseRun(i[s \ {pick[s]}], pick[s])
      BY <3>1, <3>2, <3>3
    <3> QED
      BY <3>3, <3>4, <3>5
  <2>5. i[{}] = free
    BY <2>3 DEF Iterates
  <2>6. \A s \in SUBSET D : Released(free, s, i[s])
    <3> DEFINE Q == {s \in SUBSET D : Released(free, s, i[s])}
    <3>1. {} \in Q
      BY <1>4, <2>5
    <3>2. ASSUME NEW s \in SUBSET D, s # {}, \A x \in s : s \ {x} \in Q
          PROVE  s \in Q
      <4>1. pick[s] \in s
        BY <2>2, <3>2
      <4>2. Released(free, s \ {pick[s]}, i[s \ {pick[s]}])
        BY <3>2, <4>1
      <4> QED
        BY <2>4, <3>2, <4>2
    <3>3. Q = SUBSET D
      <4> HIDE DEF Q
      <4>1. Q \in SUBSET (SUBSET D)
        BY DEF Q
      <4> QED
        BY <3>1, <3>2, <4>1, SubsetInduction
    <3> QED
      BY <3>3
  <2>7. \A s \in SUBSET D : s # {} => pick[s] = CHOOSE x \in s : TRUE
    OBVIOUS
  <2>8. \A s \in SUBSET D : i[s] = body(i)[s]
    <3> SUFFICES ASSUME NEW s \in SUBSET D
                 PROVE  i[s] = body(i)[s]
      OBVIOUS
    <3>1. CASE s = {}
      BY <2>5, <3>1
    <3>2. CASE s # {}
      <4>1. Released(free, s \ {pick[s]}, i[s \ {pick[s]}])
        BY <2>6
      <4>2. i[s] = releaseRun(i[s \ {pick[s]}], pick[s])
        BY <2>4, <3>2, <4>1
      <4> QED
        BY <2>7, <3>2, <4>2
    <3> QED
      BY <3>1, <3>2
  <2>9. i = body(i)
    BY <2>3, <2>8
  <2> QED
    BY <2>3, <2>6, <2>9
<1>6. it = body(it)
  <2> HIDE DEF body
  <2>1. \E i : i = body(i)
    BY <1>5
  <2> QED
    BY <2>1, Zenon
<1> HIDE DEF it
<1>7. it[{}] = free
  BY <1>6
<1>8. \A s \in SUBSET D : s # {} => \E c \in s : it[s] = releaseRun(it[s \ {c}], c)
  BY <1>6
<1> HIDE DEF body
<1>9. \A s \in SUBSET D : Released(free, s, it[s])
  <2> DEFINE Q == {s \in SUBSET D : Released(free, s, it[s])}
  <2>1. {} \in Q
    BY <1>4, <1>7
  <2>2. ASSUME NEW s \in SUBSET D, s # {}, \A x \in s : s \ {x} \in Q
        PROVE  s \in Q
    <3>1. PICK c \in s : it[s] = releaseRun(it[s \ {c}], c)
      BY <1>8, <2>2
    <3>2. Released(free, s \ {c}, it[s \ {c}])
      BY <2>2
    <3>3. Released(free, s, releaseRun(it[s \ {c}], c))
      BY <1>3, <3>2
    <3> QED
      BY <3>1, <3>3
  <2>3. Q = SUBSET D
    <3> HIDE DEF Q
    <3>1. Q \in SUBSET (SUBSET D)
      BY DEF Q
    <3> QED
      BY <2>1, <2>2, <3>1, SubsetInduction
  <2> QED
    BY <2>3
<1> QED
  BY <1>1, <1>9

(* The maximal runs of a set of slots have its slots, each in one of them. *)
EndsOf(S, x) == {y \in S : y >= x /\ y + 1 \notin S}
StartsOf(S) == {y \in S : y - 1 \notin S}

(* The end of the maximal run from x: all slots up to it are in S, and the *)
(* next one is not.                                                        *)
LEMMA EndOf ==
  ASSUME NEW b \in Nat, NEW S \in SUBSET (0 .. b - 1), NEW x \in S
  PROVE  /\ Min(EndsOf(S, x)) \in S /\ x <= Min(EndsOf(S, x))
         /\ Min(EndsOf(S, x)) + 1 \notin S
         /\ x .. Min(EndsOf(S, x)) \subseteq S
<1> DEFINE T == {y \in Nat : y >= x /\ y \notin S}
           E == EndsOf(S, x)
<1>1. \A y \in S : y \in Nat /\ y < b
  OBVIOUS
<1>2. \E n \in T : \A m \in T : n <= m
  <2>1. b \in T
    BY <1>1
  <2>2. T \in SUBSET Nat
    OBVIOUS
  <2> HIDE DEF T
  <2> QED
    BY <2>1, <2>2, LeastNat
<1>3. PICK n \in Nat : n >= x /\ n \notin S /\ \A m \in Nat : m >= x /\ m \notin S => n <= m
  BY <1>2
<1>4. n # x /\ n - 1 \in Nat /\ n - 1 >= x /\ (n - 1) + 1 = n
  BY <1>1, <1>3
<1>5. n - 1 \in S
  BY <1>3, <1>4
<1>6. n - 1 \in E /\ \A y \in E : n - 1 <= y
  <2>1. n - 1 \in E
    BY <1>3, <1>4, <1>5 DEF EndsOf
  <2>2. ASSUME NEW y \in E
        PROVE  n - 1 <= y
    <3>1. y \in Nat /\ y + 1 \in Nat /\ y + 1 >= x /\ y + 1 \notin S
      BY <1>1 DEF EndsOf
    <3> QED
      BY <1>3, <3>1
  <2> QED
    BY <2>1, <2>2
<1>7. Min(E) \in E /\ \A y \in E : Min(E) <= y
  <2> HIDE DEF E
  <2> QED
    BY <1>6, Zenon DEF Min
<1>8. Min(E) \in Nat
  BY <1>1, <1>7 DEF EndsOf
<1> HIDE DEF E
<1>9. Min(E) = n - 1
  BY <1>4, <1>6, <1>7, <1>8
<1>10. x .. n - 1 \subseteq S
  <2> SUFFICES ASSUME NEW z \in x .. n - 1
               PROVE  z \in S
    OBVIOUS
  <2>1. z \in Nat /\ z >= x /\ ~(n <= z)
    BY <1>1, <1>3
  <2> QED
    BY <1>3, <2>1
<1> QED
  BY <1>3, <1>4, <1>5, <1>9, <1>10 DEF E

(* RunsOf cuts a set of slots into disjoint runs that hold just the set.   *)
LEMMA RunsOfSet ==
  ASSUME NEW b \in Nat, NEW S \in SUBSET (0 .. b - 1)
  PROVE  /\ RunsOf(S) \in SUBSET Runs /\ IsFiniteSet(RunsOf(S))
         /\ UNION {SlotsOf(r) : r \in RunsOf(S)} = S
         /\ \A r, q \in RunsOf(S) : r # q => SlotsOf(r) \cap SlotsOf(q) = {}
<1> DEFINE last(x) == Min(EndsOf(S, x))
           run(x) == Run(x, last(x) - x + 1)
<1>1. RunsOf(S) = {run(x) : x \in StartsOf(S)}
  BY Zenon DEF RunsOf, EndsOf, StartsOf
<1>2. \A x \in S : /\ x \in Nat /\ last(x) \in Nat /\ x <= last(x)
                   /\ last(x) + 1 \notin S /\ x .. last(x) \subseteq S
  <2> SUFFICES ASSUME NEW x \in S
               PROVE  /\ x \in Nat /\ last(x) \in Nat /\ x <= last(x)
                      /\ last(x) + 1 \notin S /\ x .. last(x) \subseteq S
    OBVIOUS
  <2>1. /\ last(x) \in S /\ x <= last(x)
        /\ last(x) + 1 \notin S /\ x .. last(x) \subseteq S
    BY EndOf
  <2> HIDE DEF last
  <2>2. x \in Nat /\ last(x) \in Nat
    <3>1. \A y \in S : y \in Nat
      OBVIOUS
    <3> QED
      BY <2>1, <3>1
  <2> QED
    BY <2>1, <2>2
<1> HIDE DEF last
<1>3. \A x \in S : run(x) \in Runs /\ SlotsOf(run(x)) = x .. last(x)
  <2> SUFFICES ASSUME NEW x \in S
               PROVE  run(x) \in Runs /\ SlotsOf(run(x)) = x .. last(x)
    OBVIOUS
  <2>1. x \in Nat /\ last(x) \in Nat /\ x <= last(x)
    BY <1>2
  <2>2. last(x) - x + 1 \in Nat \ {0} /\ x + (last(x) - x + 1) - 1 = last(x)
    BY <2>1
  <2> QED
    BY <2>1, <2>2 DEF Run, Runs, SlotsOf, RunSlots
<1>4. StartsOf(S) \subseteq S
  BY DEF StartsOf
<1>5. RunsOf(S) \in SUBSET Runs
  BY <1>1, <1>3, <1>4
<1>6. IsFiniteSet(RunsOf(S))
  <2> DEFINE f == [x \in StartsOf(S) |-> run(x)]
  <2>1. IsFiniteSet(0 .. b - 1)
    BY FS_Interval
  <2>2. IsFiniteSet(StartsOf(S))
    BY <1>4, <2>1, FS_Subset
  <2>3. f \in Surjection(StartsOf(S), RunsOf(S))
    <3> HIDE DEF run
    <3> QED
      BY <1>1 DEF Surjection
  <2> HIDE DEF f
  <2> QED
    BY <2>2, <2>3, FS_Surjection
<1>7. UNION {SlotsOf(r) : r \in RunsOf(S)} \subseteq S
  <2> SUFFICES ASSUME NEW x \in StartsOf(S)
               PROVE  SlotsOf(run(x)) \subseteq S
    BY <1>1
  <2> QED
    BY <1>2, <1>3, <1>4
<1>8. S \subseteq UNION {SlotsOf(r) : r \in RunsOf(S)}
  <2> SUFFICES ASSUME NEW z \in S
               PROVE  \E x \in StartsOf(S) : z \in SlotsOf(run(x))
    BY <1>1
  <2> DEFINE T == {k \in Nat : k <= z /\ k .. z \subseteq S}
  <2>1. z \in Nat
    BY <1>2
  <2>2. \E n \in T : \A m \in T : n <= m
    <3>1. z \in T
      BY <2>1
    <3>2. T \in SUBSET Nat
      OBVIOUS
    <3> HIDE DEF T
    <3> QED
      BY <3>1, <3>2, LeastNat
  <2>3. PICK x \in Nat : /\ x <= z /\ x .. z \subseteq S
                         /\ \A m \in Nat : m <= z /\ m .. z \subseteq S => x <= m
    BY <2>2
  <2>4. x \in S
    BY <2>1, <2>3
  <2>5. x - 1 \notin S
    <3> SUFFICES ASSUME x - 1 \in S
                 PROVE  FALSE
      OBVIOUS
    <3>1. x - 1 \in Nat /\ x - 1 <= z /\ ~(x <= x - 1)
      BY <1>2, <2>1, <2>3
    <3>2. (x - 1) .. z \subseteq S
      <4> SUFFICES ASSUME NEW y \in (x - 1) .. z
                   PROVE  y \in S
        OBVIOUS
      <4>1. y = x - 1 \/ y \in x .. z
        BY <2>1, <3>1
      <4> QED
        BY <2>3, <4>1
    <3> QED
      BY <2>3, <3>1, <3>2
  <2>6. x \in StartsOf(S)
    BY <2>4, <2>5 DEF StartsOf
  <2>7. last(x) \in Nat /\ x <= last(x) /\ last(x) + 1 \notin S
    BY <1>2, <2>4
  <2>8. z <= last(x)
    <3> SUFFICES ASSUME ~(z <= last(x))
                 PROVE  FALSE
      OBVIOUS
    <3>1. last(x) + 1 \in x .. z
      BY <2>1, <2>3, <2>7
    <3> QED
      BY <2>3, <2>7, <3>1
  <2>9. z \in x .. last(x)
    BY <2>1, <2>3, <2>7, <2>8
  <2>10. z \in SlotsOf(run(x))
    BY <1>3, <2>4, <2>9
  <2> QED
    BY <2>6, <2>10
<1>9. ASSUME NEW x \in StartsOf(S), NEW w \in StartsOf(S), x < w
      PROVE  SlotsOf(run(x)) \cap SlotsOf(run(w)) = {}
  <2>1. /\ x \in S /\ w \in S /\ w - 1 \notin S
        /\ x \in Nat /\ w \in Nat /\ last(x) \in Nat
        /\ x .. last(x) \subseteq S
    BY <1>2, <1>4 DEF StartsOf
  <2>2. last(x) < w
    <3> SUFFICES ASSUME ~(last(x) < w)
                 PROVE  FALSE
      OBVIOUS
    <3>1. w - 1 \in x .. last(x)
      BY <1>9, <2>1
    <3> QED
      BY <2>1, <3>1
  <2>3. SlotsOf(run(x)) = x .. last(x) /\ SlotsOf(run(w)) = w .. last(w) /\ last(w) \in Nat
    BY <1>2, <1>3, <2>1
  <2> HIDE DEF run
  <2> QED
    BY <2>1, <2>2, <2>3
<1>10. ASSUME NEW r \in RunsOf(S), NEW q \in RunsOf(S), r # q
       PROVE  SlotsOf(r) \cap SlotsOf(q) = {}
  <2>1. PICK x \in StartsOf(S), w \in StartsOf(S) : r = run(x) /\ q = run(w)
    BY <1>1
  <2>2. x # w /\ x \in Nat /\ w \in Nat
    BY <1>2, <1>4, <1>10, <2>1
  <2>3. x < w \/ w < x
    BY <2>2
  <2> HIDE DEF run
  <2> QED
    BY <1>9, <2>1, <2>3
<1> QED
  BY <1>5, <1>6, <1>7, <1>8, <1>10

-----------------------------------------------------------------------------
(* A sound store: what every method may rely on, and keeps.                *)

IsStore(s) == DOMAIN s =
  { "free", "next", "length", "table", "owners", "slotOwners", "retirements",
    "reservations", "nextOwner", "nextReservation", "generation", "liveSlots",
    "liveBytes", "pendingSlots", "pendingBytes", "destroyed" }

OwnedOf(s) == DOMAIN s.slotOwners
Place(r) == RunSlots(r.base, r.slotCount)
Places(R) == UNION {Place(r) : r \in R}

(* The slots handed out are owned, reserved or free, and only one of them. *)
SlotsSound(s) ==
  /\ Canonical(s.free)
  /\ s.next \in Nat /\ s.length \in Nat
  /\ s.next <= s.length /\ s.length <= MaxSlots
  /\ OwnedOf(s) \subseteq 0 .. s.next - 1
  /\ Places(s.reservations) \subseteq 0 .. s.next - 1
  /\ OwnedOf(s) \cap Places(s.reservations) = {}
  /\ \A r, q \in s.reservations : r # q => Place(r) \cap Place(q) = {}
  /\ SlotsIn(s.free) = (0 .. s.next - 1) \ (OwnedOf(s) \cup Places(s.reservations))

(* Reservations are told apart by their ids, which are never used twice.   *)
ReservationsSound(s) ==
  /\ s.nextReservation \in Nat \ {0}
  /\ IsFiniteSet(s.reservations)
  /\ \A r \in s.reservations :
       /\ r.id \in 1 .. s.nextReservation - 1
       /\ r.base \in Nat /\ r.slotCount \in Nat \ {0} /\ r.byteLength \in Nat

(* The owners, the slot map and the table describe the same functions.     *)
OwnersSound(s) ==
  /\ s.nextOwner \in Nat \ {0}
  /\ DOMAIN s.owners \subseteq 1 .. s.nextOwner - 1
  /\ \A o \in DOMAIN s.owners :
       /\ DOMAIN s.owners[o] = {"slots", "bytes", "generation"}
       /\ s.owners[o].bytes \in Nat
       /\ s.owners[o].slots # {}
       /\ s.owners[o].slots = {x \in OwnedOf(s) : s.slotOwners[x] = o}
  /\ \A x \in OwnedOf(s) : s.slotOwners[x] \in DOMAIN s.owners
  /\ \A x \in Slots : s.table[x] = IF x \in OwnedOf(s) THEN s.slotOwners[x] ELSE 0
  /\ s.retirements \subseteq OwnedOf(s)

(* The counters are the sums they stand for, and within the limits.        *)
AccountsSound(s) ==
  /\ s.liveSlots = Cardinality(OwnedOf(s))
  /\ s.liveBytes = BytesOf(s, DOMAIN s.owners)
  /\ s.pendingSlots = SlotsPending(s)
  /\ s.pendingBytes = BytesPending(s)
  /\ Cardinality(DOMAIN s.owners) + Cardinality(s.reservations) <= MaxModules
  /\ s.liveBytes + s.pendingBytes <= MaxBytes

Sound(s) ==
  /\ IsStore(s)
  /\ SlotsSound(s) /\ ReservationsSound(s) /\ OwnersSound(s) /\ AccountsSound(s)

(* The modules are of the machine that is booted; the store is not gone,   *)
(* or it is empty.                                                         *)
Current(s) == \A o \in DOMAIN s.owners : s.owners[o].generation = s.generation
Emptied(s) == s.destroyed => OwnedOf(s) = {} /\ s.reservations = {}

-----------------------------------------------------------------------------
(* The fields each method writes.                                          *)

(* t has the fields of s, and the same in all of them but those of F.      *)
OnlyChanges(s, t, F) ==
  /\ IsStore(t)
  /\ "free" \notin F => t.free = s.free
  /\ "next" \notin F => t.next = s.next /\ t.length = s.length
  /\ "owners" \notin F => /\ t.table = s.table /\ t.slotOwners = s.slotOwners
                         /\ t.owners = s.owners /\ t.nextOwner = s.nextOwner
                         /\ t.liveSlots = s.liveSlots /\ t.liveBytes = s.liveBytes
  /\ "retirements" \notin F => t.retirements = s.retirements
  /\ "reservations" \notin F => /\ t.reservations = s.reservations
                               /\ t.nextReservation = s.nextReservation
                               /\ t.pendingSlots = s.pendingSlots
                               /\ t.pendingBytes = s.pendingBytes
  /\ "generation" \notin F => t.generation = s.generation
  /\ "destroyed" \notin F => t.destroyed = s.destroyed

(* #allocate changes the free list, or the high-water mark and the table.  *)
LEMMA AllocateFields ==
  ASSUME NEW s, IsStore(s), NEW n
  PROVE  /\ OnlyChanges(s, allocate(s, n), {"free", "next"})
         /\ FirstFit(s, n) # 0 =>
              /\ allocate(s, n).free = TakenFrom(s.free, FirstFit(s, n), n)
              /\ allocate(s, n).next = s.next /\ allocate(s, n).length = s.length
         /\ FirstFit(s, n) = 0 =>
              /\ allocate(s, n).free = s.free
              /\ allocate(s, n).next = s.next + n
              /\ allocate(s, n).length =
                   IF MustGrow(s, n) THEN s.length + Growth(s, n) ELSE s.length
<1> DEFINE i == FirstFit(s, n)
           taken == IF s.free[i].length = n
                      THEN RemoveAt(s.free, i)
                      ELSE ReplaceAt(s.free, i, Run(s.free[i].start + n, s.free[i].length - n))
           grown == IF MustGrow(s, n) THEN s.length + Growth(s, n) ELSE s.length
<1> HIDE DEF i, taken, grown
<1>1. CASE i # 0
  <2>1. allocate(s, n) = [s EXCEPT !.free = taken]
    BY <1>1 DEF allocate, taken, i
  <2>2. taken = TakenFrom(s.free, i, n)
    BY DEF taken, TakenFrom
  <2> QED
    BY <1>1, <2>1, <2>2 DEF OnlyChanges, IsStore, i
<1>2. CASE i = 0
  <2>1. allocate(s, n) = [s EXCEPT !.next = s.next + n, !.length = grown]
    BY <1>2 DEF allocate, grown, i
  <2> QED
    BY <1>2, <2>1 DEF OnlyChanges, IsStore, i, grown
<1> QED
  BY <1>1, <1>2

(* reserve: an allocation, and a reservation on the books.                 *)
LEMMA ReserveFields ==
  ASSUME NEW s, IsStore(s), NEW n, NEW bytes
  PROVE  /\ OnlyChanges(s, reserve(s, n, bytes), {"free", "next", "reservations"})
         /\ reserve(s, n, bytes).free = allocate(s, n).free
         /\ reserve(s, n, bytes).next = allocate(s, n).next
         /\ reserve(s, n, bytes).length = allocate(s, n).length
         /\ reserve(s, n, bytes).reservations =
              s.reservations \cup {NextReservation(s, n, bytes)}
         /\ reserve(s, n, bytes).nextReservation = s.nextReservation + 1
         /\ reserve(s, n, bytes).pendingSlots = s.pendingSlots + n
         /\ reserve(s, n, bytes).pendingBytes = s.pendingBytes + bytes
<1> DEFINE a == allocate(s, n)
           q == NextReservation(s, n, bytes)
<1>1. OnlyChanges(s, a, {"free", "next"})
  BY AllocateFields
<1> HIDE DEF a, q
<1>2. reserve(s, n, bytes) =
        [a EXCEPT !.reservations = a.reservations \cup {q},
                  !.nextReservation = a.nextReservation + 1,
                  !.pendingSlots = a.pendingSlots + n,
                  !.pendingBytes = a.pendingBytes + bytes]
  BY DEF reserve, a, q
<1> QED
  BY <1>1, <1>2 DEF OnlyChanges, IsStore, a, q

(* consumeReservation takes the reservation off the books.                 *)
LEMMA ConsumeFields ==
  ASSUME NEW s, IsStore(s), NEW r
  PROVE  /\ OnlyChanges(s, consumeReservation(s, r), {"reservations"})
         /\ consumeReservation(s, r).reservations = s.reservations \ {r}
         /\ consumeReservation(s, r).nextReservation = s.nextReservation
         /\ consumeReservation(s, r).pendingSlots = s.pendingSlots - r.slotCount
         /\ consumeReservation(s, r).pendingBytes = s.pendingBytes - r.byteLength
BY DEF consumeReservation, OnlyChanges, IsStore

(* releaseReservation also gives its slots back.                           *)
LEMMA ReleaseFields ==
  ASSUME NEW s, IsStore(s), NEW r \in s.reservations
  PROVE  /\ OnlyChanges(s, releaseReservation(s, r), {"free", "reservations"})
         /\ releaseReservation(s, r).free = releaseRun(s.free, Run(r.base, r.slotCount))
         /\ releaseReservation(s, r).reservations = s.reservations \ {r}
         /\ releaseReservation(s, r).nextReservation = s.nextReservation
         /\ releaseReservation(s, r).pendingSlots = s.pendingSlots - r.slotCount
         /\ releaseReservation(s, r).pendingBytes = s.pendingBytes - r.byteLength
<1> DEFINE c == consumeReservation(s, r)
<1>1. releaseReservation(s, r) = [c EXCEPT !.free = releaseRun(c.free, Run(r.base, r.slotCount))]
  BY DEF releaseReservation
<1>2. /\ OnlyChanges(s, c, {"reservations"})
      /\ c.reservations = s.reservations \ {r}
      /\ c.nextReservation = s.nextReservation
      /\ c.pendingSlots = s.pendingSlots - r.slotCount
      /\ c.pendingBytes = s.pendingBytes - r.byteLength
  BY ConsumeFields
<1> HIDE DEF c
<1> QED
  BY <1>1, <1>2 DEF OnlyChanges, IsStore

InstalledOwners(s, id, slots, bytes, generation) ==
  [o \in DOMAIN s.owners \cup {id} |->
    IF o = id THEN [slots |-> slots, bytes |-> bytes, generation |-> generation]
              ELSE s.owners[o]]

Installs(s, t, slots, n, bytes, generation) ==
  LET id == s.nextOwner
  IN  /\ OnlyChanges(s, t, {"owners"})
      /\ t.table = [x \in Slots |-> IF x \in slots THEN id ELSE s.table[x]]
      /\ t.slotOwners = [x \in DOMAIN s.slotOwners \cup slots |->
                           IF x \in slots THEN id ELSE s.slotOwners[x]]
      /\ t.owners = InstalledOwners(s, id, slots, bytes, generation)
      /\ t.nextOwner = id + 1
      /\ t.liveSlots = s.liveSlots + n
      /\ t.liveBytes = s.liveBytes + bytes

(* #install: the table, the slot map, the owner map and the live counters. *)
LEMMA InstallFields ==
  ASSUME NEW s, IsStore(s), NEW base, NEW n, NEW bytes, NEW generation
  PROVE  Installs(s, install(s, base, n, bytes, generation), RunSlots(base, n), n, bytes,
                  generation)
<1> DEFINE slots == RunSlots(base, n)
           id == s.nextOwner
           t == install(s, base, n, bytes, generation)
           table == [x \in Slots |-> IF x \in slots THEN id ELSE s.table[x]]
           map == [x \in DOMAIN s.slotOwners \cup slots |->
                     IF x \in slots THEN id ELSE s.slotOwners[x]]
           owners == InstalledOwners(s, id, slots, bytes, generation)
<1>1. t = [s EXCEPT !.table = table, !.slotOwners = map, !.owners = owners,
                    !.nextOwner = id + 1, !.liveSlots = s.liveSlots + n,
                    !.liveBytes = s.liveBytes + bytes]
  BY DEF install, InstalledOwners
<1> HIDE DEF t, table, map, owners
<1>2. /\ OnlyChanges(s, t, {"owners"})
      /\ t.table = table /\ t.slotOwners = map /\ t.owners = owners
      /\ t.nextOwner = id + 1
      /\ t.liveSlots = s.liveSlots + n
      /\ t.liveBytes = s.liveBytes + bytes
  BY <1>1 DEF OnlyChanges, IsStore
<1> QED
  BY <1>2, Zenon DEF t, table, map, owners, Installs

(* retire queues the slots that are owned.                                 *)
LEMMA RetireFields ==
  ASSUME NEW s, IsStore(s), NEW slots
  PROVE  /\ OnlyChanges(s, retire(s, slots), {"retirements"})
         /\ retire(s, slots).retirements = s.retirements \cup (slots \cap OwnedOf(s))
BY DEF retire, OnlyChanges, IsStore, OwnedOf

(* The slots flushRetired() clears, what is left of the owners, and the    *)
(* owners that have no slot left.                                          *)
Gone(s) == s.retirements \cap DOMAIN s.slotOwners
Rest(s) == [o \in DOMAIN s.owners |-> [s.owners[o] EXCEPT !.slots = @ \ Gone(s)]]
Dead(s) == {o \in DOMAIN s.owners : Rest(s)[o].slots = {}}

Flushes(s, t) ==
  /\ OnlyChanges(s, t, {"free", "owners", "retirements"})
  /\ t.free = releaseRuns(s.free, RunsOf(Gone(s)))
  /\ t.table = [x \in Slots |-> IF x \in Gone(s) THEN 0 ELSE s.table[x]]
  /\ t.slotOwners = Drop(s.slotOwners, Gone(s))
  /\ t.owners = Drop(Rest(s), Dead(s))
  /\ t.nextOwner = s.nextOwner
  /\ t.liveSlots = s.liveSlots - Cardinality(Gone(s))
  /\ t.liveBytes = s.liveBytes - BytesOf(s, Dead(s))
  /\ t.retirements = {}

(* flushRetired: the slots are cleared, owners without slots are dropped,  *)
(* and the runs are released.                                              *)
LEMMA FlushFields ==
  ASSUME NEW s, IsStore(s)
  PROVE  Flushes(s, flushRetired(s))
<1> DEFINE t == flushRetired(s)
           free == releaseRuns(s.free, RunsOf(Gone(s)))
           table == [x \in Slots |-> IF x \in Gone(s) THEN 0 ELSE s.table[x]]
           map == Drop(s.slotOwners, Gone(s))
           owners == Drop(Rest(s), Dead(s))
<1>1. t = [s EXCEPT !.retirements = {}, !.table = table, !.slotOwners = map,
                    !.owners = owners, !.liveSlots = s.liveSlots - Cardinality(Gone(s)),
                    !.liveBytes = s.liveBytes - BytesOf(s, Dead(s)),
                    !.free = free]
  BY DEF flushRetired, Gone, Rest, Dead
<1> HIDE DEF t, free, table, map, owners
<1>2. /\ OnlyChanges(s, t, {"free", "owners", "retirements"})
      /\ t.free = free /\ t.table = table /\ t.slotOwners = map /\ t.owners = owners
      /\ t.nextOwner = s.nextOwner
      /\ t.liveSlots = s.liveSlots - Cardinality(Gone(s))
      /\ t.liveBytes = s.liveBytes - BytesOf(s, Dead(s))
      /\ t.retirements = {}
  BY <1>1 DEF OnlyChanges, IsStore
<1> QED
  BY <1>2, Zenon DEF t, free, table, map, owners, Flushes

-----------------------------------------------------------------------------
(* Each method takes a sound store to a sound store.                       *)

(* The sum of a field over the reservations.                               *)
SumOf(R, f) == SumFunction([r \in R |-> r[f]])

(* The pending counters are sums over the reservations.                    *)
LEMMA PendingIsSum ==
  ASSUME NEW s
  PROVE  /\ SlotsPending(s) = SumOf(s.reservations, "slotCount")
         /\ BytesPending(s) = SumOf(s.reservations, "byteLength")
BY DEF SlotsPending, BytesPending, SumOf

(* Such a sum, with a reservation more or less.                            *)
LEMMA FieldSum ==
  ASSUME NEW R, IsFiniteSet(R), NEW f, \A r \in R : r[f] \in Nat
  PROVE  /\ SumOf(R, f) \in Nat
         /\ SumOf({}, f) = 0
         /\ \A q \in R : SumOf(R, f) = SumOf(R \ {q}, f) + q[f]
<1> DEFINE g(T) == [r \in T |-> r[f]]
<1>1. NatOn(g(R), R)
  BY DEF NatOn
<1>2. SumOf(R, f) = SumFunctionOnSet(g(R), R)
  BY DEF SumOf, SumFunction
<1>3. SumOf(R, f) \in Nat
  <2> HIDE DEF g
  <2> QED
    BY <1>1, <1>2, SumNat
<1>4. SumOf({}, f) = 0
  <2>1. SumOf({}, f) = SumFunctionOnSet(g({}), {})
    BY DEF SumOf, SumFunction
  <2> HIDE DEF g
  <2> QED
    BY <2>1, SumEmpty
<1>5. ASSUME NEW q \in R
      PROVE  SumOf(R, f) = SumOf(R \ {q}, f) + q[f]
  <2>1. SumOf(R \ {q}, f) = SumFunctionOnSet(g(R \ {q}), R \ {q})
    BY DEF SumOf, SumFunction
  <2>2. /\ NatOn(g(R \ {q}), R \ {q})
        /\ \A r \in R \ {q} : g(R \ {q})[r] = g(R)[r]
        /\ g(R)[q] = q[f] /\ q[f] \in Nat
    BY DEF NatOn
  <2>3. IsFiniteSet(R \ {q})
    BY FS_Subset
  <2> HIDE DEF g
  <2>4. SumFunctionOnSet(g(R \ {q}), R \ {q}) = SumFunctionOnSet(g(R), R \ {q})
    BY <2>2, <2>3, SumSame
  <2>5. /\ SumFunctionOnSet(g(R), R \ {q}) \in Nat
        /\ SumFunctionOnSet(g(R), R) = g(R)[q] + SumFunctionOnSet(g(R), R \ {q})
    BY <1>1, SumRemove
  <2> QED
    BY <1>2, <2>1, <2>2, <2>4, <2>5
<1> QED
  BY <1>3, <1>4, <1>5

(* A step that leaves table and owners alone keeps them sound.             *)
LEMMA OwnersUntouched ==
  ASSUME NEW s, NEW t, OwnersSound(s),
         t.table = s.table, t.slotOwners = s.slotOwners, t.owners = s.owners,
         t.nextOwner \in Nat, s.nextOwner <= t.nextOwner,
         t.retirements \subseteq OwnedOf(s)
  PROVE  /\ OwnersSound(t)
         /\ OwnedOf(t) = OwnedOf(s)
         /\ BytesOf(t, DOMAIN t.owners) = BytesOf(s, DOMAIN s.owners)
<1>1. OwnedOf(t) = OwnedOf(s) /\ BytesOf(t, DOMAIN t.owners) = BytesOf(s, DOMAIN s.owners)
  BY DEF OwnedOf, BytesOf
<1>2. t.nextOwner \in Nat \ {0} /\ DOMAIN t.owners \subseteq 1 .. t.nextOwner - 1
  BY DEF OwnersSound
<1> QED
  BY <1>1, <1>2 DEF OwnersSound

(* A sound store is finite, and its sums are naturals.                     *)
LEMMA FiniteParts ==
  ASSUME NEW s, Sound(s)
  PROVE  /\ IsFiniteSet(DOMAIN s.owners) /\ Cardinality(DOMAIN s.owners) \in Nat
         /\ IsFiniteSet(OwnedOf(s)) /\ Cardinality(OwnedOf(s)) \in Nat
         /\ IsFiniteSet(s.reservations) /\ Cardinality(s.reservations) \in Nat
         /\ SlotsPending(s) \in Nat /\ BytesPending(s) \in Nat
         /\ NatOn([o \in DOMAIN s.owners |-> s.owners[o].bytes], DOMAIN s.owners)
         /\ BytesOf(s, DOMAIN s.owners) \in Nat
<1>1. IsFiniteSet(DOMAIN s.owners)
  <2>1. s.nextOwner - 1 \in Int /\ DOMAIN s.owners \subseteq 1 .. s.nextOwner - 1
    BY DEF Sound, OwnersSound
  <2>2. IsFiniteSet(1 .. s.nextOwner - 1)
    BY <2>1, FS_Interval
  <2> QED
    BY <2>1, <2>2, FS_Subset
<1>2. IsFiniteSet(OwnedOf(s))
  <2>1. s.next - 1 \in Int /\ OwnedOf(s) \subseteq 0 .. s.next - 1
    BY DEF Sound, SlotsSound
  <2>2. IsFiniteSet(0 .. s.next - 1)
    BY <2>1, FS_Interval
  <2> QED
    BY <2>1, <2>2, FS_Subset
<1>3. /\ IsFiniteSet(s.reservations)
      /\ \A r \in s.reservations : r["slotCount"] \in Nat /\ r["byteLength"] \in Nat
  BY DEF Sound, ReservationsSound
<1>4. SlotsPending(s) \in Nat /\ BytesPending(s) \in Nat
  BY <1>3, PendingIsSum, FieldSum
<1> DEFINE f == [o \in DOMAIN s.owners |-> s.owners[o].bytes]
<1>5. NatOn(f, DOMAIN s.owners)
  BY DEF Sound, OwnersSound, NatOn
<1>6. BytesOf(s, DOMAIN s.owners) = SumFunctionOnSet(f, DOMAIN s.owners)
  BY DEF BytesOf
<1> HIDE DEF f
<1>7. BytesOf(s, DOMAIN s.owners) \in Nat
  BY <1>1, <1>5, <1>6, SumNat
<1> QED
  BY <1>1, <1>2, <1>3, <1>4, <1>5, <1>7, FS_CardinalityType DEF f

(* Min and Max of two integers.                                            *)
LEMMA MinMaxOfTwo ==
  ASSUME NEW a \in Int, NEW b \in Int
  PROVE  /\ Min({a, b}) = IF a <= b THEN a ELSE b
         /\ Max({a, b}) = IF a >= b THEN a ELSE b
<1>1. \E x \in {a, b} : \A y \in {a, b} : x <= y
  BY a <= b \/ b <= a
<1>2. Min({a, b}) \in {a, b} /\ \A y \in {a, b} : Min({a, b}) <= y
  BY <1>1, Zenon DEF Min
<1>3. \E x \in {a, b} : \A y \in {a, b} : x >= y
  BY a <= b \/ b <= a
<1>4. Max({a, b}) \in {a, b} /\ \A y \in {a, b} : Max({a, b}) >= y
  BY <1>3, Zenon DEF Max
<1> QED
  BY <1>2, <1>4

(* #allocate gives slots that nobody holds.                                *)
LEMMA AllocateSound ==
  ASSUME NEW s, Sound(s), NEW n \in Nat \ {0}, hasRun(s, n)
  PROVE  LET t == allocate(s, n)
             P == RunSlots(AllocatedBase(s, n), n)
         IN  /\ Canonical(t.free)
             /\ t.next \in Nat /\ t.length \in Nat
             /\ s.next <= t.next /\ t.next <= t.length /\ t.length <= MaxSlots
             /\ AllocatedBase(s, n) \in Nat
             /\ P \subseteq 0 .. t.next - 1
             /\ P \cap (OwnedOf(s) \cup Places(s.reservations)) = {}
             /\ SlotsIn(t.free) =
                  (0 .. t.next - 1) \ (OwnedOf(s) \cup Places(s.reservations) \cup P)
<1> DEFINE t == allocate(s, n)
           P == RunSlots(AllocatedBase(s, n), n)
           i == FirstFit(s, n)
           held == OwnedOf(s) \cup Places(s.reservations)
<1>1. /\ Canonical(s.free) /\ s.next \in Nat /\ s.length \in Nat
      /\ s.next <= s.length /\ s.length <= MaxSlots
      /\ held \subseteq 0 .. s.next - 1
      /\ SlotsIn(s.free) = (0 .. s.next - 1) \ held
  BY DEF Sound, SlotsSound
<1>2. MaxSlots \in Nat /\ GrowSlots \in Nat \ {0}
  BY StoreAssumption
<1>3. IsStore(s)
  BY DEF Sound
<1> HIDE DEF held, P
<1>4. CASE i # 0
  <2>1. i \in 1 .. Len(s.free) /\ s.free[i].length >= n
    BY <1>1, <1>4, FirstFitIs
  <2>2. /\ t.free = TakenFrom(s.free, i, n) /\ t.next = s.next /\ t.length = s.length
    BY <1>3, <1>4, AllocateFields
  <2>3. AllocatedBase(s, n) = s.free[i].start
    BY <1>4 DEF AllocatedBase
  <2> HIDE DEF t, i
  <2>4. /\ Canonical(TakenFrom(s.free, i, n))
        /\ SlotsIn(TakenFrom(s.free, i, n)) = SlotsIn(s.free) \ RunSlots(s.free[i].start, n)
        /\ RunSlots(s.free[i].start, n) \subseteq SlotsIn(s.free)
        /\ s.free[i].start \in Nat
    BY <1>1, <2>1, TakeRun
  <2>5. P = RunSlots(s.free[i].start, n)
    BY <2>3 DEF P
  <2>6. /\ P \subseteq 0 .. t.next - 1 /\ P \cap held = {}
        /\ SlotsIn(t.free) = (0 .. t.next - 1) \ (held \cup P)
    BY <1>1, <2>2, <2>4, <2>5
  <2> QED
    BY <1>1, <2>2, <2>3, <2>4, <2>6 DEF t, held, P
<1>5. CASE i = 0
  <2>1. s.next + n <= MaxSlots
    <3>1. \A j \in 1 .. Len(s.free) : ~(s.free[j].length >= n)
      BY <1>1, <1>5, FirstFitIs
    <3>2. DOMAIN s.free = 1 .. Len(s.free)
      BY <1>1 DEF Canonical
    <3> QED
      BY <3>1, <3>2 DEF hasRun
  <2>2. /\ t.free = s.free /\ t.next = s.next + n
        /\ t.length = IF MustGrow(s, n) THEN s.length + Growth(s, n) ELSE s.length
    BY <1>3, <1>5, AllocateFields
  <2>3. AllocatedBase(s, n) = s.next
    BY <1>5 DEF AllocatedBase
  <2>4. MustGrow(s, n) <=> s.next + n > s.length
    BY <1>5 DEF MustGrow
  <2> DEFINE more == Max({GrowSlots, s.next + n - s.length})
  <2>5. more \in Int /\ more >= s.next + n - s.length
    <3> DEFINE d == s.next + n - s.length
    <3>1. d \in Int /\ GrowSlots \in Int
      BY <1>1, <1>2
    <3> HIDE DEF d
    <3>2. Max({GrowSlots, d}) = IF GrowSlots >= d THEN GrowSlots ELSE d
      BY <3>1, MinMaxOfTwo
    <3>3. Max({GrowSlots, d}) \in Int /\ Max({GrowSlots, d}) >= d
      BY <3>1, <3>2
    <3> QED
      BY <3>3 DEF d
  <2>6. Growth(s, n) = Min({more, MaxSlots - s.length})
    BY DEF Growth
  <2> HIDE DEF more
  <2>7. /\ Growth(s, n) \in Int /\ Growth(s, n) <= MaxSlots - s.length
        /\ Growth(s, n) >= s.next + n - s.length
    BY <1>1, <1>2, <2>1, <2>5, <2>6, MinMaxOfTwo
  <2> HIDE DEF t, i
  <2>8. t.length \in Nat /\ t.next <= t.length /\ t.length <= MaxSlots
    BY <1>1, <1>2, <2>2, <2>4, <2>7
  <2>9. \A x : x \in P <=> x \in Nat /\ s.next <= x /\ x < s.next + n
    BY <1>1, <2>3 DEF P, RunSlots
  <2>10. /\ P \subseteq 0 .. t.next - 1 /\ P \cap held = {}
         /\ SlotsIn(t.free) = (0 .. t.next - 1) \ (held \cup P)
    <3>1. \A x : x \in 0 .. t.next - 1 <=> x \in 0 .. s.next - 1 \/ x \in P
      BY <1>1, <2>2, <2>9
    <3>2. \A x : ~(x \in 0 .. s.next - 1 /\ x \in P)
      BY <1>1, <2>9
    <3> HIDE DEF P
    <3> QED
      BY <1>1, <2>2, <3>1, <3>2
  <2> QED
    BY <1>1, <2>2, <2>3, <2>8, <2>10 DEF t, held, P
<1> QED
  BY <1>4, <1>5

(* reserve keeps a store sound when canRegister admits it, and its         *)
(* reservation is a new one.                                               *)
LEMMA ReserveSound ==
  ASSUME NEW s, Sound(s), NEW n \in Nat \ {0}, NEW bytes \in Nat, canRegister(s, n, bytes)
  PROVE  /\ Sound(reserve(s, n, bytes))
         /\ OnlyChanges(s, reserve(s, n, bytes), {"free", "next", "reservations"})
         /\ reserve(s, n, bytes).reservations =
              s.reservations \cup {NextReservation(s, n, bytes)}
         /\ NextReservation(s, n, bytes) \notin s.reservations
         /\ NextReservation(s, n, bytes).slotCount = n
         /\ NextReservation(s, n, bytes).id # 0
<1> DEFINE t == reserve(s, n, bytes)
           q == NextReservation(s, n, bytes)
           P == RunSlots(AllocatedBase(s, n), n)
           a == allocate(s, n)
<1>1. /\ IsStore(s) /\ SlotsSound(s) /\ ReservationsSound(s) /\ OwnersSound(s)
      /\ AccountsSound(s)
  BY DEF Sound
<1>2. /\ OnlyChanges(s, t, {"free", "next", "reservations"})
      /\ t.free = a.free /\ t.next = a.next /\ t.length = a.length
      /\ t.reservations = s.reservations \cup {q}
      /\ t.nextReservation = s.nextReservation + 1
      /\ t.pendingSlots = s.pendingSlots + n
      /\ t.pendingBytes = s.pendingBytes + bytes
  BY <1>1, ReserveFields
<1>3. /\ Canonical(a.free)
      /\ a.next \in Nat /\ a.length \in Nat
      /\ s.next <= a.next /\ a.next <= a.length /\ a.length <= MaxSlots
      /\ AllocatedBase(s, n) \in Nat
      /\ P \subseteq 0 .. a.next - 1
      /\ P \cap (OwnedOf(s) \cup Places(s.reservations)) = {}
      /\ SlotsIn(a.free) =
           (0 .. a.next - 1) \ (OwnedOf(s) \cup Places(s.reservations) \cup P)
  BY AllocateSound DEF canRegister
<1>4. /\ q.id = s.nextReservation /\ q.base = AllocatedBase(s, n)
      /\ q.slotCount = n /\ q.byteLength = bytes
  BY DEF NextReservation
<1>5. Place(q) = P
  BY <1>4 DEF Place
<1> HIDE DEF t, q, P, a
<1>6. /\ t.table = s.table /\ t.slotOwners = s.slotOwners /\ t.owners = s.owners
      /\ t.nextOwner = s.nextOwner /\ t.liveSlots = s.liveSlots /\ t.liveBytes = s.liveBytes
      /\ t.retirements = s.retirements /\ IsStore(t)
  BY <1>2 DEF OnlyChanges
<1>7. /\ OwnersSound(t) /\ OwnedOf(t) = OwnedOf(s)
      /\ BytesOf(t, DOMAIN t.owners) = BytesOf(s, DOMAIN s.owners)
  <2>1. t.nextOwner \in Nat /\ s.nextOwner <= t.nextOwner /\ t.retirements \subseteq OwnedOf(s)
    BY <1>1, <1>6 DEF OwnersSound
  <2> QED
    BY <1>1, <1>6, <2>1, OwnersUntouched
<1>8. q \notin s.reservations
  BY <1>1, <1>4 DEF ReservationsSound
<1>9. Places(t.reservations) = Places(s.reservations) \cup P
  BY <1>2, <1>5 DEF Places
<1>10. \A r \in s.reservations : Place(r) \subseteq Places(s.reservations)
  BY DEF Places
<1>11. SlotsSound(t)
  <2>1. /\ Canonical(t.free) /\ t.next \in Nat /\ t.length \in Nat
        /\ t.next <= t.length /\ t.length <= MaxSlots
    BY <1>2, <1>3
  <2>2. 0 .. s.next - 1 \subseteq 0 .. t.next - 1
    BY <1>1, <1>2, <1>3 DEF SlotsSound
  <2>3. /\ OwnedOf(t) \subseteq 0 .. t.next - 1
        /\ Places(t.reservations) \subseteq 0 .. t.next - 1
        /\ OwnedOf(t) \cap Places(t.reservations) = {}
    BY <1>1, <1>2, <1>3, <1>7, <1>9, <2>2 DEF SlotsSound
  <2>4. \A r, u \in t.reservations : r # u => Place(r) \cap Place(u) = {}
    <3>1. \A r \in s.reservations : Place(r) \cap Place(q) = {}
      BY <1>3, <1>5, <1>10
    <3>2. \A r, u \in s.reservations : r # u => Place(r) \cap Place(u) = {}
      BY <1>1 DEF SlotsSound
    <3> QED
      BY <1>2, <3>1, <3>2
  <2>5. SlotsIn(t.free) = (0 .. t.next - 1) \ (OwnedOf(t) \cup Places(t.reservations))
    BY <1>2, <1>3, <1>7, <1>9
  <2> QED
    BY <2>1, <2>3, <2>4, <2>5 DEF SlotsSound
<1>12. ReservationsSound(t)
  <2>1. IsFiniteSet(t.reservations)
    BY <1>1, <1>2, FS_AddElement DEF ReservationsSound
  <2>2. s.nextReservation \in Nat \ {0}
    BY <1>1 DEF ReservationsSound
  <2>3. \A r \in s.reservations :
          /\ r.id \in 1 .. s.nextReservation - 1
          /\ r.base \in Nat /\ r.slotCount \in Nat \ {0} /\ r.byteLength \in Nat
    BY <1>1 DEF ReservationsSound
  <2>4. ASSUME NEW r \in t.reservations
        PROVE  /\ r.id \in 1 .. t.nextReservation - 1
               /\ r.base \in Nat /\ r.slotCount \in Nat \ {0} /\ r.byteLength \in Nat
    <3>1. CASE r \in s.reservations
      BY <1>2, <2>2, <2>3, <3>1
    <3>2. CASE r = q
      BY <1>2, <1>3, <1>4, <2>2, <3>2
    <3> QED
      BY <1>2, <3>1, <3>2
  <2> QED
    BY <1>2, <2>1, <2>2, <2>4 DEF ReservationsSound
<1>13. AccountsSound(t)
  <2>1. /\ Cardinality(DOMAIN s.owners) \in Nat /\ Cardinality(s.reservations) \in Nat
        /\ IsFiniteSet(s.reservations)
        /\ SlotsPending(s) \in Nat /\ BytesPending(s) \in Nat
        /\ BytesOf(s, DOMAIN s.owners) \in Nat
    BY FiniteParts
  <2>2. Cardinality(t.reservations) = Cardinality(s.reservations) + 1
    BY <1>2, <1>8, <2>1, FS_AddElement
  <2>3. /\ IsFiniteSet(t.reservations) /\ q \in t.reservations
        /\ t.reservations \ {q} = s.reservations
        /\ \A r \in t.reservations : r["slotCount"] \in Nat /\ r["byteLength"] \in Nat
    BY <1>2, <1>8, <1>12 DEF ReservationsSound
  <2>4. SlotsPending(t) = SlotsPending(s) + n
    <3>1. SumOf(t.reservations, "slotCount") = SumOf(s.reservations, "slotCount") + q["slotCount"]
      BY <2>3, FieldSum
    <3> QED
      BY <1>4, <3>1, PendingIsSum
  <2>5. BytesPending(t) = BytesPending(s) + bytes
    <3>1. SumOf(t.reservations, "byteLength") = SumOf(s.reservations, "byteLength") + q["byteLength"]
      BY <2>3, FieldSum
    <3> QED
      BY <1>4, <3>1, PendingIsSum
  <2>6. /\ s.liveSlots = Cardinality(OwnedOf(s))
        /\ s.liveBytes = BytesOf(s, DOMAIN s.owners)
        /\ s.pendingSlots = SlotsPending(s) /\ s.pendingBytes = BytesPending(s)
    BY <1>1 DEF AccountsSound
  <2>7. /\ Cardinality(DOMAIN s.owners) + Cardinality(s.reservations) < MaxModules
        /\ s.liveBytes + s.pendingBytes + bytes <= MaxBytes
    BY DEF canRegister
  <2>8. MaxModules \in Nat /\ MaxBytes \in Nat
    BY StoreAssumption
  <2>9. Cardinality(DOMAIN t.owners) + Cardinality(t.reservations) <= MaxModules
    BY <1>6, <2>1, <2>2, <2>7, <2>8
  <2>10. t.liveBytes + t.pendingBytes <= MaxBytes
    BY <1>2, <1>6, <2>1, <2>6, <2>7, <2>8
  <2> QED
    BY <1>2, <1>6, <1>7, <2>4, <2>5, <2>6, <2>9, <2>10 DEF AccountsSound
<1>14. q.id # 0
  BY <1>1, <1>4 DEF ReservationsSound
<1> QED
  BY <1>2, <1>4, <1>6, <1>7, <1>8, <1>11, <1>12, <1>13, <1>14 DEF Sound, t, q

(* A reservation consumed: its slots are nobody's for a moment.            *)
LEMMA ConsumeKeeps ==
  ASSUME NEW s, Sound(s), NEW r \in s.reservations, NEW t,
         t.reservations = s.reservations \ {r},
         t.pendingSlots = s.pendingSlots - r.slotCount,
         t.pendingBytes = s.pendingBytes - r.byteLength,
         t.nextReservation = s.nextReservation
  PROVE  /\ ReservationsSound(t)
         /\ t.pendingSlots = SlotsPending(t) /\ t.pendingBytes = BytesPending(t)
         /\ BytesPending(t) \in Nat /\ r.byteLength \in Nat
         /\ BytesPending(t) = BytesPending(s) - r.byteLength
         /\ Cardinality(t.reservations) = Cardinality(s.reservations) - 1
         /\ Cardinality(s.reservations) \in Nat
         /\ Places(s.reservations) = Places(t.reservations) \cup Place(r)
         /\ Place(r) \cap Places(t.reservations) = {}
         /\ Place(r) \subseteq 0 .. s.next - 1
         /\ Place(r) \cap OwnedOf(s) = {}
         /\ r.base \in Nat /\ r.slotCount \in Nat \ {0}
<1>1. /\ SlotsSound(s) /\ ReservationsSound(s) /\ AccountsSound(s)
  BY DEF Sound
<1>2. /\ IsFiniteSet(s.reservations) /\ Cardinality(s.reservations) \in Nat
      /\ SlotsPending(s) \in Nat /\ BytesPending(s) \in Nat
  BY FiniteParts
<1>3. /\ IsFiniteSet(t.reservations)
      /\ Cardinality(t.reservations) = Cardinality(s.reservations) - 1
  BY <1>2, FS_RemoveElement
<1>4. ReservationsSound(t)
  BY <1>1, <1>3 DEF ReservationsSound
<1>5. \A u \in s.reservations : u["slotCount"] \in Nat /\ u["byteLength"] \in Nat
  BY <1>1 DEF ReservationsSound
<1>6. /\ r.base \in Nat /\ r.slotCount \in Nat \ {0} /\ r.byteLength \in Nat
  BY <1>1 DEF ReservationsSound
<1>7. SlotsPending(s) = SlotsPending(t) + r.slotCount /\ SlotsPending(t) \in Nat
  <2>1. SumOf(s.reservations, "slotCount") = SumOf(t.reservations, "slotCount") + r["slotCount"]
    BY <1>2, <1>5, FieldSum
  <2>2. SumOf(t.reservations, "slotCount") \in Nat
    BY <1>3, <1>5, FieldSum
  <2> QED
    BY <2>1, <2>2, PendingIsSum
<1>8. BytesPending(s) = BytesPending(t) + r.byteLength /\ BytesPending(t) \in Nat
  <2>1. SumOf(s.reservations, "byteLength") = SumOf(t.reservations, "byteLength") + r["byteLength"]
    BY <1>2, <1>5, FieldSum
  <2>2. SumOf(t.reservations, "byteLength") \in Nat
    BY <1>3, <1>5, FieldSum
  <2> QED
    BY <2>1, <2>2, PendingIsSum
<1>9. t.pendingSlots = SlotsPending(t) /\ t.pendingBytes = BytesPending(t)
  BY <1>1, <1>6, <1>7, <1>8 DEF AccountsSound
<1>10. Places(s.reservations) = Places(t.reservations) \cup Place(r)
  BY DEF Places
<1>11. Place(r) \cap Places(t.reservations) = {}
  BY <1>1 DEF SlotsSound, Places
<1>12. Place(r) \subseteq 0 .. s.next - 1 /\ Place(r) \cap OwnedOf(s) = {}
  BY <1>1, <1>10 DEF SlotsSound
<1>13. BytesPending(t) = BytesPending(s) - r.byteLength
  BY <1>6, <1>8
<1> QED
  BY <1>2, <1>3, <1>4, <1>6, <1>8, <1>9, <1>10, <1>11, <1>12, <1>13

(* The run of a reservation.                                               *)
LEMMA PlaceIsRun ==
  ASSUME NEW b \in Nat, NEW n \in Nat \ {0}
  PROVE  Run(b, n) \in Runs /\ SlotsOf(Run(b, n)) = RunSlots(b, n)
BY DEF Run, Runs, SlotsOf

(* releaseReservation keeps a store sound.                                 *)
LEMMA ReleaseSound ==
  ASSUME NEW s, Sound(s), NEW r \in s.reservations
  PROVE  /\ Sound(releaseReservation(s, r))
         /\ OnlyChanges(s, releaseReservation(s, r), {"free", "reservations"})
         /\ releaseReservation(s, r).reservations = s.reservations \ {r}
<1> DEFINE t == releaseReservation(s, r)
<1>1. /\ IsStore(s) /\ SlotsSound(s) /\ OwnersSound(s) /\ AccountsSound(s)
  BY DEF Sound
<1>2. /\ OnlyChanges(s, t, {"free", "reservations"})
      /\ t.free = releaseRun(s.free, Run(r.base, r.slotCount))
      /\ t.reservations = s.reservations \ {r}
      /\ t.nextReservation = s.nextReservation
      /\ t.pendingSlots = s.pendingSlots - r.slotCount
      /\ t.pendingBytes = s.pendingBytes - r.byteLength
  BY <1>1, ReleaseFields
<1> HIDE DEF t
<1>3. /\ ReservationsSound(t)
      /\ t.pendingSlots = SlotsPending(t) /\ t.pendingBytes = BytesPending(t)
      /\ BytesPending(t) \in Nat /\ r.byteLength \in Nat
      /\ BytesPending(t) = BytesPending(s) - r.byteLength
      /\ Cardinality(t.reservations) = Cardinality(s.reservations) - 1
      /\ Cardinality(s.reservations) \in Nat
      /\ Places(s.reservations) = Places(t.reservations) \cup Place(r)
      /\ Place(r) \cap Places(t.reservations) = {}
      /\ Place(r) \subseteq 0 .. s.next - 1
      /\ Place(r) \cap OwnedOf(s) = {}
      /\ r.base \in Nat /\ r.slotCount \in Nat \ {0}
  BY <1>2, ConsumeKeeps
<1>4. /\ t.table = s.table /\ t.slotOwners = s.slotOwners /\ t.owners = s.owners
      /\ t.nextOwner = s.nextOwner /\ t.liveSlots = s.liveSlots /\ t.liveBytes = s.liveBytes
      /\ t.retirements = s.retirements /\ t.next = s.next /\ t.length = s.length
      /\ IsStore(t)
  BY <1>2 DEF OnlyChanges
<1>5. /\ OwnersSound(t) /\ OwnedOf(t) = OwnedOf(s)
      /\ BytesOf(t, DOMAIN t.owners) = BytesOf(s, DOMAIN s.owners)
  <2>1. t.nextOwner \in Nat /\ s.nextOwner <= t.nextOwner /\ t.retirements \subseteq OwnedOf(s)
    BY <1>1, <1>4 DEF OwnersSound
  <2> QED
    BY <1>1, <1>4, <2>1, OwnersUntouched
<1>6. /\ Canonical(t.free) /\ SlotsIn(t.free) = SlotsIn(s.free) \cup Place(r)
  <2>1. /\ Run(r.base, r.slotCount) \in Runs
        /\ SlotsOf(Run(r.base, r.slotCount)) = Place(r)
    BY <1>3, PlaceIsRun DEF Place
  <2>2. Canonical(s.free) /\ Place(r) \cap SlotsIn(s.free) = {}
    BY <1>1, <1>3 DEF SlotsSound
  <2> QED
    BY <1>2, <2>1, <2>2, ReleaseRun
<1>7. SlotsSound(t)
  <2>1. /\ s.next \in Nat /\ s.length \in Nat /\ s.next <= s.length /\ s.length <= MaxSlots
        /\ OwnedOf(s) \subseteq 0 .. s.next - 1
        /\ Places(s.reservations) \subseteq 0 .. s.next - 1
        /\ OwnedOf(s) \cap Places(s.reservations) = {}
        /\ \A u, v \in s.reservations : u # v => Place(u) \cap Place(v) = {}
        /\ SlotsIn(s.free) = (0 .. s.next - 1) \ (OwnedOf(s) \cup Places(s.reservations))
    BY <1>1 DEF SlotsSound
  <2>2. SlotsIn(t.free) = (0 .. t.next - 1) \ (OwnedOf(t) \cup Places(t.reservations))
    BY <1>3, <1>4, <1>5, <1>6, <2>1
  <2>3. /\ Places(t.reservations) \subseteq 0 .. t.next - 1
        /\ OwnedOf(t) \cap Places(t.reservations) = {}
        /\ OwnedOf(t) \subseteq 0 .. t.next - 1
    BY <1>3, <1>4, <1>5, <2>1
  <2>4. \A u, v \in t.reservations : u # v => Place(u) \cap Place(v) = {}
    BY <1>2, <2>1
  <2> QED
    BY <1>4, <1>6, <2>1, <2>2, <2>3, <2>4 DEF SlotsSound
<1>8. AccountsSound(t)
  <2>1. /\ Cardinality(DOMAIN s.owners) \in Nat /\ BytesPending(s) \in Nat
        /\ BytesOf(s, DOMAIN s.owners) \in Nat /\ MaxModules \in Nat /\ MaxBytes \in Nat
    BY FiniteParts, StoreAssumption
  <2>2. /\ s.liveSlots = Cardinality(OwnedOf(s)) /\ s.liveBytes = BytesOf(s, DOMAIN s.owners)
        /\ s.pendingBytes = BytesPending(s)
        /\ Cardinality(DOMAIN s.owners) + Cardinality(s.reservations) <= MaxModules
        /\ s.liveBytes + s.pendingBytes <= MaxBytes
    BY <1>1 DEF AccountsSound
  <2>3. Cardinality(DOMAIN t.owners) + Cardinality(t.reservations) <= MaxModules
    BY <1>3, <1>4, <2>1, <2>2
  <2>4. t.liveBytes + t.pendingBytes <= MaxBytes
    BY <1>3, <1>4, <2>1, <2>2
  <2> QED
    BY <1>3, <1>4, <1>5, <2>2, <2>3, <2>4 DEF AccountsSound
<1> QED
  BY <1>2, <1>3, <1>4, <1>5, <1>7, <1>8 DEF Sound, t

(* A module is installed in the slots of its reservation.                  *)
LEMMA InstallSound ==
  ASSUME NEW s, Sound(s), NEW r \in s.reservations, NEW generation
  PROVE  LET t == install(consumeReservation(s, r), r.base, r.slotCount, r.byteLength, generation)
         IN  /\ Sound(t)
             /\ OnlyChanges(s, t, {"owners", "reservations"})
             /\ t.reservations = s.reservations \ {r}
             /\ OwnedOf(t) = OwnedOf(s) \cup Place(r)
             /\ Place(r) \cap OwnedOf(s) = {}
             /\ \A o \in DOMAIN t.owners :
                  \/ t.owners[o].generation = generation
                  \/ o \in DOMAIN s.owners /\ t.owners[o] = s.owners[o]
<1> DEFINE c == consumeReservation(s, r)
           t == install(c, r.base, r.slotCount, r.byteLength, generation)
           id == s.nextOwner
           D == DOMAIN s.owners
           P == Place(r)
<1>1. /\ IsStore(s) /\ SlotsSound(s) /\ OwnersSound(s) /\ AccountsSound(s)
  BY DEF Sound
<1>2. /\ OnlyChanges(s, c, {"reservations"})
      /\ c.reservations = s.reservations \ {r}
      /\ c.nextReservation = s.nextReservation
      /\ c.pendingSlots = s.pendingSlots - r.slotCount
      /\ c.pendingBytes = s.pendingBytes - r.byteLength
  BY <1>1, ConsumeFields
<1>3. /\ IsStore(c) /\ c.free = s.free /\ c.next = s.next /\ c.length = s.length
      /\ c.table = s.table /\ c.slotOwners = s.slotOwners /\ c.owners = s.owners
      /\ c.nextOwner = s.nextOwner /\ c.liveSlots = s.liveSlots /\ c.liveBytes = s.liveBytes
      /\ c.retirements = s.retirements /\ c.generation = s.generation
      /\ c.destroyed = s.destroyed
  BY <1>2 DEF OnlyChanges
<1> HIDE DEF c
<1>4. Installs(c, t, P, r.slotCount, r.byteLength, generation)
  BY <1>3, InstallFields DEF Place
<1> HIDE DEF t
<1>5. /\ OnlyChanges(s, t, {"owners", "reservations"})
      /\ t.reservations = s.reservations \ {r}
      /\ t.nextReservation = s.nextReservation
      /\ t.pendingSlots = s.pendingSlots - r.slotCount
      /\ t.pendingBytes = s.pendingBytes - r.byteLength
      /\ t.free = s.free /\ t.next = s.next /\ t.length = s.length
      /\ t.retirements = s.retirements /\ IsStore(t)
  BY <1>2, <1>3, <1>4 DEF OnlyChanges, Installs
<1>6. /\ t.table = [x \in Slots |-> IF x \in P THEN id ELSE s.table[x]]
      /\ t.slotOwners = [x \in OwnedOf(s) \cup P |-> IF x \in P THEN id ELSE s.slotOwners[x]]
      /\ t.owners = [o \in D \cup {id} |->
           IF o = id THEN [slots |-> P, bytes |-> r.byteLength, generation |-> generation]
                     ELSE s.owners[o]]
      /\ t.nextOwner = id + 1
      /\ t.liveSlots = s.liveSlots + r.slotCount
      /\ t.liveBytes = s.liveBytes + r.byteLength
  BY <1>3, <1>4 DEF Installs, InstalledOwners, OwnedOf
<1>7. /\ ReservationsSound(t)
      /\ t.pendingSlots = SlotsPending(t) /\ t.pendingBytes = BytesPending(t)
      /\ BytesPending(t) \in Nat /\ r.byteLength \in Nat
      /\ BytesPending(t) = BytesPending(s) - r.byteLength
      /\ Cardinality(t.reservations) = Cardinality(s.reservations) - 1
      /\ Cardinality(s.reservations) \in Nat
      /\ Places(s.reservations) = Places(t.reservations) \cup P
      /\ P \cap Places(t.reservations) = {}
      /\ P \subseteq 0 .. s.next - 1
      /\ P \cap OwnedOf(s) = {}
      /\ r.base \in Nat /\ r.slotCount \in Nat \ {0}
  BY <1>5, ConsumeKeeps
<1>8. P = r.base .. r.base + r.slotCount - 1
  BY DEF Place, RunSlots
<1>9. P # {}
  BY <1>7, <1>8
<1> HIDE DEF P, D, id
<1>10. OwnedOf(t) = OwnedOf(s) \cup P
  BY <1>6 DEF OwnedOf
<1>11. /\ id \in Nat \ {0} /\ id \notin D /\ D \subseteq 1 .. id - 1
       /\ DOMAIN t.owners = D \cup {id}
  <2>1. id \in Nat \ {0} /\ D \subseteq 1 .. id - 1
    BY <1>1 DEF OwnersSound, D, id
  <2> QED
    BY <1>6, <2>1
<1>12. SlotsSound(t)
  <2>1. /\ Canonical(s.free)
        /\ s.next \in Nat /\ s.length \in Nat /\ s.next <= s.length /\ s.length <= MaxSlots
        /\ OwnedOf(s) \subseteq 0 .. s.next - 1
        /\ Places(s.reservations) \subseteq 0 .. s.next - 1
        /\ OwnedOf(s) \cap Places(s.reservations) = {}
        /\ \A u, v \in s.reservations : u # v => Place(u) \cap Place(v) = {}
        /\ SlotsIn(s.free) = (0 .. s.next - 1) \ (OwnedOf(s) \cup Places(s.reservations))
    BY <1>1 DEF SlotsSound
  <2>2. SlotsIn(t.free) = (0 .. t.next - 1) \ (OwnedOf(t) \cup Places(t.reservations))
    BY <1>5, <1>7, <1>10, <2>1
  <2>3. /\ Places(t.reservations) \subseteq 0 .. t.next - 1
        /\ OwnedOf(t) \cap Places(t.reservations) = {}
        /\ OwnedOf(t) \subseteq 0 .. t.next - 1
    BY <1>5, <1>7, <1>10, <2>1
  <2>4. \A u, v \in t.reservations : u # v => Place(u) \cap Place(v) = {}
    BY <1>5, <2>1
  <2> QED
    BY <1>5, <2>1, <2>2, <2>3, <2>4 DEF SlotsSound
<1>13. OwnersSound(t)
  <2>1. /\ \A o \in D : /\ DOMAIN s.owners[o] = {"slots", "bytes", "generation"}
                        /\ s.owners[o].bytes \in Nat
                        /\ s.owners[o].slots # {}
                        /\ s.owners[o].slots = {x \in OwnedOf(s) : s.slotOwners[x] = o}
        /\ \A x \in OwnedOf(s) : s.slotOwners[x] \in D
        /\ \A x \in Slots : s.table[x] = IF x \in OwnedOf(s) THEN s.slotOwners[x] ELSE 0
        /\ s.retirements \subseteq OwnedOf(s)
    BY <1>1 DEF OwnersSound, D
  <2>2. \A x \in OwnedOf(s) : x \in OwnedOf(t) /\ x \notin P /\ t.slotOwners[x] = s.slotOwners[x]
    BY <1>6, <1>7, <1>10
  <2>3. \A x \in P : x \in OwnedOf(t) /\ t.slotOwners[x] = id
    BY <1>6, <1>10
  <2>4. t.nextOwner \in Nat \ {0} /\ DOMAIN t.owners \subseteq 1 .. t.nextOwner - 1
    BY <1>6, <1>11
  <2>5. ASSUME NEW o \in DOMAIN t.owners
        PROVE  /\ DOMAIN t.owners[o] = {"slots", "bytes", "generation"}
               /\ t.owners[o].bytes \in Nat
               /\ t.owners[o].slots # {}
               /\ t.owners[o].slots = {x \in OwnedOf(t) : t.slotOwners[x] = o}
    <3>1. CASE o = id
      <4>1. t.owners[o] = [slots |-> P, bytes |-> r.byteLength, generation |-> generation]
        BY <1>6, <1>11, <3>1
      <4>2. \A x \in OwnedOf(s) : t.slotOwners[x] # id
        BY <1>11, <2>1, <2>2
      <4>3. P = {x \in OwnedOf(t) : t.slotOwners[x] = o}
        BY <1>10, <2>3, <3>1, <4>2
      <4> QED
        BY <1>7, <1>9, <4>1, <4>3
    <3>2. CASE o # id
      <4>1. o \in D /\ t.owners[o] = s.owners[o]
        BY <1>6, <1>11, <3>2
      <4>2. \A x \in P : t.slotOwners[x] # o
        BY <2>3, <3>2
      <4>3. {x \in OwnedOf(t) : t.slotOwners[x] = o} = {x \in OwnedOf(s) : s.slotOwners[x] = o}
        BY <1>10, <2>2, <4>2
      <4> QED
        BY <2>1, <4>1, <4>3
    <3> QED
      BY <3>1, <3>2
  <2>6. \A x \in OwnedOf(t) : t.slotOwners[x] \in DOMAIN t.owners
    BY <1>10, <1>11, <2>1, <2>2, <2>3
  <2>7. ASSUME NEW x \in Slots
        PROVE  t.table[x] = IF x \in OwnedOf(t) THEN t.slotOwners[x] ELSE 0
    <3>1. t.table[x] = IF x \in P THEN id ELSE s.table[x]
      BY <1>6
    <3>2. s.table[x] = IF x \in OwnedOf(s) THEN s.slotOwners[x] ELSE 0
      BY <2>1
    <3> QED
      BY <1>10, <2>2, <2>3, <3>1, <3>2
  <2>8. t.retirements \subseteq OwnedOf(t)
    BY <1>5, <1>10, <2>1
  <2> QED
    BY <2>4, <2>5, <2>6, <2>7, <2>8 DEF OwnersSound
<1>14. AccountsSound(t)
  <2>1. /\ IsFiniteSet(D) /\ Cardinality(D) \in Nat /\ IsFiniteSet(OwnedOf(s))
        /\ Cardinality(OwnedOf(s)) \in Nat
        /\ BytesPending(s) \in Nat
        /\ BytesOf(s, D) \in Nat /\ MaxModules \in Nat /\ MaxBytes \in Nat
    BY FiniteParts, StoreAssumption DEF D
  <2>2. /\ s.liveSlots = Cardinality(OwnedOf(s)) /\ s.liveBytes = BytesOf(s, D)
        /\ s.pendingBytes = BytesPending(s)
        /\ Cardinality(D) + Cardinality(s.reservations) <= MaxModules
        /\ s.liveBytes + s.pendingBytes <= MaxBytes
    BY <1>1 DEF AccountsSound, D
  <2>3. Cardinality(OwnedOf(t)) = Cardinality(OwnedOf(s)) + r.slotCount
    <3>1. IsFiniteSet(P) /\ Cardinality(P) = r.slotCount
      <4>1. r.base \in Int /\ r.base + r.slotCount - 1 \in Int
            /\ ~(r.base > r.base + r.slotCount - 1)
            /\ (r.base + r.slotCount - 1) - r.base + 1 = r.slotCount
        BY <1>7
      <4> QED
        BY <1>8, <4>1, FS_Interval
    <3>2. OwnedOf(s) \cap P = {}
      BY <1>7
    <3>3. Cardinality(OwnedOf(s) \cap P) = 0
      BY <3>2, FS_EmptySet
    <3>4. Cardinality(OwnedOf(s) \cup P) =
            Cardinality(OwnedOf(s)) + Cardinality(P) - Cardinality(OwnedOf(s) \cap P)
      BY <2>1, <3>1, FS_Union
    <3> QED
      BY <1>7, <1>10, <2>1, <3>1, <3>3, <3>4
  <2>4. Cardinality(DOMAIN t.owners) = Cardinality(D) + 1
    BY <1>11, <2>1, FS_AddElement
  <2>5. BytesOf(t, DOMAIN t.owners) = BytesOf(s, D) + r.byteLength
    <3> DEFINE f == [o \in D |-> s.owners[o].bytes]
               g == [o \in DOMAIN t.owners |-> t.owners[o].bytes]
    <3>1. BytesOf(s, D) = SumFunctionOnSet(f, D)
      BY DEF BytesOf, D
    <3>2. BytesOf(t, D \cup {id}) = SumFunctionOnSet(g, D \cup {id})
      BY DEF BytesOf
    <3>3. NatOn(f, D)
      BY FiniteParts DEF D
    <3>4. \A o \in D : f[o] = g[o]
      BY <1>6, <1>11
    <3>5. g[id] = r.byteLength
      BY <1>6, <1>11
    <3>6. NatOn(g, D \cup {id})
      <4> HIDE DEF f, g
      <4> QED
        BY <1>7, <3>3, <3>4, <3>5 DEF NatOn
    <3> HIDE DEF f, g
    <3>7. SumFunctionOnSet(g, D \cup {id}) = SumFunctionOnSet(g, D) + g[id]
      BY <1>11, <2>1, <3>6, SumAdd
    <3>8. SumFunctionOnSet(f, D) = SumFunctionOnSet(g, D)
      BY <2>1, <3>3, <3>4, SumSame
    <3> QED
      BY <1>11, <3>1, <3>2, <3>5, <3>7, <3>8
  <2>6. Cardinality(DOMAIN t.owners) + Cardinality(t.reservations) <= MaxModules
    BY <1>7, <2>1, <2>2, <2>4
  <2>7. t.liveBytes + t.pendingBytes <= MaxBytes
    BY <1>6, <1>7, <2>1, <2>2
  <2> QED
    BY <1>6, <1>7, <2>2, <2>3, <2>5, <2>6, <2>7 DEF AccountsSound
<1>15. \A o \in DOMAIN t.owners :
         \/ t.owners[o].generation = generation
         \/ o \in DOMAIN s.owners /\ t.owners[o] = s.owners[o]
  BY <1>6, <1>11 DEF D
<1> QED
  BY <1>5, <1>7, <1>10, <1>12, <1>13, <1>14, <1>15 DEF Sound, t, c, P

(* Soundness is about the slots, their owners, the reservations and the    *)
(* sums: the rest may change.                                              *)
LEMMA SoundSame ==
  ASSUME NEW s, Sound(s), NEW t, IsStore(t),
         t.free = s.free, t.next = s.next, t.length = s.length, t.table = s.table,
         t.owners = s.owners, t.slotOwners = s.slotOwners,
         t.reservations = s.reservations, t.nextReservation = s.nextReservation,
         t.liveSlots = s.liveSlots, t.liveBytes = s.liveBytes,
         t.pendingSlots = s.pendingSlots, t.pendingBytes = s.pendingBytes,
         t.nextOwner \in Nat, s.nextOwner <= t.nextOwner,
         t.retirements \subseteq OwnedOf(s)
  PROVE  Sound(t) /\ OwnedOf(t) = OwnedOf(s)
<1>1. /\ SlotsSound(s) /\ ReservationsSound(s) /\ OwnersSound(s) /\ AccountsSound(s)
  BY DEF Sound
<1>2. /\ OwnersSound(t) /\ OwnedOf(t) = OwnedOf(s)
      /\ BytesOf(t, DOMAIN t.owners) = BytesOf(s, DOMAIN s.owners)
  BY <1>1, OwnersUntouched
<1>3. SlotsSound(t)
  BY <1>1, <1>2 DEF SlotsSound
<1>4. ReservationsSound(t)
  BY <1>1 DEF ReservationsSound
<1>5. SlotsPending(t) = SlotsPending(s) /\ BytesPending(t) = BytesPending(s)
  BY DEF SlotsPending, BytesPending
<1>6. AccountsSound(t)
  BY <1>1, <1>2, <1>5 DEF AccountsSound
<1> QED
  BY <1>2, <1>3, <1>4, <1>6 DEF Sound

(* retire keeps a store sound.                                             *)
LEMMA RetireSound ==
  ASSUME NEW s, Sound(s), NEW slots
  PROVE  /\ Sound(retire(s, slots))
         /\ OnlyChanges(s, retire(s, slots), {"retirements"})
         /\ retire(s, slots).retirements = s.retirements \cup (slots \cap OwnedOf(s))
<1> DEFINE t == retire(s, slots)
<1>1. IsStore(s) /\ OwnersSound(s)
  BY DEF Sound
<1>2. /\ OnlyChanges(s, t, {"retirements"})
      /\ t.retirements = s.retirements \cup (slots \cap OwnedOf(s))
  BY <1>1, RetireFields
<1> HIDE DEF t
<1>3. /\ IsStore(t) /\ t.free = s.free /\ t.next = s.next /\ t.length = s.length
      /\ t.table = s.table /\ t.owners = s.owners /\ t.slotOwners = s.slotOwners
      /\ t.reservations = s.reservations /\ t.nextReservation = s.nextReservation
      /\ t.liveSlots = s.liveSlots /\ t.liveBytes = s.liveBytes
      /\ t.pendingSlots = s.pendingSlots /\ t.pendingBytes = s.pendingBytes
      /\ t.nextOwner = s.nextOwner
  BY <1>2 DEF OnlyChanges
<1>4. t.nextOwner \in Nat /\ s.nextOwner <= t.nextOwner /\ t.retirements \subseteq OwnedOf(s)
  BY <1>1, <1>2, <1>3 DEF OwnersSound
<1>5. Sound(t)
  BY <1>3, <1>4, SoundSame
<1> QED
  BY <1>2, <1>5 DEF t

(* The store moves on to the next machine, or is destroyed.                *)
LEMMA BumpSound ==
  ASSUME NEW s, Sound(s), NEW t,
         \/ t = [s EXCEPT !.generation = @ + 1]
         \/ t = [s EXCEPT !.destroyed = TRUE, !.generation = @ + 1]
  PROVE  /\ Sound(t)
         /\ OnlyChanges(s, t, {"generation", "destroyed"})
<1>1. IsStore(s) /\ OwnersSound(s)
  BY DEF Sound
<1>2. OnlyChanges(s, t, {"generation", "destroyed"})
  BY <1>1 DEF OnlyChanges, IsStore
<1>3. /\ IsStore(t) /\ t.free = s.free /\ t.next = s.next /\ t.length = s.length
      /\ t.table = s.table /\ t.owners = s.owners /\ t.slotOwners = s.slotOwners
      /\ t.reservations = s.reservations /\ t.nextReservation = s.nextReservation
      /\ t.liveSlots = s.liveSlots /\ t.liveBytes = s.liveBytes
      /\ t.pendingSlots = s.pendingSlots /\ t.pendingBytes = s.pendingBytes
      /\ t.nextOwner = s.nextOwner /\ t.retirements = s.retirements
  BY <1>2 DEF OnlyChanges
<1>4. t.nextOwner \in Nat /\ s.nextOwner <= t.nextOwner /\ t.retirements \subseteq OwnedOf(s)
  BY <1>1, <1>3 DEF OwnersSound
<1>5. Sound(t)
  BY <1>3, <1>4, SoundSame
<1> QED
  BY <1>2, <1>5

(* registerReserved() of an active reservation: it is consumed, whatever   *)
(* the outcome, and a module that is installed is one of this machine.     *)
RegisterResult(s, r, outcome, t) ==
  /\ Sound(t)
  /\ t.reservations = s.reservations \ {r}
  /\ t.retirements = s.retirements
  /\ t.generation = s.generation /\ t.destroyed = s.destroyed
  /\ OwnedOf(t) = IF Registers(s, r, outcome) THEN OwnedOf(s) \cup Place(r) ELSE OwnedOf(s)
  /\ Place(r) \cap OwnedOf(s) = {}
  /\ Current(s) => Current(t)

(* registerReserved keeps a store sound, whatever becomes of the module,   *)
(* and installs nothing of an earlier generation.                          *)
LEMMA RegisterSound ==
  ASSUME NEW s, Sound(s), NEW r \in s.reservations, NEW outcome \in Outcomes
  PROVE  RegisterResult(s, r, outcome, registerReserved(s, r, outcome))
<1> DEFINE t == registerReserved(s, r, outcome)
           released == releaseReservation(s, r)
           c == consumeReservation(s, r)
           installed == install(c, r.base, r.slotCount, r.byteLength, r.generation)
           refused == installFails(c, r.base, r.slotCount)
<1>1. /\ IsStore(s) /\ SlotsSound(s) /\ OwnersSound(s)
  BY DEF Sound
<1>2. Place(r) \cap OwnedOf(s) = {}
  BY <1>1 DEF SlotsSound, Places
<1>3. /\ Sound(released)
      /\ OnlyChanges(s, released, {"free", "reservations"})
      /\ released.reservations = s.reservations \ {r}
      /\ released.free = releaseRun(s.free, Run(r.base, r.slotCount))
      /\ released.nextReservation = s.nextReservation
      /\ released.pendingSlots = s.pendingSlots - r.slotCount
      /\ released.pendingBytes = s.pendingBytes - r.byteLength
  BY <1>1, ReleaseSound, ReleaseFields
<1>4. CASE Registers(s, r, outcome)
  <2>1. t = installed /\ r.generation = s.generation
    BY <1>4 DEF registerReserved, Registers
  <2>2. /\ Sound(installed)
        /\ OnlyChanges(s, installed, {"owners", "reservations"})
        /\ installed.reservations = s.reservations \ {r}
        /\ OwnedOf(installed) = OwnedOf(s) \cup Place(r)
        /\ \A o \in DOMAIN installed.owners :
             \/ installed.owners[o].generation = r.generation
             \/ o \in DOMAIN s.owners /\ installed.owners[o] = s.owners[o]
    BY InstallSound
  <2> HIDE DEF t, installed
  <2>3. /\ installed.retirements = s.retirements
        /\ installed.generation = s.generation /\ installed.destroyed = s.destroyed
    BY <2>2 DEF OnlyChanges
  <2>4. Current(s) => Current(installed)
    BY <2>1, <2>2, <2>3 DEF Current
  <2> QED
    BY <1>2, <1>4, <2>1, <2>2, <2>3, <2>4 DEF RegisterResult, t
<1>5. CASE ~Registers(s, r, outcome) /\ t = released
  <2> HIDE DEF t, released
  <2>1. /\ released.retirements = s.retirements /\ released.owners = s.owners
        /\ released.slotOwners = s.slotOwners
        /\ released.generation = s.generation /\ released.destroyed = s.destroyed
    BY <1>3 DEF OnlyChanges
  <2>2. OwnedOf(released) = OwnedOf(s) /\ (Current(s) => Current(released))
    BY <2>1 DEF OwnedOf, Current
  <2> QED
    BY <1>2, <1>3, <1>5, <2>1, <2>2 DEF RegisterResult, t
<1>6. CASE r.generation = s.generation /\ outcome = "refused"
  <2>1. t = releaseReservation(refused, r)
    BY <1>6 DEF registerReserved, Registers
  <2>2. /\ OnlyChanges(s, c, {"reservations"})
        /\ c.reservations = s.reservations \ {r}
        /\ c.nextReservation = s.nextReservation
        /\ c.pendingSlots = s.pendingSlots - r.slotCount
        /\ c.pendingBytes = s.pendingBytes - r.byteLength
    BY <1>1, ConsumeFields
  <2>3. IsStore(c) /\ c.free = s.free /\ c.nextOwner = s.nextOwner
    BY <2>2 DEF OnlyChanges
  <2>4. refused = [c EXCEPT !.nextOwner = c.nextOwner + 1,
                            !.free = releaseRun(c.free, Run(r.base, r.slotCount))]
    BY DEF installFails
  <2> HIDE DEF c, refused, t, released
  <2>5. /\ IsStore(refused) /\ refused.nextOwner = s.nextOwner + 1
        /\ refused.free = releaseRun(s.free, Run(r.base, r.slotCount))
        /\ refused.next = c.next /\ refused.length = c.length /\ refused.table = c.table
        /\ refused.owners = c.owners /\ refused.slotOwners = c.slotOwners
        /\ refused.reservations = c.reservations
        /\ refused.nextReservation = c.nextReservation
        /\ refused.liveSlots = c.liveSlots /\ refused.liveBytes = c.liveBytes
        /\ refused.pendingSlots = c.pendingSlots /\ refused.pendingBytes = c.pendingBytes
        /\ refused.retirements = c.retirements /\ refused.generation = c.generation
        /\ refused.destroyed = c.destroyed
    BY <2>3, <2>4 DEF IsStore
  <2>6. t = refused
    BY <2>1, <2>2, <2>5 DEF releaseReservation
  <2>7. /\ refused.next = s.next /\ refused.length = s.length /\ refused.table = s.table
        /\ refused.owners = s.owners /\ refused.slotOwners = s.slotOwners
        /\ refused.liveSlots = s.liveSlots /\ refused.liveBytes = s.liveBytes
        /\ refused.retirements = s.retirements /\ refused.generation = s.generation
        /\ refused.destroyed = s.destroyed
    BY <2>2, <2>5 DEF OnlyChanges
  <2>8. /\ released.next = s.next /\ released.length = s.length /\ released.table = s.table
        /\ released.owners = s.owners /\ released.slotOwners = s.slotOwners
        /\ released.liveSlots = s.liveSlots /\ released.liveBytes = s.liveBytes
        /\ released.nextOwner = s.nextOwner
    BY <1>3 DEF OnlyChanges
  <2>9. /\ refused.nextOwner \in Nat /\ released.nextOwner <= refused.nextOwner
        /\ refused.retirements \subseteq OwnedOf(released)
        /\ OwnedOf(released) = OwnedOf(s)
    BY <1>1, <2>5, <2>7, <2>8 DEF OwnersSound, OwnedOf
  <2>10. Sound(refused) /\ OwnedOf(refused) = OwnedOf(released)
    BY <1>3, <2>2, <2>5, <2>7, <2>8, <2>9, SoundSame
  <2>11. Current(s) => Current(refused)
    BY <2>7 DEF Current
  <2>12. ~Registers(s, r, outcome)
    BY <1>6 DEF Registers
  <2> QED
    BY <1>2, <2>2, <2>5, <2>6, <2>7, <2>9, <2>10, <2>11, <2>12 DEF RegisterResult, t
<1>7. \/ Registers(s, r, outcome)
      \/ ~Registers(s, r, outcome) /\ t = released
      \/ r.generation = s.generation /\ outcome = "refused"
  <2>1. CASE r.generation # s.generation
    <3>1. ~Registers(s, r, outcome) /\ ~(r.generation = s.generation /\ outcome = "missing")
          /\ ~(r.generation = s.generation /\ outcome = "refused")
      BY <2>1 DEF Registers
    <3> QED
      BY <2>1, <3>1 DEF registerReserved
  <2>2. CASE r.generation = s.generation
    <3>1. outcome = "ok" \/ outcome = "missing" \/ outcome = "refused"
      BY DEF Outcomes
    <3>2. CASE outcome = "ok"
      BY <2>2, <3>2 DEF Registers
    <3>3. CASE outcome = "missing"
      <4>1. ~Registers(s, r, outcome)
        BY <3>3 DEF Registers
      <4> QED
        BY <2>2, <3>3, <4>1 DEF registerReserved
    <3> QED
      BY <2>2, <3>1, <3>2, <3>3
  <2> QED
    BY <2>1, <2>2
<1> QED
  BY <1>4, <1>5, <1>6, <1>7

(* flushRetired(): the retired slots are free, and nothing else is.        *)
FlushResult(s, t) ==
  /\ Sound(t)
  /\ OnlyChanges(s, t, {"free", "owners", "retirements"})
  /\ t.retirements = {}
  /\ OwnedOf(t) = OwnedOf(s) \ s.retirements
  /\ \A o \in DOMAIN t.owners :
       o \in DOMAIN s.owners /\ t.owners[o].generation = s.owners[o].generation

(* flushRetired keeps a store sound and drops just the retired slots.      *)
LEMMA FlushSound ==
  ASSUME NEW s, Sound(s)
  PROVE  FlushResult(s, flushRetired(s))
<1> DEFINE t == flushRetired(s)
           D == DOMAIN s.owners
           gone == Gone(s)
           rest == Rest(s)
           dead == Dead(s)
<1>1. /\ IsStore(s) /\ SlotsSound(s) /\ ReservationsSound(s) /\ OwnersSound(s)
      /\ AccountsSound(s)
  BY DEF Sound
<1>2. Flushes(s, t)
  BY <1>1, FlushFields
<1> HIDE DEF t
<1>3. /\ IsStore(t) /\ t.next = s.next /\ t.length = s.length
      /\ t.reservations = s.reservations /\ t.nextReservation = s.nextReservation
      /\ t.pendingSlots = s.pendingSlots /\ t.pendingBytes = s.pendingBytes
      /\ OnlyChanges(s, t, {"free", "owners", "retirements"})
  BY <1>2 DEF OnlyChanges, Flushes
<1>4. /\ t.free = releaseRuns(s.free, RunsOf(gone))
      /\ t.table = [x \in Slots |-> IF x \in gone THEN 0 ELSE s.table[x]]
      /\ t.slotOwners = [x \in OwnedOf(s) \ gone |-> s.slotOwners[x]]
      /\ t.nextOwner = s.nextOwner
      /\ t.liveSlots = s.liveSlots - Cardinality(gone)
      /\ t.liveBytes = s.liveBytes - BytesOf(s, dead)
      /\ t.retirements = {}
  BY <1>2 DEF Flushes, Drop, Restrict, OwnedOf
<1>5. gone = s.retirements /\ gone \subseteq OwnedOf(s)
  BY <1>1 DEF OwnersSound, Gone, OwnedOf
<1>6. \A o \in D : /\ DOMAIN s.owners[o] = {"slots", "bytes", "generation"}
                   /\ s.owners[o].bytes \in Nat
                   /\ s.owners[o].slots # {}
                   /\ s.owners[o].slots = {x \in OwnedOf(s) : s.slotOwners[x] = o}
  BY <1>1 DEF OwnersSound
<1>7. \A o \in D : /\ DOMAIN rest[o] = {"slots", "bytes", "generation"}
                   /\ rest[o].slots = s.owners[o].slots \ gone
                   /\ rest[o].bytes = s.owners[o].bytes
                   /\ rest[o].generation = s.owners[o].generation
  <2> SUFFICES ASSUME NEW o \in D
               PROVE  /\ DOMAIN rest[o] = {"slots", "bytes", "generation"}
                      /\ rest[o].slots = s.owners[o].slots \ gone
                      /\ rest[o].bytes = s.owners[o].bytes
                      /\ rest[o].generation = s.owners[o].generation
    OBVIOUS
  <2>1. rest[o] = [s.owners[o] EXCEPT !.slots = s.owners[o].slots \ gone]
    BY DEF Rest
  <2> HIDE DEF rest, gone
  <2> QED
    BY <1>6, <2>1
<1>8. t.owners = [o \in D \ dead |-> rest[o]]
  <2>1. DOMAIN rest = D
    BY DEF Rest
  <2>2. t.owners = [o \in DOMAIN rest \ dead |-> rest[o]]
    BY <1>2 DEF Flushes, Drop, Restrict
  <2> HIDE DEF rest, dead
  <2> QED
    BY <2>1, <2>2
<1>9. \A o \in D : o \in dead <=> rest[o].slots = {}
  BY DEF Dead
<1>10. dead \subseteq D
  BY DEF Dead
<1> HIDE DEF gone, rest, dead
<1>11. OwnedOf(t) = OwnedOf(s) \ gone
  BY <1>4 DEF OwnedOf
<1>12. DOMAIN t.owners = D \ dead
  BY <1>8
<1>13. SlotsSound(t)
  <2>1. /\ Canonical(s.free)
        /\ s.next \in Nat /\ s.length \in Nat /\ s.next <= s.length /\ s.length <= MaxSlots
        /\ OwnedOf(s) \subseteq 0 .. s.next - 1
        /\ Places(s.reservations) \subseteq 0 .. s.next - 1
        /\ OwnedOf(s) \cap Places(s.reservations) = {}
        /\ \A u, v \in s.reservations : u # v => Place(u) \cap Place(v) = {}
        /\ SlotsIn(s.free) = (0 .. s.next - 1) \ (OwnedOf(s) \cup Places(s.reservations))
    BY <1>1 DEF SlotsSound
  <2>2. gone \in SUBSET (0 .. s.next - 1)
    BY <1>5, <2>1
  <2>3. /\ RunsOf(gone) \in SUBSET Runs /\ IsFiniteSet(RunsOf(gone))
        /\ UNION {SlotsOf(r) : r \in RunsOf(gone)} = gone
        /\ \A r, q \in RunsOf(gone) : r # q => SlotsOf(r) \cap SlotsOf(q) = {}
    BY <2>1, <2>2, RunsOfSet
  <2>4. gone \cap SlotsIn(s.free) = {}
    BY <1>5, <2>1
  <2>5. \A r \in RunsOf(gone) : SlotsOf(r) \cap SlotsIn(s.free) = {}
    BY <2>3, <2>4
  <2>6. Released(s.free, RunsOf(gone), releaseRuns(s.free, RunsOf(gone)))
    BY <2>1, <2>3, <2>5, ReleaseRuns
  <2>7. Canonical(t.free) /\ SlotsIn(t.free) = SlotsIn(s.free) \cup gone
    BY <1>4, <2>3, <2>6 DEF Released
  <2>8. SlotsIn(t.free) = (0 .. t.next - 1) \ (OwnedOf(t) \cup Places(t.reservations))
    BY <1>3, <1>5, <1>11, <2>1, <2>2, <2>7
  <2>9. /\ Places(t.reservations) \subseteq 0 .. t.next - 1
        /\ OwnedOf(t) \cap Places(t.reservations) = {}
        /\ OwnedOf(t) \subseteq 0 .. t.next - 1
    BY <1>3, <1>11, <2>1
  <2> QED
    BY <1>3, <2>1, <2>7, <2>8, <2>9 DEF SlotsSound
<1>14. ReservationsSound(t)
  BY <1>1, <1>3 DEF ReservationsSound
<1>15. OwnersSound(t)
  <2>1. /\ \A x \in OwnedOf(s) : s.slotOwners[x] \in D
        /\ \A x \in Slots : s.table[x] = IF x \in OwnedOf(s) THEN s.slotOwners[x] ELSE 0
        /\ s.nextOwner \in Nat \ {0} /\ D \subseteq 1 .. s.nextOwner - 1
    BY <1>1 DEF OwnersSound
  <2>2. \A x \in OwnedOf(t) : /\ x \in OwnedOf(s) /\ x \notin gone
                              /\ t.slotOwners[x] = s.slotOwners[x]
    BY <1>4, <1>11
  <2>3. ASSUME NEW o \in DOMAIN t.owners
        PROVE  /\ DOMAIN t.owners[o] = {"slots", "bytes", "generation"}
               /\ t.owners[o].bytes \in Nat
               /\ t.owners[o].slots # {}
               /\ t.owners[o].slots = {x \in OwnedOf(t) : t.slotOwners[x] = o}
    <3>1. o \in D /\ o \notin dead /\ t.owners[o] = rest[o]
      BY <1>8, <1>12
    <3>2. rest[o].slots # {} /\ rest[o].slots = s.owners[o].slots \ gone
      BY <1>7, <1>9, <3>1
    <3>3. s.owners[o].slots = {x \in OwnedOf(s) : s.slotOwners[x] = o}
      BY <1>6, <3>1
    <3>4. rest[o].slots = {x \in OwnedOf(t) : t.slotOwners[x] = o}
      BY <1>11, <2>2, <3>2, <3>3
    <3>5. DOMAIN rest[o] = {"slots", "bytes", "generation"} /\ rest[o].bytes \in Nat
      BY <1>6, <1>7, <3>1
    <3> QED
      BY <3>1, <3>2, <3>4, <3>5
  <2>4. ASSUME NEW x \in OwnedOf(t)
        PROVE  t.slotOwners[x] \in DOMAIN t.owners
    <3> DEFINE o == s.slotOwners[x]
    <3>1. o \in D /\ x \in OwnedOf(s) /\ x \notin gone /\ t.slotOwners[x] = o
      BY <2>1, <2>2
    <3>2. x \in s.owners[o].slots
      BY <1>6, <3>1
    <3> HIDE DEF o
    <3>3. rest[o].slots # {}
      BY <1>7, <3>1, <3>2
    <3> QED
      BY <1>9, <1>12, <3>1, <3>3
  <2>5. ASSUME NEW x \in Slots
        PROVE  t.table[x] = IF x \in OwnedOf(t) THEN t.slotOwners[x] ELSE 0
    <3>1. t.table[x] = IF x \in gone THEN 0 ELSE s.table[x]
      BY <1>4
    <3>2. s.table[x] = IF x \in OwnedOf(s) THEN s.slotOwners[x] ELSE 0
      BY <2>1
    <3> QED
      BY <1>5, <1>11, <2>2, <3>1, <3>2
  <2>6. /\ t.retirements \subseteq OwnedOf(t)
        /\ t.nextOwner \in Nat \ {0} /\ DOMAIN t.owners \subseteq 1 .. t.nextOwner - 1
    BY <1>4, <1>12, <2>1
  <2> QED
    BY <2>3, <2>4, <2>5, <2>6 DEF OwnersSound
<1>16. AccountsSound(t)
  <2>1. /\ IsFiniteSet(D) /\ Cardinality(D) \in Nat /\ IsFiniteSet(OwnedOf(s))
        /\ Cardinality(s.reservations) \in Nat /\ BytesPending(s) \in Nat
        /\ BytesOf(s, D) \in Nat /\ MaxModules \in Nat /\ MaxBytes \in Nat
    BY FiniteParts, StoreAssumption
  <2>2. /\ s.liveSlots = Cardinality(OwnedOf(s)) /\ s.liveBytes = BytesOf(s, D)
        /\ s.pendingSlots = SlotsPending(s) /\ s.pendingBytes = BytesPending(s)
        /\ Cardinality(D) + Cardinality(s.reservations) <= MaxModules
        /\ s.liveBytes + s.pendingBytes <= MaxBytes
    BY <1>1 DEF AccountsSound
  <2>3. Cardinality(OwnedOf(t)) = Cardinality(OwnedOf(s)) - Cardinality(gone)
    <3>1. OwnedOf(s) \cap gone = gone
      BY <1>5
    <3> QED
      BY <1>11, <2>1, <3>1, FS_Difference
  <2>4. Cardinality(DOMAIN t.owners) <= Cardinality(D) /\ Cardinality(DOMAIN t.owners) \in Nat
    <3>1. DOMAIN t.owners \in SUBSET D
      BY <1>12
    <3> QED
      BY <2>1, <3>1, FS_Subset, FS_CardinalityType
  <2>5. /\ BytesOf(s, D) = BytesOf(s, dead) + BytesOf(t, DOMAIN t.owners)
        /\ BytesOf(s, dead) \in Nat /\ BytesOf(t, DOMAIN t.owners) \in Nat
    <3> DEFINE f == [o \in D |-> s.owners[o].bytes]
               g == [o \in DOMAIN t.owners |-> t.owners[o].bytes]
    <3>1. \A S : BytesOf(s, S) = SumFunctionOnSet(f, S)
      BY DEF BytesOf
    <3>2. BytesOf(t, D \ dead) = SumFunctionOnSet(g, D \ dead)
      BY DEF BytesOf
    <3>3. NatOn(f, D)
      BY FiniteParts
    <3>4. \A o \in D \ dead : f[o] = g[o]
      BY <1>7, <1>8, <1>12
    <3> HIDE DEF f, g, D
    <3>5. NatOn(f, D \ dead) /\ NatOn(f, dead)
      BY <1>10, <3>3 DEF NatOn
    <3>6. IsFiniteSet(D \ dead) /\ IsFiniteSet(dead)
      BY <1>10, <2>1, FS_Subset
    <3>7. SumFunctionOnSet(f, D) = SumFunctionOnSet(f, dead) + SumFunctionOnSet(f, D \ dead)
      BY <1>10, <2>1, <3>3, SumSplit
    <3>8. SumFunctionOnSet(f, D \ dead) = SumFunctionOnSet(g, D \ dead)
      BY <3>4, <3>5, <3>6, SumSame
    <3>9. SumFunctionOnSet(f, dead) \in Nat /\ SumFunctionOnSet(f, D \ dead) \in Nat
      BY <3>5, <3>6, SumNat
    <3> QED
      BY <1>12, <3>1, <3>2, <3>7, <3>8, <3>9
  <2>6. SlotsPending(t) = SlotsPending(s) /\ BytesPending(t) = BytesPending(s)
    BY <1>3 DEF SlotsPending, BytesPending
  <2>7. t.liveBytes = BytesOf(t, DOMAIN t.owners)
    BY <1>4, <2>2, <2>5
  <2>8. Cardinality(DOMAIN t.owners) + Cardinality(t.reservations) <= MaxModules
    BY <1>3, <2>1, <2>2, <2>4
  <2>9. t.liveBytes + t.pendingBytes <= MaxBytes
    BY <1>3, <1>4, <2>1, <2>2, <2>5, <2>7
  <2> QED
    BY <1>3, <1>4, <2>2, <2>3, <2>6, <2>7, <2>8, <2>9 DEF AccountsSound
<1>17. \A o \in DOMAIN t.owners :
         o \in DOMAIN s.owners /\ t.owners[o].generation = s.owners[o].generation
  BY <1>7, <1>8, <1>12
<1>18. Sound(t)
  BY <1>3, <1>13, <1>14, <1>15, <1>16 DEF Sound
<1> QED
  BY <1>3, <1>4, <1>5, <1>11, <1>17, <1>18 DEF FlushResult, t

(* A store whose every slot is retired is emptied.                         *)
LEMMA NoSlotsNoOwners ==
  ASSUME NEW s, Sound(s), OwnedOf(s) = {}
  PROVE  DOMAIN s.owners = {}
BY DEF Sound, OwnersSound

(* destroy(): nothing is left, and the sums are still right.               *)
LEMMA DestroySound ==
  ASSUME NEW s, Sound(s), ~s.destroyed
  PROVE  /\ Sound(destroy(s)) /\ Current(destroy(s)) /\ destroy(s).destroyed
         /\ OwnedOf(destroy(s)) = {} /\ destroy(s).reservations = {}
         /\ destroy(s).retirements = {}
<1> DEFINE bumped == [s EXCEPT !.destroyed = TRUE, !.generation = @ + 1]
           retired == retire(bumped, DOMAIN bumped.slotOwners)
           e == flushRetired(retired)
           R == {Run(r.base, r.slotCount) : r \in e.reservations}
           t == destroy(s)
<1>1. Sound(bumped) /\ OnlyChanges(s, bumped, {"generation", "destroyed"})
  BY BumpSound
<1>2. bumped.destroyed = TRUE
  BY DEF Sound, IsStore
<1> HIDE DEF bumped
<1>3. /\ Sound(retired) /\ OnlyChanges(bumped, retired, {"retirements"})
      /\ retired.retirements =
           bumped.retirements \cup (DOMAIN bumped.slotOwners \cap OwnedOf(bumped))
  BY <1>1, RetireSound
<1>4. OwnedOf(retired) \subseteq retired.retirements /\ retired.destroyed = TRUE
  BY <1>2, <1>3 DEF OwnedOf, OnlyChanges
<1> HIDE DEF retired
<1>5. FlushResult(retired, e)
  BY <1>3, FlushSound
<1>6. e.destroyed = TRUE
  BY <1>4, <1>5 DEF FlushResult, OnlyChanges
<1>7. Sound(e) /\ OwnedOf(e) = {} /\ e.retirements = {}
  BY <1>4, <1>5 DEF FlushResult
<1>8. t = [e EXCEPT !.reservations = {},
                    !.pendingSlots = e.pendingSlots - SlotsPending(e),
                    !.pendingBytes = e.pendingBytes - BytesPending(e),
                    !.free = releaseRuns(e.free, R)]
  BY DEF destroy, emptied, bumped, retired
<1> HIDE DEF e, t
<1>9. IsStore(e) /\ SlotsSound(e) /\ ReservationsSound(e) /\ OwnersSound(e) /\ AccountsSound(e)
  BY <1>7 DEF Sound
<1>10. /\ IsStore(t) /\ t.reservations = {} /\ t.free = releaseRuns(e.free, R)
       /\ t.next = e.next /\ t.length = e.length /\ t.table = e.table /\ t.owners = e.owners
       /\ t.slotOwners = e.slotOwners /\ t.retirements = e.retirements
       /\ t.nextOwner = e.nextOwner /\ t.nextReservation = e.nextReservation
       /\ t.generation = e.generation /\ t.destroyed = e.destroyed
       /\ t.liveSlots = e.liveSlots /\ t.liveBytes = e.liveBytes
       /\ t.pendingSlots = e.pendingSlots - SlotsPending(e)
       /\ t.pendingBytes = e.pendingBytes - BytesPending(e)
  <2> HIDE DEF R
  <2> QED
    BY <1>8, <1>9 DEF IsStore
<1>11. /\ OwnersSound(t) /\ OwnedOf(t) = OwnedOf(e)
       /\ BytesOf(t, DOMAIN t.owners) = BytesOf(e, DOMAIN e.owners)
  <2>1. t.nextOwner \in Nat /\ e.nextOwner <= t.nextOwner /\ t.retirements \subseteq OwnedOf(e)
    BY <1>9, <1>10 DEF OwnersSound
  <2> QED
    BY <1>9, <1>10, <2>1, OwnersUntouched
<1>12. ReservationsSound(t)
  BY <1>9, <1>10, FS_EmptySet DEF ReservationsSound
<1>13. \A r \in e.reservations : /\ Run(r.base, r.slotCount) \in Runs
                                /\ SlotsOf(Run(r.base, r.slotCount)) = Place(r)
  BY <1>9, PlaceIsRun DEF ReservationsSound, Place
<1>14. /\ R \in SUBSET Runs /\ IsFiniteSet(R)
       /\ UNION {SlotsOf(q) : q \in R} = Places(e.reservations)
       /\ \A p, q \in R : p # q => SlotsOf(p) \cap SlotsOf(q) = {}
  <2>1. R \in SUBSET Runs
    BY <1>13
  <2>2. IsFiniteSet(R)
    <3> DEFINE f == [r \in e.reservations |-> Run(r.base, r.slotCount)]
    <3>1. IsFiniteSet(e.reservations)
      BY <1>9 DEF ReservationsSound
    <3>2. f \in Surjection(e.reservations, R)
      BY DEF Surjection
    <3> HIDE DEF f, R
    <3> QED
      BY <3>1, <3>2, FS_Surjection
  <2>3. UNION {SlotsOf(q) : q \in R} = Places(e.reservations)
    BY <1>13 DEF Places
  <2>4. ASSUME NEW p \in R, NEW q \in R, p # q
        PROVE  SlotsOf(p) \cap SlotsOf(q) = {}
    <3>1. PICK r \in e.reservations : p = Run(r.base, r.slotCount)
      OBVIOUS
    <3>2. PICK u \in e.reservations : q = Run(u.base, u.slotCount)
      OBVIOUS
    <3>3. r # u
      BY <2>4, <3>1, <3>2
    <3>4. Place(r) \cap Place(u) = {}
      BY <1>9, <3>3 DEF SlotsSound
    <3> QED
      BY <1>13, <3>1, <3>2, <3>4
  <2> QED
    BY <2>1, <2>2, <2>3, <2>4
<1> HIDE DEF R
<1>15. SlotsSound(t)
  <2>1. /\ Canonical(e.free)
        /\ e.next \in Nat /\ e.length \in Nat /\ e.next <= e.length /\ e.length <= MaxSlots
        /\ Places(e.reservations) \subseteq 0 .. e.next - 1
        /\ SlotsIn(e.free) = (0 .. e.next - 1) \ (OwnedOf(e) \cup Places(e.reservations))
    BY <1>9 DEF SlotsSound
  <2>2. \A r \in R : SlotsOf(r) \cap SlotsIn(e.free) = {}
    BY <1>14, <2>1
  <2>3. Released(e.free, R, releaseRuns(e.free, R))
    BY <1>14, <2>1, <2>2, ReleaseRuns
  <2>4. Canonical(t.free) /\ SlotsIn(t.free) = SlotsIn(e.free) \cup Places(e.reservations)
    BY <1>10, <1>14, <2>3 DEF Released
  <2>5. Places(t.reservations) = {}
    BY <1>10 DEF Places
  <2>6. SlotsIn(t.free) = (0 .. t.next - 1) \ (OwnedOf(t) \cup Places(t.reservations))
    BY <1>7, <1>10, <1>11, <2>1, <2>4, <2>5
  <2> QED
    BY <1>7, <1>10, <1>11, <2>1, <2>4, <2>5, <2>6 DEF SlotsSound
<1>16. AccountsSound(t)
  <2>1. /\ SlotsPending(e) \in Nat /\ BytesPending(e) \in Nat
        /\ Cardinality(DOMAIN e.owners) \in Nat /\ Cardinality(e.reservations) \in Nat
        /\ BytesOf(e, DOMAIN e.owners) \in Nat /\ MaxModules \in Nat /\ MaxBytes \in Nat
    BY <1>7, FiniteParts, StoreAssumption
  <2>2. /\ e.liveSlots = Cardinality(OwnedOf(e)) /\ e.liveBytes = BytesOf(e, DOMAIN e.owners)
        /\ e.pendingSlots = SlotsPending(e) /\ e.pendingBytes = BytesPending(e)
        /\ Cardinality(DOMAIN e.owners) + Cardinality(e.reservations) <= MaxModules
        /\ e.liveBytes + e.pendingBytes <= MaxBytes
    BY <1>9 DEF AccountsSound
  <2>3. t.pendingSlots = 0 /\ t.pendingBytes = 0
    BY <1>10, <2>1, <2>2
  <2>4. SlotsPending(t) = 0 /\ BytesPending(t) = 0
    <3>1. IsFiniteSet({}) /\ \A r \in {} : r["slotCount"] \in Nat /\ r["byteLength"] \in Nat
      BY FS_EmptySet
    <3>2. SumOf({}, "slotCount") = 0 /\ SumOf({}, "byteLength") = 0
      BY <3>1, FieldSum
    <3> QED
      BY <1>10, <3>2, PendingIsSum
  <2>5. Cardinality(t.reservations) = 0
    BY <1>10, FS_EmptySet
  <2>6. Cardinality(DOMAIN t.owners) + Cardinality(t.reservations) <= MaxModules
    BY <1>10, <2>1, <2>2, <2>5
  <2>7. t.liveBytes + t.pendingBytes <= MaxBytes
    BY <1>10, <2>1, <2>2, <2>3
  <2> QED
    BY <1>10, <1>11, <2>2, <2>3, <2>4, <2>6, <2>7 DEF AccountsSound
<1>17. Sound(t)
  BY <1>10, <1>11, <1>12, <1>15, <1>16 DEF Sound
<1>18. Current(t)
  <2>1. DOMAIN e.owners = {}
    BY <1>7, NoSlotsNoOwners
  <2> QED
    BY <1>10, <2>1 DEF Current
<1> QED
  BY <1>6, <1>7, <1>10, <1>11, <1>17, <1>18 DEF t

-----------------------------------------------------------------------------
(* The tasks and the compile queue.                                        *)

(* A task that waits for its compilation, or got a module, has reserved    *)
(* slots, as many as its module needs.                                     *)
TaskSound(k) ==
  /\ DOMAIN k = {"ticket", "slotCount", "reservation", "stage", "result"}
  /\ k.stage # "settled" \/ k.result = "module" => k.reservation # None
  /\ k.reservation # None => k.reservation.slotCount = k.slotCount

(* Tickets and reservations name their tasks, the queue holds tickets of   *)
(* tasks that wait, each once, and no more are compiled than may be.       *)
TasksSound(ks, queue, last) ==
  /\ IsFiniteSet(ks)
  /\ \A k \in ks : TaskSound(k) /\ k.ticket \in 1 .. last
  /\ \A k, q \in ks : k.ticket = q.ticket => k = q
  /\ \A k, q \in ks : k.reservation = q.reservation /\ k.reservation # None => k = q
  /\ queue \in Seq(1 .. last)
  /\ \A i, j \in 1 .. Len(queue) : queue[i] = queue[j] => i = j
  /\ \A i \in 1 .. Len(queue) : \A k \in ks : queue[i] = k.ticket => k.stage = "queued"
  /\ Busy(ks) <= Compilers

(* The reservations are those of the tasks.                                *)
ReservationsOf(R, ks, destroyed) ==
  /\ R \subseteq {k.reservation : k \in ks}
  /\ ~destroyed => \A k \in ks : k.reservation # None => k.reservation \in R

Compiling(ks) == {k \in ks : k.stage = "compiling"}

(* The number of tasks that are compiled is a natural number.              *)
LEMMA BusyNat ==
  ASSUME NEW ks, IsFiniteSet(ks)
  PROVE  IsFiniteSet(Compiling(ks)) /\ Busy(ks) = Cardinality(Compiling(ks)) /\ Busy(ks) \in Nat
<1>1. Compiling(ks) \in SUBSET ks
  BY DEF Compiling
<1>2. IsFiniteSet(Compiling(ks))
  BY <1>1, FS_Subset
<1> QED
  BY <1>2, FS_CardinalityType DEF Busy, Compiling

(* What taking a job makes of its task.                                    *)
Jobs(queue, n) == {queue[i] : i \in 1 .. n}

TakenTask(k, queue, n, destroyed) ==
  IF k.ticket \in Jobs(queue, n)
    THEN IF destroyed THEN [k EXCEPT !.stage = "settled", !.result = "failed"]
                      ELSE [k EXCEPT !.stage = "compiling"]
    ELSE k

(* Taking a job changes the stage of its task and, when it fails, the      *)
(* result.                                                                 *)
LEMMA TakenFields ==
  ASSUME NEW k, TaskSound(k), NEW queue, NEW n, NEW d,
         k.ticket \in Jobs(queue, n) => k.stage = "queued"
  PROVE  LET t == TakenTask(k, queue, n, d)
         IN  /\ TaskSound(t)
             /\ t.ticket = k.ticket /\ t.slotCount = k.slotCount
             /\ t.reservation = k.reservation
             /\ k.ticket \in Jobs(queue, n) /\ ~d => t.stage = "compiling"
             /\ k.ticket \in Jobs(queue, n) /\ d => t.stage = "settled"
             /\ k.ticket \notin Jobs(queue, n) => t = k
<1> DEFINE t == TakenTask(k, queue, n, d)
<1>1. CASE k.ticket \notin Jobs(queue, n)
  <2>1. t = k
    BY <1>1 DEF TakenTask
  <2> QED
    BY <1>1, <2>1
<1>2. CASE k.ticket \in Jobs(queue, n) /\ d
  <2>1. t = [k EXCEPT !.stage = "settled", !.result = "failed"]
    BY <1>2 DEF TakenTask
  <2> HIDE DEF t
  <2>2. /\ DOMAIN t = DOMAIN k /\ t.ticket = k.ticket /\ t.slotCount = k.slotCount
        /\ t.reservation = k.reservation /\ t.stage = "settled" /\ t.result = "failed"
    BY <2>1 DEF TaskSound
  <2>3. TaskSound(t)
    BY <1>2, <2>2 DEF TaskSound
  <2> QED
    BY <1>2, <2>2, <2>3 DEF t
<1>3. CASE k.ticket \in Jobs(queue, n) /\ ~d
  <2>1. t = [k EXCEPT !.stage = "compiling"]
    BY <1>3 DEF TakenTask
  <2> HIDE DEF t
  <2>2. /\ DOMAIN t = DOMAIN k /\ t.ticket = k.ticket /\ t.slotCount = k.slotCount
        /\ t.reservation = k.reservation /\ t.stage = "compiling" /\ t.result = k.result
    BY <2>1 DEF TaskSound
  <2>3. TaskSound(t)
    BY <1>3, <2>2 DEF TaskSound
  <2> QED
    BY <1>3, <2>2, <2>3 DEF t
<1> QED
  BY <1>1, <1>2, <1>3

(* The jobs taken and what is left of the queue.                           *)
LEMMA RestOfQueue ==
  ASSUME NEW S, NEW queue \in Seq(S), NEW n \in 0 .. Len(queue)
  PROVE  LET rest == SubSeq(queue, n + 1, Len(queue))
         IN  /\ rest \in Seq(S)
             /\ Len(rest) = Len(queue) - n
             /\ \A i \in 1 .. Len(rest) : rest[i] = queue[n + i]
<1>1. Len(queue) \in Nat /\ n + 1 \in Int /\ n \in Nat /\ n <= Len(queue)
  BY LenProperties
<1>2. \A i \in n + 1 .. Len(queue) : queue[i] \in S
  <2> SUFFICES ASSUME NEW i \in n + 1 .. Len(queue)
               PROVE  queue[i] \in S
    OBVIOUS
  <2>1. i \in 1 .. Len(queue)
    BY <1>1
  <2> QED
    BY <2>1, ElementOfSeq
<1> DEFINE rest == SubSeq(queue, n + 1, Len(queue))
<1>3. /\ rest \in Seq(S)
      /\ Len(rest) = IF n + 1 <= Len(queue) THEN Len(queue) - (n + 1) + 1 ELSE 0
      /\ \A i \in 1 .. Len(queue) - (n + 1) + 1 : rest[i] = queue[(n + 1) + i - 1]
  BY <1>1, <1>2, SubSeqProperties
<1> HIDE DEF rest
<1>4. Len(rest) = Len(queue) - n
  BY <1>1, <1>3
<1>5. ASSUME NEW i \in 1 .. Len(rest)
      PROVE  rest[i] = queue[n + i]
  <2>1. i \in 1 .. Len(queue) - (n + 1) + 1 /\ (n + 1) + i - 1 = n + i
    BY <1>1, <1>4
  <2> QED
    BY <1>3, <2>1
<1> QED
  BY <1>3, <1>4, <1>5 DEF rest

(* At most n tasks have their tickets among n jobs.                        *)
LEMMA FewTaken ==
  ASSUME NEW T, NEW queue, NEW n \in Nat,
         \A k \in T : k.ticket \in Jobs(queue, n),
         \A k, q \in T : k.ticket = q.ticket => k = q
  PROVE  IsFiniteSet(T) /\ Cardinality(T) <= n
<1> DEFINE f == [k \in T |-> CHOOSE i \in 1 .. n : queue[i] = k.ticket]
<1>1. \A k \in T : f[k] \in 1 .. n /\ queue[f[k]] = k.ticket
  <2> SUFFICES ASSUME NEW k \in T
               PROVE  f[k] \in 1 .. n /\ queue[f[k]] = k.ticket
    OBVIOUS
  <2>1. \E i \in 1 .. n : queue[i] = k.ticket
    BY DEF Jobs
  <2>2. f[k] = CHOOSE i \in 1 .. n : queue[i] = k.ticket
    OBVIOUS
  <2> HIDE DEF f
  <2> QED
    BY <2>1, <2>2
<1>2. f \in [T -> 1 .. n]
  <2>1. DOMAIN f = T /\ f = [k \in DOMAIN f |-> f[k]]
    OBVIOUS
  <2> HIDE DEF f
  <2> QED
    BY <1>1, <2>1
<1> HIDE DEF f
<1>3. \A k, q \in T : f[k] = f[q] => k = q
  BY <1>1
<1>4. f \in Injection(T, 1 .. n)
  BY <1>2, <1>3 DEF Injection, IsInjective
<1>5. IsFiniteSet(1 .. n) /\ Cardinality(1 .. n) = n
  BY FS_Interval
<1> QED
  BY <1>4, <1>5, FS_Injection

(* The tasks once jobs have been taken.                                    *)
LEMMA TakenIs ==
  ASSUME NEW ks, NEW queue, NEW n, NEW d
  PROVE  Taken(ks, queue, n, d) = {TakenTask(k, queue, n, d) : k \in ks}
<1>1. \A k \in ks : (\E i \in 1 .. n : queue[i] = k.ticket) <=> k.ticket \in Jobs(queue, n)
  BY DEF Jobs
<1> QED
  BY <1>1 DEF Taken, TakenTask

(* The jobs at the front of the queue are those of tasks that wait.        *)
LEMMA TakenWait ==
  ASSUME NEW ks, NEW queue, NEW last \in Nat, TasksSound(ks, queue, last),
         NEW n \in 0 .. Len(queue), NEW k \in ks, k.ticket \in Jobs(queue, n)
  PROVE  k.stage = "queued"
<1>1. n \in Nat /\ Len(queue) \in Nat /\ n <= Len(queue)
  BY LenProperties DEF TasksSound
<1>2. PICK i : i \in 1 .. n /\ k.ticket = queue[i]
  BY DEF Jobs
<1>3. i \in 1 .. Len(queue)
  BY <1>1, <1>2
<1> QED
  BY <1>2, <1>3 DEF TasksSound

(* #pumpAsyncJit keeps the tasks in order: it takes jobs from the front of *)
(* the queue, each of a task of its own, and never more than are free.     *)
LEMMA TakenSound ==
  ASSUME NEW ks, NEW queue, NEW last \in Nat, TasksSound(ks, queue, last),
         NEW n \in 0 .. Len(queue), NEW d, ~d => Busy(ks) + n <= Compilers
  PROVE  TasksSound(Taken(ks, queue, n, d), SubSeq(queue, n + 1, Len(queue)), last)
<1> DEFINE T(k) == TakenTask(k, queue, n, d)
           new == Taken(ks, queue, n, d)
           rest == SubSeq(queue, n + 1, Len(queue))
           jobs == Jobs(queue, n)
<1>0. n \in Nat /\ Len(queue) \in Nat /\ n <= Len(queue)
  BY LenProperties DEF TasksSound
<1>1. \A k \in ks : k.ticket \in jobs => k.stage = "queued"
  BY TakenWait
<1>2. \A k \in ks :
        /\ TaskSound(T(k))
        /\ T(k).ticket = k.ticket /\ T(k).reservation = k.reservation
        /\ k.ticket \in jobs /\ ~d => T(k).stage = "compiling"
        /\ k.ticket \in jobs /\ d => T(k).stage = "settled"
        /\ k.ticket \notin jobs => T(k) = k
  BY <1>1, TakenFields DEF TasksSound
<1>3. new = {T(k) : k \in ks}
  BY TakenIs
<1> HIDE DEF T, new
<1>4. IsFiniteSet(new)
  <2> DEFINE f == [k \in ks |-> T(k)]
  <2>1. f \in Surjection(ks, new)
    BY <1>3 DEF Surjection
  <2> QED
    BY <2>1, FS_Surjection DEF TasksSound
<1>5. \A t \in new : TaskSound(t) /\ t.ticket \in 1 .. last
  BY <1>2, <1>3 DEF TasksSound
<1>6. \A t, u \in new : t.ticket = u.ticket => t = u
  BY <1>2, <1>3 DEF TasksSound
<1>7. \A t, u \in new : t.reservation = u.reservation /\ t.reservation # None => t = u
  <2> SUFFICES ASSUME NEW k \in ks, NEW q \in ks, T(k).reservation = T(q).reservation,
                      T(k).reservation # None
               PROVE  T(k) = T(q)
    BY <1>3
  <2>1. k.reservation = q.reservation /\ k.reservation # None
    BY <1>2
  <2>2. k = q
    BY <2>1 DEF TasksSound
  <2> QED
    BY <2>2
<1>8. /\ rest \in Seq(1 .. last) /\ Len(rest) = Len(queue) - n
      /\ \A i \in 1 .. Len(rest) : rest[i] = queue[n + i]
  BY RestOfQueue DEF TasksSound
<1> HIDE DEF rest
<1>9. \A i \in 1 .. Len(rest) : n + i \in 1 .. Len(queue) /\ \A j \in 1 .. n : j # n + i
  BY <1>0, <1>8
<1>10. \A i, j \in 1 .. Len(rest) : rest[i] = rest[j] => i = j
  <2> SUFFICES ASSUME NEW i \in 1 .. Len(rest), NEW j \in 1 .. Len(rest), rest[i] = rest[j]
               PROVE  i = j
    OBVIOUS
  <2>1. n + i = n + j
    BY <1>8, <1>9 DEF TasksSound
  <2> QED
    BY <1>0, <1>8, <2>1
<1>11. ASSUME NEW i \in 1 .. Len(rest), NEW t \in new, rest[i] = t.ticket
       PROVE  t.stage = "queued"
  <2>1. PICK k \in ks : t = T(k)
    BY <1>3
  <2>2. n + i \in 1 .. Len(queue) /\ queue[n + i] = k.ticket
    BY <1>2, <1>8, <1>9, <1>11, <2>1
  <2>3. k.ticket \notin jobs
    <3> SUFFICES ASSUME NEW j \in 1 .. n, queue[j] = k.ticket
                 PROVE  FALSE
      BY DEF Jobs
    <3>1. j \in 1 .. Len(queue)
      BY <1>0
    <3>2. j = n + i
      BY <2>2, <3>1 DEF TasksSound
    <3> QED
      BY <1>9, <3>2
  <2>4. t = k
    BY <1>2, <2>1, <2>3
  <2> QED
    BY <2>2, <2>4 DEF TasksSound
<1>12. Busy(new) <= Compilers
  <2> DEFINE N == {t \in new : t.stage = "compiling" /\ t.ticket \in jobs}
  <2>1. /\ IsFiniteSet(Compiling(ks)) /\ Busy(ks) = Cardinality(Compiling(ks))
        /\ Busy(ks) \in Nat
    BY BusyNat DEF TasksSound
  <2>2. /\ IsFiniteSet(Compiling(new)) /\ Busy(new) = Cardinality(Compiling(new))
        /\ Busy(new) \in Nat
    BY <1>4, BusyNat
  <2>3. \A t \in new : t.ticket \notin jobs => t \in ks
    BY <1>2, <1>3
  <2>4. Compiling(new) \subseteq Compiling(ks) \cup N
    BY <2>3 DEF Compiling
  <2>5. CASE d
    <3>1. N = {}
      <4>1. \A t \in new : t.ticket \in jobs => t.stage = "settled"
        BY <1>2, <1>3, <2>5
      <4> QED
        BY <4>1
    <3>2. Cardinality(Compiling(new)) <= Cardinality(Compiling(ks))
      BY <2>1, <2>4, <3>1, FS_Subset
    <3> QED
      BY <2>1, <2>2, <3>2, PipelineAssumption DEF TasksSound
  <2>6. CASE ~d
    <3>1. /\ \A t \in N : t.ticket \in Jobs(queue, n)
          /\ \A t, u \in N : t.ticket = u.ticket => t = u
      BY <1>6
    <3> HIDE DEF N
    <3>2. IsFiniteSet(N) /\ Cardinality(N) <= n
      BY <1>0, <3>1, FewTaken
    <3>3. /\ IsFiniteSet(Compiling(ks) \cup N)
          /\ Cardinality(Compiling(ks) \cup N) =
               Cardinality(Compiling(ks)) + Cardinality(N) - Cardinality(Compiling(ks) \cap N)
      BY <2>1, <3>2, FS_Union
    <3>4. IsFiniteSet(Compiling(ks) \cap N)
      BY <2>1, FS_Subset
    <3>5. /\ Cardinality(Compiling(ks) \cap N) \in Nat /\ Cardinality(N) \in Nat
      BY <3>2, <3>4, FS_CardinalityType
    <3>6. Cardinality(Compiling(new)) <= Cardinality(Compiling(ks) \cup N)
      BY <2>4, <3>3, FS_Subset
    <3> QED
      BY <1>0, <2>1, <2>2, <2>6, <3>2, <3>3, <3>5, <3>6, PipelineAssumption
  <2> QED
    BY <2>5, <2>6
<1>13. TasksSound(new, rest, last)
  BY <1>4, <1>5, <1>6, <1>7, <1>8, <1>10, <1>11, <1>12 DEF TasksSound
<1> QED
  BY <1>13 DEF new, rest

(* ... and leaves every reservation with its task.                         *)
LEMMA TakenReservations ==
  ASSUME NEW ks, NEW queue, NEW last \in Nat, TasksSound(ks, queue, last),
         NEW n \in 0 .. Len(queue), NEW d,
         NEW R, NEW e, ReservationsOf(R, ks, e)
  PROVE  ReservationsOf(R, Taken(ks, queue, n, d), e)
<1>1. \A k \in ks : k.ticket \in Jobs(queue, n) => k.stage = "queued"
  BY TakenWait
<1>2. \A k \in ks : TakenTask(k, queue, n, d).reservation = k.reservation
  BY <1>1, TakenFields DEF TasksSound
<1>3. Taken(ks, queue, n, d) = {TakenTask(k, queue, n, d) : k \in ks}
  BY TakenIs
<1>4. {t.reservation : t \in Taken(ks, queue, n, d)} = {k.reservation : k \in ks}
  BY <1>2, <1>3
<1> QED
  BY <1>2, <1>3, <1>4 DEF ReservationsOf

(* One run of #pumpAsyncJit.                                               *)
LEMMA Pumped ==
  ASSUME NEW ks, NEW queue, NEW last \in Nat, TasksSound(ks, queue, last),
         NEW d, pumpAsyncJit(ks, queue, d),
         NEW R, NEW e, ReservationsOf(R, ks, e)
  PROVE  TasksSound(tasks', compileQueue', last) /\ ReservationsOf(R, tasks', e)
<1> DEFINE n == IF d THEN Len(queue) ELSE Min({Compilers - Busy(ks), Len(queue)})
<1>1. tasks' = Taken(ks, queue, n, d) /\ compileQueue' = SubSeq(queue, n + 1, Len(queue))
  BY DEF pumpAsyncJit
<1>2. Len(queue) \in Nat /\ Busy(ks) \in Nat /\ Busy(ks) <= Compilers /\ Compilers \in Nat
  BY BusyNat, LenProperties, PipelineAssumption DEF TasksSound
<1>3. Min({Compilers - Busy(ks), Len(queue)}) =
        IF Compilers - Busy(ks) <= Len(queue) THEN Compilers - Busy(ks) ELSE Len(queue)
  BY <1>2, MinMaxOfTwo
<1>4. n \in 0 .. Len(queue) /\ (~d => Busy(ks) + n <= Compilers)
  <2>1. CASE d
    BY <1>2, <2>1
  <2>2. CASE ~d
    <3>1. n = IF Compilers - Busy(ks) <= Len(queue) THEN Compilers - Busy(ks) ELSE Len(queue)
      BY <1>3, <2>2
    <3> HIDE DEF n
    <3> QED
      BY <1>2, <3>1
  <2> QED
    BY <2>1, <2>2
<1> HIDE DEF n
<1>5. TasksSound(Taken(ks, queue, n, d), SubSeq(queue, n + 1, Len(queue)), last)
  BY <1>4, TakenSound
<1>6. ReservationsOf(R, Taken(ks, queue, n, d), e)
  BY <1>4, TakenReservations
<1> QED
  BY <1>1, <1>5, <1>6

(* A task less: what it leaves, and its reservation.                       *)
LEMMA DropTask ==
  ASSUME NEW ks, NEW queue, NEW last, TasksSound(ks, queue, last), NEW k \in ks
  PROVE  TasksSound(ks \ {k}, queue, last)
<1>1. IsFiniteSet(ks) /\ IsFiniteSet(ks \ {k})
  BY FS_RemoveElement DEF TasksSound
<1>2. Busy(ks \ {k}) <= Compilers
  <2>1. /\ IsFiniteSet(Compiling(ks)) /\ Busy(ks) = Cardinality(Compiling(ks))
        /\ Busy(ks) \in Nat /\ Busy(ks \ {k}) = Cardinality(Compiling(ks \ {k}))
        /\ Busy(ks \ {k}) \in Nat
    BY <1>1, BusyNat
  <2>2. Compiling(ks \ {k}) \in SUBSET Compiling(ks)
    BY DEF Compiling
  <2>3. Cardinality(Compiling(ks \ {k})) <= Cardinality(Compiling(ks))
    BY <2>1, <2>2, FS_Subset
  <2> QED
    BY <2>1, <2>3, PipelineAssumption DEF TasksSound
<1> QED
  BY <1>1, <1>2 DEF TasksSound

(* A job that is submitted: its ticket is new, and so is its reservation.  *)
LEMMA AddTask ==
  ASSUME NEW ks, NEW queue, NEW last \in Nat, TasksSound(ks, queue, last),
         NEW k, TaskSound(k), k.ticket = last + 1, k.stage \in {"queued", "settled"},
         \A q \in ks : q.reservation = k.reservation => k.reservation = None
  PROVE  /\ TasksSound(ks \cup {k}, queue, last + 1)
         /\ k.stage = "queued" =>
              TasksSound(ks \cup {k}, Append(queue, last + 1), last + 1)
<1> DEFINE new == ks \cup {k}
<1>1. IsFiniteSet(ks) /\ IsFiniteSet(new)
  BY FS_AddElement DEF TasksSound
<1>2. Busy(new) = Busy(ks)
  <2>1. k.stage # "compiling"
    OBVIOUS
  <2> QED
    BY <2>1 DEF Busy
<1>3. \A t \in new : TaskSound(t) /\ t.ticket \in 1 .. last + 1
  BY DEF TasksSound
<1>4. \A q \in ks : q.ticket \in Nat /\ q.ticket # k.ticket
  BY DEF TasksSound
<1>5. \A t, u \in new : t.ticket = u.ticket => t = u
  BY <1>4 DEF TasksSound
<1>6. \A t, u \in new : t.reservation = u.reservation /\ t.reservation # None => t = u
  BY DEF TasksSound
<1>7. /\ queue \in Seq(1 .. last) /\ Len(queue) \in Nat
      /\ \A i \in 1 .. Len(queue) : queue[i] \in 1 .. last
  BY LenProperties, ElementOfSeq DEF TasksSound
<1>8. queue \in Seq(1 .. last + 1)
  <2>1. 1 .. last \subseteq 1 .. last + 1
    OBVIOUS
  <2> QED
    BY <1>7, <2>1
<1>9. \A i \in 1 .. Len(queue) : \A t \in new : queue[i] = t.ticket => t.stage = "queued"
  <2>1. \A i \in 1 .. Len(queue) : queue[i] # k.ticket
    BY <1>7
  <2> QED
    BY <2>1 DEF TasksSound
<1>10. TasksSound(new, queue, last + 1)
  BY <1>1, <1>2, <1>3, <1>5, <1>6, <1>8, <1>9 DEF TasksSound
<1>11. ASSUME k.stage = "queued"
       PROVE  TasksSound(new, Append(queue, last + 1), last + 1)
  <2> DEFINE longer == Append(queue, last + 1)
  <2>1. /\ longer \in Seq(1 .. last + 1) /\ Len(longer) = Len(queue) + 1
        /\ \A i \in 1 .. Len(queue) : longer[i] = queue[i]
        /\ longer[Len(queue) + 1] = last + 1
    BY <1>8, AppendProperties
  <2> HIDE DEF longer
  <2>2. \A i \in 1 .. Len(longer) : i \in 1 .. Len(queue) \/ i = Len(queue) + 1
    BY <1>7, <2>1
  <2>3. \A i \in 1 .. Len(queue) : longer[i] # last + 1
    <3>1. \A i \in 1 .. Len(queue) : queue[i] # last + 1
      BY <1>7
    <3> QED
      BY <2>1, <3>1, Zenon
  <2>4. ASSUME NEW i \in 1 .. Len(longer), NEW j \in 1 .. Len(longer), longer[i] = longer[j]
        PROVE  i = j
    <3>1. CASE i \in 1 .. Len(queue) /\ j \in 1 .. Len(queue)
      <4>1. queue[i] = queue[j]
        BY <2>1, <2>4, <3>1
      <4> QED
        BY <3>1, <4>1 DEF TasksSound
    <3> QED
      BY <2>1, <2>2, <2>3, <2>4, <3>1
  <2>5. ASSUME NEW i \in 1 .. Len(longer), NEW t \in new, longer[i] = t.ticket
        PROVE  t.stage = "queued"
    <3>1. CASE i \in 1 .. Len(queue)
      BY <1>9, <2>1, <2>5, <3>1
    <3>2. CASE i = Len(queue) + 1
      BY <1>4, <1>11, <2>1, <2>5, <3>2
    <3> QED
      BY <2>2, <3>1, <3>2
  <2>6. TasksSound(new, longer, last + 1)
    BY <1>1, <1>2, <1>3, <1>5, <1>6, <2>1, <2>4, <2>5 DEF TasksSound
  <2> QED
    BY <2>6 DEF longer
<1> QED
  BY <1>10, <1>11

(* A compilation that ends.                                                *)
LEMMA SettleTask ==
  ASSUME NEW ks, NEW queue, NEW last \in Nat, TasksSound(ks, queue, last),
         NEW k \in ks, k.stage = "compiling", NEW result,
         NEW R, NEW d, ReservationsOf(R, ks, d)
  PROVE  LET new == (ks \ {k}) \cup {[k EXCEPT !.stage = "settled", !.result = result]}
         IN  TasksSound(new, queue, last) /\ ReservationsOf(R, new, d)
<1> DEFINE t == [k EXCEPT !.stage = "settled", !.result = result]
           new == (ks \ {k}) \cup {t}
<1>1. TaskSound(k) /\ k.ticket \in 1 .. last
  BY DEF TasksSound
<1>2. /\ DOMAIN t = DOMAIN k /\ t.ticket = k.ticket /\ t.slotCount = k.slotCount
      /\ t.reservation = k.reservation /\ t.stage = "settled"
  BY <1>1 DEF TaskSound
<1> HIDE DEF t
<1>3. TaskSound(t)
  BY <1>1, <1>2 DEF TaskSound
<1>4. TasksSound(ks \ {k}, queue, last)
  BY DropTask
<1>5. IsFiniteSet(new)
  BY <1>4, FS_AddElement DEF TasksSound
<1>6. Busy(new) = Busy(ks \ {k})
  <2>1. {q \in new : q.stage = "compiling"} = {q \in ks \ {k} : q.stage = "compiling"}
    BY <1>2
  <2> QED
    BY <2>1 DEF Busy
<1>7. \A q \in new : TaskSound(q) /\ q.ticket \in 1 .. last
  BY <1>1, <1>2, <1>3, <1>4 DEF TasksSound
<1>8. \A q \in ks \ {k} : q.ticket # t.ticket
  BY <1>2 DEF TasksSound
<1>9. \A q, u \in new : q.ticket = u.ticket => q = u
  BY <1>4, <1>8 DEF TasksSound
<1>10. \A q \in ks \ {k} : q.reservation # None => q.reservation # t.reservation
  BY <1>2 DEF TasksSound
<1>11. \A q, u \in new : q.reservation = u.reservation /\ q.reservation # None => q = u
  BY <1>4, <1>10 DEF TasksSound
<1>12. \A i \in 1 .. Len(queue) : queue[i] # t.ticket
  BY <1>2 DEF TasksSound
<1>13. \A i \in 1 .. Len(queue) : \A q \in new : queue[i] = q.ticket => q.stage = "queued"
  BY <1>4, <1>12 DEF TasksSound
<1>14. TasksSound(new, queue, last)
  BY <1>4, <1>5, <1>6, <1>7, <1>9, <1>11, <1>13 DEF TasksSound
<1>15. {q.reservation : q \in new} = {q.reservation : q \in ks}
  BY <1>2
<1>16. ReservationsOf(R, new, d)
  BY <1>2, <1>15 DEF ReservationsOf
<1> QED
  BY <1>14, <1>16 DEF t

-----------------------------------------------------------------------------
(* The invariant of the pipeline.                                          *)

(* Slots are cleared between slices only.                                  *)
SlicesSound ==
  /\ inSlice \in BOOLEAN
  /\ inSlice => ~store.destroyed
  /\ ~inSlice => store.retirements = {}

StorePart(s) == Sound(s) /\ Current(s) /\ Emptied(s)

(* The dispatcher and the store agree on the slots that are owned.         *)
Agrees(s, slots) ==
  ~s.destroyed => /\ OwnedOf(s) = slots \cup s.retirements
                  /\ slots \cap s.retirements = {}

PipelineInv ==
  /\ StorePart(store)
  /\ ticket \in Nat /\ TasksSound(tasks, compileQueue, ticket)
  /\ SlicesSound
  /\ Agrees(store, liveSlots)
  /\ ReservationsOf(store.reservations, tasks, store.destroyed)

(* A step that changes neither owners nor retirements, nor reboots.        *)
LEMMA OwnersKept ==
  ASSUME NEW s, NEW t, NEW slots, StorePart(s), Agrees(s, slots), Sound(t), ~s.destroyed,
         OnlyChanges(s, t, {"free", "next", "reservations"})
  PROVE  StorePart(t) /\ Agrees(t, slots) /\ ~t.destroyed /\ t.retirements = s.retirements
<1>1. /\ t.slotOwners = s.slotOwners /\ t.owners = s.owners /\ t.retirements = s.retirements
      /\ t.generation = s.generation /\ t.destroyed = s.destroyed
  BY DEF OnlyChanges
<1> QED
  BY <1>1 DEF StorePart, Agrees, Current, Emptied, OwnedOf

(* Clearing the retired slots leaves the owners of the current machine.    *)
LEMMA FlushKeeps ==
  ASSUME NEW s, Sound(s), Current(s)
  PROVE  LET t == flushRetired(s)
         IN  /\ Sound(t) /\ Current(t)
             /\ OwnedOf(t) = OwnedOf(s) \ s.retirements
             /\ t.retirements = {} /\ t.reservations = s.reservations
             /\ t.destroyed = s.destroyed
<1> DEFINE t == flushRetired(s)
<1>1. FlushResult(s, t)
  BY FlushSound
<1> HIDE DEF t
<1>2. OnlyChanges(s, t, {"free", "owners", "retirements"})
  BY <1>1 DEF FlushResult
<1>3. t.reservations = s.reservations /\ t.destroyed = s.destroyed
      /\ t.generation = s.generation
  BY <1>2 DEF OnlyChanges
<1>4. Current(t)
  BY <1>1, <1>3 DEF FlushResult, Current
<1>5. Sound(t) /\ t.retirements = {} /\ OwnedOf(t) = OwnedOf(s) \ s.retirements
  BY <1>1 DEF FlushResult
<1> QED
  BY <1>3, <1>4, <1>5 DEF t

(* Retiring slots leaves everything else alone.                            *)
LEMMA RetireKeeps ==
  ASSUME NEW s, Sound(s), NEW slots
  PROVE  LET t == retire(s, slots)
         IN  /\ Sound(t) /\ (Current(s) => Current(t)) /\ OwnedOf(t) = OwnedOf(s)
             /\ t.retirements = s.retirements \cup (slots \cap OwnedOf(s))
             /\ t.table = s.table
             /\ t.reservations = s.reservations /\ t.destroyed = s.destroyed
<1> DEFINE t == retire(s, slots)
<1>1. /\ Sound(t) /\ OnlyChanges(s, t, {"retirements"})
      /\ t.retirements = s.retirements \cup (slots \cap OwnedOf(s))
  BY RetireSound
<1> HIDE DEF t
<1>2. /\ t.slotOwners = s.slotOwners /\ t.owners = s.owners /\ t.generation = s.generation
      /\ t.reservations = s.reservations /\ t.destroyed = s.destroyed /\ t.table = s.table
  BY <1>1 DEF OnlyChanges
<1>3. OwnedOf(t) = OwnedOf(s) /\ (Current(s) => Current(t))
  BY <1>2 DEF OwnedOf, Current
<1> QED
  BY <1>1, <1>2, <1>3 DEF t

-----------------------------------------------------------------------------
(* The pipeline starts with an empty store.                                *)
LEMMA InitInv == PipelineInit => PipelineInv
<1> SUFFICES ASSUME PipelineInit
             PROVE  PipelineInv
  OBVIOUS
<1> DEFINE s == NewStore
<1>1. /\ store = s /\ inSlice = FALSE /\ ticket = 0 /\ liveSlots = {} /\ tasks = {}
      /\ compileQueue = << >>
  BY DEF PipelineInit
<1>2. /\ IsStore(s) /\ s.free = << >> /\ s.next = 0 /\ s.length = 0
      /\ s.table = [x \in Slots |-> 0]
      /\ s.owners = << >> /\ s.slotOwners = << >> /\ s.retirements = {}
      /\ s.reservations = {} /\ s.nextOwner = 1 /\ s.nextReservation = 1
      /\ s.liveSlots = 0 /\ s.liveBytes = 0 /\ s.pendingSlots = 0 /\ s.pendingBytes = 0
      /\ s.destroyed = FALSE
  BY DEF NewStore, IsStore
<1> HIDE DEF s
<1>3. OwnedOf(s) = {} /\ DOMAIN s.owners = {} /\ Places(s.reservations) = {}
  BY <1>2 DEF OwnedOf, Places
<1>4. SlotsSound(s)
  <2>1. /\ << >> \in Seq(Runs) /\ Len(<< >>) = 0 /\ DOMAIN << >> = {}
    BY EmptySeq
  <2>2. Canonical(s.free)
    <3>1. Sorted(s.free) /\ \A k \in Nat : ~Touches(s.free, k)
      BY <1>2, <2>1 DEF Sorted, Touches
    <3> QED
      BY <1>2, <2>1, <3>1 DEF Canonical
  <2>3. SlotsIn(s.free) = {}
    BY <1>2, <2>1 DEF SlotsIn
  <2> QED
    BY <1>2, <1>3, <2>2, <2>3, StoreAssumption DEF SlotsSound
<1>5. ReservationsSound(s)
  BY <1>2, FS_EmptySet DEF ReservationsSound
<1>6. OwnersSound(s)
  BY <1>2, <1>3 DEF OwnersSound
<1>7. AccountsSound(s)
  <2>1. BytesOf(s, DOMAIN s.owners) = 0
    BY <1>3, SumEmpty DEF BytesOf
  <2>2. SlotsPending(s) = 0 /\ BytesPending(s) = 0
    <3>1. SumOf({}, "slotCount") = 0
      BY FS_EmptySet, FieldSum
    <3>2. SumOf({}, "byteLength") = 0
      BY FS_EmptySet, FieldSum
    <3> QED
      BY <1>2, <3>1, <3>2, PendingIsSum
  <2>3. Cardinality(DOMAIN s.owners) = 0 /\ Cardinality(OwnedOf(s)) = 0
        /\ Cardinality(s.reservations) = 0
    BY <1>2, <1>3, FS_EmptySet
  <2> QED
    BY <1>2, <2>1, <2>2, <2>3, StoreAssumption DEF AccountsSound
<1>8. StorePart(s) /\ Agrees(s, {})
  BY <1>2, <1>3, <1>4, <1>5, <1>6, <1>7 DEF StorePart, Sound, Current, Emptied, Agrees
<1>9. TasksSound({}, << >>, 0)
  <2>1. Busy({}) = 0
    BY FS_EmptySet DEF Busy
  <2>2. << >> \in Seq(1 .. 0) /\ Len(<< >>) = 0
    BY EmptySeq
  <2> QED
    BY <2>1, <2>2, FS_EmptySet, PipelineAssumption DEF TasksSound
<1>10. ReservationsOf(s.reservations, {}, s.destroyed) /\ SlicesSound
  BY <1>1, <1>2 DEF ReservationsOf, SlicesSound
<1> QED
  BY <1>1, <1>8, <1>9, <1>10 DEF PipelineInv

(* A job is submitted: it reserves its slots, or is refused.               *)
LEMMA SubmitInv ==
  ASSUME PipelineInv, NEW n \in SlotCounts, NEW bytes \in ByteLengths, Submit(n, bytes)
  PROVE  PipelineInv'
<1>1. /\ inSlice /\ inSlice' = inSlice /\ liveSlots' = liveSlots /\ ticket' = ticket + 1
  BY DEF Submit
<1>2. /\ StorePart(store) /\ Sound(store) /\ ticket \in Nat
      /\ TasksSound(tasks, compileQueue, ticket)
      /\ ~store.destroyed /\ inSlice \in BOOLEAN /\ Agrees(store, liveSlots)
      /\ ReservationsOf(store.reservations, tasks, store.destroyed)
  BY <1>1 DEF PipelineInv, StorePart, SlicesSound
<1>3. n \in Nat \ {0} /\ bytes \in Nat
  BY StoreAssumption
<1> DEFINE r == NextReservation(store, n, bytes)
           t == NewTask(n, r, "queued", "none")
           added == tasks \cup {t}
<1>4. CASE /\ canRegister(store, n, bytes)
           /\ store' = reserve(store, n, bytes)
           /\ pumpAsyncJit(added, Append(compileQueue, ticket + 1), store.destroyed)
  <2>1. /\ Sound(store') /\ OnlyChanges(store, store', {"free", "next", "reservations"})
        /\ store'.reservations = store.reservations \cup {r}
        /\ r \notin store.reservations /\ r.slotCount = n /\ r.id # 0
    BY <1>2, <1>3, <1>4, ReserveSound
  <2>2. /\ StorePart(store') /\ Agrees(store', liveSlots) /\ ~store'.destroyed
        /\ store'.retirements = store.retirements
    BY <1>2, <2>1, OwnersKept
  <2> HIDE DEF r
  <2>3. r # None
    BY <2>1 DEF None
  <2>4. /\ DOMAIN t = {"ticket", "slotCount", "reservation", "stage", "result"}
        /\ t.ticket = ticket + 1 /\ t.slotCount = n /\ t.reservation = r
        /\ t.stage = "queued" /\ t.result = "none"
    BY DEF NewTask
  <2> HIDE DEF t
  <2>5. TaskSound(t)
    BY <2>1, <2>3, <2>4 DEF TaskSound
  <2>6. \A q \in tasks : q.reservation # r
    BY <1>2, <2>1, <2>3 DEF ReservationsOf
  <2>7. TasksSound(added, Append(compileQueue, ticket + 1), ticket + 1)
    BY <1>2, <2>4, <2>5, <2>6, AddTask
  <2>8. ReservationsOf(store'.reservations, added, store'.destroyed)
    BY <1>2, <2>1, <2>4 DEF ReservationsOf
  <2>9. TasksSound(tasks', compileQueue', ticket + 1)
        /\ ReservationsOf(store'.reservations, tasks', store'.destroyed)
    <3> HIDE DEF added
    <3>1. ticket + 1 \in Nat
      BY <1>2
    <3> QED
      BY <1>4, <2>7, <2>8, <3>1, Pumped
  <2>10. SlicesSound'
    BY <1>1, <1>2, <2>2 DEF SlicesSound
  <2>11. ticket' \in Nat /\ TasksSound(tasks', compileQueue', ticket')
    BY <1>1, <1>2, <2>9
  <2> QED
    BY <1>1, <2>2, <2>9, <2>10, <2>11 DEF PipelineInv
<1>5. CASE \E result \in {"capacity", "failed"} :
             /\ tasks' = tasks \cup {NewTask(n, None, "settled", result)}
             /\ UNCHANGED << store, compileQueue >>
  <2>1. PICK result \in {"capacity", "failed"} :
           /\ tasks' = tasks \cup {NewTask(n, None, "settled", result)}
           /\ UNCHANGED << store, compileQueue >>
    BY <1>5
  <2> DEFINE u == NewTask(n, None, "settled", result)
  <2>2. /\ DOMAIN u = {"ticket", "slotCount", "reservation", "stage", "result"}
        /\ u.ticket = ticket + 1 /\ u.reservation = None
        /\ u.stage = "settled" /\ u.result # "module" /\ u.result = result
    BY DEF NewTask
  <2>3. tasks' = tasks \cup {u}
    BY <2>1
  <2> HIDE DEF u
  <2>4. TaskSound(u)
    BY <2>2 DEF TaskSound
  <2>5. TasksSound(tasks', compileQueue, ticket + 1)
    BY <1>2, <2>2, <2>3, <2>4, AddTask
  <2>6. ReservationsOf(store.reservations, tasks', store.destroyed)
    BY <1>2, <2>2, <2>3 DEF ReservationsOf
  <2>7. SlicesSound'
    BY <1>1, <2>1 DEF PipelineInv, SlicesSound
  <2>8. ticket' \in Nat /\ TasksSound(tasks', compileQueue', ticket')
    BY <1>1, <1>2, <2>1, <2>5
  <2> QED
    BY <1>1, <1>2, <2>1, <2>6, <2>7, <2>8 DEF PipelineInv
<1> QED
  BY <1>4, <1>5 DEF Submit

(* Guest code drops a slot while it runs: it stays in the table.           *)
LEMMA SliceRetiresInv ==
  ASSUME PipelineInv, SliceRetires
  PROVE  PipelineInv'
<1>1. PICK x \in liveSlots : RetireTableSlot({x})
  BY DEF SliceRetires
<1>2. /\ inSlice /\ inSlice' = inSlice /\ ticket' = ticket /\ tasks' = tasks
      /\ compileQueue' = compileQueue
  BY DEF SliceRetires
<1>3. liveSlots' = liveSlots \ {x} /\ store' = retire(store, {x})
  BY <1>1 DEF RetireTableSlot
<1>4. /\ StorePart(store) /\ Sound(store) /\ Current(store) /\ ~store.destroyed
      /\ Agrees(store, liveSlots)
      /\ ReservationsOf(store.reservations, tasks, store.destroyed)
  BY <1>2 DEF PipelineInv, StorePart, SlicesSound
<1>5. /\ Sound(store') /\ Current(store') /\ OwnedOf(store') = OwnedOf(store)
      /\ store'.retirements = store.retirements \cup ({x} \cap OwnedOf(store))
      /\ store'.reservations = store.reservations /\ store'.destroyed = store.destroyed
  BY <1>3, <1>4, RetireKeeps
<1>6. StorePart(store')
  BY <1>4, <1>5 DEF StorePart, Emptied
<1>7. Agrees(store', liveSlots')
  BY <1>3, <1>4, <1>5 DEF Agrees
<1>8. SlicesSound'
  BY <1>2, <1>4, <1>5 DEF PipelineInv, SlicesSound
<1> QED
  BY <1>2, <1>4, <1>5, <1>6, <1>7, <1>8 DEF PipelineInv

(* The slice ends and the retired slots are cleared.                       *)
LEMMA SliceEndsInv ==
  ASSUME PipelineInv, SliceEnds
  PROVE  PipelineInv'
<1>1. /\ inSlice /\ inSlice' = FALSE /\ ticket' = ticket /\ tasks' = tasks
      /\ compileQueue' = compileQueue /\ liveSlots' = liveSlots
      /\ store' = flushRetired(store)
  BY DEF SliceEnds
<1>2. /\ StorePart(store) /\ Sound(store) /\ Current(store) /\ ~store.destroyed
      /\ Agrees(store, liveSlots)
      /\ ReservationsOf(store.reservations, tasks, store.destroyed)
  BY <1>1 DEF PipelineInv, StorePart, SlicesSound
<1>3. /\ Sound(store') /\ Current(store')
      /\ OwnedOf(store') = OwnedOf(store) \ store.retirements
      /\ store'.retirements = {} /\ store'.reservations = store.reservations
      /\ store'.destroyed = store.destroyed
  BY <1>1, <1>2, FlushKeeps
<1>4. StorePart(store') /\ Agrees(store', liveSlots')
  BY <1>1, <1>2, <1>3 DEF StorePart, Emptied, Agrees
<1>5. SlicesSound'
  BY <1>1, <1>3 DEF SlicesSound
<1> QED
  BY <1>1, <1>2, <1>3, <1>4, <1>5 DEF PipelineInv

(* A compilation ends and the next job starts.                             *)
LEMMA CompileSettlesInv ==
  ASSUME PipelineInv, CompileSettles
  PROVE  PipelineInv'
<1>1. /\ store' = store /\ inSlice' = inSlice /\ ticket' = ticket /\ liveSlots' = liveSlots
  BY DEF CompileSettles, rustVars
<1>2. PICK k \in In("compiling"), result \in {"module", "failed"} :
         pumpAsyncJit((tasks \ {k}) \cup {[k EXCEPT !.stage = "settled", !.result = result]},
                      compileQueue, store.destroyed)
  BY DEF CompileSettles
<1>3. /\ ticket \in Nat /\ TasksSound(tasks, compileQueue, ticket)
      /\ ReservationsOf(store.reservations, tasks, store.destroyed)
      /\ k \in tasks /\ k.stage = "compiling"
  BY DEF PipelineInv, In
<1> DEFINE new == (tasks \ {k}) \cup {[k EXCEPT !.stage = "settled", !.result = result]}
<1>4. /\ TasksSound(new, compileQueue, ticket)
      /\ ReservationsOf(store.reservations, new, store.destroyed)
  BY <1>3, SettleTask
<1>5. pumpAsyncJit(new, compileQueue, store.destroyed)
  BY <1>2
<1> HIDE DEF new
<1>6. /\ TasksSound(tasks', compileQueue', ticket)
      /\ ReservationsOf(store.reservations, tasks', store.destroyed)
  BY <1>3, <1>4, <1>5, Pumped
<1>7. SlicesSound'
  BY <1>1 DEF PipelineInv, SlicesSound
<1>8. /\ StorePart(store') /\ Agrees(store', liveSlots') /\ ticket' \in Nat
      /\ TasksSound(tasks', compileQueue', ticket')
      /\ ReservationsOf(store'.reservations, tasks', store'.destroyed)
  BY <1>1, <1>3, <1>6 DEF PipelineInv
<1> QED
  BY <1>7, <1>8 DEF PipelineInv

(* The module of a task is installed, or its reservation is released; a    *)
(* task without a module leaves the store alone.                           *)
LEMMA InstallKeeps ==
  ASSUME StorePart(store), ~store.destroyed,
         NEW k, TaskSound(k), k.reservation # None => k.reservation \in store.reservations,
         NEW outcome \in Outcomes
  PROVE  LET slots == Installed(k, outcome)
             s == AfterInstall(k, outcome)
         IN  /\ Sound(s) /\ Current(s) /\ ~s.destroyed
             /\ s.retirements = store.retirements
             /\ OwnedOf(s) = OwnedOf(store) \cup slots
             /\ slots \cap OwnedOf(store) = {}
             /\ s.reservations \ {k.reservation} = store.reservations \ {k.reservation}
<1> DEFINE slots == Installed(k, outcome)
           s == AfterInstall(k, outcome)
           r == k.reservation
<1>1. Sound(store) /\ Current(store)
  BY DEF StorePart
<1>2. CASE k.result # "module"
  <2>1. slots = {} /\ s = store
    BY <1>2 DEF Installed, AfterInstall
  <2> QED
    BY <1>1, <2>1
<1>3. CASE k.result = "module"
  <2>1. r \in store.reservations /\ r.slotCount = k.slotCount
    BY <1>3 DEF TaskSound
  <2>2. s = registerReserved(store, r, outcome)
    BY <1>3 DEF AfterInstall
  <2>3. RegisterResult(store, r, outcome, registerReserved(store, r, outcome))
    BY <1>1, <2>1, RegisterSound
  <2>4. slots = IF Registers(store, r, outcome) THEN Place(r) ELSE {}
    BY <1>3, <2>1 DEF Installed, Place
  <2> HIDE DEF s, slots
  <2>5. /\ Sound(s) /\ s.reservations = store.reservations \ {r}
        /\ s.retirements = store.retirements /\ s.destroyed = store.destroyed
        /\ Place(r) \cap OwnedOf(store) = {} /\ Current(s)
    BY <1>1, <2>2, <2>3 DEF RegisterResult
  <2>6. OwnedOf(s) = IF Registers(store, r, outcome) THEN OwnedOf(store) \cup Place(r)
                                                     ELSE OwnedOf(store)
    BY <2>2, <2>3 DEF RegisterResult
  <2>7. OwnedOf(s) = OwnedOf(store) \cup slots /\ slots \cap OwnedOf(store) = {}
    BY <2>4, <2>5, <2>6
  <2> QED
    BY <2>5, <2>7 DEF s, slots
<1> QED
  BY <1>2, <1>3

(* A reservation that is released, or was already.                         *)
LEMMA ReleaseKeeps ==
  ASSUME NEW s, Sound(s), Current(s), ~s.destroyed, NEW r
  PROVE  LET t == releaseReservation(s, r)
         IN  /\ Sound(t) /\ Current(t) /\ ~t.destroyed
             /\ t.retirements = s.retirements /\ OwnedOf(t) = OwnedOf(s)
             /\ t.reservations = s.reservations \ {r}
<1>1. CASE r \notin s.reservations
  BY <1>1 DEF releaseReservation
<1>2. CASE r \in s.reservations
  <2> DEFINE t == releaseReservation(s, r)
  <2>1. /\ Sound(t) /\ OnlyChanges(s, t, {"free", "reservations"})
        /\ t.reservations = s.reservations \ {r}
    BY <1>2, ReleaseSound
  <2> HIDE DEF t
  <2>2. /\ t.retirements = s.retirements /\ t.slotOwners = s.slotOwners
        /\ t.owners = s.owners /\ t.generation = s.generation /\ t.destroyed = s.destroyed
    BY <2>1 DEF OnlyChanges
  <2>3. Current(t) /\ OwnedOf(t) = OwnedOf(s)
    BY <2>2 DEF Current, OwnedOf
  <2> QED
    BY <2>1, <2>2, <2>3 DEF t
<1> QED
  BY <1>1, <1>2

(* A task completes: its module is installed, the dispatcher keeps what it *)
(* uses and retires the rest, and the reservation is released.             *)
LEMMA CompleteInv ==
  ASSUME PipelineInv, NEW k \in tasks, Complete(k)
  PROVE  PipelineInv'
<1>1. /\ ~inSlice /\ ~store.destroyed /\ inSlice' = inSlice /\ ticket' = ticket
      /\ tasks' = tasks \ {k} /\ compileQueue' = compileQueue
  BY DEF Complete
<1>2. PICK outcome \in Outcomes : Ready(k, Installed(k, outcome), AfterInstall(k, outcome))
  BY DEF Complete
<1>3. /\ StorePart(store) /\ Agrees(store, liveSlots)
      /\ ticket \in Nat /\ TasksSound(tasks, compileQueue, ticket)
      /\ ReservationsOf(store.reservations, tasks, store.destroyed)
      /\ store.retirements = {}
  BY <1>1 DEF PipelineInv, SlicesSound
<1>4. /\ TaskSound(k)
      /\ k.reservation # None => k.reservation \in store.reservations
  BY <1>1, <1>3 DEF TasksSound, ReservationsOf
<1> DEFINE slots == Installed(k, outcome)
           s1 == AfterInstall(k, outcome)
           r == k.reservation
<1>5. /\ Sound(s1) /\ Current(s1) /\ ~s1.destroyed /\ s1.retirements = {}
      /\ OwnedOf(s1) = OwnedOf(store) \cup slots /\ slots \cap OwnedOf(store) = {}
      /\ s1.reservations \ {r} = store.reservations \ {r}
  BY <1>1, <1>3, <1>4, InstallKeeps
<1>6. PICK keep \in Keeps(k, slots), drop \in Dropped(k) :
         /\ liveSlots' = (liveSlots \ drop) \cup keep
         /\ store' = releaseReservation(
                       flushRetired(retire(s1, drop \cup (slots \ keep))), r)
  BY <1>2 DEF Ready
<1> HIDE DEF slots, s1
<1>7. keep \subseteq slots /\ drop \subseteq liveSlots
  BY <1>6 DEF Keeps, Dropped
<1> DEFINE gone == drop \cup (slots \ keep)
           s2 == retire(s1, gone)
           s3 == flushRetired(s2)
<1>8. /\ OwnedOf(store) = liveSlots
      /\ gone \subseteq OwnedOf(s1)
      /\ OwnedOf(s1) \ gone = (liveSlots \ drop) \cup keep
  <2>1. OwnedOf(store) = liveSlots
    BY <1>1, <1>3 DEF Agrees
  <2> QED
    BY <1>5, <1>7, <2>1
<1> HIDE DEF gone
<1>9. /\ Sound(s2) /\ Current(s2) /\ OwnedOf(s2) = OwnedOf(s1)
      /\ s2.retirements = s1.retirements \cup (gone \cap OwnedOf(s1))
      /\ s2.reservations = s1.reservations /\ s2.destroyed = s1.destroyed
  BY <1>5, RetireKeeps
<1> HIDE DEF s2
<1>10. s2.retirements = gone
  BY <1>5, <1>8, <1>9
<1>11. /\ Sound(s3) /\ Current(s3) /\ OwnedOf(s3) = OwnedOf(s2) \ s2.retirements
       /\ s3.retirements = {} /\ s3.reservations = s2.reservations
       /\ s3.destroyed = s2.destroyed
  BY <1>9, FlushKeeps
<1> HIDE DEF s3
<1>12. store' = releaseReservation(s3, r)
  BY <1>6 DEF s3, s2, gone
<1>13. /\ Sound(store') /\ Current(store') /\ ~store'.destroyed
       /\ store'.retirements = s3.retirements /\ OwnedOf(store') = OwnedOf(s3)
       /\ store'.reservations = s3.reservations \ {r}
  <2>1. ~s3.destroyed
    BY <1>5, <1>9, <1>11
  <2> QED
    BY <1>11, <1>12, <2>1, ReleaseKeeps
<1>14. StorePart(store')
  BY <1>13 DEF StorePart, Emptied
<1>15. Agrees(store', liveSlots')
  BY <1>6, <1>8, <1>9, <1>10, <1>11, <1>13 DEF Agrees
<1>16. SlicesSound'
  BY <1>1, <1>11, <1>13 DEF PipelineInv, SlicesSound
<1>17. ReservationsOf(store'.reservations, tasks', store'.destroyed)
  <2>1. store'.reservations = store.reservations \ {r}
    BY <1>5, <1>9, <1>11, <1>13
  <2>2. \A q \in tasks \ {k} : q.reservation # None => q.reservation # r
    BY <1>3 DEF TasksSound
  <2> QED
    BY <1>1, <1>3, <2>1, <2>2 DEF ReservationsOf
<1>18. TasksSound(tasks', compileQueue', ticket')
  BY <1>1, <1>3, DropTask
<1> QED
  BY <1>1, <1>3, <1>14, <1>15, <1>16, <1>17, <1>18 DEF PipelineInv

(* On a destroyed VM nothing is done.                                      *)
LEMMA CompleteDestroyedInv ==
  ASSUME PipelineInv, NEW k \in tasks, CompleteDestroyed(k)
  PROVE  PipelineInv'
<1>1. /\ store.destroyed /\ store' = store /\ inSlice' = inSlice /\ ticket' = ticket
      /\ liveSlots' = liveSlots /\ tasks' = tasks \ {k} /\ compileQueue' = compileQueue
  BY DEF CompleteDestroyed, rustVars
<1>2. /\ StorePart(store) /\ Agrees(store, liveSlots) /\ ticket \in Nat
      /\ TasksSound(tasks, compileQueue, ticket) /\ store.reservations = {}
  BY <1>1 DEF PipelineInv, StorePart, Emptied
<1>3. TasksSound(tasks', compileQueue', ticket')
  BY <1>1, <1>2, DropTask
<1>4. ReservationsOf(store'.reservations, tasks', store'.destroyed)
  BY <1>1, <1>2 DEF ReservationsOf
<1>5. SlicesSound'
  BY <1>1 DEF PipelineInv, SlicesSound
<1> QED
  BY <1>1, <1>2, <1>3, <1>4, <1>5 DEF PipelineInv

(* A reboot retires every slot.                                            *)
LEMMA BootInv ==
  ASSUME PipelineInv, Boot
  PROVE  PipelineInv'
<1> DEFINE s1 == [store EXCEPT !.generation = @ + 1]
           s2 == retire(s1, liveSlots)
<1>1. /\ ~inSlice /\ ~store.destroyed /\ inSlice' = inSlice /\ ticket' = ticket
      /\ liveSlots' = {} /\ tasks' = tasks /\ compileQueue' = compileQueue
      /\ store' = flushRetired(s2)
  BY DEF Boot
<1>2. /\ StorePart(store) /\ Sound(store) /\ IsStore(store) /\ Agrees(store, liveSlots)
      /\ ticket \in Nat /\ TasksSound(tasks, compileQueue, ticket)
      /\ ReservationsOf(store.reservations, tasks, store.destroyed)
      /\ store.retirements = {}
  BY <1>1 DEF PipelineInv, StorePart, SlicesSound, Sound
<1>3. s1.destroyed = store.destroyed
  BY <1>2 DEF IsStore
<1>4. Sound(s1) /\ OnlyChanges(store, s1, {"generation", "destroyed"})
  BY <1>2, BumpSound
<1> HIDE DEF s1
<1>5. /\ s1.slotOwners = store.slotOwners /\ s1.retirements = store.retirements
      /\ s1.reservations = store.reservations
  BY <1>4 DEF OnlyChanges
<1>6. OwnedOf(s1) = liveSlots
  BY <1>1, <1>2, <1>5 DEF Agrees, OwnedOf
<1>7. /\ Sound(s2) /\ OwnedOf(s2) = OwnedOf(s1)
      /\ s2.retirements = s1.retirements \cup (liveSlots \cap OwnedOf(s1))
      /\ s2.reservations = s1.reservations /\ s2.destroyed = s1.destroyed
  BY <1>4, RetireKeeps
<1> HIDE DEF s2
<1>8. FlushResult(s2, store')
  BY <1>1, <1>7, FlushSound
<1>9. /\ Sound(store') /\ store'.retirements = {}
      /\ OwnedOf(store') = OwnedOf(s2) \ s2.retirements
      /\ OnlyChanges(s2, store', {"free", "owners", "retirements"})
  BY <1>8 DEF FlushResult
<1>10. store'.reservations = s2.reservations /\ store'.destroyed = s2.destroyed
  BY <1>9 DEF OnlyChanges
<1>11. OwnedOf(store') = {}
  BY <1>6, <1>7, <1>9
<1>12. DOMAIN store'.owners = {}
  BY <1>9, <1>11, NoSlotsNoOwners
<1>13. ~store'.destroyed
  BY <1>1, <1>3, <1>7, <1>10
<1>14. StorePart(store')
  BY <1>9, <1>12, <1>13 DEF StorePart, Current, Emptied
<1>15. Agrees(store', liveSlots')
  BY <1>1, <1>9, <1>11 DEF Agrees
<1>16. SlicesSound'
  BY <1>1, <1>9 DEF PipelineInv, SlicesSound
<1>17. ReservationsOf(store'.reservations, tasks', store'.destroyed)
  <2>1. store'.reservations = store.reservations
    BY <1>5, <1>7, <1>10
  <2> QED
    BY <1>1, <1>2, <2>1 DEF ReservationsOf
<1> QED
  BY <1>1, <1>2, <1>14, <1>15, <1>16, <1>17 DEF PipelineInv

(* The VM is destroyed: the jobs that wait resolve without a module.       *)
LEMMA DestroyJitInv ==
  ASSUME PipelineInv, DestroyJit
  PROVE  PipelineInv'
<1>1. /\ ~inSlice /\ ~store.destroyed /\ inSlice' = inSlice /\ ticket' = ticket
      /\ liveSlots' = liveSlots /\ store' = destroy(store)
      /\ pumpAsyncJit(tasks, compileQueue, TRUE)
  BY DEF DestroyJit, rustVars
<1>2. /\ Sound(store) /\ ticket \in Nat /\ TasksSound(tasks, compileQueue, ticket)
  BY DEF PipelineInv, StorePart
<1>3. /\ Sound(store') /\ Current(store') /\ store'.destroyed
      /\ OwnedOf(store') = {} /\ store'.reservations = {} /\ store'.retirements = {}
  BY <1>1, <1>2, DestroySound
<1>4. ReservationsOf(store'.reservations, tasks, store'.destroyed)
  BY <1>3 DEF ReservationsOf
<1>5. /\ TasksSound(tasks', compileQueue', ticket)
      /\ ReservationsOf(store'.reservations, tasks', store'.destroyed)
  BY <1>1, <1>2, <1>4, Pumped
<1>6. StorePart(store') /\ Agrees(store', liveSlots')
  BY <1>3 DEF StorePart, Emptied, Agrees
<1>7. SlicesSound'
  BY <1>1, <1>3 DEF PipelineInv, SlicesSound
<1> QED
  BY <1>1, <1>2, <1>5, <1>6, <1>7 DEF PipelineInv

-----------------------------------------------------------------------------
(* Every step keeps the invariant.                                         *)
LEMMA StepInv == PipelineInv /\ [PipelineNext]_vars => PipelineInv'
<1> SUFFICES ASSUME PipelineInv, [PipelineNext]_vars
             PROVE  PipelineInv'
  OBVIOUS
<1>1. CASE SliceBegins
  <2>1. /\ store' = store /\ inSlice' = TRUE /\ ~store.destroyed /\ ticket' = ticket
        /\ liveSlots' = liveSlots /\ tasks' = tasks /\ compileQueue' = compileQueue
    BY <1>1 DEF SliceBegins
  <2>2. SlicesSound'
    BY <2>1 DEF SlicesSound
  <2> QED
    BY <2>1, <2>2 DEF PipelineInv
<1>2. CASE SliceRetires
  BY <1>2, SliceRetiresInv
<1>3. CASE SliceEnds
  BY <1>3, SliceEndsInv
<1>4. ASSUME NEW n \in SlotCounts, NEW bytes \in ByteLengths, Submit(n, bytes)
      PROVE  PipelineInv'
  BY <1>4, SubmitInv
<1>5. CASE CompileSettles
  BY <1>5, CompileSettlesInv
<1>6. ASSUME NEW k \in tasks, Complete(k)
      PROVE  PipelineInv'
  BY <1>6, CompleteInv
<1>7. ASSUME NEW k \in tasks, CompleteDestroyed(k)
      PROVE  PipelineInv'
  BY <1>7, CompleteDestroyedInv
<1>8. CASE Boot
  BY <1>8, BootInv
<1>9. CASE DestroyJit
  BY <1>9, DestroyJitInv
<1>10. CASE UNCHANGED vars
  <2>1. /\ store' = store /\ inSlice' = inSlice /\ ticket' = ticket
        /\ liveSlots' = liveSlots /\ tasks' = tasks /\ compileQueue' = compileQueue
    BY <1>10 DEF vars, rustVars
  <2>2. SlicesSound'
    BY <2>1 DEF PipelineInv, SlicesSound
  <2> QED
    BY <2>1, <2>2 DEF PipelineInv
<1> QED
  BY <1>1, <1>2, <1>3, <1>4, <1>5, <1>6, <1>7, <1>8, <1>9, <1>10 DEF PipelineNext

(* The invariant of the pipeline holds in every reachable state: the store *)
(* is sound, its owners are those of the machine that is booted, and the   *)
(* dispatcher, the tasks and the queue agree with it.                      *)
THEOREM PipelineInvariant == PipelineSpec => []PipelineInv
<1>1. PipelineInit => PipelineInv
  BY InitInv
<1>2. PipelineInv /\ [PipelineNext]_vars => PipelineInv'
  BY StepInv
<1> QED
  BY <1>1, <1>2, PTL DEF PipelineSpec

(* What the run checks of the store follows from the invariant.            *)
LEMMA SoundStore ==
  ASSUME StorePart(store)
  PROVE  StoreSound
<1>1. /\ Sound(store) /\ Emptied(store) /\ SlotsSound(store) /\ ReservationsSound(store)
      /\ OwnersSound(store) /\ AccountsSound(store)
  BY DEF StorePart, Sound
<1>2. /\ Owned = OwnedOf(store) /\ Reserved = Places(store.reservations)
      /\ FreeSlots = SlotsIn(store.free)
  BY DEF Owned, OwnedOf, Reserved, Places, Place, FreeSlots, SlotsIn
<1>3. \A r : Place(r) = RunSlots(r.base, r.slotCount)
  BY DEF Place
<1>4. FreeListCanonical
  <2>1. store.free \in Seq(Runs) /\ Gapped(store.free) /\ Len(store.free) \in Nat
    <3>1. Canonical(store.free) /\ store.free \in Seq(Runs)
      BY <1>1 DEF SlotsSound, Canonical
    <3> QED
      BY <3>1, CanonicalGapped, LenProperties
  <2>2. ASSUME NEW i \in 1 .. Len(store.free) - 1
        PROVE  store.free[i].start + store.free[i].length < store.free[i + 1].start
    <3>1. i \in 1 .. Len(store.free) /\ i + 1 \in 1 .. Len(store.free) /\ i < i + 1
      BY <2>1
    <3> QED
      BY <2>1, <3>1 DEF Gapped, End
  <2> QED
    BY <1>1, <1>2, <2>2 DEF FreeListCanonical, SlotsSound
<1>5. SlotsDisjoint
  BY <1>1, <1>2, <1>3 DEF SlotsDisjoint, SlotsSound
<1>6. AccountsBalance
  BY <1>1, <1>2 DEF AccountsBalance, AccountsSound
<1>7. WithinLimits
  <2>1. Cardinality(Owned) + Cardinality(Reserved) <= MaxSlots
    <3>1. /\ Owned \cap Reserved = {} /\ Owned \subseteq 0 .. MaxSlots - 1
          /\ Reserved \subseteq 0 .. MaxSlots - 1
      <4>1. \A x \in 0 .. store.next - 1 : x \in 0 .. MaxSlots - 1
        BY <1>1, StoreAssumption DEF SlotsSound
      <4> QED
        BY <1>1, <1>2, <4>1 DEF SlotsSound
    <3>2. IsFiniteSet(0 .. MaxSlots - 1) /\ Cardinality(0 .. MaxSlots - 1) = MaxSlots
      BY StoreAssumption, FS_Interval
    <3>3. IsFiniteSet(Owned) /\ IsFiniteSet(Reserved)
      BY <3>1, <3>2, FS_Subset
    <3>4. Cardinality(Owned \cup Reserved) = Cardinality(Owned) + Cardinality(Reserved)
      <4>1. Cardinality(Owned) \in Nat /\ Cardinality(Reserved) \in Nat
        BY <3>3, FS_CardinalityType
      <4>2. Cardinality(Owned \cup Reserved) =
              Cardinality(Owned) + Cardinality(Reserved) - Cardinality(Owned \cap Reserved)
        BY <3>3, FS_Union
      <4>3. Cardinality(Owned \cap Reserved) = 0
        BY <3>1, FS_EmptySet
      <4> QED
        BY <4>1, <4>2, <4>3
    <3>5. Cardinality(Owned \cup Reserved) <= Cardinality(0 .. MaxSlots - 1)
      BY <3>1, <3>2, FS_Subset
    <3> QED
      BY <3>2, <3>4, <3>5
  <2> QED
    BY <1>1, <2>1 DEF WithinLimits, AccountsSound
<1>8. TableMatches
  BY <1>1, <1>2 DEF TableMatches, OwnersSound
<1>9. DestroyedEmpty
  BY <1>1, <1>2 DEF DestroyedEmpty, Emptied
<1> QED
  BY <1>4, <1>5, <1>6, <1>7, <1>8, <1>9 DEF StoreSound

(* Whatever order reservations, installations, refusals, retirements and   *)
(* reboots come in, every slot of JitCodeStore that was handed out is      *)
(* free, reserved or owned and exactly one of them, the free list is       *)
(* sorted and joined, the counters admission decides on are the true sums, *)
(* the limits hold, and the table is what the owners say (web/rv64.js).    *)
THEOREM PipelineStoreSound == PipelineSpec => []StoreSound
<1>1. PipelineInv => StoreSound
  BY SoundStore DEF PipelineInv
<1> QED
  BY <1>1, PipelineInvariant, PTL

(* JIT_LIVE_SLOTS of the dispatcher (lib.rs), the retirement queue and the *)
(* table agree on every slot, and every reservation of the store belongs   *)
(* to a #completeAsyncJit task that still runs: no slot leaks.             *)
THEOREM PipelineOwnersAgree == PipelineSpec => []OwnersAgree
<1>1. PipelineInv => OwnersAgree
  <2> SUFFICES ASSUME PipelineInv
               PROVE  OwnersAgree
    OBVIOUS
  <2>1. SlotsAgree
    BY DEF PipelineInv, Agrees, SlotsAgree, Owned, OwnedOf
  <2>2. ReservationsOwned
    BY DEF PipelineInv, ReservationsOf, ReservationsOwned
  <2> QED
    BY <2>1, <2>2 DEF OwnersAgree
<1> QED
  BY <1>1, PipelineInvariant, PTL

(* Between slices, every function in the table belongs to the machine that *)
(* is booted: registerReserved compares the generation of the reservation, *)
(* and bootVirtLinux retires every slot of the machine before.             *)
THEOREM PipelineOnlyCurrentMachine == PipelineSpec => []OnlyCurrentMachine
<1>1. PipelineInv => OnlyCurrentMachine
  BY DEF PipelineInv, StorePart, Current, OnlyCurrentMachine, NoStaleModule
<1> QED
  BY <1>1, PipelineInvariant, PTL

(* While guest code runs, host_jit_register_async only reserves and        *)
(* host_jit_retire only queues: no step between two states of a slice      *)
(* changes the table.                                                      *)
THEOREM PipelineRunningCodeStable == PipelineSpec => RunningCodeStable
<1>1. PipelineInv /\ [PipelineNext]_vars =>
        [inSlice /\ inSlice' => store'.table = store.table]_vars
  <2> SUFFICES ASSUME PipelineInv, [PipelineNext]_vars, inSlice, inSlice'
               PROVE  store'.table = store.table
    OBVIOUS
  <2>1. Sound(store) /\ IsStore(store)
    BY DEF PipelineInv, StorePart, Sound
  <2>2. CASE SliceRetires
    <3>1. PICK x \in liveSlots : store' = retire(store, {x})
      BY <2>2 DEF SliceRetires, RetireTableSlot
    <3> QED
      BY <2>1, <3>1, RetireKeeps
  <2>3. ASSUME NEW n \in SlotCounts, NEW bytes \in ByteLengths, Submit(n, bytes)
        PROVE  store'.table = store.table
    <3>1. store' = reserve(store, n, bytes) \/ store' = store
      BY <2>3 DEF Submit
    <3>2. OnlyChanges(store, reserve(store, n, bytes), {"free", "next", "reservations"})
      BY <2>1, ReserveFields
    <3>3. reserve(store, n, bytes).table = store.table
      BY <3>2 DEF OnlyChanges
    <3> QED
      BY <3>1, <3>3
  <2>4. CASE UNCHANGED vars
    BY <2>4 DEF vars
  <2>5. ~SliceBegins /\ ~SliceEnds /\ ~CompileSettles /\ ~Boot /\ ~DestroyJit
    BY DEF SliceBegins, SliceEnds, CompileSettles, Boot, DestroyJit
  <2>6. \A k \in tasks : ~Complete(k) /\ ~CompleteDestroyed(k)
    BY DEF Complete, CompleteDestroyed
  <2> QED
    BY <2>2, <2>3, <2>4, <2>5, <2>6 DEF PipelineNext
<1> QED
  BY <1>1, PipelineInvariant, PTL DEF PipelineSpec, RunningCodeStable
=============================================================================
