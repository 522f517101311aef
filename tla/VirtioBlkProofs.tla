--------------------------- MODULE VirtioBlkProofs ---------------------------
(***************************************************************************)
(* What VirtioBlk keeps for every queue size and every width of the ring   *)
(* indices that is a larger multiple of it (16 bits in the code).          *)
(*                                                                         *)
(* The argument follows a window over the avail ring: it begins where the  *)
(* driver has last looked at the used ring and ends at the avail index, so *)
(* that its first part has been answered and the rest waits.  Its chains   *)
(* are different ones and all in flight, which is why it is never longer   *)
(* than the queue, why no two of its entries share a slot although the     *)
(* indices wrap, and why a new request overwrites none of them.            *)
(***************************************************************************)
EXTENDS VirtioBlk, FiniteSetTheorems, WellFoundedInduction, TLAPS

Requests == [id : Nat, head : Heads, usedIdx : Indices]

TypeOK ==
  /\ ready \in BOOLEAN
  /\ lastAvailIdx \in Indices
  /\ pending \in Requests
  /\ intStatus \in {0, 1}
  /\ nextId \in Nat
  /\ avail \in [Heads -> Heads] /\ availIdx \in Indices
  /\ used \in [Heads -> Heads] /\ usedIdx \in Indices
  /\ status \in [Heads -> {"none", "ok", "error"}]
  /\ kind \in [Heads -> Kinds \cup {"free"}]
  /\ lastUsed \in Indices
  /\ isr \in BOOLEAN
  /\ hostOp \in Nat

(* The window: how much of it is answered, its length and its chains.      *)
Answered == Gap(lastUsed, usedIdx)
Window == Answered + Waiting
ChainAt(i) == avail[SlotOf(Plus(lastUsed, i))]
InFlight == {h \in Heads : kind[h] # "free"}

(* A device without a queue holds nothing, and the driver expects nothing. *)
Quiet ==
  ~ready =>
    /\ lastAvailIdx = 0 /\ lastUsed = 0
    /\ pending = None
    /\ InFlight = {}
    /\ isr = FALSE

WindowCounts ==
  ready => lastAvailIdx = usedIdx /\ Window = Cardinality(InFlight)

WindowDistinct ==
  ready => \A i \in 0 .. Window - 1 :
    /\ ChainAt(i) \in InFlight
    /\ \A j \in 0 .. Window - 1 : ChainAt(i) = ChainAt(j) => i = j

WindowAnswered ==
  ready => \A i \in 0 .. Answered - 1 :
    /\ used[SlotOf(Plus(lastUsed, i))] = ChainAt(i)
    /\ kind[ChainAt(i)] # "blind" => status[ChainAt(i)] # "none"

IInv ==
  /\ TypeOK
  /\ Quiet
  /\ WindowCounts /\ WindowDistinct /\ WindowAnswered
  /\ PendingCurrent
-----------------------------------------------------------------------------
(* Numbers.  The provers compute with div and % of a variable only in      *)
(* these forms.                                                            *)

(* What \div and % are: quotient and remainder.                            *)
LEMMA Division ==
  ASSUME NEW b \in Nat \ {0}, NEW a \in Int
  PROVE  /\ a \div b \in Int
         /\ a % b \in 0 .. b - 1
         /\ b * (a \div b) = a - (a % b)
<1>1. a \div b \in Int
  BY Z3
<1>2. a % b \in 0 .. b - 1
  BY Z3
<1>3. b * (a \div b) = a - (a % b)
  BY SMT
<1> QED
  BY <1>1, <1>2, <1>3

(* No multiple of b lies strictly between 0 and b.                         *)
LEMMA NoMultipleBetween ==
  ASSUME NEW b \in Nat \ {0}, NEW k \in Int, NEW d \in 1 .. b - 1
  PROVE  d # b * k
<1>1. CASE k <= 0
  BY <1>1, Z3
<1>2. CASE k >= 1
  BY <1>2, Z3
<1> QED
  BY <1>1, <1>2

(* A number less than twice b, or at least -b, is reduced by one step.     *)
LEMMA ModSmall ==
  ASSUME NEW b \in Nat \ {0}, NEW a \in 0 .. b - 1
  PROVE  a % b = a
BY Z3

LEMMA ModOver ==
  ASSUME NEW b \in Nat \ {0}, NEW a \in b .. 2 * b - 1
  PROVE  a % b = a - b
BY Z3

LEMMA ModNegative ==
  ASSUME NEW b \in Nat \ {0}, NEW a \in (-b) .. -1
  PROVE  a % b = a + b
BY Z3

(* A set of naturals has a least element.                                  *)
LEMMA LeastNat ==
  ASSUME NEW T \in SUBSET Nat, NEW t \in T
  PROVE  \E n \in T : \A m \in T : n <= m
<1> DEFINE R == OpToRel(<, Nat)
<1>1. IsWellFoundedOn(R, Nat)
  BY NatLessThanWellFounded, Zenon
<1>2. \A x, y \in Nat : y < x => <<y, x>> \in R
  BY Zenon DEF OpToRel
<1> HIDE DEF R
<1>3. PICK n \in T : \A y \in T : ~(<<y, n>> \in R)
  BY <1>1, WFMin
<1>4. ASSUME NEW m \in T
      PROVE  n <= m
  <2>1. m \in Nat /\ n \in Nat
    OBVIOUS
  <2>2. ~(m < n)
    BY <1>2, <1>3, <2>1, Zenon
  <2> QED
    BY <2>1, <2>2
<1> QED
  BY <1>4

-----------------------------------------------------------------------------
(* Ring indices.                                                           *)

(* What Plus and Gap are, without %.                                       *)
LEMMA PlusIs ==
  ASSUME NEW i \in Indices, NEW n \in 0 .. Width - 1
  PROVE  Plus(i, n) = IF i + n < Width THEN i + n ELSE i + n - Width
<1>1. Width \in Nat \ {0} /\ i \in 0 .. Width - 1
  BY QueueAssumption DEF Indices
<1>2. CASE i + n < Width
  BY <1>1, <1>2, ModSmall DEF Plus
<1>3. CASE ~(i + n < Width)
  <2>1. i + n \in Width .. 2 * Width - 1
    BY <1>1, <1>3
  <2>2. PICK x \in Width .. 2 * Width - 1 : x = i + n
    BY <2>1
  <2>3. x % Width = x - Width
    BY <1>1, ModOver
  <2>4. Plus(i, n) = x % Width
    BY <2>2 DEF Plus
  <2> QED
    BY <1>1, <1>3, <2>2, <2>3, <2>4
<1> QED
  BY <1>2, <1>3

LEMMA GapIs ==
  ASSUME NEW i \in Indices, NEW j \in Indices
  PROVE  Gap(i, j) = IF i <= j THEN j - i ELSE j - i + Width
<1>1. Width \in Nat \ {0} /\ i \in 0 .. Width - 1 /\ j \in 0 .. Width - 1
  BY QueueAssumption DEF Indices
<1>2. CASE i <= j
  <2>1. j - i \in 0 .. Width - 1
    BY <1>1, <1>2
  <2> QED
    BY <1>1, <1>2, <2>1, ModSmall DEF Gap
<1>3. CASE ~(i <= j)
  <2>1. j - i \in (-Width) .. -1
    BY <1>1, <1>3
  <2> QED
    BY <1>1, <1>3, <2>1, ModNegative DEF Gap
<1> QED
  BY <1>2, <1>3

(* Steps add up, and lead where the gap says.                              *)
LEMMA Steps ==
  ASSUME NEW i \in Indices, NEW j \in Indices
  PROVE  /\ Gap(i, j) \in 0 .. Width - 1
         /\ Plus(i, Gap(i, j)) = j
         /\ Gap(i, j) = 0 <=> i = j
         /\ Plus(i, 0) = i
<1>1. Width \in Nat \ {0} /\ i \in 0 .. Width - 1 /\ j \in 0 .. Width - 1
  BY QueueAssumption DEF Indices
<1>2. Gap(i, j) = IF i <= j THEN j - i ELSE j - i + Width
  BY GapIs
<1>3. Gap(i, j) \in 0 .. Width - 1
  BY <1>1, <1>2
<1>4. Plus(i, Gap(i, j)) = IF i + Gap(i, j) < Width THEN i + Gap(i, j)
                                                    ELSE i + Gap(i, j) - Width
  BY <1>3, PlusIs
<1>5. Plus(i, 0) = IF i + 0 < Width THEN i + 0 ELSE i + 0 - Width
  BY <1>1, PlusIs
<1> QED
  BY <1>1, <1>2, <1>3, <1>4, <1>5

LEMMA StepsAdd ==
  ASSUME NEW i \in Indices, NEW m \in Nat, NEW n \in Nat, m + n < Width
  PROVE  /\ Plus(i, m) \in Indices
         /\ Plus(Plus(i, m), n) = Plus(i, m + n)
         /\ Gap(i, Plus(i, m)) = m
<1>1. Width \in Nat \ {0} /\ i \in 0 .. Width - 1
  BY QueueAssumption DEF Indices
<1>2. Plus(i, m) = IF i + m < Width THEN i + m ELSE i + m - Width
  BY <1>1, PlusIs
<1>3. Plus(i, m) \in Indices
  BY <1>1, <1>2 DEF Indices
<1>4. Plus(Plus(i, m), n) = IF Plus(i, m) + n < Width THEN Plus(i, m) + n
                                                     ELSE Plus(i, m) + n - Width
  BY <1>1, <1>3, PlusIs
<1>5. Plus(i, m + n) = IF i + (m + n) < Width THEN i + (m + n)
                                              ELSE i + (m + n) - Width
  BY <1>1, PlusIs
<1>6. Gap(i, Plus(i, m)) =
        IF i <= Plus(i, m) THEN Plus(i, m) - i ELSE Plus(i, m) - i + Width
  BY <1>3, GapIs
<1> QED
  BY <1>1, <1>2, <1>3, <1>4, <1>5, <1>6

(* Moving the end of a gap on, or its begin.                               *)
LEMMA GapMoves ==
  ASSUME NEW i \in Indices, NEW j \in Indices, NEW n \in Nat
  PROVE  /\ Gap(i, j) + n < Width => Gap(i, Plus(j, n)) = Gap(i, j) + n
         /\ n <= Gap(i, j) => Gap(Plus(i, n), j) = Gap(i, j) - n
<1>1. Width \in Nat \ {0} /\ i \in 0 .. Width - 1 /\ j \in 0 .. Width - 1
  BY QueueAssumption DEF Indices
<1>2. Gap(i, j) = IF i <= j THEN j - i ELSE j - i + Width
  BY GapIs
<1>3. ASSUME Gap(i, j) + n < Width
      PROVE  Gap(i, Plus(j, n)) = Gap(i, j) + n
  <2>1. Plus(j, n) = IF j + n < Width THEN j + n ELSE j + n - Width
    BY <1>1, <1>2, <1>3, PlusIs
  <2>2. Plus(j, n) \in Indices
    BY <1>1, <1>2, <1>3, <2>1 DEF Indices
  <2>3. Gap(i, Plus(j, n)) =
          IF i <= Plus(j, n) THEN Plus(j, n) - i ELSE Plus(j, n) - i + Width
    BY <2>2, GapIs
  <2> QED
    BY <1>1, <1>2, <1>3, <2>1, <2>3
<1>4. ASSUME n <= Gap(i, j)
      PROVE  Gap(Plus(i, n), j) = Gap(i, j) - n
  <2>1. Plus(i, n) = IF i + n < Width THEN i + n ELSE i + n - Width
    BY <1>1, <1>2, <1>4, PlusIs
  <2>2. Plus(i, n) \in Indices
    BY <1>1, <1>2, <1>4, <2>1 DEF Indices
  <2>3. Gap(Plus(i, n), j) =
          IF Plus(i, n) <= j THEN j - Plus(i, n) ELSE j - Plus(i, n) + Width
    BY <2>2, GapIs
  <2> QED
    BY <1>1, <1>2, <1>4, <2>1, <2>3
<1> QED
  BY <1>3, <1>4

LEMMA SlotIn ==
  ASSUME NEW x \in Indices
  PROVE  SlotOf(x) \in Heads
<1>1. Num \in Nat \ {0} /\ Width \in Nat /\ x \in Int
  BY QueueAssumption DEF Indices
<1>2. x % Num \in 0 .. Num - 1
  BY <1>1, Division
<1> QED
  BY <1>2 DEF SlotOf, Heads

(* Fewer than Num indices in a row have different slots, also when they    *)
(* wrap: Width is a multiple of Num.                                       *)
LEMMA SlotsApart ==
  ASSUME NEW i \in Indices, NEW m \in 0 .. Num - 1, NEW n \in 0 .. Num - 1, m < n
  PROVE  SlotOf(Plus(i, m)) # SlotOf(Plus(i, n))
<1> DEFINE a == Plus(i, m)  b == Plus(i, n)
<1>1. Num \in Nat \ {0} /\ Width \in Nat /\ Width > Num /\ i \in 0 .. Width - 1
  BY QueueAssumption DEF Indices
<1>2. /\ a = IF i + m < Width THEN i + m ELSE i + m - Width
      /\ b = IF i + n < Width THEN i + n ELSE i + n - Width
  BY <1>1, PlusIs
<1>3. a \in Int /\ b \in Int
  BY <1>1, <1>2
<1>4. b - a = n - m \/ b - a = n - m - Width
  BY <1>1, <1>2
<1> DEFINE q == a \div Num  r == b \div Num  w == Width \div Num
<1> HIDE DEF a, b
<1>5. /\ q \in Int /\ r \in Int /\ w \in Int
      /\ Num * q = a - (a % Num) /\ Num * r = b - (b % Num)
      /\ Num * w = Width
  <2>1. q \in Int /\ Num * q = a - (a % Num)
    BY <1>1, <1>3, Division
  <2>2. r \in Int /\ Num * r = b - (b % Num)
    BY <1>1, <1>3, Division
  <2>3. w \in Int /\ Num * w = Width - (Width % Num)
    <3>1. \A x \in Int : x \div Num \in Int /\ Num * (x \div Num) = x - (x % Num)
      BY <1>1, Division
    <3> QED
      BY <1>1, <3>1
  <2>4. Width % Num = 0
    BY QueueAssumption
  <2> QED
    BY <1>1, <2>1, <2>2, <2>3, <2>4
<1>6. a % Num \in Int /\ b % Num \in Int
  BY <1>1, <1>3, Division
<1> HIDE DEF q, r, w
<1>7. n - m \in 1 .. Num - 1
  BY <1>1
<1>8. n - m # Num * (r - q) /\ n - m # Num * (r - q + w)
  <2>1. r - q \in Int /\ r - q + w \in Int
    BY <1>5
  <2> HIDE <1>5
  <2> QED
    BY <1>1, <1>7, <2>1, NoMultipleBetween
<1>9. Num * (r - q) = Num * r - Num * q /\ Num * (r - q + w) = Num * r - Num * q + Num * w
  BY <1>1, <1>5, Z3
<1>10. a % Num # b % Num
  BY <1>1, <1>3, <1>4, <1>5, <1>6, <1>8, <1>9
<1> QED
  BY <1>10 DEF SlotOf, a, b
-----------------------------------------------------------------------------
(* The window.                                                             *)

(* The Prefix that process() answers at once exists: the waiting chains    *)
(* before the first good one, or all of them.                              *)
LEMMA PrefixIs ==
  ASSUME TypeOK
  PROVE  /\ Waiting \in 0 .. Width - 1
         /\ Prefix \in 0 .. Waiting
         /\ \A i \in 0 .. Prefix - 1 : kind[HeadAt(i)] # "good"
         /\ Prefix < Waiting => kind[HeadAt(Prefix)] = "good"
<1> DEFINE good(n) == kind[HeadAt(n)] = "good"
           P(n) == /\ \A i \in 0 .. n - 1 : ~good(i)
                   /\ n < Waiting => good(n)
           T == {n \in 0 .. Waiting - 1 : good(n)}
<1> HIDE DEF good
<1>1. Waiting \in 0 .. Width - 1
  BY Steps DEF TypeOK, Waiting
<1>2. Width \in Nat
  BY QueueAssumption
<1> HIDE DEF Waiting
<1>3. \E n \in 0 .. Waiting : P(n)
  <2>1. CASE T = {}
    <3>1. Waiting \in 0 .. Waiting /\ P(Waiting)
      BY <1>1, <1>2, <2>1
    <3> QED
      BY <3>1
  <2>2. CASE T # {}
    <3>1. T \in SUBSET Nat
      BY <1>1, <1>2
    <3>2. PICK n \in T : \A m \in T : n <= m
      BY <2>2, <3>1, LeastNat
    <3>3. n \in 0 .. Waiting /\ good(n)
      BY <1>1, <1>2
    <3>4. ASSUME NEW i \in 0 .. n - 1
          PROVE  ~good(i)
      BY <1>1, <1>2, <3>2, <3>3
    <3> QED
      BY <3>3, <3>4
  <2> QED
    BY <2>1, <2>2
<1>4. Prefix = CHOOSE n \in 0 .. Waiting : P(n)
  BY DEF Prefix, good
<1>5. Prefix \in 0 .. Waiting /\ P(Prefix)
  BY <1>3, <1>4
<1> QED
  BY <1>1, <1>5 DEF good

(* The window fits the queue, its two parts meet at the used index, and    *)
(* its entries have slots of their own.                                    *)
WindowHolds ==
  /\ Answered \in Nat /\ Waiting \in Nat
  /\ Window \in 0 .. Num
  /\ IsFiniteSet(InFlight) /\ Cardinality(InFlight) = Window
  /\ lastAvailIdx = usedIdx
  /\ availIdx = Plus(lastUsed, Window)
  /\ \A i \in 0 .. Waiting : Plus(usedIdx, i) = Plus(lastUsed, Answered + i)
  /\ \A i \in 0 .. Waiting - 1 : HeadAt(i) = ChainAt(Answered + i)
  /\ \A i, j \in 0 .. Window - 1 :
       SlotOf(Plus(lastUsed, i)) = SlotOf(Plus(lastUsed, j)) => i = j

LEMMA WindowFacts ==
  ASSUME TypeOK, WindowCounts, ready
  PROVE  WindowHolds
<1>1. Num \in Nat \ {0} /\ Width \in Nat /\ Width > Num
  BY QueueAssumption
<1>2. Answered \in Nat /\ Waiting \in Nat
  BY <1>1, Steps DEF TypeOK, Answered, Waiting
<1>3. lastAvailIdx = usedIdx /\ Window = Cardinality(InFlight)
  BY DEF WindowCounts
<1>4. IsFiniteSet(Heads) /\ Cardinality(Heads) = Num
  <2>1. /\ IsFiniteSet(0 .. Num - 1)
        /\ Cardinality(0 .. Num - 1) = IF 0 > Num - 1 THEN 0 ELSE Num - 1 - 0 + 1
    BY <1>1, FS_Interval
  <2> QED
    BY <1>1, <2>1 DEF Heads
<1>5. IsFiniteSet(InFlight) /\ Cardinality(InFlight) <= Num
  BY <1>4, FS_Subset DEF InFlight
<1>6. Window \in 0 .. Num
  BY <1>1, <1>2, <1>3, <1>5 DEF Window
<1>7. Answered + Waiting <= Num
  BY <1>6, <1>2, <1>1 DEF Window
<1>8. usedIdx = Plus(lastUsed, Answered)
  BY Steps DEF TypeOK, Answered
<1>9. availIdx = Plus(usedIdx, Waiting)
  BY <1>3, Steps DEF TypeOK, Waiting
<1>10. ASSUME NEW i \in 0 .. Waiting
       PROVE  Plus(usedIdx, i) = Plus(lastUsed, Answered + i)
  <2>1. Answered + i < Width /\ i \in Nat
    BY <1>1, <1>2, <1>7
  <2> QED
    BY <1>2, <1>8, <2>1, StepsAdd DEF TypeOK
<1>11. availIdx = Plus(lastUsed, Window)
  BY <1>2, <1>9, <1>10 DEF Window
<1>12. ASSUME NEW i \in 0 .. Waiting - 1
       PROVE  HeadAt(i) = ChainAt(Answered + i)
  BY <1>2, <1>3, <1>10 DEF HeadAt, ChainAt
<1>13. ASSUME NEW i \in 0 .. Window - 1, NEW j \in 0 .. Window - 1,
              SlotOf(Plus(lastUsed, i)) = SlotOf(Plus(lastUsed, j))
       PROVE  i = j
  <2>1. i \in 0 .. Num - 1 /\ j \in 0 .. Num - 1
    BY <1>1, <1>6
  <2>2. ~(i < j) /\ ~(j < i)
    BY <1>13, <2>1, SlotsApart DEF TypeOK
  <2> QED
    BY <2>1, <2>2, <1>1
<1> QED
  BY <1>2, <1>3, <1>5, <1>6, <1>10, <1>11, <1>12, <1>13 DEF WindowHolds
(* The device answers the next n waiting chains: their entries go where    *)
(* the used ring stands and they get their status, and no answer the       *)
(* driver has not taken is disturbed.                                      *)
Answers(n) ==
  /\ n \in 0 .. Waiting
  /\ usedIdx' = Plus(usedIdx, n) /\ lastAvailIdx' = Plus(lastAvailIdx, n)
  /\ \A i \in 0 .. Answered - 1 :
       used'[SlotOf(Plus(lastUsed, i))] = used[SlotOf(Plus(lastUsed, i))]
  /\ \A i \in 0 .. n - 1 :
       /\ used'[SlotOf(Plus(usedIdx, i))] = HeadAt(i)
       /\ kind[HeadAt(i)] # "blind" => status'[HeadAt(i)] # "none"
  /\ \A h \in Heads : status[h] # "none" => status'[h] # "none"

LEMMA AnswersKeep ==
  ASSUME TypeOK, WindowCounts, WindowDistinct, WindowAnswered, ready,
         NEW n, Answers(n),
         UNCHANGED << ready, avail, availIdx, kind, lastUsed >>
  PROVE  /\ WindowCounts' /\ WindowDistinct' /\ WindowAnswered'
         /\ Waiting' = Waiting - n
         /\ Waiting' > 0 => HeadAt(0)' = HeadAt(n)
         /\ lastAvailIdx' \in Indices /\ usedIdx' \in Indices
<1>1. Num \in Nat \ {0} /\ Width \in Nat /\ Width > Num
  BY QueueAssumption
<1>2. WindowHolds
  BY WindowFacts
<1>3. /\ Answered \in Nat /\ Waiting \in Nat /\ Answered + Waiting \in 0 .. Num
      /\ lastAvailIdx = usedIdx
      /\ n \in 0 .. Waiting /\ n \in Nat
  BY <1>2 DEF WindowHolds, Window, Answers
<1>4. usedIdx' = Plus(usedIdx, n) /\ lastAvailIdx' = usedIdx'
  BY <1>3 DEF Answers
<1>5. Answered' = Answered + n
  BY <1>1, <1>3, <1>4, GapMoves DEF TypeOK, Answered
<1>6. Waiting' = Waiting - n
  BY <1>1, <1>3, <1>4, GapMoves DEF TypeOK, Waiting
<1>7. Window' = Window
  BY <1>3, <1>5, <1>6 DEF Window
<1>8. InFlight' = InFlight
  BY DEF InFlight
<1>9. \A i : ChainAt(i)' = ChainAt(i)
  BY DEF ChainAt
<1>10. WindowCounts'
  BY <1>4, <1>7, <1>8 DEF WindowCounts
<1>11. WindowDistinct'
  BY <1>7, <1>8, <1>9 DEF WindowDistinct
<1>12. ASSUME NEW i \in 0 .. Answered' - 1
       PROVE  /\ used'[SlotOf(Plus(lastUsed, i))] = ChainAt(i)
              /\ kind[ChainAt(i)] # "blind" => status'[ChainAt(i)] # "none"
  <2>1. CASE i \in 0 .. Answered - 1
    <3>1. ChainAt(i) \in Heads
      <4>1. i \in 0 .. Window - 1
        BY <1>3, <2>1 DEF Window
      <4> QED
        BY <4>1 DEF WindowDistinct, InFlight
    <3> QED
      BY <2>1, <3>1 DEF WindowAnswered, Answers
  <2>2. CASE i \notin 0 .. Answered - 1
    <3>1. PICK k \in 0 .. n - 1 : i = Answered + k
      <4>1. i - Answered \in 0 .. n - 1 /\ i = Answered + (i - Answered)
        BY <1>3, <1>5, <2>2
      <4> QED
        BY <4>1
    <3>2. k \in 0 .. Waiting - 1 /\ k \in 0 .. Waiting
      BY <1>3
    <3>3. HeadAt(k) = ChainAt(i) /\ Plus(usedIdx, k) = Plus(lastUsed, i)
      BY <1>2, <3>1, <3>2 DEF WindowHolds
    <3> QED
      BY <3>3 DEF Answers
  <2> QED
    BY <2>1, <2>2
<1>13. WindowAnswered'
  <2>1. \A i : ChainAt(i)' = ChainAt(i)
    BY <1>9
  <2> QED
    BY <1>12, <2>1 DEF WindowAnswered
<1>14. Plus(usedIdx, n) \in Indices
  BY <1>1, <1>3, StepsAdd DEF TypeOK
<1>15. HeadAt(0)' = HeadAt(n)
  <2>1. Plus(Plus(usedIdx, n), 0) = Plus(usedIdx, n)
    BY <1>14, Steps
  <2> QED
    BY <1>3, <1>4, <2>1 DEF HeadAt
<1> QED
  BY <1>4, <1>6, <1>10, <1>11, <1>13, <1>14, <1>15

(* process() answers the Prefix.                                           *)
LEMMA ProcessAnswers ==
  ASSUME TypeOK, WindowCounts, WindowDistinct, ready, Process,
         UNCHANGED << avail, availIdx, kind, lastUsed >>
  PROVE  /\ Answers(Prefix)
         /\ used' \in [Heads -> Heads]
         /\ status' \in [Heads -> {"none", "ok", "error"}]
<1> DEFINE entry(s) == {i \in 0 .. Prefix - 1 : SlotOf(Plus(usedIdx, i)) = s}
<1>1. Num \in Nat \ {0} /\ Width \in Nat /\ Width > Num
  BY QueueAssumption
<1>2. WindowHolds
  BY WindowFacts
<1>3. /\ Answered \in Nat /\ Waiting \in Nat /\ Window = Answered + Waiting
      /\ Prefix \in 0 .. Waiting
      /\ \A i \in 0 .. Prefix - 1 : kind[HeadAt(i)] # "good"
  BY <1>2, PrefixIs DEF WindowHolds, Window
<1>4. used' = [s \in Heads |->
         IF entry(s) = {} THEN used[s] ELSE HeadAt(CHOOSE i \in entry(s) : TRUE)]
  BY DEF Process, PublishPrefix
<1> HIDE DEF entry
<1>5. ASSUME NEW i \in 0 .. Prefix - 1
      PROVE  /\ HeadAt(i) \in InFlight
             /\ Answered + i \in 0 .. Window - 1
             /\ Plus(usedIdx, i) = Plus(lastUsed, Answered + i)
  <2>1. i \in 0 .. Waiting - 1 /\ i \in 0 .. Waiting /\ Answered + i \in 0 .. Window - 1
    BY <1>3
  <2> QED
    BY <1>2, <2>1 DEF WindowHolds, WindowDistinct
<1>6. \A x \in Indices : SlotOf(x) \in Heads
  BY SlotIn
<1>7. used' \in [Heads -> Heads]
  <2>1. ASSUME NEW s \in Heads
        PROVE  (IF entry(s) = {} THEN used[s] ELSE HeadAt(CHOOSE i \in entry(s) : TRUE))
                 \in Heads
    <3>1. CASE entry(s) = {}
      BY <3>1 DEF TypeOK
    <3>2. CASE entry(s) # {}
      <4>1. PICK i \in 0 .. Prefix - 1 : i = CHOOSE k \in entry(s) : TRUE
        BY <3>2 DEF entry
      <4> QED
        BY <1>5, <3>2, <4>1 DEF InFlight
    <3> QED
      BY <3>1, <3>2
  <2> QED
    BY <1>4, <2>1
<1>8. ASSUME NEW i \in 0 .. Answered - 1
      PROVE  used'[SlotOf(Plus(lastUsed, i))] = used[SlotOf(Plus(lastUsed, i))]
  <2> DEFINE s == SlotOf(Plus(lastUsed, i))
  <2>1. s \in Heads
    <3>1. i \in Nat /\ i + 0 < Width
      BY <1>1, <1>2, <1>3 DEF WindowHolds
    <3> QED
      BY <1>6, <3>1, StepsAdd DEF TypeOK
  <2>2. entry(s) = {}
    <3>1. SUFFICES ASSUME NEW k \in 0 .. Prefix - 1, SlotOf(Plus(usedIdx, k)) = s
                   PROVE  FALSE
      BY DEF entry
    <3>2. i \in 0 .. Window - 1 /\ Answered + k \in 0 .. Window - 1
      BY <1>3, <1>5
    <3>3. i = Answered + k
      BY <1>2, <1>5, <3>1, <3>2 DEF WindowHolds
    <3> QED
      BY <1>3, <3>3
  <2> QED
    BY <1>4, <2>1, <2>2
<1>9. ASSUME NEW i \in 0 .. Prefix - 1
      PROVE  used'[SlotOf(Plus(usedIdx, i))] = HeadAt(i)
  <2> DEFINE s == SlotOf(Plus(usedIdx, i))
  <2>1. s \in Heads
    <3>1. i \in Nat /\ i + 0 < Width
      BY <1>1, <1>2, <1>3 DEF WindowHolds
    <3> QED
      BY <1>6, <3>1, StepsAdd DEF TypeOK
  <2>2. entry(s) # {}
    BY DEF entry
  <2>3. ASSUME NEW k \in entry(s)
        PROVE  k = i
    <3>1. k \in 0 .. Prefix - 1 /\ SlotOf(Plus(usedIdx, k)) = s
      BY DEF entry
    <3>2. Answered + i = Answered + k
      BY <1>2, <1>5, <3>1 DEF WindowHolds
    <3> QED
      BY <1>3, <3>1, <3>2
  <2>4. (CHOOSE k \in entry(s) : TRUE) = i
    BY <2>2, <2>3
  <2> QED
    BY <1>4, <2>1, <2>2, <2>4
<1>10. status' = [h \in Heads |->
         IF \E i \in 0 .. Prefix - 1 : HeadAt(i) = h /\ kind[h] = "bad"
           THEN "error" ELSE status[h]]
  BY DEF Process, RejectPrefix
<1>11. status' \in [Heads -> {"none", "ok", "error"}]
  BY <1>10 DEF TypeOK
<1>12. \A h \in Heads : status[h] # "none" => status'[h] # "none"
  BY <1>10
<1>13. ASSUME NEW i \in 0 .. Prefix - 1, kind[HeadAt(i)] # "blind"
       PROVE  status'[HeadAt(i)] # "none"
  <2>1. HeadAt(i) \in Heads /\ kind[HeadAt(i)] # "free"
    BY <1>5 DEF InFlight
  <2>2. kind[HeadAt(i)] = "bad"
    BY <1>3, <1>13, <2>1 DEF TypeOK, Kinds
  <2> QED
    BY <1>10, <2>1, <2>2
<1>14. usedIdx' = Plus(usedIdx, Prefix) /\ lastAvailIdx' = Plus(lastAvailIdx, Prefix)
  BY DEF Process, PublishPrefix, ConsumePrefix
<1> QED
  BY <1>3, <1>7, <1>8, <1>9, <1>11, <1>12, <1>13, <1>14 DEF Answers
-----------------------------------------------------------------------------
(* The steps.                                                              *)

LEMMA InitHolds == ASSUME Init PROVE IInv
<1>1. Num \in Nat \ {0} /\ Width \in Nat /\ Width > Num
  BY QueueAssumption
<1>2. 0 \in Heads /\ 0 \in Indices
  BY <1>1 DEF Heads, Indices
<1> QED
  BY <1>2 DEF Init, Rings, IInv, TypeOK, Requests, None, Kinds, Quiet, InFlight,
     WindowCounts, WindowDistinct, WindowAnswered, PendingCurrent, PlaceCurrent,
     HostOpPending

(* Fresh rings and an empty window.                                        *)
LEMMA SetupKeeps == ASSUME IInv, Setup PROVE IInv'
<1>1. Num \in Nat \ {0} /\ Width \in Nat /\ Width > Num
  BY QueueAssumption
<1>2. 0 \in Heads /\ 0 \in Indices
  BY <1>1 DEF Heads, Indices
<1>3. TypeOK'
  BY <1>2 DEF IInv, Setup, deviceVars, driverVars, TypeOK
<1>4. lastAvailIdx = 0 /\ lastUsed = 0 /\ pending = None /\ InFlight = {}
  BY DEF IInv, Setup, Quiet
<1>5. Gap(0, 0) = 0
  BY <1>2, Steps
<1>6. Answered' = 0 /\ Waiting' = 0
  BY <1>4, <1>5 DEF Setup, driverVars, Answered, Waiting
<1>7. InFlight' = {} /\ Cardinality({}) = 0
  BY <1>4, FS_EmptySet DEF InFlight, Setup, driverVars
<1>8. Window' = 0
  BY <1>6 DEF Window
<1>9. WindowCounts'
  BY <1>4, <1>7, <1>8 DEF WindowCounts, Setup
<1>10. WindowDistinct' /\ WindowAnswered'
  BY <1>6, <1>8 DEF WindowDistinct, WindowAnswered
<1>11. PendingCurrent'
  BY <1>4 DEF IInv, Setup, PendingCurrent, PlaceCurrent, HostOpPending, GuestRuns
<1>12. Quiet'
  BY DEF Setup, Quiet
<1> QED
  BY <1>3, <1>9, <1>10, <1>11, <1>12 DEF IInv

LEMMA ResetKeeps == ASSUME IInv, Reset PROVE IInv'
<1>1. Num \in Nat \ {0} /\ Width \in Nat /\ Width > Num
  BY QueueAssumption
<1>2. 0 \in Heads /\ 0 \in Indices
  BY <1>1 DEF Heads, Indices
<1>3. TypeOK'
  BY <1>2 DEF IInv, Reset, ringVars, TypeOK, Requests, None, Kinds
<1>4. Quiet'
  BY DEF Reset, Quiet, InFlight
<1>5. WindowCounts' /\ WindowDistinct' /\ WindowAnswered'
  BY DEF Reset, WindowCounts, WindowDistinct, WindowAnswered
<1>6. PendingCurrent'
  BY DEF Reset, GuestRuns, PendingCurrent, PlaceCurrent, HostOpPending
<1> QED
  BY <1>3, <1>4, <1>5, <1>6 DEF IInv

(* The window grows by a chain that was free, in a slot no entry of it has.*)
LEMMA PostKeeps ==
  ASSUME IInv, NEW h \in Heads, NEW k \in Kinds, Post(h, k)
  PROVE  IInv'
<1>1. Num \in Nat \ {0} /\ Width \in Nat /\ Width > Num
  BY QueueAssumption
<1>2. /\ TypeOK /\ ready /\ kind[h] = "free"
      /\ WindowCounts /\ WindowDistinct /\ WindowAnswered /\ PendingCurrent
  BY DEF IInv, Post
<1>3. /\ kind' = [kind EXCEPT ![h] = k]
      /\ status' = [status EXCEPT ![h] = "none"]
      /\ avail' = [avail EXCEPT ![SlotOf(availIdx)] = h]
      /\ availIdx' = Plus(availIdx, 1)
      /\ UNCHANGED << ready, lastAvailIdx, pending, intStatus, nextId, used, usedIdx,
                      lastUsed, isr, hostOp >>
  BY DEF Post, deviceVars
<1>4. WindowHolds
  BY <1>2, WindowFacts
<1>5. /\ Answered \in Nat /\ Waiting \in Nat /\ Window = Answered + Waiting
      /\ Window \in 0 .. Num /\ IsFiniteSet(InFlight) /\ Cardinality(InFlight) = Window
  BY <1>4 DEF WindowHolds, Window
<1>6. InFlight' = InFlight \cup {h} /\ h \notin InFlight
  BY <1>2, <1>3 DEF TypeOK, InFlight, Kinds
<1>7. Cardinality(InFlight') = Window + 1 /\ Window + 1 <= Num
  <2>1. Cardinality(InFlight') = Window + 1
    BY <1>5, <1>6, FS_AddElement
  <2>2. IsFiniteSet(0 .. Num - 1) /\ Cardinality(0 .. Num - 1) = Num
    BY <1>1, FS_Interval
  <2>3. Cardinality(InFlight') <= Num
    BY <1>1, <2>2, FS_Subset DEF InFlight, Heads
  <2> QED
    BY <2>1, <2>3
<1>8. Plus(availIdx, 1) \in Indices
  BY <1>1, <1>2, StepsAdd DEF TypeOK
<1>9. Waiting' = Waiting + 1 /\ Answered' = Answered
  <2>1. Gap(lastAvailIdx, availIdx) + 1 < Width
    BY <1>1, <1>5, <1>7 DEF Waiting
  <2> QED
    BY <1>2, <1>3, <2>1, GapMoves DEF TypeOK, Waiting, Answered
<1>10. Window' = Window + 1
  BY <1>5, <1>9 DEF Window
<1>11. TypeOK'
  BY <1>2, <1>3, <1>8 DEF TypeOK
<1>12. ASSUME NEW i \in 0 .. Window - 1
       PROVE  ChainAt(i)' = ChainAt(i) /\ ChainAt(i) # h
  <2>1. i \in 0 .. Num - 1 /\ Window \in 0 .. Num - 1 /\ i < Window
    BY <1>1, <1>5, <1>7
  <2>2. SlotOf(Plus(lastUsed, i)) # SlotOf(availIdx)
    BY <1>2, <1>4, <2>1, SlotsApart DEF TypeOK, WindowHolds
  <2> QED
    BY <1>2, <1>3, <1>6, <2>2 DEF ChainAt, WindowDistinct
<1>13. PICK w \in 0 .. Num - 1 : w = Window
  BY <1>1, <1>5, <1>7
<1>14. ChainAt(w)' = h
  <2>1. availIdx = Plus(lastUsed, w)
    BY <1>4, <1>13 DEF WindowHolds
  <2>2. SlotOf(availIdx) \in Heads
    BY <1>2, SlotIn DEF TypeOK
  <2> QED
    BY <1>2, <1>3, <2>1, <2>2 DEF TypeOK, ChainAt
<1>15. WindowCounts'
  BY <1>2, <1>3, <1>7, <1>10 DEF WindowCounts
<1>16. ASSUME NEW i \in 0 .. Window'- 1
       PROVE  /\ ChainAt(i)' \in InFlight'
              /\ \A j \in 0 .. Window' - 1 : ChainAt(i)' = ChainAt(j)' => i = j
  <2>1. \A j \in 0 .. Window' - 1 : j = w \/ j \in 0 .. Window - 1
    BY <1>5, <1>10, <1>13
  <2>2. \A j \in 0 .. Window - 1 :
          /\ ChainAt(j)' = ChainAt(j) /\ ChainAt(j) # h
          /\ ChainAt(j) \in InFlight
          /\ \A m \in 0 .. Window - 1 : ChainAt(j) = ChainAt(m) => j = m
    BY <1>2, <1>12 DEF WindowDistinct
  <2> QED
    BY <1>6, <1>14, <2>1, <2>2
<1>17. WindowDistinct'
  BY <1>16 DEF WindowDistinct
<1>18. ASSUME NEW i \in 0 .. Answered - 1
       PROVE  /\ used'[SlotOf(Plus(lastUsed', i))] = ChainAt(i)'
              /\ kind'[ChainAt(i)'] # "blind" => status'[ChainAt(i)'] # "none"
  <2>1. i \in 0 .. Window - 1
    BY <1>5
  <2>2. ChainAt(i)' = ChainAt(i) /\ ChainAt(i) # h /\ ChainAt(i) \in Heads
    BY <1>2, <1>12, <2>1 DEF WindowDistinct, InFlight
  <2> QED
    BY <1>2, <1>3, <2>2 DEF WindowAnswered, TypeOK
<1>19. WindowAnswered'
  BY <1>9, <1>18 DEF WindowAnswered
<1>20. Quiet'
  BY <1>2, <1>3 DEF Quiet
<1>21. ASSUME pending # None
       PROVE  Waiting' > 0 /\ HeadAt(0)' = pending.head /\ pending.usedIdx = usedIdx
  <2>1. Waiting > 0 /\ HeadAt(0) = pending.head /\ pending.usedIdx = usedIdx
    BY <1>2, <1>21 DEF PendingCurrent, PlaceCurrent
  <2>2. 0 \in 0 .. Waiting - 1 /\ 0 \in 0 .. Waiting /\ Answered \in 0 .. Window - 1
    BY <1>5, <2>1
  <2>3. HeadAt(0) = ChainAt(Answered) /\ Plus(usedIdx, 0) = Plus(lastUsed, Answered)
    BY <1>4, <1>5, <2>2 DEF WindowHolds
  <2>4. PICK a \in 0 .. Window - 1 : a = Answered
    BY <2>2
  <2>5. ChainAt(a)' = ChainAt(a)
    BY <1>12
  <2>6. HeadAt(0)' = ChainAt(a)'
    BY <1>3, <1>4, <2>3, <2>4 DEF HeadAt, ChainAt, WindowHolds
  <2> QED
    BY <1>5, <1>9, <2>1, <2>3, <2>4, <2>5, <2>6
<1>22. PendingCurrent'
  BY <1>2, <1>3, <1>21 DEF PendingCurrent, PlaceCurrent, HostOpPending
<1> QED
  BY <1>11, <1>15, <1>17, <1>19, <1>20, <1>22 DEF IInv
(* process() answers the Prefix; the good chain after it becomes pending.  *)
LEMMA ProcessKeeps == ASSUME IInv, CallsProcess PROVE IInv'
<1>1. /\ TypeOK /\ ready /\ WindowCounts /\ WindowDistinct /\ WindowAnswered
      /\ hostOp = 0 /\ pending = None /\ Process
      /\ UNCHANGED << ready, avail, availIdx, kind, lastUsed, isr, hostOp >>
  BY DEF IInv, CallsProcess, driverVars, GuestRuns
<1>2. /\ Answers(Prefix)
      /\ used' \in [Heads -> Heads]
      /\ status' \in [Heads -> {"none", "ok", "error"}]
  BY <1>1, ProcessAnswers
<1>3. /\ WindowCounts' /\ WindowDistinct' /\ WindowAnswered'
      /\ Waiting' = Waiting - Prefix
      /\ Waiting' > 0 => HeadAt(0)' = HeadAt(Prefix)
      /\ lastAvailIdx' \in Indices /\ usedIdx' \in Indices
  BY <1>1, <1>2, AnswersKeep
<1>4. Prefix \in 0 .. Waiting /\ Waiting \in Nat
  BY <1>1, PrefixIs
<1>5. usedIdx' = Plus(usedIdx, Prefix) /\ lastAvailIdx = usedIdx
  BY <1>1, <1>2 DEF Answers, WindowCounts
<1>6. PendingCurrent' /\ pending' \in Requests /\ nextId' \in Nat
  <2>1. CASE Prefix < Waiting
    <3>1. /\ pending' = [id |-> nextId, head |-> HeadAt(Prefix), usedIdx |-> usedIdx']
          /\ nextId' = nextId + 1
      BY <1>1, <1>5, <2>1 DEF Process
    <3>2. Waiting' > 0 /\ HeadAt(0)' = HeadAt(Prefix)
      BY <1>3, <1>4, <2>1
    <3>3. HeadAt(Prefix) \in Heads
      <4>1. Plus(lastAvailIdx, Prefix) \in Indices
        BY <1>2, <1>3 DEF Answers
      <4> QED
        BY <1>1, <4>1, SlotIn DEF TypeOK, HeadAt
    <3>4. pending' \in Requests /\ nextId' \in Nat
      BY <1>1, <1>3, <3>1, <3>3 DEF TypeOK, Requests
    <3> QED
      BY <1>1, <3>1, <3>2, <3>4 DEF PendingCurrent, PlaceCurrent, HostOpPending
  <2>2. CASE ~(Prefix < Waiting)
    <3>1. UNCHANGED << pending, nextId >>
      BY <1>1, <2>2 DEF Process
    <3> QED
      BY <1>1, <3>1 DEF PendingCurrent, PlaceCurrent, HostOpPending, TypeOK
  <2> QED
    BY <2>1, <2>2
<1>7. intStatus' \in {0, 1}
  BY <1>1 DEF Process, ConsumePrefix, TypeOK
<1>8. TypeOK'
  BY <1>1, <1>2, <1>3, <1>6, <1>7 DEF TypeOK
<1>9. Quiet'
  BY <1>1 DEF Quiet
<1> QED
  BY <1>3, <1>6, <1>8, <1>9 DEF IInv

LEMMA HostStartsKeeps == ASSUME IInv, HostStarts PROVE IInv'
BY DEF HostStarts, deviceVars, ringVars, driverVars, IInv, TypeOK, Requests, Quiet, InFlight,
   WindowCounts, WindowDistinct, WindowAnswered, Window, Answered, Waiting, ChainAt,
   PendingCurrent, PlaceCurrent, HostOpPending, HeadAt

(* complete_block_request() answers one chain.                             *)
LEMMA HostCompletesKeeps == ASSUME IInv, HostCompletes PROVE IInv'
<1>1. Num \in Nat \ {0} /\ Width \in Nat /\ Width > Num
  BY QueueAssumption
<1>2. /\ TypeOK /\ WindowCounts /\ WindowDistinct /\ WindowAnswered
      /\ ready /\ pending.usedIdx = usedIdx /\ Waiting > 0 /\ HeadAt(0) = pending.head
  BY DEF IInv, HostCompletes, PendingCurrent, PlaceCurrent, HostOpPending
<1>3. PICK result \in {"ok", "error"} : Completion(result)
  BY DEF HostCompletes
<1>4. /\ pending' = None
      /\ status' = [status EXCEPT ![pending.head] = result]
      /\ used' = [used EXCEPT ![SlotOf(usedIdx)] = pending.head]
      /\ usedIdx' = Plus(usedIdx, 1) /\ lastAvailIdx' = Plus(lastAvailIdx, 1)
      /\ intStatus' = 1 /\ hostOp' = 0
      /\ UNCHANGED << ready, nextId, avail, availIdx, kind, lastUsed, isr >>
  BY <1>2, <1>3 DEF Completion, HostCompletes, driverVars
<1>5. WindowHolds
  BY <1>2, WindowFacts
<1>6. /\ Answered \in Nat /\ Waiting \in Nat /\ Window = Answered + Waiting
      /\ Window \in 0 .. Num
  BY <1>5 DEF WindowHolds, Window
<1>7. /\ pending.head \in Heads /\ SlotOf(usedIdx) \in Heads
      /\ used' \in [Heads -> Heads]
      /\ status' \in [Heads -> {"none", "ok", "error"}]
  BY <1>2, <1>4, SlotIn DEF TypeOK, Requests
<1>8. Plus(usedIdx, 0) = usedIdx /\ usedIdx = Plus(lastUsed, Answered)
  BY <1>2, Steps DEF TypeOK, Answered
<1>9. ASSUME NEW i \in 0 .. Answered - 1
      PROVE  used'[SlotOf(Plus(lastUsed, i))] = used[SlotOf(Plus(lastUsed, i))]
  <2>1. i \in 0 .. Window - 1 /\ Answered \in 0 .. Window - 1 /\ i # Answered
    BY <1>2, <1>6
  <2>2. SlotOf(Plus(lastUsed, i)) # SlotOf(usedIdx)
    BY <1>5, <1>8, <2>1 DEF WindowHolds
  <2> QED
    BY <1>2, <1>4, <2>2 DEF TypeOK
<1>10. used'[SlotOf(Plus(usedIdx, 0))] = HeadAt(0) /\ status'[HeadAt(0)] # "none"
  BY <1>2, <1>4, <1>7, <1>8 DEF TypeOK
<1>11. \A h \in Heads : status[h] # "none" => status'[h] # "none"
  BY <1>2, <1>4, <1>7 DEF TypeOK
<1>12. Answers(1)
  <2>1. 1 \in 0 .. Waiting /\ \A i \in 0 .. 1 - 1 : i = 0
    BY <1>2, <1>6
  <2> QED
    BY <1>4, <1>9, <1>10, <1>11, <2>1 DEF Answers
<1>13. /\ WindowCounts' /\ WindowDistinct' /\ WindowAnswered'
       /\ lastAvailIdx' \in Indices /\ usedIdx' \in Indices
  BY <1>2, <1>4, <1>12, AnswersKeep
<1>14. TypeOK'
  <2>1. None \in Requests
    BY <1>1 DEF None, Requests, Heads, Indices
  <2> QED
    BY <1>2, <1>4, <1>7, <1>13, <2>1 DEF TypeOK
<1>15. PendingCurrent' /\ Quiet'
  BY <1>2, <1>4 DEF PendingCurrent, PlaceCurrent, HostOpPending, Quiet
<1> QED
  BY <1>13, <1>14, <1>15 DEF IInv

(* The driver takes the first answer: the window begins one later, and the *)
(* chain it frees was in no other place of it.                             *)
LEMMA TakeUsedKeeps == ASSUME IInv, TakeUsed PROVE IInv'
<1>1. Num \in Nat \ {0} /\ Width \in Nat /\ Width > Num
  BY QueueAssumption
<1>2. /\ TypeOK /\ ready /\ hostOp = 0
      /\ WindowCounts /\ WindowDistinct /\ WindowAnswered /\ PendingCurrent
  BY DEF IInv, TakeUsed, Quiet, GuestRuns
<1>3. WindowHolds
  BY <1>2, WindowFacts
<1>4. Answered > 0
  BY <1>2, <1>3, Steps DEF TypeOK, TakeUsed, Answered, WindowHolds
<1>5. /\ Answered \in Nat \ {0} /\ Waiting \in Nat /\ Window = Answered + Waiting
      /\ Window \in 0 .. Num /\ IsFiniteSet(InFlight) /\ Cardinality(InFlight) = Window
  BY <1>3, <1>4 DEF WindowHolds, Window
<1> DEFINE h == ChainAt(0)
<1>6. h \in InFlight /\ used[SlotOf(lastUsed)] = h
  <2>1. 0 \in 0 .. Answered - 1 /\ 0 \in 0 .. Window - 1
    BY <1>5
  <2> QED
    BY <1>2, <2>1, Steps DEF TypeOK, WindowAnswered, WindowDistinct
<1> HIDE DEF h
<1>7. /\ kind' = [kind EXCEPT ![h] = "free"]
      /\ lastUsed' = Plus(lastUsed, 1)
      /\ UNCHANGED << ready, lastAvailIdx, pending, intStatus, nextId, avail, availIdx,
                      used, usedIdx, status, isr, hostOp >>
  BY <1>6 DEF TakeUsed, deviceVars, ringVars
<1>8. h \in Heads /\ InFlight' = InFlight \ {h}
  BY <1>2, <1>6, <1>7 DEF TypeOK, InFlight
<1>9. Cardinality(InFlight') = Window - 1
  BY <1>5, <1>6, <1>8, FS_RemoveElement
<1>10. Plus(lastUsed, 1) \in Indices
  BY <1>1, <1>2, StepsAdd DEF TypeOK
<1>11. Answered' = Answered - 1 /\ Waiting' = Waiting
  BY <1>2, <1>5, <1>7, GapMoves DEF TypeOK, Answered, Waiting
<1>12. Window' = Window - 1
  BY <1>5, <1>11 DEF Window
<1>13. ASSUME NEW i \in 0 .. Window - 2
       PROVE  /\ Plus(lastUsed', i) = Plus(lastUsed, i + 1)
              /\ ChainAt(i)' = ChainAt(i + 1)
              /\ i + 1 \in 0 .. Window - 1
              /\ ChainAt(i + 1) # h
  <2>1. i \in Nat /\ i + 1 \in 0 .. Window - 1 /\ 1 + i < Width /\ 0 \in 0 .. Window - 1
        /\ i + 1 # 0
    BY <1>1, <1>5
  <2>2. Plus(lastUsed', i) = Plus(lastUsed, i + 1)
    BY <1>2, <1>7, <2>1, StepsAdd DEF TypeOK
  <2>3. ChainAt(i + 1) # h
    BY <1>2, <2>1 DEF WindowDistinct, h
  <2> QED
    BY <1>7, <2>1, <2>2, <2>3 DEF ChainAt
<1>14. TypeOK'
  BY <1>2, <1>7, <1>10 DEF TypeOK
<1>15. WindowCounts'
  BY <1>2, <1>7, <1>9, <1>12 DEF WindowCounts
<1>16. WindowDistinct'
  <2>1. ASSUME NEW i \in 0 .. Window' - 1
        PROVE  /\ ChainAt(i)' \in InFlight'
               /\ \A j \in 0 .. Window' - 1 : ChainAt(i)' = ChainAt(j)' => i = j
    <3>1. i \in 0 .. Window - 2 /\ \A j \in 0 .. Window' - 1 : j \in 0 .. Window - 2
      BY <1>5, <1>12
    <3>2. ChainAt(i)' \in InFlight'
      BY <1>2, <1>8, <1>13, <3>1 DEF WindowDistinct
    <3>3. ASSUME NEW j \in 0 .. Window' - 1, ChainAt(i)' = ChainAt(j)'
          PROVE  i = j
      <4>1. j \in 0 .. Window - 2
        BY <3>1
      <4>2. ChainAt(i + 1) = ChainAt(j + 1)
        BY <1>13, <3>1, <3>3, <4>1
      <4>3. i + 1 = j + 1
        BY <1>2, <1>13, <3>1, <4>1, <4>2 DEF WindowDistinct
      <4> QED
        BY <3>1, <4>1, <4>3
    <3> QED
      BY <3>2, <3>3
  <2> QED
    BY <2>1 DEF WindowDistinct
<1>17. WindowAnswered'
  <2>1. ASSUME NEW i \in 0 .. Answered' - 1
        PROVE  /\ used'[SlotOf(Plus(lastUsed', i))] = ChainAt(i)'
               /\ kind'[ChainAt(i)'] # "blind" => status'[ChainAt(i)'] # "none"
    <3>1. i \in 0 .. Window - 2 /\ i + 1 \in 0 .. Answered - 1
      BY <1>5, <1>11
    <3>2. ChainAt(i + 1) \in Heads
      BY <1>2, <1>13, <3>1 DEF WindowDistinct, InFlight
    <3> QED
      BY <1>2, <1>7, <1>13, <3>1, <3>2 DEF WindowAnswered, TypeOK
  <2> QED
    BY <2>1 DEF WindowAnswered
<1>18. Quiet'
  BY <1>2, <1>7 DEF Quiet
<1>19. PendingCurrent'
  BY <1>2, <1>7, <1>11 DEF PendingCurrent, PlaceCurrent, HostOpPending, HeadAt
<1> QED
  BY <1>14, <1>15, <1>16, <1>17, <1>18, <1>19 DEF IInv
(* The other steps of the handler move no index and no chain.              *)
LEMMA AckKeeps == ASSUME IInv, Ack \/ HandlerReturns PROVE IInv'
<1>1. /\ TypeOK' /\ ready
      /\ UNCHANGED << ready, lastAvailIdx, pending, ringVars, kind, lastUsed, hostOp >>
  BY DEF IInv, TypeOK, Quiet, Ack, HandlerReturns, deviceVars, ringVars
<1> QED
  BY <1>1 DEF IInv, Quiet, ringVars, InFlight, WindowCounts, WindowDistinct,
     WindowAnswered, Window, Answered, Waiting, ChainAt, PendingCurrent, PlaceCurrent,
     HostOpPending, HeadAt

LEMMA NextKeeps == ASSUME IInv, [Next]_vars PROVE IInv'
<1>1. CASE Setup
  BY <1>1, SetupKeeps
<1>2. CASE Reset
  BY <1>2, ResetKeeps
<1>3. CASE \E h \in Heads, k \in Kinds : Post(h, k)
  BY <1>3, PostKeeps
<1>4. CASE Notify \/ Poll
  BY <1>4, ProcessKeeps DEF Notify, Poll
<1>5. CASE HostStarts
  BY <1>5, HostStartsKeeps
<1>6. CASE HostCompletes
  BY <1>6, HostCompletesKeeps
<1>7. CASE Handler
  BY <1>7, AckKeeps, TakeUsedKeeps DEF Handler
<1>8. CASE UNCHANGED vars
  BY <1>8 DEF vars, deviceVars, ringVars, driverVars, IInv, TypeOK, Quiet, InFlight,
     WindowCounts, WindowDistinct, WindowAnswered, Window, Answered, Waiting, ChainAt,
     PendingCurrent, PlaceCurrent, HostOpPending, HeadAt
<1> QED
  BY <1>1, <1>2, <1>3, <1>4, <1>5, <1>6, <1>7, <1>8 DEF Next

LEMMA SpecKeeps == Spec => []IInv
<1>1. Init => IInv
  BY InitHolds
<1>2. IInv /\ [Next]_vars => IInv'
  BY NextKeeps
<1> QED
  BY <1>1, <1>2, PTL DEF Spec

-----------------------------------------------------------------------------
(* Ring indices stay in range and every ring entry is a descriptor of the  *)
(* queue, in the device (Queue of virtio.rs) and in the driver.       *)
THEOREM BlkTypeOK == Spec => []TypeOK
<1>1. IInv => TypeOK
  BY DEF IInv
<1> QED
  BY <1>1, SpecKeeps, PTL

(* For every queue size, the block device answers each request once, in    *)
(* the order of the avail ring and with a status, across any number of     *)
(* wraps of the indices (process() and complete_block_request()).          *)
THEOREM BlkAnsweredInOrder == Spec => []AnsweredInOrder
<1>1. IInv => AnsweredInOrder
  <2>1. SUFFICES ASSUME IInv, ready
                 PROVE  InOrder /\ StatusWritten
    BY DEF AnsweredInOrder, InOrder, StatusWritten
  <2>2. TypeOK /\ WindowCounts /\ WindowDistinct /\ WindowAnswered
    BY <2>1 DEF IInv
  <2>3. /\ Answered \in Nat /\ Waiting \in Nat /\ Window = Answered + Waiting
        /\ lastAvailIdx = usedIdx /\ Cardinality(InFlight) = Window
    BY <2>1, <2>2, WindowFacts DEF WindowHolds, Window
  <2>4. ASSUME NEW i \in 0 .. Answered - 1
        PROVE  /\ used[SlotOf(Plus(lastUsed, i))] = ChainAt(i)
               /\ kind[ChainAt(i)] # "free"
               /\ kind[ChainAt(i)] # "blind" => status[ChainAt(i)] # "none"
    <3>1. i \in 0 .. Window - 1
      BY <2>3
    <3> QED
      BY <2>1, <2>2, <3>1 DEF WindowDistinct, WindowAnswered, InFlight
  <2>5. InOrder
    BY <2>3, <2>4 DEF InOrder, Answered, ChainAt, InFlight
  <2>6. StatusWritten
    BY <2>4 DEF StatusWritten, Answered
  <2> QED
    BY <2>5, <2>6
<1> QED
  BY <1>1, SpecKeeps, PTL

(* The used index recorded in ExternalBlock.pending when process() stopped *)
(* is the one complete_block_request() must write to, whatever requests    *)
(* the guest added and answers it took meanwhile, and no reset can take    *)
(* the request from a running host operation.                              *)
THEOREM BlkPendingCurrent == Spec => []PendingCurrent
<1>1. IInv => PendingCurrent
  BY DEF IInv
<1> QED
  BY <1>1, SpecKeeps, PTL
=============================================================================
