-------------------------- MODULE GuestClockProofs ---------------------------
(***************************************************************************)
(* The guest's clock for every tick length, slice budget and host clock:   *)
(* rdtime never moves backward, runs at most one slice ahead of the host   *)
(* and no timer interrupt comes early.                                     *)
(***************************************************************************)
EXTENDS GuestClock, TLAPS

(* Instructions retired before the current slice began.                    *)
SliceStart == insns - (Budget - remaining)

(* Without a host clock rdtime is at most what the next sync arrives at.   *)
BehindInstructions == wall = -1 => Rdtime <= insns \div InsnsPerTick + idle

(* A host clock is sampled from the first slice on.                        *)
SampledFromBoot ==
  /\ ~realtime => wall = -1
  /\ realtime /\ wall = -1 => ~inSlice /\ Rdtime = 0 /\ insns = 0 /\ idle = 0

(* An interpolation was anchored at a host time not ahead of the host, at  *)
(* the start of this slice or later; a frozen clock leads by one slice.    *)
AnchoredAtHost ==
  wall # -1 =>
    /\ SliceStart \in Nat
    /\ scale # 0 => offset + SliceStart \div InsnsPerTick <= wall
    /\ scale = 0 => mtime <= wall + Budget \div InsnsPerTick + 1

IInv ==
  /\ TypeOK
  /\ ClintBehindRdtime
  /\ BehindInstructions
  /\ SampledFromBoot
  /\ AnchoredAtHost
  /\ NoEarlyTimer

-----------------------------------------------------------------------------
(* Division by the tick length is a monotone function to Nat.              *)
LEMMA Ticks ==
  ASSUME NEW a \in Nat, NEW b \in Nat
  PROVE  /\ a \div InsnsPerTick \in Nat
         /\ a <= b => a \div InsnsPerTick <= b \div InsnsPerTick
         /\ (a + b) \div InsnsPerTick <= a \div InsnsPerTick + b \div InsnsPerTick + 1
  <1>1. InsnsPerTick \in Nat \ {0}  BY ClockAssumption
  <1>2. a \div InsnsPerTick \in Nat  BY <1>1, Z3
  <1>3. a <= b => a \div InsnsPerTick <= b \div InsnsPerTick  BY <1>1, Z3
  <1>4. (a + b) \div InsnsPerTick <= a \div InsnsPerTick + b \div InsnsPerTick + 1
    BY <1>1, Z3
  <1> QED  BY <1>2, <1>3, <1>4

(* The time CSR is a natural number.                                       *)
LEMMA RdtimeNat == TypeOK => Rdtime \in Nat
  <1> SUFFICES ASSUME TypeOK PROVE Rdtime \in Nat  OBVIOUS
  <1>1. insns \div InsnsPerTick \in Nat  BY Ticks DEF TypeOK
  <1> QED  BY <1>1 DEF TypeOK, Rdtime

(* The bound of LeadBounded follows from the inductive invariant.          *)
LEMMA LeadFollows == TypeOK /\ AnchoredAtHost => LeadBounded
  <1> SUFFICES ASSUME TypeOK, AnchoredAtHost, wall # -1
               PROVE  Rdtime <= wall + Budget \div InsnsPerTick + 1
    BY DEF LeadBounded
  <1> DEFINE spent == Budget - remaining
  <1>1. /\ spent \in Nat /\ Budget \in Nat /\ spent <= Budget
        /\ SliceStart \in Nat /\ insns = SliceStart + spent
    BY ClockAssumption DEF TypeOK, AnchoredAtHost, SliceStart
  <1>2. insns \div InsnsPerTick
          <= SliceStart \div InsnsPerTick + spent \div InsnsPerTick + 1
    BY <1>1, Ticks
  <1>3. spent \div InsnsPerTick <= Budget \div InsnsPerTick
    BY <1>1, Ticks
  <1>4. /\ insns \div InsnsPerTick \in Nat /\ SliceStart \div InsnsPerTick \in Nat
        /\ spent \div InsnsPerTick \in Nat /\ Budget \div InsnsPerTick \in Nat
    BY <1>1, Ticks DEF TypeOK
  <1>5. CASE scale = 0
    BY <1>5 DEF AnchoredAtHost, Rdtime
  <1>6. CASE scale # 0
    <2>1. Rdtime = insns \div InsnsPerTick + offset
      BY <1>6 DEF TypeOK, Rdtime
    <2>2. offset + SliceStart \div InsnsPerTick <= wall
      BY <1>6 DEF AnchoredAtHost
    <2>3. offset \in Nat /\ wall \in Int  BY DEF TypeOK
    <2> HIDE DEF spent
    <2> QED  BY <2>1, <2>2, <2>3, <1>2, <1>3, <1>4
  <1> QED  BY <1>5, <1>6

-----------------------------------------------------------------------------
(* Arguments that sync_devices() is called with: host ticks w that do not  *)
(* go back, and idle ticks.                                                *)
SyncArguments(w, skipped) ==
  /\ w \in Nat \cup {-1} /\ skipped \in Nat
  /\ w = -1 => wall = -1 /\ skipped >= idle
  /\ w # -1 => w >= wall /\ realtime

(* What it does to the clock: the new time is that of rdtime, at least the *)
(* old one, and the anchor is right for the new host ticks.                *)
SyncResult(w, skipped) ==
  /\ mtime' \in Nat /\ offset' \in Nat /\ scale' \in {0, InsnsPerTick}
  /\ wall' = w /\ idle' = skipped /\ stip' \in BOOLEAN
  /\ Rdtime' = mtime' /\ Rdtime' >= Rdtime
  /\ w = -1 => Rdtime' = insns \div InsnsPerTick + skipped
  /\ stip' => Rdtime' >= mtimecmp'
  /\ w # -1 /\ scale' # 0 => offset' + insns \div InsnsPerTick <= w
  /\ w # -1 /\ scale' = 0 => mtime' <= w + Budget \div InsnsPerTick + 1

(* sync_devices() anchors the clock.                                       *)
LEMMA SyncAnchors ==
  ASSUME IInv, NEW w, NEW skipped, SyncArguments(w, skipped),
         SyncDevices(w, skipped), UNCHANGED << insns, mtimecmp >>
  PROVE  SyncResult(w, skipped)
  <1> USE DEF SyncArguments
  <1> DEFINE ticks == insns \div InsnsPerTick
             now == SyncedTime(w, skipped)
             lead == Budget \div InsnsPerTick
  <1>1. /\ ticks \in Nat /\ Rdtime \in Nat /\ mtime \in Nat /\ idle \in Nat
        /\ insns \in Nat /\ lead \in Nat /\ wall \in Nat \cup {-1}
        /\ mtimecmp \in Nat
    BY RdtimeNat, Ticks, ClockAssumption DEF IInv, TypeOK
  <1>2. /\ now \in Nat /\ now >= Rdtime
        /\ w = -1 => now = ticks + skipped
    <2>1. CASE w = -1
      <3>1. now = ticks + skipped  BY <2>1 DEF SyncedTime
      <3>2. Rdtime <= ticks + idle
        BY <2>1 DEF IInv, BehindInstructions
      <3> HIDE DEF now, ticks
      <3> QED  BY <3>1, <3>2, <2>1, <1>1
    <2>2. CASE w # -1
      <3>1. now = Greater(Greater(mtime, w), Rdtime)  BY <2>2 DEF SyncedTime
      <3> HIDE DEF now, ticks
      <3> QED  BY <3>1, <2>2, <1>1 DEF Greater
    <2> QED  BY <2>1, <2>2
  <1>3. w # -1 => now <= w + lead + 1
    <2>1. SUFFICES ASSUME w # -1 PROVE now <= w + lead + 1  OBVIOUS
    <2>2. now = Greater(Greater(mtime, w), Rdtime)  BY <2>1 DEF SyncedTime
    <2>3. mtime <= Rdtime  BY DEF IInv, ClintBehindRdtime
    <2>4. Rdtime <= w + lead + 1
      <3>1. CASE wall = -1
        <4>1. Rdtime = 0  BY <3>1, <2>1 DEF IInv, SampledFromBoot
        <4> HIDE DEF lead
        <4> QED  BY <4>1, <1>1, <2>1
      <3>2. CASE wall # -1
        <4>1. Rdtime <= wall + lead + 1
          BY <3>2, LeadFollows DEF IInv, LeadBounded
        <4>2. w >= wall  BY <2>1
        <4> HIDE DEF lead
        <4> QED  BY <4>1, <4>2, <1>1, <3>2
      <3> QED  BY <3>1, <3>2
    <2> HIDE DEF now, lead
    <2> QED  BY <2>1, <2>2, <2>3, <2>4, <1>1 DEF Greater
  <1>4. /\ wall' = w /\ idle' = skipped /\ mtime' = now /\ stip' = (now >= mtimecmp)
    BY DEF SyncDevices
  <1>5. mtimecmp' = mtimecmp /\ insns' = insns  OBVIOUS
  <1>6. InsnsPerTick \in Nat \ {0}  BY ClockAssumption
  <1>9. stip' \in BOOLEAN /\ (stip' => now >= mtimecmp)
    <2>1. CASE now >= mtimecmp
      <3>1. stip' = TRUE  BY <2>1, <1>4
      <3> QED  BY <2>1, <3>1
    <2>2. CASE ~(now >= mtimecmp)
      <3> DEFINE reached == now >= mtimecmp
      <3>1. reached = FALSE  BY <2>2
      <3>2. stip' = reached  BY <1>4
      <3> HIDE DEF reached
      <3> QED  BY <3>1, <3>2
    <2> QED  BY <2>1, <2>2
  <1>7. CASE Interpolates(w, now)
    <2>1. scale' = InsnsPerTick /\ offset' = now - ticks
      BY <1>7 DEF SyncDevices
    <2>2. now >= ticks /\ (w = -1 \/ now <= w)  BY <1>7 DEF Interpolates
    <2>3. Rdtime' = ticks + offset'
      BY <2>1, <1>5, <1>6 DEF Rdtime
    <2> HIDE DEF now, ticks, lead
    <2>4. Rdtime' = now  BY <2>1, <2>3, <1>1, <1>2
    <2>5. mtime' \in Nat /\ offset' \in Nat /\ Rdtime' = mtime' /\ Rdtime' >= Rdtime
      BY <2>1, <2>2, <2>4, <1>1, <1>2, <1>4
    <2>6. w # -1 => offset' + ticks <= w
      BY <2>1, <2>2, <1>1, <1>2
    <2>7. scale' \in {0, InsnsPerTick} /\ scale' # 0  BY <2>1, <1>6
    <2>8. stip' \in BOOLEAN /\ (stip' => Rdtime' >= mtimecmp')
      BY <1>9, <2>4, <1>5
    <2>9. w = -1 => Rdtime' = ticks + skipped  BY <2>4, <1>2
    <2> QED  BY <2>5, <2>6, <2>7, <2>8, <2>9, <1>4 DEF ticks, SyncResult
  <1>8. CASE ~Interpolates(w, now)
    <2>1. scale' = 0 /\ offset' = 0  BY <1>8 DEF SyncDevices
    <2>2. Rdtime' = now  BY <2>1, <1>4 DEF Rdtime
    <2> HIDE DEF now, ticks, lead
    <2>3. stip' \in BOOLEAN /\ (stip' => Rdtime' >= mtimecmp')
      BY <1>9, <2>2, <1>5
    <2>4. w = -1 => Rdtime' = ticks + skipped  BY <2>2, <1>2
    <2>5. w # -1 => mtime' <= w + lead + 1  BY <1>3, <1>4
    <2>6. Rdtime' = mtime' /\ Rdtime' >= Rdtime /\ mtime' \in Nat
      BY <2>2, <1>2, <1>4
    <2> QED  BY <2>1, <2>3, <2>4, <2>5, <2>6, <1>4 DEF ticks, lead, SyncResult
  <1> QED  BY <1>7, <1>8

-----------------------------------------------------------------------------
(* The initial states satisfy the invariant.                               *)
LEMMA InitIInv == Init => IInv
  <1> SUFFICES ASSUME Init PROVE IInv  OBVIOUS
  <1>1. 0 \div InsnsPerTick \in Nat  BY Ticks
  <1>2. Rdtime = 0  BY DEF Init, Rdtime
  <1>3. TypeOK
    <2>1. inSlice \in BOOLEAN /\ realtime \in BOOLEAN /\ stip \in BOOLEAN  BY DEF Init
    <2>2. /\ remaining \in 0 .. Budget /\ wall \in Nat \cup {-1}
          /\ insns \in Nat /\ idle \in Nat /\ mtime \in Nat /\ offset \in Nat
      BY ClockAssumption DEF Init
    <2>3. scale \in {0, InsnsPerTick} /\ mtimecmp \in Deadlines \cup {Never}
      BY DEF Init
    <2> QED  BY <2>1, <2>2, <2>3 DEF TypeOK
  <1>4. ClintBehindRdtime /\ BehindInstructions
    BY <1>1, <1>2 DEF Init, ClintBehindRdtime, BehindInstructions
  <1>5. SampledFromBoot /\ AnchoredAtHost /\ NoEarlyTimer
    BY <1>2 DEF Init, SampledFromBoot, AnchoredAtHost, NoEarlyTimer
  <1> QED  BY <1>3, <1>4, <1>5 DEF IInv

(* The slice that a synchronising step leaves behind began at an           *)
(* instruction count that was reached.                                     *)
SliceKept(w, skipped) ==
  /\ UNCHANGED << insns, mtimecmp, realtime >>
  /\ inSlice' \in BOOLEAN /\ remaining' \in 0 .. Budget
  /\ w # -1 => insns - (Budget - remaining') \in Nat
  /\ realtime /\ w = -1 => ~inSlice' /\ insns = 0 /\ skipped = 0

(* A smaller summand, a smaller sum.                                       *)
LEMMA SumBelow ==
  ASSUME NEW a \in Nat, NEW b \in Nat, NEW c \in Nat, NEW w \in Int, a <= b, c + b <= w
  PROVE  c + a <= w
  OBVIOUS

(* What is left of a budget is at most the budget.                         *)
LEMMA StartBelow ==
  ASSUME NEW i \in Nat, NEW b \in Nat, NEW r \in Int, r <= b
  PROVE  i - (b - r) <= i
  OBVIOUS

(* A step that synchronises the devices preserves the invariant.           *)
LEMMA SyncKeepsIInv ==
  ASSUME IInv, NEW w, NEW skipped, SyncArguments(w, skipped),
         SyncDevices(w, skipped), SliceKept(w, skipped)
  PROVE  IInv' /\ Rdtime' >= Rdtime
  <1>1. SyncResult(w, skipped)  BY SyncAnchors DEF SliceKept
  <1>2. /\ insns \in Nat /\ Budget \in Nat /\ insns \div InsnsPerTick \in Nat
        /\ InsnsPerTick \in Nat \ {0}
    BY ClockAssumption, Ticks DEF IInv, TypeOK
  <1>3. TypeOK'
    BY <1>1, <1>2 DEF IInv, TypeOK, SyncResult, SyncArguments, SliceKept
  <1>4. ClintBehindRdtime'
    BY <1>1 DEF SyncResult, ClintBehindRdtime
  <1>5. BehindInstructions'
    <2>1. wall' = -1 => Rdtime' = insns' \div InsnsPerTick + idle'
      BY <1>1 DEF SyncResult, SliceKept
    <2>2. Rdtime' \in Nat  BY <1>1 DEF SyncResult
    <2> QED  BY <2>1, <2>2 DEF BehindInstructions
  <1>6. SampledFromBoot'
    <2>1. ~realtime' => wall' = -1  BY <1>1 DEF SyncResult, SyncArguments, SliceKept
    <2>2. ASSUME realtime', wall' = -1
          PROVE  ~inSlice' /\ Rdtime' = 0 /\ insns' = 0 /\ idle' = 0
      <3>1. realtime /\ w = -1  BY <2>2, <1>1 DEF SyncResult, SliceKept
      <3>2. ~inSlice' /\ insns = 0 /\ skipped = 0  BY <3>1 DEF SliceKept
      <3>3. Rdtime' = 0 \div InsnsPerTick + 0  BY <3>1, <3>2, <1>1 DEF SyncResult
      <3>4. 0 \div InsnsPerTick = 0  BY <1>2, Z3
      <3> QED  BY <3>2, <3>3, <3>4, <1>1 DEF SyncResult, SliceKept
    <2> QED  BY <2>1, <2>2 DEF SampledFromBoot
  <1>7. AnchoredAtHost'
    <2>1. SUFFICES ASSUME wall' # -1
                   PROVE  /\ SliceStart' \in Nat
                          /\ scale' # 0 => offset' + SliceStart' \div InsnsPerTick <= wall'
                          /\ scale' = 0 => mtime' <= wall' + Budget \div InsnsPerTick + 1
      BY DEF AnchoredAtHost
    <2>2. w # -1 /\ wall' = w /\ offset' \in Nat /\ w \in Int
      BY <2>1, <1>1 DEF SyncResult, SyncArguments
    <2>3. SliceStart' \in Nat /\ SliceStart' <= insns
      <3>1. SliceStart' = insns - (Budget - remaining')  BY DEF SliceStart, SliceKept
      <3>2. remaining' \in Int /\ remaining' <= Budget  BY <1>2 DEF SliceKept
      <3>3. insns - (Budget - remaining') \in Nat  BY <2>2 DEF SliceKept
      <3>4. insns - (Budget - remaining') <= insns  BY <3>2, <1>2, StartBelow
      <3> QED  BY <3>1, <3>3, <3>4
    <2>4. /\ SliceStart' \div InsnsPerTick <= insns \div InsnsPerTick
          /\ SliceStart' \div InsnsPerTick \in Nat
      BY <2>3, <1>2, Ticks
    <2>5. scale' # 0 => offset' + insns \div InsnsPerTick <= w
      BY <1>1, <2>2 DEF SyncResult
    <2>6. ASSUME scale' # 0 PROVE offset' + SliceStart' \div InsnsPerTick <= w
      <3> DEFINE a == SliceStart' \div InsnsPerTick
                 b == insns \div InsnsPerTick
      <3>1. a <= b /\ a \in Nat /\ b \in Nat  BY <2>4, <1>2
      <3>2. offset' + b <= w  BY <2>5, <2>6
      <3> HIDE DEF a, b
      <3>3. offset' + a <= w  BY <3>1, <3>2, <2>2, SumBelow
      <3> QED  BY <3>3 DEF a
    <2>7. scale' = 0 => mtime' <= w + Budget \div InsnsPerTick + 1
      BY <1>1, <2>2 DEF SyncResult
    <2> QED  BY <2>2, <2>3, <2>6, <2>7
  <1>8. NoEarlyTimer'
    BY <1>1 DEF SyncResult, NoEarlyTimer
  <1>9. Rdtime' >= Rdtime  BY <1>1 DEF SyncResult
  <1> QED  BY <1>3, <1>4, <1>5, <1>6, <1>7, <1>8, <1>9 DEF IInv

(* Every step preserves the invariant and moves rdtime, if at all, on.     *)
LEMMA NextIInv == IInv /\ [Next]_vars => IInv' /\ Rdtime' >= Rdtime
  <1> SUFFICES ASSUME IInv, [Next]_vars PROVE IInv' /\ Rdtime' >= Rdtime  OBVIOUS
  <1>0. /\ InsnsPerTick \in Nat \ {0} /\ Budget \in Nat /\ MaxElapsed \in Nat
        /\ Rdtime \in Nat /\ TypeOK
    BY ClockAssumption, RdtimeNat DEF IInv
  <1>1. ASSUME NEW elapsed \in 0 .. MaxElapsed, BeginSlice(elapsed)
        PROVE  IInv' /\ Rdtime' >= Rdtime
    <2> DEFINE w == IF realtime THEN Greater(wall, 0) + elapsed ELSE -1
    <2>1. SyncArguments(w, idle) /\ (realtime => w # -1)
      BY <1>0 DEF IInv, TypeOK, SampledFromBoot, Greater, SyncArguments
    <2>2. /\ SyncDevices(w, idle) /\ UNCHANGED << insns, mtimecmp, realtime >>
          /\ inSlice' \in BOOLEAN /\ remaining' \in 0 .. Budget
          /\ insns - (Budget - remaining') \in Nat
      BY <1>0, <1>1 DEF BeginSlice, TypeOK
    <2> HIDE DEF w
    <2> QED  BY <2>1, <2>2, SyncKeepsIInv DEF SliceKept
  <1>2. ASSUME NEW n \in 1 .. Budget, Retire(n)
        PROVE  IInv' /\ Rdtime' >= Rdtime
    <2>1. /\ insns' = insns + n /\ remaining' = remaining - n /\ n <= remaining
          /\ UNCHANGED << inSlice, idle, realtime, wall, mtime, scale, offset,
                          mtimecmp, stip >>
      BY <1>2 DEF Retire
    <2>2. inSlice  BY <1>2 DEF Retire
    <2>3. /\ insns \in Nat /\ insns' \in Nat /\ insns <= insns' /\ n \in Nat
          /\ remaining \in Nat
      BY <2>1, <1>0 DEF TypeOK
    <2>4. /\ insns \div InsnsPerTick <= insns' \div InsnsPerTick
          /\ insns \div InsnsPerTick \in Nat /\ insns' \div InsnsPerTick \in Nat
      BY <2>3, Ticks
    <2>5. /\ Rdtime' \in Nat /\ Rdtime' >= Rdtime
          /\ Rdtime' - Rdtime <= insns' \div InsnsPerTick - insns \div InsnsPerTick
      BY <2>1, <2>4, <1>0 DEF Rdtime, TypeOK
    <2>6. TypeOK'  BY <2>1, <2>3, <1>0 DEF TypeOK
    <2>7. SliceStart' = SliceStart  BY <2>1, <2>3, <1>0 DEF SliceStart
    <2>8. AnchoredAtHost'  BY <2>1, <2>7 DEF IInv, AnchoredAtHost
    <2>9. BehindInstructions' /\ ClintBehindRdtime' /\ NoEarlyTimer'
      <3>1. Rdtime <= insns \div InsnsPerTick + idle
              => Rdtime' <= insns' \div InsnsPerTick + idle
        BY <2>4, <2>5, <1>0 DEF TypeOK
      <3>2. BehindInstructions'  BY <3>1, <2>1 DEF IInv, BehindInstructions
      <3>3. mtimecmp \in Nat  BY <1>0, ClockAssumption DEF TypeOK
      <3>4. ClintBehindRdtime'
        BY <2>1, <2>5, <1>0 DEF IInv, ClintBehindRdtime, TypeOK
      <3>5. NoEarlyTimer'
        BY <2>1, <2>5, <3>3, <1>0 DEF IInv, NoEarlyTimer
      <3> QED  BY <3>2, <3>4, <3>5
    <2>10. SampledFromBoot'  BY <2>1, <2>2 DEF IInv, SampledFromBoot
    <2> QED  BY <2>5, <2>6, <2>8, <2>9, <2>10 DEF IInv
  <1>3. CASE SyncMidSlice \/ EndSlice \/ CompleteBlockRequest
    <2>1. /\ SyncDevices(wall, idle) /\ UNCHANGED << insns, mtimecmp, realtime, remaining >>
          /\ inSlice' \in BOOLEAN /\ (inSlice' => inSlice)
      <3>1. CASE SyncMidSlice  BY <3>1, <1>0 DEF SyncMidSlice, TypeOK
      <3>2. CASE EndSlice  BY <3>2 DEF EndSlice
      <3>3. CASE CompleteBlockRequest  BY <3>3, <1>0 DEF CompleteBlockRequest, TypeOK
      <3> QED  BY <1>3, <3>1, <3>2, <3>3
    <2>2. SyncArguments(wall, idle)
      BY <1>0 DEF IInv, SampledFromBoot, TypeOK, SyncArguments
    <2>3. /\ remaining' \in 0 .. Budget
          /\ wall # -1 => insns - (Budget - remaining') \in Nat
          /\ realtime /\ wall = -1 => ~inSlice' /\ insns = 0 /\ idle = 0
      BY <2>1, <1>0 DEF IInv, SampledFromBoot, TypeOK, AnchoredAtHost, SliceStart
    <2> QED  BY <2>1, <2>2, <2>3, SyncKeepsIInv DEF SliceKept
  <1>4. CASE Wfi
    <2>1. /\ SyncDevices(wall, Skipped) /\ UNCHANGED << insns, mtimecmp, realtime, remaining >>
          /\ inSlice' = FALSE /\ inSlice
      BY <1>4 DEF Wfi
    <2>2. Skipped \in Nat /\ Skipped >= idle
      BY <1>0, ClockAssumption DEF Skipped, TypeOK
    <2>3. SyncArguments(wall, Skipped)
      BY <1>0, <2>2 DEF IInv, SampledFromBoot, TypeOK, SyncArguments
    <2>4. /\ remaining' \in 0 .. Budget
          /\ wall # -1 => insns - (Budget - remaining') \in Nat
          /\ ~(realtime /\ wall = -1)
      BY <2>1, <1>0 DEF IInv, SampledFromBoot, TypeOK, AnchoredAtHost, SliceStart
    <2> QED  BY <2>1, <2>3, <2>4, SyncKeepsIInv DEF SliceKept
  <1>5. ASSUME NEW deadline \in Deadlines \cup {Never}, SetTimer(deadline)
        PROVE  IInv' /\ Rdtime' >= Rdtime
    <2>1. /\ mtimecmp' = deadline /\ stip' = (mtime >= deadline) /\ inSlice
          /\ UNCHANGED << inSlice, remaining, insns, idle, realtime, wall, mtime,
                          scale, offset >>
      BY <1>5 DEF SetTimer
    <2>2. Rdtime' = Rdtime  BY <2>1 DEF Rdtime
    <2>3. TypeOK'  BY <2>1, <1>0 DEF TypeOK
    <2>4. deadline \in Nat /\ mtime \in Nat /\ mtime <= Rdtime
      BY <1>0, ClockAssumption DEF IInv, TypeOK, ClintBehindRdtime
    <2>5. NoEarlyTimer'
      <3>1. stip' => mtime >= deadline
        <4>1. CASE mtime >= deadline  BY <4>1
        <4>2. CASE ~(mtime >= deadline)
          <5> DEFINE reached == mtime >= deadline
          <5>1. reached = FALSE  BY <4>2
          <5>2. stip' = reached  BY <2>1
          <5> HIDE DEF reached
          <5> QED  BY <5>1, <5>2
        <4> QED  BY <4>1, <4>2
      <3>2. mtime >= deadline => Rdtime >= deadline  BY <2>4, <1>0
      <3> QED  BY <2>1, <2>2, <3>1, <3>2 DEF NoEarlyTimer
    <2>6. /\ ClintBehindRdtime' /\ BehindInstructions' /\ SampledFromBoot'
          /\ AnchoredAtHost'
      BY <2>1, <2>2 DEF IInv, ClintBehindRdtime, BehindInstructions, SampledFromBoot,
                        AnchoredAtHost, SliceStart
    <2> QED  BY <2>2, <2>3, <2>5, <2>6, <1>0 DEF IInv
  <1>6. CASE UNCHANGED vars
    <2>1. Rdtime' = Rdtime /\ SliceStart' = SliceStart  BY <1>6 DEF vars, Rdtime, SliceStart
    <2> QED
      BY <1>6, <2>1, <1>0
      DEF vars, IInv, TypeOK, ClintBehindRdtime, BehindInstructions, SampledFromBoot,
          AnchoredAtHost, NoEarlyTimer
  <1> QED  BY <1>1, <1>2, <1>3, <1>4, <1>5, <1>6 DEF Next

-----------------------------------------------------------------------------
(* sync_devices() keeps the clock's state well formed: in particular the   *)
(* offset of the interpolation never underflows.                           *)
THEOREM ClockTypeOK == ClockSpec => []TypeOK
  <1>1. IInv => TypeOK  BY DEF IInv
  <1> QED  BY <1>1, InitIInv, NextIInv, PTL DEF ClockSpec

(* The guest's clock never moves backward.                                 *)
THEOREM ClockMonotonic == ClockSpec => RdtimeMonotonic
  <1>1. IInv /\ [Next]_vars => [Rdtime' >= Rdtime]_vars  BY NextIInv
  <1> QED  BY <1>1, InitIInv, NextIInv, PTL DEF ClockSpec, RdtimeMonotonic

(* Its lead over the host's clock is at most one slice's worth.            *)
THEOREM ClockLeadBounded == ClockSpec => []LeadBounded
  <1>1. IInv => LeadBounded  BY LeadFollows DEF IInv
  <1> QED  BY <1>1, InitIInv, NextIInv, PTL DEF ClockSpec

(* The supervisor timer interrupt is never early, and the CLINT's clock    *)
(* never ahead of the time CSR.                                            *)
THEOREM ClockTimerOnTime == ClockSpec => [](NoEarlyTimer /\ ClintBehindRdtime)
  <1>1. IInv => NoEarlyTimer /\ ClintBehindRdtime  BY DEF IInv
  <1> QED  BY <1>1, InitIInv, NextIInv, PTL DEF ClockSpec
=============================================================================
