----------------------------- MODULE GuestClock -----------------------------
(***************************************************************************)
(* The time a guest sees: the CLINT's mtime, the time CSR (rdtime) and the *)
(* supervisor timer interrupt, as VirtMachine keeps them                   *)
(* (crates/rv64-system/src/virt.rs) between samples of the host's clock.   *)
(*                                                                         *)
(* Between two calls of sync_devices() rdtime is interpolated from the     *)
(* retired instructions; every call anchors it anew.  An embedding either  *)
(* samples a host clock with every slice (the browser, virt_run) or never  *)
(* (time then is instructions plus the WFI time skipped).                  *)
(***************************************************************************)
EXTENDS Integers

CONSTANTS
  InsnsPerTick,   \* insns_per_tick
  Budget,         \* max_insns of a slice
  Never,          \* mtimecmp with no timer set (u64::MAX)
  Deadlines,      \* arguments of SBI set_timer
  MaxElapsed,     \* bound: ticks of host time between two samples
  MaxInsns,       \* bound: retired instructions
  MaxWall         \* bound: host ticks

ASSUME ClockAssumption ==
  /\ InsnsPerTick \in Nat \ {0}
  /\ Budget \in Nat
  /\ Never \in Nat
  /\ Deadlines \subseteq 0 .. Never - 1
  /\ MaxElapsed \in Nat /\ MaxInsns \in Nat /\ MaxWall \in Nat

VARIABLES
  inSlice,      \* the guest runs
  remaining,    \* instructions left of the slice's budget
  insns,        \* cpu.insn_count
  idle,         \* idle_ticks
  realtime,     \* the embedding samples a host clock
  wall,         \* realtime_ticks, -1 for None
  mtime,        \* bus.mtime
  scale,        \* sys.time_scale
  offset,       \* sys.time_offset
  mtimecmp,     \* bus.mtimecmp
  stip          \* STIP of sys.mip

vars == << inSlice, remaining, insns, idle, realtime, wall, mtime, scale, offset,
           mtimecmp, stip >>

Greater(a, b) == IF a >= b THEN a ELSE b

(* The time CSR.  sys.mtime is the bus.mtime of the last sync_devices().   *)
Rdtime == IF scale = 0 THEN mtime ELSE insns \div scale + offset

Init ==
  /\ inSlice = FALSE /\ remaining = 0
  /\ insns = 0 /\ idle = 0
  /\ realtime \in BOOLEAN /\ wall = -1
  /\ mtime = 0 /\ scale = 0 /\ offset = 0
  /\ mtimecmp = Never /\ stip = FALSE

-----------------------------------------------------------------------------
(* Mutant: anchored at the host's sample alone.                            *)
SyncedTimeForgetsVisible(w, skipped) ==
  IF w = -1 THEN insns \div InsnsPerTick + skipped ELSE Greater(mtime, w)

(* The mtime sync_devices() arrives at, from the host ticks w (-1 without) *)
(* and the skipped idle ticks.                                             *)
SyncedTime(w, skipped) ==
  IF w = -1 THEN insns \div InsnsPerTick + skipped
            ELSE Greater(Greater(mtime, w), Rdtime)

(* Mutant: interpolation goes on from a time the host has not reached.     *)
InterpolatesAhead(w, now) == now >= insns \div InsnsPerTick

(* rdtime is interpolated from now on unless it is ahead of the host, or   *)
(* behind what the instructions alone would give.                          *)
Interpolates(w, now) ==
  /\ w = -1 \/ now <= w
  /\ now >= insns \div InsnsPerTick

(* sync_devices() with these host and idle ticks.                          *)
SyncDevices(w, skipped) ==
  LET now == SyncedTime(w, skipped) IN
  /\ wall' = w
  /\ idle' = skipped
  /\ mtime' = now
  /\ stip' = (now >= mtimecmp)
  /\ IF Interpolates(w, now)
       THEN scale' = InsnsPerTick /\ offset' = now - insns \div InsnsPerTick
       ELSE scale' = 0 /\ offset' = 0

(* virt_run(): the host's clock is sampled, the slice begins with a sync.  *)
(* Without a host clock the slice begins with the sync.                    *)
BeginSlice(elapsed) ==
  /\ ~inSlice
  /\ realtime \/ elapsed = 0
  /\ Greater(wall, 0) + elapsed <= MaxWall
  /\ inSlice' = TRUE
  /\ remaining' = Budget
  /\ SyncDevices(IF realtime THEN Greater(wall, 0) + elapsed ELSE -1, idle)
  /\ UNCHANGED << insns, realtime, mtimecmp >>

(* The guest retires instructions.  The last unit of compiled code in a    *)
(* slice may retire a little more than what is left of it (FuelBounded of  *)
(* JitTranslator); that is not counted here.                               *)
Retire(n) ==
  /\ inSlice
  /\ n <= remaining /\ insns + n <= MaxInsns
  /\ insns' = insns + n
  /\ remaining' = remaining - n
  /\ UNCHANGED << inSlice, idle, realtime, wall, mtime, scale, offset, mtimecmp, stip >>

(* The end of an interpreter chunk, or of a JIT dispatch quantum.          *)
SyncMidSlice ==
  /\ inSlice
  /\ SyncDevices(wall, idle)
  /\ UNCHANGED << inSlice, remaining, insns, realtime, mtimecmp >>

(* Mutant: the previous event's interrupt stays asserted.                  *)
SetTimerKeepsStip(deadline) ==
  /\ inSlice
  /\ mtimecmp' = deadline
  /\ stip' = (stip \/ mtime >= deadline)
  /\ UNCHANGED << inSlice, remaining, insns, idle, realtime, wall, mtime, scale, offset >>

(* service_sbi(), TIME set_timer: replaces the event and its interrupt.    *)
SetTimer(deadline) ==
  /\ inSlice
  /\ mtimecmp' = deadline
  /\ stip' = (mtime >= deadline)
  /\ UNCHANGED << inSlice, remaining, insns, idle, realtime, wall, mtime, scale, offset >>

(* Mutant: WFI skips nothing.                                              *)
SkippedNothing == idle

(* WFI ends the slice.  Without a host clock the time to the next timer    *)
(* deadline is skipped.                                                    *)
Skipped ==
  IF wall = -1 /\ mtimecmp # Never /\ mtimecmp > mtime
    THEN idle + (mtimecmp - mtime) ELSE idle

Wfi ==
  /\ inSlice
  /\ inSlice' = FALSE
  /\ SyncDevices(wall, Skipped)
  /\ UNCHANGED << remaining, insns, realtime, mtimecmp >>

(* The budget is used up, or the slice ends early (compiled code, a disk   *)
(* request).                                                               *)
EndSlice ==
  /\ inSlice
  /\ inSlice' = FALSE
  /\ SyncDevices(wall, idle)
  /\ UNCHANGED << remaining, insns, realtime, mtimecmp >>

(* complete_block_request() between two slices.                            *)
CompleteBlockRequest ==
  /\ ~inSlice
  /\ SyncDevices(wall, idle)
  /\ UNCHANGED << inSlice, remaining, insns, realtime, mtimecmp >>

Next ==
  \/ \E elapsed \in 0 .. MaxElapsed : BeginSlice(elapsed)
  \/ \E n \in 1 .. Budget : Retire(n)
  \/ SyncMidSlice
  \/ \E deadline \in Deadlines \cup {Never} : SetTimer(deadline)
  \/ Wfi \/ EndSlice
  \/ CompleteBlockRequest

ClockSpec == Init /\ [][Next]_vars

(* Slices follow each other and end, the host's clock goes on, and a guest *)
(* that waits for its timer does so with WFI.                              *)
FairClockSpec ==
  /\ ClockSpec
  /\ SF_vars(\E elapsed \in 0 .. MaxElapsed : (realtime => elapsed > 0) /\ BeginSlice(elapsed))
  /\ WF_vars(Wfi \/ EndSlice)
  /\ SF_vars(Wfi)

-----------------------------------------------------------------------------
(* Type invariant.                                                         *)
TypeOK ==
  /\ inSlice \in BOOLEAN /\ realtime \in BOOLEAN /\ stip \in BOOLEAN
  /\ remaining \in 0 .. Budget
  /\ insns \in Nat /\ idle \in Nat /\ mtime \in Nat /\ offset \in Nat
  /\ wall \in Nat \cup {-1}
  /\ scale \in {0, InsnsPerTick}
  /\ mtimecmp \in Deadlines \cup {Never}

(* sync_devices() never moves the guest's clock backward, whatever the     *)
(* host's clock says and however far the interpolation ran ahead of it.    *)
RdtimeMonotonic == [][Rdtime' >= Rdtime]_vars

(* The CLINT's clock is never ahead of the time CSR.                       *)
ClintBehindRdtime == mtime <= Rdtime

(* What the interpolation runs ahead of the host's clock is at most one    *)
(* slice's worth: a lead is not carried into every slice.                  *)
LeadBounded ==
  wall # -1 => Rdtime <= wall + Budget \div InsnsPerTick + 1

(* No timer interrupt before the guest could read the deadline from its    *)
(* clock, in particular not the interrupt of a replaced event.             *)
NoEarlyTimer == stip => Rdtime >= mtimecmp

(* A timer that is set fires, unless it is replaced.                       *)
TimerFires ==
  \A deadline \in Deadlines : mtimecmp = deadline ~> (stip \/ mtimecmp # deadline)
=============================================================================
