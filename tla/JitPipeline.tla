---------------------------- MODULE JitPipeline -----------------------------
(***************************************************************************)
(* Asynchronous compilation: the path of a module from the Rust dispatcher *)
(* (submit_pending_jit, crates/rv64-wasm/src/lib.rs) through the compile   *)
(* queue and the code store of RV64Debug (web/rv64.js) back to             *)
(* sys_jit_ready, which adopts its table slots, with guest slices, reboots *)
(* and destroyJit() in between.                                            *)
(*                                                                         *)
(* A guest slice is a span of several steps: compilations settle only      *)
(* after it, and so do the promise jobs that complete them.  Which of the  *)
(* slots it is given the dispatcher keeps, and which it retires later, is  *)
(* its choice here (see JitOwnership).                                     *)
(***************************************************************************)
EXTENDS JitCodeStore

CONSTANTS
  Compilers,     \* #maxAsyncJitCompilers
  MaxPending,    \* MAX_PENDING_JIT
  MaxTicket      \* bound on NEXT_JIT_TICKET

ASSUME PipelineAssumption ==
  /\ Compilers \in Nat \ {0}
  /\ MaxPending \in Nat \ {0}
  /\ MaxTicket \in Nat

VARIABLES
  inSlice,      \* virt_run is on the stack
  ticket,       \* the last ticket handed out
  pendingJit,   \* PENDING_JIT: tickets the dispatcher waits for
  liveSlots,    \* JIT_LIVE_SLOTS: slots the dispatcher has adopted
  tasks,        \* #completeAsyncJit tasks: [ticket, slotCount, reservation,
                \*   stage, result]
  compileQueue  \* #jitCompileQueue, tickets in order

rustVars == << inSlice, ticket, pendingJit, liveSlots >>
vars == << store, rustVars, tasks, compileQueue >>

None == [id |-> 0]

In(stage) == {k \in tasks : k.stage = stage}

(* The tasks once the first n jobs of the queue have been taken: they are  *)
(* compiled, or resolve with -1 when the store is destroyed.               *)
Taken(ks, queue, n, destroyed) ==
  {IF \E i \in 1 .. n : queue[i] = k.ticket
     THEN IF destroyed THEN [k EXCEPT !.stage = "settled", !.result = "failed"]
                       ELSE [k EXCEPT !.stage = "compiling"]
     ELSE k : k \in ks}

Busy(ks) == Cardinality({k \in ks : k.stage = "compiling"})

(* #pumpAsyncJit.                                                          *)
pumpAsyncJit(ks, queue, destroyed) ==
  LET n == IF destroyed THEN Len(queue) ELSE Min({Compilers - Busy(ks), Len(queue)})
  IN  /\ tasks' = Taken(ks, queue, n, destroyed)
      /\ compileQueue' = SubSeq(queue, n + 1, Len(queue))

PipelineInit ==
  /\ store = NewStore
  /\ inSlice = FALSE
  /\ ticket = 0
  /\ pendingJit = {}
  /\ liveSlots = {}
  /\ tasks = {}
  /\ compileQueue = << >>

-----------------------------------------------------------------------------
(* virt_run() begins ...                                                   *)
SliceBegins ==
  /\ ~inSlice
  /\ ~store.destroyed
  /\ inSlice' = TRUE
  /\ UNCHANGED << store, ticket, pendingJit, liveSlots, tasks, compileQueue >>

(* ... compiles something: submit_pending_jit and host_jit_register_async. *)
(* Capacity refuses the reservation, or the table does not grow, or the    *)
(* job joins the queue.                                                    *)
NewTask(n, reservation, stage, result) ==
  [ ticket |-> ticket + 1, slotCount |-> n, reservation |-> reservation,
    stage |-> stage, result |-> result ]

Submit(n, bytes) ==
  /\ inSlice
  /\ Cardinality(pendingJit) < MaxPending
  /\ ticket < MaxTicket
  /\ ticket' = ticket + 1
  /\ pendingJit' = pendingJit \cup {ticket + 1}
  /\ \/ /\ canRegister(store, n, bytes)
        /\ store' = reserve(store, n, bytes)
        /\ pumpAsyncJit(tasks \cup {NewTask(n, NextReservation(store, n, bytes),
                                            "queued", "none")},
                        Append(compileQueue, ticket + 1), store.destroyed)
     \/ /\ ~canRegister(store, n, bytes)
        /\ tasks' = tasks \cup {NewTask(n, None, "settled", "capacity")}
        /\ UNCHANGED << store, compileQueue >>
     \/ /\ canRegister(store, n, bytes) /\ MustGrow(store, n)
        /\ tasks' = tasks \cup {NewTask(n, None, "settled", "failed")}
        /\ UNCHANGED << store, compileQueue >>
  /\ UNCHANGED << inSlice, liveSlots >>

(* Mutant: host_jit_retire clears the slot in the Wasm import.             *)
RetireTableSlotNow(slots) ==
  /\ liveSlots' = liveSlots \ slots
  /\ store' = flushRetired(retire(store, slots))

(* ... drops compiled code: retire_table_slot and host_jit_retire.         *)
RetireTableSlot(slots) ==
  /\ liveSlots' = liveSlots \ slots
  /\ store' = retire(store, slots)

SliceRetires ==
  /\ inSlice
  /\ \E x \in liveSlots : RetireTableSlot({x})
  /\ UNCHANGED << inSlice, ticket, pendingJit, tasks, compileQueue >>

(* ... and returns, or throws: #callWasm flushes the retired slots.        *)
SliceEnds ==
  /\ inSlice
  /\ inSlice' = FALSE
  /\ store' = flushRetired(store)
  /\ UNCHANGED << ticket, pendingJit, liveSlots, tasks, compileQueue >>

-----------------------------------------------------------------------------
(* Mutant: the slot of a failed compilation is not given to the next job.  *)
CompileSettlesNoPump ==
  /\ ~inSlice
  /\ \E k \in In("compiling"), result \in {"module", "failed"} :
       tasks' = (tasks \ {k}) \cup
                  {[k EXCEPT !.stage = "settled", !.result = result]}
  /\ UNCHANGED << store, rustVars, compileQueue >>

(* A compilation ends; the next job starts.  When the compiler has been    *)
(* destroyed #pumpAsyncJit (rv64.js:541) fails all that is queued in one   *)
(* go; here the jobs fail one by one, with the same outcome.               *)
CompileSettles ==
  /\ ~inSlice
  /\ \E k \in In("compiling"), result \in {"module", "failed"} :
       /\ store.destroyed => result = "failed"
       /\ pumpAsyncJit((tasks \ {k}) \cup
                         {[k EXCEPT !.stage = "settled", !.result = result]},
                       compileQueue, store.destroyed)
  /\ UNCHANGED << store, rustVars >>

(* The result of #completeAsyncJit's try block: the store after it and the *)
(* slots that were installed, none when it did not get a module.           *)
Installed(k, outcome) ==
  IF k.result = "module" /\ Registers(store, k.reservation, outcome)
    THEN RunSlots(k.reservation.base, k.slotCount) ELSE {}

AfterInstall(k, outcome) ==
  IF k.result = "module" THEN registerReserved(store, k.reservation, outcome) ELSE store

(* sys_jit_ready(): an unknown ticket (the machine was rebooted) adopts    *)
(* and retires the slots at once; a known one keeps what its landing uses  *)
(* and retires the rest, and whatever it replaces; a capacity failure      *)
(* evicts one owner.                                                       *)
Keeps(k, slots) == IF k.ticket \in pendingJit THEN SUBSET slots ELSE {{}}

Dropped(k) == IF k.ticket \in pendingJit THEN SUBSET liveSlots ELSE {{}}

(* Mutant: exports of a module that no entry uses stay in the table.       *)
ReadyLeaksRest(k, slots, s) ==
  \E keep \in Keeps(k, slots), drop \in Dropped(k) :
    /\ liveSlots' = (liveSlots \ drop) \cup keep
    /\ store' = releaseReservation(flushRetired(retire(s, drop)), k.reservation)

Ready(k, slots, s) ==
  \E keep \in Keeps(k, slots), drop \in Dropped(k) :
    /\ liveSlots' = (liveSlots \ drop) \cup keep
    /\ store' = releaseReservation(
                  flushRetired(retire(s, drop \cup (slots \ keep))), k.reservation)

(* #completeAsyncJit(): installation, handoff and cleanup are one promise  *)
(* job.  On a destroyed VM the owner reference is gone: nothing is done.   *)
Complete(k) ==
  /\ ~inSlice
  /\ k \in In("settled")
  /\ ~store.destroyed
  /\ \E outcome \in Outcomes :
       Ready(k, Installed(k, outcome), AfterInstall(k, outcome))
  /\ pendingJit' = pendingJit \ {k.ticket}
  /\ tasks' = tasks \ {k}
  /\ UNCHANGED << inSlice, ticket, compileQueue >>

CompleteDestroyed(k) ==
  /\ ~inSlice
  /\ k \in In("settled")
  /\ store.destroyed
  /\ tasks' = tasks \ {k}
  /\ UNCHANGED << store, rustVars, compileQueue >>

-----------------------------------------------------------------------------
(* Mutant: the dispatcher keeps its slots.                                 *)
BootKeepsSlots ==
  /\ ~inSlice
  /\ ~store.destroyed
  /\ store.generation < MaxClears
  /\ pendingJit' = {}
  /\ store' = [store EXCEPT !.generation = @ + 1]
  /\ UNCHANGED << inSlice, ticket, liveSlots, tasks, compileQueue >>

(* bootVirtLinux(): the store's generation moves, reset_full_system_jit    *)
(* forgets the tickets and retires every slot, the store flushes.          *)
Boot ==
  /\ ~inSlice
  /\ ~store.destroyed
  /\ store.generation < MaxClears
  /\ pendingJit' = {}
  /\ liveSlots' = {}
  /\ store' = flushRetired(retire([store EXCEPT !.generation = @ + 1], liveSlots))
  /\ UNCHANGED << inSlice, ticket, tasks, compileQueue >>

(* destroyJit().                                                           *)
DestroyJit ==
  /\ ~inSlice
  /\ ~store.destroyed
  /\ store' = destroy(store)
  /\ pumpAsyncJit(tasks, compileQueue, TRUE)
  /\ UNCHANGED rustVars

-----------------------------------------------------------------------------
PipelineNext ==
  \/ SliceBegins \/ SliceRetires \/ SliceEnds
  \/ \E n \in SlotCounts, bytes \in ByteLengths : Submit(n, bytes)
  \/ CompileSettles
  \/ \E k \in tasks : Complete(k) \/ CompleteDestroyed(k)
  \/ Boot \/ DestroyJit

(* A slice ends (its instruction budget), compilations settle and promise  *)
(* jobs run: the loop yields to the event loop between slices (hostYield), *)
(* so one that waits gets its turn although slices go on.                  *)
ReturnsToJS == inSlice /\ inSlice' = FALSE

JobRuns(t) ==
  /\ ~inSlice
  /\ \E k \in In("settled") : k.ticket = t /\ tasks' = tasks \ {k}

PipelineSpec ==
  /\ PipelineInit /\ [][PipelineNext]_vars
  /\ WF_inSlice(ReturnsToJS)
  /\ SF_vars(CompileSettles)
  /\ \A t \in 1 .. MaxTicket : SF_tasks(JobRuns(t))

-----------------------------------------------------------------------------
(* The dispatcher and the store agree on every slot: one that holds a      *)
(* function is adopted by the dispatcher or queued to be cleared, so that  *)
(* nothing leaks, and one the dispatcher may call holds a function.        *)
SlotsAgree ==
  ~store.destroyed =>
    /\ Owned = liveSlots \cup store.retirements
    /\ liveSlots \cap store.retirements = {}

(* A reservation belongs to a task that still runs, and a task that waits  *)
(* for its compilation still has its reservation: none outlives its task.  *)
ReservationsOwned ==
  /\ store.reservations \subseteq {k.reservation : k \in tasks}
  /\ ~store.destroyed => \A k \in tasks :
       k.reservation # None => k.reservation \in store.reservations

(* What the dispatcher, the tasks and the store know of a slot agrees.     *)
OwnersAgree == SlotsAgree /\ ReservationsOwned

(* Between slices, the functions in the table belong to the machine that   *)
(* is booted: a compilation that outlives its machine is never installed.  *)
OnlyCurrentMachine == ~inSlice => NoStaleModule

(* While guest code runs, no table slot changes under it.                  *)
RunningCodeStable == [][inSlice /\ inSlice' => store'.table = store.table]_vars

(* Every ticket of the dispatcher is answered or forgotten by a reboot:    *)
(* lost answers would use up MAX_PENDING_JIT and end all compilation.      *)
TicketsAnswered ==
  \A t \in 1 .. MaxTicket :
    t \in pendingJit ~> (t \notin pendingJit \/ store.destroyed)

(* Every task ends, and with it its hold on table slots and memory.        *)
TasksEnd == \A t \in 1 .. MaxTicket :
  (\E k \in tasks : k.ticket = t) ~> ~\E k \in tasks : k.ticket = t

(* Compilations end: no ticket stays pending and no task stays behind.     *)
CompilesEnd == TicketsAnswered /\ TasksEnd
=============================================================================
