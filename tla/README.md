# Verification of lish

lish boots Linux in a browser page: a RISC-V (RV64) machine written in Rust and
compiled to WebAssembly, a JavaScript runtime around it, and a macOS
application that serves the page, the disk image and the network.  This
directory holds TLA+ models of the parts where ordering, failure and
concurrency make the program hard to test, the TLC runs that check them, and
TLAPS proofs of their main invariants.  Every definition is translated from the
code; `PROJECT.json` ("map") gives the lines behind each.

## 1. Inventory

How the parts fit together: the **page session** runs the **worker proxy**, which
runs class **RV64** in a Worker. RV64 alternates guest *slices* (`virt_run`, Rust)
with yields to the event loop. A slice executes the **CPU core** directly or
through **JIT** modules, and drives the devices of **VirtMachine** (CLINT, PLIC,
UART, RTC, virtio). A block request leaves Rust as a pending request, is
performed by the **native disk client** over HTTP against the **disk HTTP
service** and the **disk store**, and comes back through `virt_disk_complete`.
Frames leave through a WebSocket to the **raw Ethernet server**, which feeds a
**slirp** instance. JIT modules are emitted in Rust, compiled asynchronously by
JavaScript, and come back through `sys_jit_ready`.

| Component | State | Operations | What is hard | What makes it correct |
|---|---|---|---|---|
| VM runtime, `web/rv64.js` class RV64 | `#running`, `#generation`, `#destroyed`, `#diskOperation` | start, stop, reset, destroy, `#tick`, `#serviceDisk`, relay failure | calls overlap at every `await`; ticks of several generations share one field | one disk operation at a time, results reach their request, calls settle, destroy is final |
| Native disk client, `web/native-disk.js` | promise chain `#tail`, clean line cache | read, write, flush, destroy | a PUT whose outcome is unknown; eviction at the limit | a cached line equals the file; one operation at a time |
| Disk HTTP service, `LishDisk/DiskHTTPServer.swift` | sessions, one request each | receive, dispatch, respond, stop | stop with requests in flight; framing of partial reads | every request received is answered |
| Disk store, `LishDisk/DiskStore.swift` | serial queue, file | read, write, flush, close | short writes, failing fsync, crash | acknowledged data is there; flushed data survives |
| JIT code store, `web/rv64.js` JitCodeStore | slot runs, reservations, owners, byte counts | reserve, register, retire, flushRetired, clear, destroy | fragmentation, limits, a generation change under a reservation | a slot has one owner; counters are true sums |
| JIT pipeline, `web/rv64.js` RV64Debug and `rv64-wasm` | tickets, compile queue, live slots | submit, pump, complete, retire, boot, destroyJit | compilation outlives the machine; slots must not change under running code | slots and dispatcher agree; every ticket is answered |
| JIT ownership, `rv64-wasm/src/lib.rs` JitState | cache entries, slots and owners, page modules, claims, staged and pending compiles, dispatch lines; marks and generations of pages | compile, stage, submit, land, evict, drain, look up, extend a region, reset | compiles land late; stores into compiled pages; two address spaces; entries that share a slot | no slot leaked or shared, no stale code dispatched, no claim left behind |
| JIT translator, `rv64-jit` | none (a function from code to Wasm) | translate trace, loop, superblock, bulk copy | registers kept in locals, side exits, followed calls, fuel | agrees with the interpreter wherever it is left |
| virtio block, `rv64-system/src/virtio.rs` | queue indices, pending request, interrupt status | notify, poll, service, complete, reset | index wrap, reset with a request pending | requests answered once, in order, with an interrupt |
| virtio net and relay socket | frame queues | net_input, service, open, close | limits of 256 frames, reconnection | order kept; drops only where bounded |
| Guest clock, `virt.rs`, `cpu.rs` | mtime, scale and offset of rdtime, mtimecmp, idle ticks | sync_devices, set_timer, WFI skip | host samples that lag behind interpolated time | monotonic, bounded lead, timer neither early nor lost |
| PLIC and UART, `virt.rs` | pending, claimed, enable, priority, threshold; rx, thre, IER | claim, complete, register writes, sample | lines are sampled every 32 instructions | input and completions are delivered |
| RTC, SBI, device tree | registers | register reads and writes, ecalls | alarm at a boundary | – |
| Decoded page cache, `virt.rs` | slots of decoded blocks, generations | fill, run, reset | guest stores to decoded code | never runs stale code after FENCE.I |
| CPU core, `rv64-core` | registers, CSRs, privilege, reservation, two TLBs | step, take_trap, translate | trap nesting, delegation, stale translations, interrupts polled | translations permitted, interrupts prompt, returns restore |
| Soft float, `softfp.rs` | none | add, mul, fma, div, sqrt, conversions, order | rounding at boundaries, flags, shortcuts by host arithmetic | IEEE 754 |
| Slirp host, `lish_slirp.c`, `SlirpNetwork.swift` | two bounded queues, one command slot, wake pipe, handle and its users | poll loop, input, receive, add/remove forward, stats, stop | two condition variables, callbacks outside the lock, lifetime | frames ordered and not lost, callers answered, no use after free |
| Raw Ethernet server | listener, one session | accept, promote, receive, drain, stop | a new session replaces the old | one live session; frames in order |
| Delayed connect proxy | connections, pumps | accept, connect, pump, close | half-closed pumps | each connection ends once |
| Session controller, asset server | services | start, quiesce, stop | `await` re-entrancy | services stop in order; the disk is flushed |
| Page session, worker proxy | request ids, output queue | boot, input, resize, stop | messages after stop | requests answered once |
| User interface, site, telemetry, tools | – | – | – | presentation |

`PROJECT.json` lists the components with their sources and status, and the
hazards at their lines.

## 2. Modules

| Module | Models | State and actions |
|---|---|---|
| `Rv64Runtime` | class RV64, `serviceNativeDiskRequest`, the client's queue as the runtime sees it, `virt_run`/`virt_disk_complete` | one variable per field; `call` holds where every outstanding API call is. A macrotask (tick, settled operation, socket failure) is an action; the rest of a call after its `await` is a `Resume…` action that precedes the next macrotask |
| `Rv64RuntimeProofs` | – | inductive invariants and theorems, for the embedder that awaits its calls and for any |
| `BlockDevice` | abstract specification of a disk with uncertain writes and crashes | `known`, `safe` |
| `NativeDisk` | NativeDiskClient, DiskHTTPSession, DiskStore | the client's queue and cache, requests and replies on the wire, the storage queue, the file, and the medium (what a crash may leave); the cache is a function of the cached lines beside the order they were used in; refines `BlockDevice` (`Disk == INSTANCE BlockDevice WITH …`) |
| `NativeDiskProofs` | – | inductive invariant of cache, wire and file; the refinement, step by step |
| `JitCodeStore` | JitCodeStore | the store is a record, each method an operator from store to store; what a flush or destroy releases is a set of runs, as the order leaves no trace (`ReleaseRuns`) |
| `JitPipeline` | RV64Debug's compile queue and completion, Rust's tickets and live slots | EXTENDS `JitCodeStore`: composes both sides, with slices as spans of several steps |
| `JitPipelineProofs` | – | each method of the store, the free list and the sums; invariant and theorems of the pipeline |
| `JitOwnership` | JitState and the JIT half of `run_full_system_jit` and `complete_jit`, JitPageState | `jit` is a record with the fields of JitState, each method an operator from state to state; one action per kind of compile, for landing, the dispatcher's lookup, a guest write, the drain of dirty pages, a change of address space, an extension, a reset; the loops over pcs, slots, owners, members and staged traces are folds |
| `JitOwnershipProofs` | – | each operation on a sound JitState; the inductive invariant, a lemma per action, and the four theorems |
| `GuestCode` | the guest instructions the translator tells apart | a window of code, `Step` interprets one instruction |
| `JitTrace` | `scan_regs`, trace following, TraceFacts, bails, the FP gate | a translated unit is an operator from machine to machine plus the count it retires |
| `JitRegion` | loop regions, superblocks of a page, copy loops | as above |
| `JitTranslator` | the choice of a unit, calls and chains | the machine run by any mix of units and interpreted instructions, with a grant of fuel of which a chain has used some, beside a machine that interprets |
| `SoftFloat` | softfp.rs | one operator per function, for any width |
| `Ieee754` | – | reference definition of IEEE 754 arithmetic on exact integers |
| `JitFloat`, `FloatUnit` | `fp_fast32/64`, the `fp_*` emitters; registers, boxes and conversions between the formats | operators; the host's arithmetic is `Ieee754` rounding to nearest |
| `IntegerUnit` | `execute_decoded` and `emit_simple` on integers and atomics | an operator per emitter and per interpreter case |
| `Arithmetic` | – | the properties of these operators, on all pairs of operands |
| `Hart` | take_trap, check_interrupts, translate, the TLBs, privileged instructions, CSR writes, CodePageCache | one action per instruction kind, the poll, a round of compiled code and the look after it, an interrupt line, an SBI call, a timer sample |
| `HartProofs` | – | inductive invariants of TLBs, decoded pages, interrupts and trap frames |
| `VirtioBlk` | ExternalBlock backend, the queue in guest memory, VirtMachine's poll and completion | device, rings, a Linux-like driver (external), the host operation |
| `VirtioBlkProofs` | – | inductive invariant of the window of requests in flight |
| `GuestClock` | sync_devices, rdtime, set_timer, WFI, slices | one action per operation; the embedding samples a host clock always or never |
| `GuestClockProofs` | – | inductive invariant and theorems of the clock |
| `InterruptPath` | PLIC, UART, check_interrupts | controller and devices as records; trap handler and drivers (external) |
| `SlirpHost` | lish_slirp.c, SlirpNetwork, the session of RawEthernetWebSocketServer | threads interleave at every lock; a thread on a condition is `asleep` until signalled |
| `SlirpHostProofs` | – | inductive invariants of frames and callers |
| `MC…` | – | values of constants for the runs; `MCTranslation` puts `Arithmetic` and `JitTranslator` into one run: a behaviour walks operands or runs a window |

Definitions whose comment begins with "Mutant" are deliberate faults: the run
that checks a property fails when the definition after it is replaced by the
mutant, which shows that the property depends on that code.

Interactions between the modules: `Rv64Runtime` sees the disk client only as a
FIFO of operations that settle with success or failure, which is what
`NativeDisk` shows of `#tail`. `VirtioBlk` sees the runtime only as a host that
starts and completes the pending operation while the guest does not run, which
is what `Rv64Runtime` shows for an embedder that awaits its calls.
`JitPipeline` uses the operators of `JitCodeStore` directly and leaves to Rust
which live slots it retires; `JitOwnership` makes that choice as the code does,
with a host that answers tickets in any order. `JitTranslator` assumes that the
compiled unit belongs to the code at the pc, which is `DispatchSafe` and
`CodeCurrent` of `JitOwnership`, and that a fused memory access either goes where
the interpreter's would or bails, which is `TranslationsPermitted` and
`StoresSeeCode` of `Hart`. What an instruction computes is abstract in
`GuestCode` and checked in `Arithmetic`.

`register()` and `clear()` of class JitCodeStore are called only by tests
(RV64Debug reserves and boots), so they are left out; `JitPipeline` reaches the
same code through `registerReserved()` and `Boot`.

## 3. Runs

| Run | Shows | Bounds |
|---|---|---|
| `runtime_awaited` | an embedder that awaits every call, and stops after an error, has one disk operation at a time (`OneDiskOp`), gets every result to its own request without a refusal (`ResultsDelivered`), finds nothing alive after destroy (`DestroyedQuiet`); requests end (`RequestsEnd`) | one outstanding call, 9 generations, 4 requests: several restarts with an operation in each |
| `runtime_any` | for any overlap of calls: the youngest operation stays in `#diskOperation`, waiters wait for live operations, one loop is live (`CallsTracked`); calls settle (`CallsResolve`) | two calls outstanding, 6 generations, 2 requests |
| `disk` | the disk path implements `BlockDevice` (`ImplementsDisk`); the cache agrees with the file and keeps its limit (`CacheClean`) | 3 blocks in lines of 2 (one short line), one line cached (every miss evicts), 2 values, operations of up to 2 blocks (spanning lines), 3 fetches, 1 operation queued behind the running one |
| `pipeline` | slots are free, reserved or owned, once, and counters are true (`StoreSound`); dispatcher, tasks and store agree on every slot (`OwnersAgree`); no module of an earlier machine (`OnlyCurrentMachine`); the table does not change under running code (`RunningCodeStable`); tickets are answered and tasks end (`CompilesEnd`) | 3 tickets, 4 slots and growth by 3 (cut at the limit), modules of 1–2 slots and bytes against 3 bytes, one compiler, 2 pending, one reboot, destroyJit at any time |
| `ownership` | slots, owners, entries and indexes agree (`OwnershipSound`); no stale code is dispatched (`CodeCurrent`); a line leads to the cached code on mapped pages (`DispatchSafe`); claims and coverage end with their compile (`ClaimsSettle`) | 3 pcs on 2 pages, 2 address spaces that swap them, 3 slots, 2 pending; 7 scopes, each a set of translators, pcs and 2–3 compiles with 0–2 guest writes: each pair of translators that meet on a page is in one |
| `translation` | softfp is IEEE 754 (`FloatsExact`); the shortcuts give softfp's results and flags (`ShortcutsAgree`); compiled integer code gives the interpreter's (`IntegersAgree`); compiled units leave the machine where interpreting would (`CompiledFaithful`), and in time (`FuelBounded`) | *operands*: singles of 8 bits (2 of mantissa, 5 of exponent: seven exponents at the boundaries), doubles of 14, registers of 8: every pair, all 5 modes, an fma with a third operand of one sign or the other for each pair; the factors of an fma at both ends of its band and around 1. *Units*: 13 windows of 3 to 12 instructions, one for each shape the translator treats specially (followed call with a frame, inline cache, FP gate, nested loop, FP loop, several latches, rotated loop, three copies) and one for each it gets wrong, under their configurations, from any entry; grants of 2, 5 and 24, and of 5 of which a chain used 4; refused addresses; 16 addresses in pages of 4 |
| `copy_temps` | a **violation**: the tail of a copy loop does not reproduce every temporary (`TailReproducesTemps`), see 6 | a copy of 5 cells that counts them in a register of its own, with fuel for all of it |
| `hart` | `TranslationsPermitted`, `StoresSeeCode`, `DecodedFresh`, `InterruptsPrompt`, `ReturnsRestore` | 2 pages on one TLB line, mapped one by one or by one superpage; 6 guests (kernel, firmware, compiled code, interrupts, patching, direct boot), each the operations that bear on some of the properties; 2 writes to page tables and to code; polls every 0 to 2 instructions, with rounds of compiled code in between for two of the guests |
| `virtio_blk` | answers once, in order, with a status (`AnsweredInOrder`); the recorded place stays right (`PendingCurrent`); requests return (`RequestsReturn`) | queue of 2, indices modulo 4 (wrap occurs), 6 request ids |
| `guest_clock` | rdtime never moves back (`RdtimeMonotonic`), its lead is bounded (`LeadBounded`), the timer is not early (`NoEarlyTimer`) and fires (`TimerFires`) | 2 instructions per tick, slices of 5, 12 instructions, 6 host ticks, deadlines 1, 3, 5 |
| `interrupts` | console input and completions are handled and transmission cannot stall (`InterruptsServed`) | 2 bytes each way, 2 priorities, 2 thresholds |
| `slirp` | frames neither lost nor reordered (`FramesInOrder`), callers get their results and never use freed state (`CallersSafe`), frames get through (`FramesDelivered`), commands and stop() return (`ThreadsReturn`) | 2 callers, queues of one frame, several loads of frames each way |

The bounds are small where the code's own limits are large (queues of 256 frames,
16-bit indices, 64 MiB of cache): each is chosen so that the limit is reached and
passed in a few steps, since the code does the same thing at every fill level except
at empty, full and wrap. The arithmetic is parametric in its widths: with 2 bits of
mantissa, guard, sticky, ties, subnormals and overflow all occur among the operands.
The band of the fused multiply-add is exponents 10 to 55 around a bias of 31, for
the code's 0x100 to 0x6ff around 0x3ff: as there, the product of two factors at its
lower end is far below the least subnormal. The two halves of `translation` have no
variable in common; they share a run because together they are what compiled code
must give. A chain with fuel left over (5, 4) is what makes a guarded trace run past
its grant, and a grant of 2 is below the least length for which a guard is emitted.
`CHECK_DEADLOCK FALSE` is used where a bound or the program's own end (a destroyed
VM, a stopped service, the last pair of operands, the end of a window) leaves
nothing to do; `interrupts` and `ownership` are checked for deadlock.

### Fairness

- `Rv64Runtime`: promise continuations run, and an operation given to the client
  settles. The first is the event loop; for the second, every request of
  `NativeDisk` is answered or its connection fails. Nothing is assumed of the
  embedder or of ticks.
- `NativeDisk`: the client's continuations run and the host works through
  requests and storage queue (a serial dispatch queue). Connections may fail at
  any moment; none is assumed to succeed.
- `JitPipeline`: a slice ends (its instruction budget), a compilation settles,
  and its job runs although slices keep coming: `hostYield` gives the event loop
  a turn between slices, hence strong fairness.
- `VirtioBlk`: every slice polls the queues (`run_slice_backend`), the runtime
  starts and completes the operation, the driver's handler runs. Notifications
  are not assumed.
- `GuestClock`: slices follow each other and end, the host clock advances, and a
  guest that waits does so in WFI.
- `InterruptPath`: the hart executes (so the PLIC is sampled), the trap handler
  proceeds, the device answers.
- `SlirpHost`: threads that can run do, blocks on the serial queue run in order,
  a send ends with success or failure. A sleeping thread is not woken by fairness:
  only a signal in the code wakes it.
- `JitOwnership`, `JitTranslator`, `Hart`, `Arithmetic`: safety only. That a
  compile is answered at all is `CompilesEnd` of `JitPipeline`.

## 4. Proofs

Eight modules hold theorems, all checked by TLAPS for every value of the constants
that the named assumptions allow. Each follows the same argument: an inductive
invariant (checked by TLC on the run's instance first), one lemma per action or per
operator, and theorems that read the run's property off the invariant.

| Module | Theorems | Assumptions |
|---|---|---|
| `Rv64RuntimeProofs` | `AwaitedTypeOK`, `AwaitedOneDiskOp`, `AwaitedCompletions`, `AwaitedDestroyedQuiet` for the embedder that awaits; `AnyCallsTracked` for any | `RuntimeAssumption`: `WsProxy` Boolean, bounds natural; `Calls` is any set |
| `NativeDiskProofs` | `DiskCacheClean`, `DiskImplementsBlockDevice` | `DiskAssumption`: positive block, line and cache sizes; and `~LateDelivery` |
| `JitPipelineProofs` | `PipelineStoreSound`, `PipelineOwnersAgree`, `PipelineOnlyCurrentMachine`, `PipelineRunningCodeStable` | `StoreAssumption`, `PipelineAssumption`: positive limits and module sizes |
| `JitOwnershipProofs` | `OwnershipInvariant`, `JitOwnershipSound`, `JitCodeCurrent`, `JitDispatchSafe`, `JitClaimsSettle` | `OwnershipAssumption`: finite sets of pcs, address spaces and slots, 0 being neither a pc nor a slot; every page of every space is mapped; batches are not empty, and a scope issues a bounded number of tickets |
| `HartProofs` | `HartTypeOK`, `HartTranslations`, `HartStoresSeeCode`, `HartDecodedFresh`, `HartInterruptsPrompt`, `HartReturnsRestore` | `HartAssumption` |
| `VirtioBlkProofs` | `BlkTypeOK`, `BlkAnsweredInOrder`, `BlkPendingCurrent` | `QueueAssumption`: the index width is a multiple of the queue size and larger |
| `SlirpHostProofs` | `HostTypeOK`, `FramesKeepOrder`, `CallersStaySafe` | `SlirpAssumption`: positive queue limits |
| `GuestClockProofs` | `ClockTypeOK`, `ClockMonotonic`, `ClockLeadBounded`, `ClockTimerOnTime` | `ClockAssumption`: a positive tick, natural bounds, deadlines below `Never` |

**Runtime.** `OneDiskOp` is not inductive: a stop, reset or destroy that waits must be
known to wait for the operation that is really in flight. `IInv` adds `DiskAgrees`
(the queue is empty, or holds one operation that `#diskOperation` names and the
device's pending request matches), `CallsAgree` (a waiting call waits for that
operation), `OrphanGuarded` (an operation whose loop is gone implies that a call waits
for it or that the embedder has yet to stop after an error), `TicksAgree` (scheduled
ticks against the generation), `DestroyedQuiet`, `NeverRejected`, `CompletionMatches`.
For an embedder that overlaps its calls the invariant is another one (`QueueOrdered`):
the operations in the client's queue were started by ticks of different generations,
oldest first, and a generation's tick is scheduled or waits for the disk, never both.

**Disk.** `CacheClean` needs to know where the one request of the running fetch is
(`OneRequest`: on the wire, last in the storage queue, or answered; whatever else waits
in the queue was given up), that a good answer is still true when it arrives
(`AnswersTrue`), and that no write that was given up touches a line the client holds
(`Clean`). `Allowed` relates the file and the medium to `known` and `safe` also for the
writes still under way, and with it the refinement maps every step to one of
`BlockDevice` or a stutter. All of it holds for connections that fail at any moment, and
fails when a request its client gave up on may still be performed (`LateDelivery`, see 6).

**Code store and pipeline.** The methods of the store are operators, and so are the
lemmas: each takes a `Sound` store to a `Sound` store (`ReserveSound`, `ReleaseSound`,
`InstallSound`, `RegisterSound`, `RetireSound`, `FlushSound`, `DestroySound`). They
rest on what `#releaseRun` does to a sorted list of runs (`ReleaseRun`: it stays sorted,
and two runs can touch only where the new one was put, so one join on each side is
enough), on `RunsOfSet` (the maximal runs of a set of slots are disjoint and cover it)
and on sums over finite sets (`SumRemove`, `SumSplit`). The folds of the community
modules are recursive functions on sets; `FoldExists` and `SubsetInduction` derive what
is needed of them from the naturals being well-founded, without a theorem that takes an
operator. `PipelineInv` adds to the sound store: the owners belong to the booted machine
*during* a slice too, retired slots wait only while a slice runs, the queue holds
tickets of tasks that wait, each once, and no two tasks share a ticket or a reservation
(else completing one would release the slots of the other).

**JIT ownership.** The operations are operators from a JitState to a JitState, and so are
the lemmas: each takes a `Sound` state to a `Sound` state. `Sound` is `OwnershipSound` in
parts, plus what ties an entry's source to the region on its slot (`RegionsCover`) and a
profiled region's exits to the entries that run it (`ExitsCover`). An operation in the
middle of its work is not sound, so `Sound` has parameters for what is still open: slots
of a module that is landing and has no entry yet, an owner whose entries are being
dropped, the owner a page module replaces, entries taken off a page's index and not
dropped yet. `retire_owner` or a drain opens them, its loop closes them, and the lemmas of
`cache_remove` and `cache_insert` carry them (`RemoveSound`, `InsertSound`). The loops are
folds over sets and sequences: `FoldHolds` says that what each step keeps the loop keeps
(by induction on the subsets of a finite set), and `DropAllFold`, `RetireFold`, `LandFold`,
`RegionFold`, `RestageFold`, `DrainFold` and the like apply it to one loop each.

`OwnershipInv` adds three things that the properties depend on. `EntriesCurrent`: the pages
of a cached entry are marked, and hold the bytes it was made from unless dirty.
Its counterpart for compiles under way is `Fresh`: while the write generation has not
moved, the page is marked, clean and unchanged. This is why looking at the mark, the dirty
flag and the generation when a module lands is enough, whatever happened in between
(`LandsCurrent`). A superblock may be built of a page that a device has just written, for
which `Fresh` fails: it rests on its claims instead (`ClaimsHold`: as long as a claim is its
own, the page is as it was or is dirty), and a drain takes the claims of the pages it drains. `LinesAgree`: a line has what the cache has, and a fresh one
is mapped as it was compiled. `ClaimsTracked`, `ModulesTracked` and `CoverageHolds` say that
claims, pending modules and coverage are those of the staged and pending compiles; the
exact count, and not an upper bound, is needed because removal stops at 0.

**Hart.** `TlbGranted` says of every TLB entry that a leaf the guest wrote since the last
fence permits it in the context of its tag, whatever the mode is now; a superpage is
several pages with one leaf and one dirty bit (`shares`), so a walk through one of them
changes what the others' entries may rest on. `StoresBacked`: marking a page finds every
fused entry that leads to it. `CodeFresh`: no decoded page is older than the last FENCE.I.
`PollInTime`: what is left of the two allowances of a deliverable interrupt
(interpreted instructions, rounds of compiled code) covers the countdown and what phase
the dispatcher is in. `FrameKept`: SPP and SPIE are those of the trap in progress.

**virtio.** The invariant follows a window over the avail ring, from where the driver has
looked at the used ring to the avail index. Its chains are different and in flight
(`WindowDistinct`), hence it is never longer than the queue (`WindowCounts`) and no two of
its entries share a slot although the indices wrap; its first part has been answered
(`WindowAnswered`).

**Slirp.** `QueuesNumbered`: what waits in a queue is numbered without a gap, and a held
frame is the last one received. `SlotOwned`: a command stays in the slot until the caller
that put it there has read its answer. `LifeGuarded`: the state is freed only when the
thread is joined and no caller is inside.

**Clock.** Monotonicity is a fact about re-anchoring: `SyncAnchors` shows that
`sync_devices()` chooses a time no earlier than the one visible, and `Ticks` that the
interpolated time grows with the instruction count. `IInv` holds `ClintBehindRdtime`,
`BehindInstructions`, `SampledFromBoot`, `AnchoredAtHost` (the lead is what was retired
since the anchor) and `NoEarlyTimer`.

Only model-checked:

- liveness (`RequestsEnd`, `CallsResolve`, `CompilesEnd`, `RequestsReturn`, `TimerFires`,
  `FramesDelivered`, `ThreadsReturn`) and `InterruptsServed`: they need fairness and
  ENABLED;
- `FloatsExact`, `ShortcutsAgree`, `IntegersAgree`: `Bitwise` and arithmetic on widths;
- `CompiledFaithful`, `FuelBounded`: the translator is made of RECURSIVE operators.

## 5. How the detailed models relate to abstract ones

`NativeDisk` refines `BlockDevice` under the mapping `known`, `safe`: a disk whose
answered writes are known, whose failed writes are uncertain per block, and whose
flushed contents survive a crash. `JitTranslator` compares the compiled machine
with `Step`, the interpreter's own definition, instruction by instruction; the
comparison is a refinement of the interpreter in which a unit is many steps at
once, with `ref` as its history. `Arithmetic` compares every operator with a
definition that does not share code with it (`Ieee754`, `execute`).

## 6. What the models made visible

Where the code does something other than its comments or documents say, the model
follows the code. `copy_temps` shows one of these as a violation; the properties of
the other runs except a case by name, in the definition and in its comment, or the
item says why the runs do not contain it.

- `APP_INTEGRATION.md:400`, "Version 1 allows one disk operation in flight.": after
  the relay socket fails (`web/rv64.js:1632`) the loop stops without waiting for
  `#diskOperation`; an embedder that calls `start()` (`:1466`) without `stop()` gets
  a second operation for the pending request, and its result may go to a later one.
  `AwaitedSpec` is the embedder that stops after an error: `OneDiskOp` and
  `ResultsDelivered` say nothing of the other. `CallsTracked` holds of both.
- `web/native-disk.js:153`, "Eviction keeps the clean cache correct when the outcome
  is uncertain.": a PUT that its client gave up on may be performed after the line
  has been read again. With `LateDelivery = TRUE`, `CacheClean` fails.
- A copy loop may write "any number of temp registers clobbered (their final values are
  reproduced by the real tail iterations the emitter always leaves)"
  (`rv64-jit/src/lib.rs:3825`). A temporary that takes its value from the iteration
  before, as `addi t,t,1` does, is accepted, and the bulk copy skips its iterations:
  `copy_temps` ends with 1 where interpreting gives 5. `copy_carries` names the shape in
  `CompiledFaithful` (window `Carried`).
- The register scan of a loop region "returns the same four masks as `scan_regs`"
  (`:2492`), but takes an AMO's rd for no write (`:2537`). When the loop reads that
  register (`1: amoswap t0,t1,(a0); bnez t0,1b`), its local is not flushed and the
  register file keeps the old value: window `Spin`, `region_loses_amo`.
- The gate before the FP code of a trace is meant to cover "every FP instruction the
  block contains" (`:2824`), but decides whether rounding matters from the straight
  line up to the next jump (`:4620`). A trace that follows a jump from a move to an
  addition runs the addition without asking for RNE and NX: window `JumpFp`,
  `gate_misses`.
- A copy loop that runs into its fuel limit between the bulk copy and the tail leaves
  its temporaries stale, against `:3825` and `:4019`. They are loaded again before they
  are read, so the guest does not notice unless it is looked at there (`Dead`).
  Overlap is tested on virtual addresses.
- Fuel: "overshoot <= one loop iteration / basic block, <= MAX_BLOCK" (`:364`). A bulk
  copy looks at its fuel once per page; the guard of a trace (`:4562`) stands only
  before long ones, leaves out the jump that ends the trace, and compares with the whole
  grant although the cell counts what earlier links of a chain retired. `Pass` is the
  bound that holds, exactly.
- The fused multiply-add: in-band operands "can only raise NX" (`:1370`), "so no
  underflow" (`:1419`). The product of two factors of 2^-767 underflows; with a zero
  addend the compiled code accepts the zero, or the least normal number, without UF, and
  the emulated path a zero of the wrong sign. FCVT.S.D (`:897`), a product or a quotient
  (`cpu.rs:1515`) that rounds up to the least normal number loses UF too, and FSGNJ.S
  does not check the box of its second operand. These four are excepted in
  `ShortcutsAgree`.
- "Enabling interrupts still takes effect at once" (`cpu.rs:208`): the write makes the
  next poll due, but after the block that contains it the dispatcher may run compiled
  code (`virt.rs:278`), up to a quantum of a million instructions, before anything
  looks (`rv64-wasm/src/lib.rs:4350`). `InterruptsPrompt` allows that one round, and for
  a line or the timer one between each two interpreted instructions.
- `SFENCE.VMA` of an address in a superpage drops one 4 KiB entry (`cpu.rs:295`), where
  the ISA would drop those of every page the leaf maps. `SfenceVma` does what the code
  does; in `TranslationsPermitted` such a fence counts for the page it names only.
- An AMO to an unmapped page raises a load page fault; SEIP set by software is lost at
  the next poll; 33 instructions, not 32, may pass between polls (`Interval + 1`); WFI
  looks at `mip` as of the last poll; remote fences flush nothing, with one hart.
- `virt.rs:598` "THR-empty (if enabled)": the line follows `thre_ip` also after the
  driver cleared IER bit 1; a PLIC claim (`:438`, "clear pending") leaves `pending` as
  the last sample found it.
- Direct links and `TRACE_WIN` modes of the JIT that are off by default may use a
  batch index without a check or bytes from before a write; dispatch lines carry the
  map generation but not the privilege context. They are left out of `JitOwnership`.

## 7. Not modelled, and why

- The Wasm encoder, instruction decoding and compressed forms: tables of bit
  patterns, covered by the architecture and lockstep tests. LR/SC, PMP and counters:
  single-hart values nothing else depends on.
- JIT profiling variants and environment switches, off by default.
- Bytes and formats: HTTP headers, WebSocket frames, device tree, virtio descriptor
  layout. A malformed virtio chain appears as the kind of answer it gets.
- The virtio network device, the RTC, the delayed connect proxy, the HTTP framing, the
  session controller and the page session: see the plan.
- User interface, site, telemetry, command line tools: presentation and drivers.
- Disk image creation: once, before any service runs.
- The fraction of a tick that a clock sample drops (`virt.rs:1085`): `GuestClock`
  counts host time in whole ticks. Nor does it count what compiled code retires past
  the end of a slice.
- A chain the block device cannot read (`virtio.rs:365`), which it leaves unanswered: a
  Linux driver posts none. A slice that throws with a new request pending
  (`web/rv64.js:1554`). The two caps of the superblocks' bookkeeping
  (`rv64-wasm/src/lib.rs:4036`) are passed together. Each is named at its definition.

## 8. Plan

Done, in this order: runtime and its proofs; disk path with its abstract
specification; code store and pipeline; virtio block; guest clock and its proofs;
interrupts; slirp host; JIT ownership; translator; arithmetic; hart.

Next:

1. `FramePath`: virtio net, the relay socket and its limits, the raw Ethernet
   server's accept and promote, composed with `SlirpHost`'s session.
2. `HttpSession` and `HostSession`: framing and lifecycle of the two HTTP servers,
   the controller's start, quiesce and stop.
3. `PageSession`: worker proxy, request ids, output backpressure.
4. `ConnectProxy`: pumps and shutdown of the delayed connect proxy.
5. The RTC's alarm, and the fraction of a tick that a sample drops, in `GuestClock`.

Theorems: every safety property of the runs is proved, but for those listed as only
model-checked in section 4.
