---------------------------- MODULE Rv64Runtime ----------------------------
(***************************************************************************)
(* The embedding API of one virtual machine: class RV64 of web/rv64.js     *)
(* (start, stop, reset, destroy and the execution loop #tick), the disk    *)
(* service a tick awaits (serviceNativeDiskRequest and the promise chain   *)
(* of NativeDiskClient in web/native-disk.js), and the Wasm side of a disk *)
(* request and its completion (virt_run, virt_disk_complete).              *)
(*                                                                         *)
(* Everything runs on one JavaScript event loop.  Ticks, settled disk      *)
(* operations and socket failures are macrotasks.  The rest of an API call *)
(* after its `await' is a microtask: a call "at resume" runs before the    *)
(* next macrotask (Drained), but the embedder may call the API from a      *)
(* microtask as well, so its calls are not held back.                      *)
(*                                                                         *)
(* A disk operation is named by the generation of the tick that awaits it; *)
(* a tick never has two.                                                   *)
(***************************************************************************)
EXTENDS Integers, Sequences, FiniteSets

CONSTANTS
  Calls,           \* API calls the embedder can have outstanding at once
  WsProxy,         \* network.mode = "wsproxy": the VM owns a relay socket
  MaxGeneration,   \* bound on RV64.#generation
  MaxRequest       \* bound on the ids handed out by NEXT_BLOCK_REQUEST_ID

ASSUME RuntimeAssumption ==
  /\ WsProxy \in BOOLEAN
  /\ MaxGeneration \in Nat
  /\ MaxRequest \in Nat

VARIABLES
  running,       \* RV64.#running
  destroyed,     \* RV64.#destroyed (#core and #disk become null with it)
  generation,    \* RV64.#generation
  scheduled,     \* generations whose next tick is queued by hostYield
  diskQueue,     \* NativeDiskClient.#tail: operations [tick, request] in order
  diskOperation, \* RV64.#diskOperation: the tick awaiting it, 0 for null
  pending,       \* id of the device's pending request, 0 for None
  nextRequest,   \* NEXT_BLOCK_REQUEST_ID
  completions,   \* <<r, s>>: request r got the result of request s's operation
  rejected,      \* "VM rejected native disk completion" was thrown
  socketUp,      \* the relay socket exists and has not failed
  call,          \* per API call: its method and where it is suspended
  faulted        \* an "error" event no awaited stop() has followed yet

vmVars == << running, generation, scheduled >>
diskVars == << diskQueue, diskOperation, pending, nextRequest, completions,
               rejected >>
vars == << vmVars, destroyed, diskVars, socketUp, call, faulted >>

-----------------------------------------------------------------------------
Idle == [at |-> "idle", method |-> "none", op |-> 0]
Waiting(method, op) == [at |-> "wait", method |-> method, op |-> op]
Resuming(method) == [at |-> "resume", method |-> method, op |-> 0]

Methods == {"stop", "reset", "destroy"}

CallStates ==
  [at : {"idle", "wait", "resume"}, method : Methods \cup {"none"}, op : Nat]

Operations == [tick : Nat \ {0}, request : Nat \ {0}]

(* The microtask queue is empty: the event loop may take a macrotask.      *)
Drained == \A c \in Calls : call[c].at # "resume"

(* Bound: room for n more increments of #generation, with one kept for     *)
(* each call that has not finished.                                        *)
Room(n) ==
  generation + n + Cardinality({c \in Calls : call[c].at # "idle"})
    <= MaxGeneration

Init ==
  /\ running = FALSE
  /\ destroyed = FALSE
  /\ generation = 0
  /\ scheduled = {}
  /\ diskQueue = << >>
  /\ diskOperation = 0
  /\ pending = 0
  /\ nextRequest = 1
  /\ completions = {}
  /\ rejected = FALSE
  /\ socketUp = WsProxy
  /\ call = [c \in Calls |-> Idle]
  /\ faulted = FALSE

-----------------------------------------------------------------------------
(* start() does nothing when running; it does not look at #diskOperation.  *)
EnterRunning ==
  /\ running' = TRUE
  /\ generation' = generation + 1
  /\ scheduled' = scheduled \cup {generation + 1}

Start ==
  /\ ~destroyed
  /\ ~running
  /\ Room(1)
  /\ EnterRunning
  /\ UNCHANGED << destroyed, diskVars, socketUp, call, faulted >>

(* Mutant: stop() returns without waiting for the disk operation.          *)
StopAndAwaitNoWait(c, method) ==
  /\ running' = FALSE
  /\ generation' = IF running THEN generation + 1 ELSE generation
  /\ call' = [call EXCEPT ![c] = Resuming(method)]
  /\ UNCHANGED << scheduled, destroyed, diskVars, socketUp, faulted >>

(* stop() up to its await, for itself or for the reset() or destroy() that *)
(* called it: #waitForDiskOperation picks the operation to wait for.       *)
StopAndAwait(c, method) ==
  /\ running' = FALSE
  /\ generation' = IF running THEN generation + 1 ELSE generation
  /\ call' = [call EXCEPT ![c] =
       IF diskOperation = 0 THEN Resuming(method)
                            ELSE Waiting(method, diskOperation)]
  /\ UNCHANGED << scheduled, destroyed, diskVars, socketUp, faulted >>

Stop(c) ==
  /\ ~destroyed
  /\ call[c].at = "idle"
  /\ Room(2)
  /\ StopAndAwait(c, "stop")

(* #assemble(): booting replaces the machine and the device that held the  *)
(* pending request; #connectNetwork replaces the socket.                   *)
Assemble ==
  /\ pending' = 0
  /\ socketUp' = WsProxy
  /\ UNCHANGED << diskQueue, diskOperation, nextRequest, completions, rejected >>

(* reset() of a running machine begins with stop(); reset() of a machine   *)
(* that is not running assembles at once.                                  *)
ResetRunning(c) ==
  /\ ~destroyed
  /\ running
  /\ call[c].at = "idle"
  /\ Room(2)
  /\ StopAndAwait(c, "reset")

ResetStopped ==
  /\ ~destroyed
  /\ ~running
  /\ Assemble
  /\ UNCHANGED << vmVars, destroyed, call, faulted >>

(* Mutant: destroy() tears down at once when the machine is not running.   *)
DestroyNoWait(c) ==
  /\ ~destroyed
  /\ call[c].at = "idle"
  /\ Room(2)
  /\ IF running
       THEN StopAndAwait(c, "destroy")
       ELSE /\ call' = [call EXCEPT ![c] = Resuming("destroy")]
            /\ UNCHANGED << vmVars, destroyed, diskVars, socketUp, faulted >>

Destroy(c) ==
  /\ ~destroyed
  /\ call[c].at = "idle"
  /\ Room(2)
  /\ StopAndAwait(c, "destroy")

-----------------------------------------------------------------------------
(* What follows `await this.stop()' in each method.                        *)
ResumeStop(c) ==
  /\ call[c] = Resuming("stop")
  /\ call' = [call EXCEPT ![c] = Idle]
  /\ faulted' = FALSE
  /\ UNCHANGED << vmVars, destroyed, diskVars, socketUp >>

(* reset() assembles, then calls start(), which does nothing if another    *)
(* call started the machine meanwhile; on a destroyed VM #core is null.    *)
ResumeReset(c) ==
  /\ call[c] = Resuming("reset")
  /\ call' = [call EXCEPT ![c] = Idle]
  /\ IF destroyed
       THEN UNCHANGED << vmVars, diskVars, socketUp >>
       ELSE /\ Assemble
            /\ IF running THEN UNCHANGED vmVars ELSE EnterRunning
  /\ UNCHANGED << destroyed, faulted >>

(* destroy() does not look at #running again.  A second destroy() that     *)
(* gets here fails on the null #core after the same assignments.           *)
ResumeDestroy(c) ==
  /\ call[c] = Resuming("destroy")
  /\ call' = [call EXCEPT ![c] = Idle]
  /\ destroyed' = TRUE
  /\ generation' = generation + 1
  /\ socketUp' = FALSE
  /\ UNCHANGED << running, scheduled, diskVars, faulted >>

-----------------------------------------------------------------------------
(* #tick(g): a tick of a stopped or superseded generation returns.         *)
Live(g) == running /\ g = generation

Dequeued(g) == Drained /\ g \in scheduled

TickStale(g) ==
  /\ Dequeued(g)
  /\ ~Live(g)
  /\ scheduled' = scheduled \ {g}
  /\ UNCHANGED << running, generation, destroyed, diskVars, socketUp, call,
                  faulted >>

(* Mutant: the next tick is queued without awaiting the operation.         *)
ServiceDiskNoAwait(g, request) ==
  /\ diskQueue' = Append(diskQueue, [tick |-> g, request |-> request])
  /\ diskOperation' = g
  /\ UNCHANGED << scheduled, running, generation, destroyed, completions,
                  rejected, socketUp, call, faulted >>

(* #serviceDisk(): read the pending request, join the client's queue.  A   *)
(* slice that throws with a new request pending (rv64.js:1554, an SBI call *)
(* the machine does not have) is left out: TickEnd throws without one.     *)
ServiceDisk(g, request) ==
  /\ scheduled' = scheduled \ {g}
  /\ diskQueue' = Append(diskQueue, [tick |-> g, request |-> request])
  /\ diskOperation' = g
  /\ UNCHANGED << running, generation, destroyed, completions, rejected,
                  socketUp, call, faulted >>

(* The guest ran and left a new request pending: virt_run returns 2.       *)
TickRequest(g) ==
  /\ Dequeued(g)
  /\ Live(g)
  /\ pending = 0
  /\ nextRequest <= MaxRequest
  /\ pending' = nextRequest
  /\ nextRequest' = nextRequest + 1
  /\ ServiceDisk(g, nextRequest)

(* A request is still pending: the slice runs no guest code and returns 2. *)
TickPending(g) ==
  /\ Dequeued(g)
  /\ Live(g)
  /\ pending # 0
  /\ ServiceDisk(g, pending)
  /\ UNCHANGED << pending, nextRequest >>

(* The guest powered off, or the slice threw; #generation stays.  (A slice *)
(* that leaves no request only schedules the next tick: no state change.)  *)
TickEnd(g) ==
  /\ Dequeued(g)
  /\ Live(g)
  /\ pending = 0
  /\ running' = FALSE
  /\ scheduled' = scheduled \ {g}
  /\ faulted' \in {faulted, TRUE}
  /\ UNCHANGED << generation, destroyed, diskVars, socketUp, call >>

-----------------------------------------------------------------------------
(* Mutant: the waiters of a rejected operation are forgotten.              *)
SettleForgetsRejected(g, outcome) ==
  [c \in Calls |->
     IF call[c].at = "wait" /\ call[c].op = g /\ outcome = "ok"
       THEN Resuming(call[c].method)
       ELSE call[c]]

(* The calls that wait for operation g go on, or fail with it.             *)
Settle(g, outcome) ==
  [c \in Calls |->
     IF call[c].at = "wait" /\ call[c].op = g
       THEN IF outcome = "ok" THEN Resuming(call[c].method) ELSE Idle
       ELSE call[c]]

(* Mutants: the tick's `finally' clears #diskOperation whoever set it; the *)
(* device keeps the request it has completed.                              *)
OpSettleClearsAll ==
  /\ Drained
  /\ diskQueue # << >>
  /\ pending # 0
  /\ LET op == Head(diskQueue) IN
     /\ diskQueue' = Tail(diskQueue)
     /\ completions' = completions \cup {<< pending, op.request >>}
     /\ call' = Settle(op.tick, "ok")
     /\ scheduled' = IF Live(op.tick) THEN scheduled \cup {op.tick} ELSE scheduled
  /\ pending' = 0
  /\ diskOperation' = 0
  /\ UNCHANGED << running, rejected, faulted, generation, destroyed,
                  nextRequest, socketUp >>

OpSettleKeepsRequest ==
  /\ Drained
  /\ diskQueue # << >>
  /\ LET op == Head(diskQueue) IN
     /\ diskQueue' = Tail(diskQueue)
     /\ diskOperation' = IF diskOperation = op.tick THEN 0 ELSE diskOperation
     /\ completions' = completions \cup {<< pending, op.request >>}
     /\ call' = Settle(op.tick, "ok")
     /\ scheduled' = IF Live(op.tick) THEN scheduled \cup {op.tick} ELSE scheduled
  /\ UNCHANGED << running, rejected, faulted, pending, generation, destroyed,
                  nextRequest, socketUp >>

(* The operation at the head of the queue ends.  virt_disk_complete passes *)
(* the id of whatever request is pending NOW.                              *)
OpSettle ==
  /\ Drained
  /\ diskQueue # << >>
  /\ LET op == Head(diskQueue) IN
     /\ diskQueue' = Tail(diskQueue)
     /\ diskOperation' = IF diskOperation = op.tick THEN 0 ELSE diskOperation
     /\ \/ /\ pending # 0
           /\ completions' = completions \cup {<< pending, op.request >>}
           /\ pending' = 0
           /\ call' = Settle(op.tick, "ok")
           /\ scheduled' = IF Live(op.tick) THEN scheduled \cup {op.tick}
                                            ELSE scheduled
           /\ UNCHANGED << running, rejected, faulted >>
        \/ /\ pending = 0
           /\ rejected' = TRUE
           /\ running' = FALSE       \* the tick's catch: no generation check
           /\ faulted' = TRUE
           /\ call' = Settle(op.tick, "rejected")
           /\ UNCHANGED << completions, pending, scheduled >>
  /\ UNCHANGED << generation, destroyed, nextRequest, socketUp >>

(* The relay socket fails: the callback #connectNetwork gives it.          *)
NetFail ==
  /\ Drained
  /\ socketUp
  /\ Room(1)
  /\ socketUp' = FALSE
  /\ running' = FALSE
  /\ generation' = IF running THEN generation + 1 ELSE generation
  /\ faulted' = TRUE
  /\ UNCHANGED << scheduled, destroyed, diskVars, call >>

-----------------------------------------------------------------------------
Internal ==
  \/ \E c \in Calls : ResumeStop(c) \/ ResumeReset(c) \/ ResumeDestroy(c)
  \/ \E g \in scheduled :
       TickStale(g) \/ TickRequest(g) \/ TickPending(g) \/ TickEnd(g)
  \/ OpSettle
  \/ NetFail

(* Any embedder: calls overlap as they please.                             *)
Next ==
  \/ Start
  \/ \E c \in Calls : Stop(c) \/ ResetRunning(c) \/ Destroy(c)
  \/ ResetStopped
  \/ Internal

(* The continuations of settled promises run, and the disk service answers *)
(* every request it is sent (a fetch settles, with a response or an error).*)
Fairness ==
  /\ WF_vars(OpSettle)
  /\ \A c \in Calls : WF_vars(ResumeStop(c) \/ ResumeReset(c) \/ ResumeDestroy(c))

Spec == Init /\ [][Next]_vars /\ Fairness

(* An embedder that awaits every call before it makes the next, and that   *)
(* awaits a stop() after an "error" event before it starts or resets.      *)
Awaited == \A c \in Calls : call[c].at = "idle"

AwaitedNext ==
  \/ Awaited /\ ~faulted /\ Start
  \/ Awaited /\ ~faulted /\ ResetStopped
  \/ Awaited /\ \E c \in Calls : \/ Stop(c)
                                 \/ Destroy(c)
                                 \/ ~faulted /\ ResetRunning(c)
  \/ Internal

AwaitedSpec == Init /\ [][AwaitedNext]_vars /\ Fairness

-----------------------------------------------------------------------------
FlagsOK ==
  /\ running \in BOOLEAN
  /\ destroyed \in BOOLEAN
  /\ rejected \in BOOLEAN
  /\ socketUp \in BOOLEAN
  /\ faulted \in BOOLEAN

(* Type invariant of the runtime's fields.                                 *)
TypeOK ==
  /\ FlagsOK
  /\ generation \in Nat
  /\ scheduled \subseteq Nat \ {0}
  /\ diskQueue \in Seq(Operations)
  /\ diskOperation \in Nat
  /\ pending \in Nat
  /\ nextRequest \in Nat \ {0}
  /\ completions \subseteq Nat \X Nat
  /\ call \in [Calls -> CallStates]

(* #diskOperation is the youngest operation in the client's queue, for any *)
(* embedder: waiting for it is waiting for every operation, although ticks *)
(* of several generations overwrite and clear the one field.               *)
LastOperationTracked ==
  diskQueue # << >> => diskOperation = diskQueue[Len(diskQueue)].tick

(* A call that waits for a disk operation waits for one that is still in   *)
(* the queue: no operation settles, and no reset() or destroy() drops one, *)
(* without waking the calls that await it.                                 *)
NoLostWaiter ==
  \A c \in Calls : call[c].at = "wait" =>
    \E i \in 1 .. Len(diskQueue) : diskQueue[i].tick = call[c].op

(* At most one execution loop is alive: of the scheduled ticks and the     *)
(* ticks suspended on the disk, one can still run guest code.              *)
OneLoop ==
  Cardinality({g \in scheduled : Live(g)})
    + Cardinality({i \in 1 .. Len(diskQueue) : Live(diskQueue[i].tick)}) <= 1

(* What holds for any embedder, however its calls overlap.                 *)
CallsTracked == LastOperationTracked /\ NoLostWaiter /\ OneLoop

(* Version 1 allows one disk operation in flight (APP_INTEGRATION.md:400), *)
(* through any stop, reset, destroy and restart of an embedder that awaits *)
(* them.  One that restarts without a stop() after an error can have two.  *)
OneDiskOp == Len(diskQueue) <= 1

(* A request is answered with the result of its own operation.             *)
CompletionMatches == \A p \in completions : p[1] = p[2]

(* The device never refuses the completion of an operation: it still holds *)
(* the request when the operation ends.                                    *)
NeverRejected == ~rejected

(* The result of a disk operation reaches the request it is for.           *)
ResultsDelivered == CompletionMatches /\ NeverRejected

(* destroy() has waited for disk I/O and nothing runs after it.            *)
DestroyedQuiet == destroyed => ~running /\ diskQueue = << >>

(* stop(), reset() and destroy() come back: none waits for an operation    *)
(* that has already been replaced or forgotten.                            *)
CallsResolve ==
  \A c \in Calls : call[c].at # "idle" ~> call[c].at = "idle"

(* A pending request of the machine is completed or dropped with the       *)
(* machine: it does not stay in the device for ever while the VM runs.     *)
RequestsEnd == (pending # 0 /\ running) ~> (pending = 0 \/ ~running)
=============================================================================
