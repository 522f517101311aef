------------------------ MODULE Rv64RuntimeProofs ------------------------
(***************************************************************************)
(* Proofs about Rv64Runtime for every number of calls, generations and     *)
(* requests: an embedder that awaits its calls, and that awaits a stop()   *)
(* after an "error" event, never sees two disk operations in flight, a     *)
(* completion with another request's result, or a rejected completion.     *)
(* And for any embedder, however its calls overlap: every call waits for   *)
(* an operation that will settle, and one execution loop is alive.         *)
(***************************************************************************)
EXTENDS Rv64Runtime, TLAPS, FiniteSetTheorems, SequenceTheorems

(* The parts of the inductive invariant.  The device's pending request,    *)
(* the client's queue and #diskOperation always tell the same story ...    *)
DiskAgrees ==
  \/ diskQueue = << >> /\ diskOperation = 0 /\ pending = 0
  \/ \E op \in Operations : /\ diskQueue = << op >>
                            /\ diskOperation = op.tick
                            /\ pending = op.request

(* ... a call in progress has stopped the machine, is the only one, and    *)
(* goes on only when the disk is quiet ...                                 *)
CallsAgree ==
  \A c \in Calls : call[c].at # "idle" =>
    /\ ~running
    /\ \A d \in Calls : call[d].at # "idle" => d = c
    /\ call[c].at = "wait" => call[c].op = diskOperation /\ diskQueue # << >>
    /\ call[c].at = "resume" => diskQueue = << >>

(* ... an operation outlives its run only behind an error event or a call  *)
(* that waits for it, the two things that keep the embedder from start() ..*)
OrphanGuarded ==
  diskQueue # << >> /\ ~running => faulted \/ ~Awaited

(* ... and no tick of the current generation is queued beside it.          *)
TicksAgree ==
  /\ \A g \in scheduled : g <= generation
  /\ diskQueue # << >> => /\ diskOperation <= generation
                          /\ \A g \in scheduled : ~Live(g)

IInv ==
  /\ TypeOK
  /\ DiskAgrees
  /\ CallsAgree
  /\ OrphanGuarded
  /\ TicksAgree
  /\ DestroyedQuiet
  /\ NeverRejected
  /\ CompletionMatches

-----------------------------------------------------------------------------
(* The initial state satisfies the inductive invariant.                    *)
LEMMA InitIInv == Init => IInv
  <1> SUFFICES ASSUME Init PROVE IInv
    OBVIOUS
  <1> USE RuntimeAssumption DEF Init, Idle
  <1>1. FlagsOK
    BY DEF FlagsOK, RuntimeAssumption
  <1>2. TypeOK
    BY <1>1 DEF TypeOK, CallStates, Operations
  <1>3. DiskAgrees /\ OrphanGuarded /\ TicksAgree
    BY DEF DiskAgrees, OrphanGuarded, TicksAgree
  <1>4. CallsAgree
    BY DEF CallsAgree
  <1>5. DestroyedQuiet /\ NeverRejected /\ CompletionMatches
    BY DEF DestroyedQuiet, NeverRejected, CompletionMatches
  <1> QED BY <1>2, <1>3, <1>4, <1>5 DEF IInv

(* An idle device has an idle disk queue, and the other way round.         *)
LEMMA QuietDisk ==
  ASSUME IInv
  PROVE  /\ pending = 0 <=> diskQueue = << >>
         /\ diskOperation = 0 <=> diskQueue = << >>
  <1>1. CASE diskQueue = << >> /\ diskOperation = 0 /\ pending = 0
    BY <1>1
  <1>2. CASE \E op \in Operations : /\ diskQueue = << op >>
                                    /\ diskOperation = op.tick
                                    /\ pending = op.request
    BY <1>2 DEF Operations
  <1> QED BY <1>1, <1>2 DEF IInv, DiskAgrees

(* start() by the awaiting embedder finds no disk operation. *)
LEMMA StartStep ==
  ASSUME IInv, Awaited, ~faulted, Start
  PROVE  IInv'
  <1> USE DEF IInv, Start, EnterRunning
  <1>1. FlagsOK'
    BY DEF TypeOK, FlagsOK, diskVars, vmVars
  <1>2. TypeOK'
    BY <1>1 DEF TypeOK, CallStates, Operations, Methods, diskVars, vmVars,
     Idle, Waiting, Resuming
  <1>3. DiskAgrees'
    BY DEF TypeOK, DiskAgrees, diskVars
  <1>4. CallsAgree'
    BY DEF TypeOK, DiskAgrees, CallsAgree, CallStates, diskVars, vmVars,
     Awaited, Idle, Waiting, Resuming
  <1>5. OrphanGuarded'
    BY DEF TypeOK, DiskAgrees, CallsAgree, OrphanGuarded, CallStates, diskVars,
     vmVars, Awaited, Idle, Waiting, Resuming
  <1>6. TicksAgree'
    BY DEF TypeOK, DiskAgrees, CallsAgree, OrphanGuarded, TicksAgree, Live,
     diskVars, vmVars, Awaited
  <1>7. (DestroyedQuiet /\ NeverRejected /\ CompletionMatches)'
    BY DEF TypeOK, DiskAgrees, CallsAgree, DestroyedQuiet, NeverRejected,
     CompletionMatches, diskVars, vmVars, Idle, Resuming
  <1> QED BY <1>2, <1>3, <1>4, <1>5, <1>6, <1>7

(* The synchronous part of stop(), alone or inside reset() or destroy(). *)
LEMMA StopStep ==
  ASSUME IInv, NEW c \in Calls, NEW m \in Methods, Awaited, ~destroyed,
         StopAndAwait(c, m)
  PROVE  IInv'
  <1> USE DEF IInv, StopAndAwait
  <1>1. diskOperation = 0 <=> diskQueue = << >>
    BY QuietDisk
  <1>2. FlagsOK'
    BY DEF TypeOK, FlagsOK, diskVars, vmVars
  <1>3. TypeOK'
    BY <1>2 DEF TypeOK, CallStates, Operations, Methods, diskVars, vmVars,
     Idle, Waiting, Resuming
  <1>4. DiskAgrees'
    BY DEF TypeOK, DiskAgrees, diskVars
  <1>5. CallsAgree'
    <2> SUFFICES ASSUME NEW d \in Calls, call'[d].at # "idle"
                 PROVE  /\ ~running'
                        /\ \A e \in Calls : call'[e].at # "idle" => e = d
                        /\ call'[d].at = "wait" =>
                             call'[d].op = diskOperation' /\ diskQueue' # << >>
                        /\ call'[d].at = "resume" => diskQueue' = << >>
      BY DEF CallsAgree
    <2>1. d = c /\ \A e \in Calls : call'[e].at # "idle" => e = c
      BY DEF TypeOK, Awaited
    <2>2. call'[c] = IF diskOperation = 0 THEN Resuming(m)
                                          ELSE Waiting(m, diskOperation)
      BY DEF TypeOK
    <2>3. diskOperation' = diskOperation /\ diskQueue' = diskQueue
      BY DEF diskVars
    <2> QED BY <1>1, <2>1, <2>2, <2>3 DEF Resuming, Waiting
  <1>6. OrphanGuarded'
    BY DEF TypeOK, DiskAgrees, CallsAgree, OrphanGuarded, CallStates, diskVars,
     vmVars, Awaited, Idle, Waiting, Resuming
  <1>7. TicksAgree'
    BY DEF TypeOK, DiskAgrees, CallsAgree, OrphanGuarded, TicksAgree, Live,
     diskVars, vmVars, Awaited
  <1>8. (DestroyedQuiet /\ NeverRejected /\ CompletionMatches)'
    BY DEF TypeOK, DiskAgrees, CallsAgree, DestroyedQuiet, NeverRejected,
     CompletionMatches, diskVars, vmVars, Idle, Resuming
  <1> QED BY <1>3, <1>4, <1>5, <1>6, <1>7, <1>8

(* reset() of a stopped machine by the awaiting embedder. *)
LEMMA ResetStoppedStep ==
  ASSUME IInv, Awaited, ~faulted, ResetStopped
  PROVE  IInv'
  <1> USE DEF IInv, ResetStopped, Assemble
  <1>1. diskQueue = << >>
    BY QuietDisk DEF OrphanGuarded
  <1>2. FlagsOK'
    BY RuntimeAssumption DEF RuntimeAssumption, TypeOK, FlagsOK, diskVars, vmVars
  <1>3. TypeOK'
    BY <1>2 DEF TypeOK, CallStates, Operations, Methods, diskVars, vmVars,
     Idle, Waiting, Resuming
  <1>4. DiskAgrees'
    BY <1>1, QuietDisk DEF TypeOK, DiskAgrees, diskVars
  <1>5. CallsAgree'
    BY DEF TypeOK, DiskAgrees, CallsAgree, CallStates, diskVars, vmVars,
     Awaited, Idle, Waiting, Resuming
  <1>6. OrphanGuarded'
    BY DEF TypeOK, DiskAgrees, CallsAgree, OrphanGuarded, CallStates, diskVars,
     vmVars, Awaited, Idle, Waiting, Resuming
  <1>7. TicksAgree'
    BY DEF TypeOK, DiskAgrees, CallsAgree, OrphanGuarded, TicksAgree, Live,
     diskVars, vmVars, Awaited
  <1>8. (DestroyedQuiet /\ NeverRejected /\ CompletionMatches)'
    BY DEF TypeOK, DiskAgrees, CallsAgree, DestroyedQuiet, NeverRejected,
     CompletionMatches, diskVars, vmVars, Idle, Resuming
  <1> QED BY <1>3, <1>4, <1>5, <1>6, <1>7, <1>8

(* The end of stop(). *)
LEMMA ResumeStopStep ==
  ASSUME IInv, NEW c \in Calls, ResumeStop(c)
  PROVE  IInv'
  <1> USE DEF IInv, ResumeStop
  <1>1. FlagsOK'
    BY DEF TypeOK, FlagsOK, diskVars, vmVars
  <1>2. TypeOK'
    BY <1>1 DEF TypeOK, CallStates, Operations, Methods, diskVars, vmVars,
     Idle, Waiting, Resuming
  <1>3. DiskAgrees'
    BY DEF TypeOK, DiskAgrees, diskVars
  <1>4. CallsAgree'
    BY DEF TypeOK, DiskAgrees, CallsAgree, CallStates, diskVars, vmVars,
     Awaited, Idle, Waiting, Resuming
  <1>5. OrphanGuarded'
    BY DEF TypeOK, DiskAgrees, CallsAgree, OrphanGuarded, CallStates, diskVars,
     vmVars, Awaited, Idle, Waiting, Resuming
  <1>6. TicksAgree'
    BY DEF TypeOK, DiskAgrees, CallsAgree, OrphanGuarded, TicksAgree, Live,
     diskVars, vmVars, Awaited
  <1>7. (DestroyedQuiet /\ NeverRejected /\ CompletionMatches)'
    BY DEF TypeOK, DiskAgrees, CallsAgree, DestroyedQuiet, NeverRejected,
     CompletionMatches, diskVars, vmVars, Idle, Resuming
  <1> QED BY <1>2, <1>3, <1>4, <1>5, <1>6, <1>7

(* The end of reset(): the machine is new, the disk is quiet. *)
LEMMA ResumeResetStep ==
  ASSUME IInv, NEW c \in Calls, ResumeReset(c)
  PROVE  IInv'
  <1> USE DEF IInv, ResumeReset, Assemble, EnterRunning
  <1>1. diskQueue = << >> /\ diskOperation = 0 /\ ~running
    BY QuietDisk DEF CallsAgree, Resuming
  <1>2. FlagsOK'
    <2>1. CASE destroyed
      BY <2>1 DEF TypeOK, FlagsOK, diskVars, vmVars
    <2>2. CASE ~destroyed
      BY <1>1, <2>2, RuntimeAssumption DEF RuntimeAssumption, TypeOK, FlagsOK
    <2> QED BY <2>1, <2>2
  <1>3. TypeOK'
    <2>1. CASE destroyed
      BY <1>2, <2>1 DEF TypeOK, CallStates, Methods, Idle, diskVars, vmVars
    <2>2. CASE ~destroyed
      <3>1. /\ generation' = generation + 1
            /\ scheduled' = scheduled \cup {generation + 1}
        BY <1>1, <2>2
      <3>2. call' \in [Calls -> CallStates]
        BY DEF TypeOK, CallStates, Idle
      <3>3. /\ pending' = 0
            /\ UNCHANGED << diskQueue, diskOperation, nextRequest, completions >>
        BY <2>2
      <3> QED BY <1>2, <3>1, <3>2, <3>3 DEF TypeOK
    <2> QED BY <2>1, <2>2
  <1>4. DiskAgrees'
    BY <1>1, QuietDisk DEF TypeOK, DiskAgrees, diskVars
  <1>5. CallsAgree'
    BY DEF TypeOK, DiskAgrees, CallsAgree, CallStates, diskVars, vmVars,
     Awaited, Idle, Waiting, Resuming
  <1>6. OrphanGuarded'
    BY DEF TypeOK, DiskAgrees, CallsAgree, OrphanGuarded, CallStates, diskVars,
     vmVars, Awaited, Idle, Waiting, Resuming
  <1>7. TicksAgree'
    <2>1. CASE destroyed
      BY <1>1, <2>1 DEF TypeOK, TicksAgree, diskVars, vmVars
    <2>2. CASE ~destroyed
      <3>1. /\ generation' = generation + 1
            /\ scheduled' = scheduled \cup {generation + 1}
            /\ diskQueue' = << >>
        BY <1>1, <2>2
      <3> QED BY <3>1 DEF TypeOK, TicksAgree
    <2> QED BY <2>1, <2>2
  <1>8. (DestroyedQuiet /\ NeverRejected /\ CompletionMatches)'
    BY DEF TypeOK, DiskAgrees, CallsAgree, DestroyedQuiet, NeverRejected,
     CompletionMatches, diskVars, vmVars, Idle, Resuming
  <1> QED BY <1>3, <1>4, <1>5, <1>6, <1>7, <1>8

(* The end of destroy(). *)
LEMMA ResumeDestroyStep ==
  ASSUME IInv, NEW c \in Calls, ResumeDestroy(c)
  PROVE  IInv'
  <1> USE DEF IInv, ResumeDestroy
  <1>1. FlagsOK'
    BY DEF TypeOK, FlagsOK, diskVars, vmVars
  <1>2. TypeOK'
    BY <1>1 DEF TypeOK, CallStates, Operations, Methods, diskVars, vmVars,
     Idle, Waiting, Resuming
  <1>3. DiskAgrees'
    BY DEF TypeOK, DiskAgrees, diskVars
  <1>4. CallsAgree'
    BY DEF TypeOK, DiskAgrees, CallsAgree, CallStates, diskVars, vmVars,
     Awaited, Idle, Waiting, Resuming
  <1>5. OrphanGuarded'
    BY DEF TypeOK, DiskAgrees, CallsAgree, OrphanGuarded, CallStates, diskVars,
     vmVars, Awaited, Idle, Waiting, Resuming
  <1>6. TicksAgree'
    BY DEF TypeOK, DiskAgrees, CallsAgree, OrphanGuarded, TicksAgree, Live,
     diskVars, vmVars, Awaited
  <1>7. (DestroyedQuiet /\ NeverRejected /\ CompletionMatches)'
    BY DEF TypeOK, DiskAgrees, CallsAgree, DestroyedQuiet, NeverRejected,
     CompletionMatches, diskVars, vmVars, Idle, Resuming
  <1> QED BY <1>2, <1>3, <1>4, <1>5, <1>6, <1>7

(* A tick of a superseded generation returns. *)
LEMMA TickStaleStep ==
  ASSUME IInv, NEW g \in scheduled, TickStale(g)
  PROVE  IInv'
  <1> USE DEF IInv, TickStale
  <1>1. FlagsOK'
    BY DEF TypeOK, FlagsOK, diskVars, vmVars
  <1>2. TypeOK'
    BY <1>1 DEF TypeOK, CallStates, Operations, Methods, diskVars, vmVars,
     Idle, Waiting, Resuming
  <1>3. DiskAgrees'
    BY DEF TypeOK, DiskAgrees, diskVars
  <1>4. CallsAgree'
    BY DEF TypeOK, DiskAgrees, CallsAgree, CallStates, diskVars, vmVars,
     Awaited, Idle, Waiting, Resuming
  <1>5. OrphanGuarded'
    BY DEF TypeOK, DiskAgrees, CallsAgree, OrphanGuarded, CallStates, diskVars,
     vmVars, Awaited, Idle, Waiting, Resuming
  <1>6. TicksAgree'
    BY DEF TypeOK, DiskAgrees, CallsAgree, OrphanGuarded, TicksAgree, Live,
     diskVars, vmVars, Awaited
  <1>7. (DestroyedQuiet /\ NeverRejected /\ CompletionMatches)'
    BY DEF TypeOK, DiskAgrees, CallsAgree, DestroyedQuiet, NeverRejected,
     CompletionMatches, diskVars, vmVars, Idle, Resuming
  <1> QED BY <1>2, <1>3, <1>4, <1>5, <1>6, <1>7

(* A slice that leaves a new request starts the only operation. *)
LEMMA TickRequestStep ==
  ASSUME IInv, NEW g \in scheduled, TickRequest(g)
  PROVE  IInv'
  <1> USE DEF IInv, TickRequest, ServiceDisk
  <1> DEFINE op == [tick |-> g, request |-> nextRequest]
  <1>1. /\ diskQueue = << >>
        /\ op \in Operations
        /\ running /\ Drained
    BY QuietDisk DEF TypeOK, Operations, Live, Dequeued
  <1>2. diskQueue' = << op >>
    BY <1>1
  <1>3. Awaited /\ UNCHANGED << running, call, completions, rejected >>
    BY <1>1 DEF TypeOK, CallsAgree, Awaited
  <1> HIDE DEF op
  <1>4. FlagsOK'
    BY DEF TypeOK, FlagsOK, diskVars, vmVars
  <1>5. TypeOK'
    BY <1>4 DEF TypeOK, CallStates, Operations, Methods, diskVars, vmVars,
     Idle, Waiting, Resuming
  <1>6. DiskAgrees'
    BY <1>1, <1>2 DEF DiskAgrees, op
  <1>7. CallsAgree'
    BY <1>3 DEF CallsAgree, Awaited
  <1>8. OrphanGuarded'
    BY <1>1, <1>3 DEF OrphanGuarded
  <1>9. TicksAgree'
    BY DEF TypeOK, DiskAgrees, CallsAgree, OrphanGuarded, TicksAgree, Live,
     diskVars, vmVars, Awaited
  <1>10. (DestroyedQuiet /\ NeverRejected /\ CompletionMatches)'
    BY <1>1, <1>3 DEF DestroyedQuiet, NeverRejected, CompletionMatches
  <1> QED BY <1>5, <1>6, <1>7, <1>8, <1>9, <1>10

(* A tick never finds a request pending: its operation is in flight, and   *)
(* then no tick of the current generation is queued.                       *)
LEMMA TickPendingStep ==
  ASSUME IInv, NEW g \in scheduled, TickPending(g)
  PROVE  FALSE
  BY QuietDisk DEF IInv, TickPending, TicksAgree

(* The guest powers off or the slice throws. *)
LEMMA TickEndStep ==
  ASSUME IInv, NEW g \in scheduled, TickEnd(g)
  PROVE  IInv'
  <1> USE DEF IInv, TickEnd
  <1>1. diskQueue = << >>
    BY QuietDisk
  <1>2. FlagsOK'
    BY DEF TypeOK, FlagsOK, diskVars, vmVars
  <1>3. TypeOK'
    BY <1>2 DEF TypeOK, CallStates, Operations, Methods, diskVars, vmVars,
     Idle, Waiting, Resuming
  <1>4. DiskAgrees'
    BY DEF TypeOK, DiskAgrees, diskVars
  <1>5. CallsAgree'
    BY DEF TypeOK, DiskAgrees, CallsAgree, CallStates, diskVars, vmVars,
     Awaited, Idle, Waiting, Resuming
  <1>6. OrphanGuarded'
    BY <1>1 DEF OrphanGuarded, diskVars
  <1>7. TicksAgree'
    BY DEF TypeOK, DiskAgrees, CallsAgree, OrphanGuarded, TicksAgree, Live,
     diskVars, vmVars, Awaited
  <1>8. (DestroyedQuiet /\ NeverRejected /\ CompletionMatches)'
    BY DEF TypeOK, DiskAgrees, CallsAgree, DestroyedQuiet, NeverRejected,
     CompletionMatches, diskVars, vmVars, Idle, Resuming
  <1> QED BY <1>3, <1>4, <1>5, <1>6, <1>7, <1>8

(* The one operation ends: its own request takes the result. *)
LEMMA OpSettleStep ==
  ASSUME IInv, OpSettle
  PROVE  IInv'
  <1> USE DEF IInv, OpSettle
  <1>1. PICK op \in Operations : /\ diskQueue = << op >>
                                  /\ diskOperation = op.tick
                                  /\ pending = op.request
    BY DEF DiskAgrees
  <1>2. /\ Head(diskQueue) = op
        /\ diskQueue' = << >>
        /\ diskOperation' = 0
        /\ pending # 0
    BY <1>1 DEF Operations
  <1>3. /\ completions' = completions \cup {<< pending, op.request >>}
        /\ pending' = 0
        /\ call' = Settle(op.tick, "ok")
        /\ scheduled' = IF Live(op.tick) THEN scheduled \cup {op.tick}
                                         ELSE scheduled
        /\ UNCHANGED << running, rejected, faulted, generation, destroyed,
                        nextRequest, socketUp >>
    BY <1>2
  <1>4. \A c \in Calls : \/ call'[c] = call[c] /\ call[c].at # "wait"
                         \/ /\ call[c].at = "wait"
                            /\ call'[c] = Resuming(call[c].method)
    BY <1>1, <1>3 DEF Settle, CallsAgree, TypeOK, CallStates
  <1>5. call' \in [Calls -> CallStates]
    BY <1>3 DEF Settle, TypeOK, CallStates, Resuming, Methods
  <1> HIDE DEF OpSettle
  <1>6. FlagsOK'
    BY <1>3 DEF TypeOK, FlagsOK
  <1>7. TypeOK'
    <2>1. scheduled' \subseteq Nat \ {0}
      BY <1>1, <1>3 DEF TypeOK, Operations
    <2>2. completions' \subseteq Nat \X Nat
      BY <1>1, <1>3 DEF TypeOK, Operations
    <2> QED BY <1>6, <1>2, <1>3, <1>5, <2>1, <2>2 DEF TypeOK
  <1>8. DiskAgrees'
    BY <1>2, <1>3 DEF DiskAgrees
  <1>9. CallsAgree'
    <2>1. \A c \in Calls : /\ call'[c].at # "wait"
                           /\ call'[c].at # "idle" => call[c].at # "idle"
      <3> TAKE c \in Calls
      <3>1. CASE call'[c] = call[c] /\ call[c].at # "wait"
        BY <3>1
      <3>2. CASE call[c].at = "wait" /\ call'[c] = Resuming(call[c].method)
        BY <3>2 DEF Resuming
      <3> QED BY <1>4, <3>1, <3>2
    <2> QED BY <1>2, <1>3, <2>1 DEF CallsAgree
  <1>10. OrphanGuarded'
    BY <1>2 DEF OrphanGuarded
  <1>11. TicksAgree'
    BY <1>1, <1>2, <1>3 DEF TicksAgree, TypeOK, Operations
  <1>12. (DestroyedQuiet /\ NeverRejected /\ CompletionMatches)'
    BY <1>1, <1>2, <1>3 DEF DestroyedQuiet, NeverRejected, CompletionMatches
  <1> QED BY <1>7, <1>8, <1>9, <1>10, <1>11, <1>12

(* The relay socket fails. *)
LEMMA NetFailStep ==
  ASSUME IInv, NetFail
  PROVE  IInv'
  <1> USE DEF IInv, NetFail
  <1>1. FlagsOK'
    BY DEF TypeOK, FlagsOK, diskVars, vmVars
  <1>2. TypeOK'
    BY <1>1 DEF TypeOK, CallStates, Operations, Methods, diskVars, vmVars,
     Idle, Waiting, Resuming
  <1>3. DiskAgrees'
    BY DEF TypeOK, DiskAgrees, diskVars
  <1>4. CallsAgree'
    BY DEF TypeOK, DiskAgrees, CallsAgree, CallStates, diskVars, vmVars,
     Awaited, Idle, Waiting, Resuming
  <1>5. OrphanGuarded'
    BY DEF TypeOK, DiskAgrees, CallsAgree, OrphanGuarded, CallStates, diskVars,
     vmVars, Awaited, Idle, Waiting, Resuming
  <1>6. TicksAgree'
    BY DEF TypeOK, DiskAgrees, CallsAgree, OrphanGuarded, TicksAgree, Live,
     diskVars, vmVars, Awaited
  <1>7. (DestroyedQuiet /\ NeverRejected /\ CompletionMatches)'
    BY DEF TypeOK, DiskAgrees, CallsAgree, DestroyedQuiet, NeverRejected,
     CompletionMatches, diskVars, vmVars, Idle, Resuming
  <1> QED BY <1>2, <1>3, <1>4, <1>5, <1>6, <1>7

(* Every step of the awaiting embedder and of the VM keeps the invariant.  *)
LEMMA NextIInv == IInv /\ [AwaitedNext]_vars => IInv'
  <1> SUFFICES ASSUME IInv, [AwaitedNext]_vars PROVE IInv'
    OBVIOUS
  <1>1. CASE Awaited /\ ~faulted /\ Start
    BY <1>1, StartStep
  <1>2. CASE Awaited /\ ~faulted /\ ResetStopped
    BY <1>2, ResetStoppedStep
  <1>3. CASE Awaited /\ \E c \in Calls : Stop(c) \/ Destroy(c) \/ ResetRunning(c)
    BY <1>3, StopStep DEF Stop, Destroy, ResetRunning, Methods
  <1>4. CASE \E c \in Calls : ResumeStop(c) \/ ResumeReset(c) \/ ResumeDestroy(c)
    BY <1>4, ResumeStopStep, ResumeResetStep, ResumeDestroyStep
  <1>5. CASE \E g \in scheduled :
               TickStale(g) \/ TickRequest(g) \/ TickPending(g) \/ TickEnd(g)
    BY <1>5, TickStaleStep, TickRequestStep, TickPendingStep, TickEndStep
  <1>6. CASE OpSettle
    BY <1>6, OpSettleStep
  <1>7. CASE NetFail
    BY <1>7, NetFailStep
  <1>8. CASE UNCHANGED vars
    <2> USE <1>8 DEF vars, vmVars, diskVars
    <2>1. TypeOK' /\ DiskAgrees' /\ TicksAgree'
      BY DEF IInv, TypeOK, FlagsOK, DiskAgrees, TicksAgree, Live
    <2>2. CallsAgree' /\ OrphanGuarded'
      BY DEF IInv, CallsAgree, OrphanGuarded, Awaited
    <2>3. (DestroyedQuiet /\ NeverRejected /\ CompletionMatches)'
      BY DEF IInv, DestroyedQuiet, NeverRejected, CompletionMatches
    <2> QED BY <2>1, <2>2, <2>3 DEF IInv
  <1> QED BY <1>1, <1>2, <1>3, <1>4, <1>5, <1>6, <1>7, <1>8
          DEF AwaitedNext, Internal

(* The fields of RV64 keep their types for the awaiting embedder.          *)
THEOREM AwaitedTypeOK == AwaitedSpec => []TypeOK
  <1>1. IInv => TypeOK
    BY DEF IInv
  <1> QED BY InitIInv, NextIInv, <1>1, PTL DEF AwaitedSpec

(* #tick never has a second disk operation in flight.                      *)
THEOREM AwaitedOneDiskOp == AwaitedSpec => []OneDiskOp
  <1>1. IInv => OneDiskOp
    <2>1. ASSUME diskQueue = << >> PROVE OneDiskOp
      BY <2>1 DEF OneDiskOp
    <2>2. ASSUME NEW op \in Operations, diskQueue = << op >> PROVE OneDiskOp
      BY <2>2 DEF OneDiskOp
    <2> QED BY <2>1, <2>2 DEF IInv, DiskAgrees
  <1> QED BY InitIInv, NextIInv, <1>1, PTL DEF AwaitedSpec

(* virt_disk_complete gives every request the result of its own operation, *)
(* and the device never refuses one.                                       *)
THEOREM AwaitedCompletions ==
  AwaitedSpec => []ResultsDelivered
  <1>1. IInv => ResultsDelivered
    BY DEF IInv, ResultsDelivered
  <1> QED BY InitIInv, NextIInv, <1>1, PTL DEF AwaitedSpec

(* After destroy() nothing runs and no disk operation is in flight.        *)
THEOREM AwaitedDestroyedQuiet == AwaitedSpec => []DestroyedQuiet
  <1>1. IInv => DestroyedQuiet
    BY DEF IInv
  <1> QED BY InitIInv, NextIInv, <1>1, PTL DEF AwaitedSpec

-----------------------------------------------------------------------------
(* Any embedder.  The operations in the client's queue were started by     *)
(* ticks of different generations, oldest first; a generation's tick is    *)
(* either scheduled or suspended on the disk, never both.                  *)
QueueOrdered ==
  /\ \A i, j \in 1 .. Len(diskQueue) :
       i < j => diskQueue[i].tick < diskQueue[j].tick
  /\ \A i \in 1 .. Len(diskQueue) :
       diskQueue[i].tick <= generation /\ diskQueue[i].tick \notin scheduled
  /\ \A g \in scheduled : g <= generation
  /\ diskQueue = << >> => diskOperation = 0

AnyInv == TypeOK /\ QueueOrdered /\ LastOperationTracked /\ NoLostWaiter

LEMMA InitAnyInv == Init => AnyInv
  BY InitIInv DEF Init, Idle, IInv, AnyInv, QueueOrdered, LastOperationTracked,
     NoLostWaiter

LEMMA QueueTicks ==
  ASSUME TypeOK
  PROVE  \A i \in 1 .. Len(diskQueue) :
           diskQueue[i] \in Operations /\ diskQueue[i].tick \in Nat \ {0}
  <1>1. \A i \in 1 .. Len(diskQueue) : diskQueue[i] \in Operations
    BY ElementOfSeq DEF TypeOK
  <1> QED BY <1>1 DEF Operations

(* A step that leaves the disk operations alone and lets no call wait      *)
(* for something else, and schedules at most the next generation.          *)
LEMMA QuietAnyStep ==
  ASSUME AnyInv, TypeOK',
         UNCHANGED << diskQueue, diskOperation >>,
         \/ generation' = generation /\ scheduled' \subseteq scheduled
         \/ /\ generation' = generation + 1
            /\ scheduled' \subseteq scheduled \cup {generation + 1},
         \A c \in Calls : call'[c].at = "wait" =>
            \/ call'[c] = call[c]
            \/ diskOperation # 0 /\ call'[c].op = diskOperation
  PROVE  AnyInv'
  <1> USE DEF AnyInv
  <1>1. /\ \A i \in 1 .. Len(diskQueue) : diskQueue[i].tick \in Nat
        /\ generation \in Nat /\ \A g \in scheduled : g \in Nat
    BY QueueTicks DEF TypeOK
  <1>2. QueueOrdered'
    <2>1. CASE generation' = generation /\ scheduled' \subseteq scheduled
      BY <1>1, <2>1 DEF QueueOrdered
    <2>2. CASE /\ generation' = generation + 1
               /\ scheduled' \subseteq scheduled \cup {generation + 1}
      <3>1. \A i \in 1 .. Len(diskQueue) :
              diskQueue[i].tick <= generation + 1 /\ diskQueue[i].tick # generation + 1
        BY <1>1 DEF QueueOrdered
      <3>2. \A g \in scheduled : g <= generation + 1
        BY <1>1 DEF QueueOrdered
      <3> QED BY <1>1, <2>2, <3>1, <3>2 DEF QueueOrdered
    <2> QED BY <2>1, <2>2
  <1>3. LastOperationTracked'
    BY DEF LastOperationTracked
  <1>4. NoLostWaiter'
    <2> SUFFICES ASSUME NEW c \in Calls, call'[c].at = "wait"
                 PROVE  \E i \in 1 .. Len(diskQueue) : diskQueue[i].tick = call'[c].op
      BY DEF NoLostWaiter
    <2>1. CASE call'[c] = call[c]
      BY <2>1 DEF NoLostWaiter
    <2>2. CASE diskOperation # 0 /\ call'[c].op = diskOperation
      BY <2>2 DEF QueueOrdered, LastOperationTracked
    <2> QED BY <2>1, <2>2
  <1> QED BY <1>2, <1>3, <1>4

(* The calls of any embedder, up to their first await.                     *)
LEMMA StopAnyStep ==
  ASSUME AnyInv, NEW c \in Calls, NEW m \in Methods, StopAndAwait(c, m)
  PROVE  AnyInv'
  <1> USE DEF AnyInv, StopAndAwait, vmVars, diskVars
  <1>1. TypeOK'
    <2>1. FlagsOK'
      BY DEF TypeOK, FlagsOK
    <2>2. generation' \in Nat
      BY DEF TypeOK
    <2>3. call' \in [Calls -> CallStates]
      BY DEF TypeOK, CallStates, Methods, Waiting, Resuming
    <2> QED BY <2>1, <2>2, <2>3 DEF TypeOK
  <1>2. \A d \in Calls : call'[d].at = "wait" =>
            \/ call'[d] = call[d]
            \/ diskOperation # 0 /\ call'[d].op = diskOperation
    BY DEF TypeOK, Waiting, Resuming
  <1> QED BY <1>1, <1>2, QuietAnyStep DEF TypeOK

(* start(), and reset() of a stopped machine.                              *)
LEMMA StartAnyStep ==
  ASSUME AnyInv, Start \/ ResetStopped
  PROVE  AnyInv'
  <1> USE DEF AnyInv, Start, ResetStopped, EnterRunning, Assemble, vmVars, diskVars
  <1>1. FlagsOK'
    BY RuntimeAssumption DEF RuntimeAssumption, TypeOK, FlagsOK
  <1>2. \/ generation' = generation /\ scheduled' = scheduled
        \/ /\ generation' = generation + 1
           /\ scheduled' = scheduled \cup {generation + 1}
    OBVIOUS
  <1>3. generation' \in Nat /\ scheduled' \subseteq Nat \ {0}
    <2>1. generation \in Nat /\ scheduled \subseteq Nat \ {0} /\ generation + 1 \in Nat \ {0}
      BY DEF TypeOK
    <2>2. CASE generation' = generation /\ scheduled' = scheduled
      BY <2>1, <2>2
    <2>3. CASE /\ generation' = generation + 1
               /\ scheduled' = scheduled \cup {generation + 1}
      BY <2>1, <2>3
    <2> QED BY <1>2, <2>2, <2>3
  <1>4. TypeOK'
    BY <1>1, <1>3 DEF TypeOK
  <1>5. UNCHANGED << diskQueue, diskOperation, call >>
    OBVIOUS
  <1> HIDE DEF AnyInv, Start, ResetStopped
  <1> QED BY <1>4, <1>2, <1>5, QuietAnyStep

(* What follows the await of a call.                                       *)
LEMMA ResumeAnyStep ==
  ASSUME AnyInv, NEW c \in Calls,
         ResumeStop(c) \/ ResumeReset(c) \/ ResumeDestroy(c)
  PROVE  AnyInv'
  <1> USE DEF AnyInv, ResumeStop, ResumeReset, ResumeDestroy, EnterRunning, Assemble,
              vmVars, diskVars
  <1>1. \/ generation' = generation /\ scheduled' = scheduled
        \/ /\ generation' = generation + 1
           /\ scheduled' \subseteq scheduled \cup {generation + 1}
    OBVIOUS
  <1>2. TypeOK'
    <2>1. FlagsOK'
      BY RuntimeAssumption DEF RuntimeAssumption, TypeOK, FlagsOK
    <2>2. generation' \in Nat /\ scheduled' \subseteq Nat \ {0}
      <3>1. generation \in Nat /\ scheduled \subseteq Nat \ {0} /\ generation + 1 \in Nat \ {0}
        BY DEF TypeOK
      <3> HIDE DEF ResumeStop, ResumeReset, ResumeDestroy, AnyInv
      <3>2. CASE generation' = generation /\ scheduled' = scheduled
        BY <3>1, <3>2
      <3>3. CASE /\ generation' = generation + 1
                 /\ scheduled' \subseteq scheduled \cup {generation + 1}
        BY <3>1, <3>3
      <3> QED BY <1>1, <3>2, <3>3
    <2>3. call' \in [Calls -> CallStates]
      <3>1. Idle \in CallStates
        BY DEF CallStates, Idle
      <3>2. call' = [call EXCEPT ![c] = Idle]
        OBVIOUS
      <3> QED BY <3>1, <3>2 DEF TypeOK
    <2>4. pending' \in Nat /\ UNCHANGED << diskQueue, diskOperation, nextRequest, completions >>
      BY DEF TypeOK
    <2> QED BY <2>1, <2>2, <2>3, <2>4 DEF TypeOK
  <1>3. \A d \in Calls : call'[d].at = "wait" => call'[d] = call[d]
    BY DEF TypeOK, Idle
  <1>4. UNCHANGED << diskQueue, diskOperation >>
    OBVIOUS
  <1> QED BY <1>2, <1>3, <1>4, <1>1, QuietAnyStep

(* The ticks that start no disk operation, and a socket that fails.        *)
LEMMA TickQuietAnyStep ==
  ASSUME AnyInv, (\E g \in scheduled : TickStale(g) \/ TickEnd(g)) \/ NetFail
  PROVE  AnyInv'
  <1> USE DEF AnyInv, TickStale, TickEnd, NetFail, vmVars, diskVars
  <1>1. FlagsOK'
    BY DEF TypeOK, FlagsOK
  <1>2. /\ generation' = generation \/ generation' = generation + 1
        /\ scheduled' \subseteq scheduled
    OBVIOUS
  <1>3. generation' \in Nat /\ scheduled' \subseteq scheduled
    <2> HIDE DEF TickStale, TickEnd, NetFail
    <2> QED BY <1>2 DEF TypeOK
  <1>4. TypeOK'
    BY <1>1, <1>3 DEF TypeOK
  <1>5. UNCHANGED << diskQueue, diskOperation, call >>
    OBVIOUS
  <1> HIDE DEF AnyInv, TickStale, TickEnd, NetFail
  <1> QED BY <1>4, <1>2, <1>5, QuietAnyStep

(* #serviceDisk() joins the queue behind older generations only.           *)
LEMMA ServiceAnyStep ==
  ASSUME AnyInv, NEW g \in scheduled, NEW r \in Nat \ {0}, Live(g), ServiceDisk(g, r),
         pending' \in Nat, nextRequest' \in Nat \ {0}
  PROVE  AnyInv'
  <1> DEFINE op == [tick |-> g, request |-> r]
             n == Len(diskQueue)
  <1> USE DEF AnyInv, ServiceDisk
  <1>1. op \in Operations /\ g = generation /\ generation \in Nat
    BY DEF TypeOK, Operations, Live
  <1>2. /\ diskQueue' = Append(diskQueue, op)
        /\ diskQueue \in Seq(Operations)
        /\ n \in Nat
    BY DEF TypeOK
  <1>3. /\ Len(diskQueue') = n + 1
        /\ diskQueue'[n + 1] = op
        /\ \A i \in 1 .. n : diskQueue'[i] = diskQueue[i]
        /\ diskQueue' \in Seq(Operations)
    BY <1>1, <1>2, AppendProperties
  <1>4. TypeOK'
    BY <1>1, <1>3 DEF TypeOK, FlagsOK, Operations
  <1>5. \A i \in 1 .. n : diskQueue[i].tick \in Nat /\ diskQueue[i].tick < g
    <2>1. \A i \in 1 .. n : diskQueue[i].tick \in Nat
      BY QueueTicks
    <2> QED BY <1>1, <2>1 DEF QueueOrdered
  <1>6. QueueOrdered'
    BY <1>1, <1>2, <1>3, <1>5 DEF QueueOrdered
  <1>7. LastOperationTracked' /\ diskQueue' # << >>
    BY <1>2, <1>3 DEF LastOperationTracked
  <1>8. NoLostWaiter'
    BY <1>2, <1>3 DEF NoLostWaiter
  <1> QED BY <1>4, <1>6, <1>7, <1>8

(* The oldest operation ends: its waiters go on, the others keep theirs.   *)
LEMMA SettleAnyStep ==
  ASSUME AnyInv, OpSettle
  PROVE  AnyInv'
  <1> DEFINE op == Head(diskQueue)
             n == Len(diskQueue)
  <1> USE DEF AnyInv, OpSettle
  <1>1. /\ diskQueue \in Seq(Operations) /\ n \in Nat \ {0}
        /\ op = diskQueue[1] /\ op \in Operations
        /\ generation \in Nat
    BY DEF TypeOK
  <1>2. /\ diskQueue' \in Seq(Operations) /\ Len(diskQueue') = n - 1
        /\ \A i \in 1 .. n - 1 : diskQueue'[i] = diskQueue[i + 1]
    BY <1>1
  <1>3. \A i \in 1 .. n : diskQueue[i].tick \in Nat \ {0}
    BY QueueTicks
  <1>4. /\ scheduled' \subseteq scheduled \cup {op.tick}
        /\ generation' = generation
        /\ diskOperation' = IF diskOperation = op.tick THEN 0 ELSE diskOperation
        /\ \E outcome \in {"ok", "rejected"} : call' = Settle(op.tick, outcome)
    OBVIOUS
  <1>5. \A c \in Calls : /\ call'[c] \in CallStates
                         /\ call'[c].at = "wait" => /\ call'[c] = call[c]
                                                    /\ call[c].op # op.tick
    BY <1>4 DEF Settle, TypeOK, CallStates, Resuming, Idle, Methods
  <1>6. TypeOK'
    <2>1. completions' \subseteq Nat \X Nat
      BY <1>1 DEF TypeOK, Operations
    <2>2. call' \in [Calls -> CallStates]
      BY <1>4, <1>5 DEF Settle
    <2>3. /\ FlagsOK'
          /\ pending' \in Nat /\ nextRequest' \in Nat \ {0}
          /\ diskOperation' \in Nat
      <3>1. pending' \in Nat /\ nextRequest' \in Nat \ {0} /\ diskOperation' \in Nat
        BY DEF TypeOK
      <3>2. FlagsOK'
        BY DEF TypeOK, FlagsOK
      <3> QED BY <3>1, <3>2
    <2>4. scheduled' \subseteq Nat \ {0}
      BY <1>1, <1>4 DEF TypeOK, Operations
    <2> QED BY <1>1, <1>2, <1>4, <2>1, <2>2, <2>3, <2>4 DEF TypeOK
  <1> HIDE DEF OpSettle, op, n
  <1>7. CASE n = 1
    <2>1. diskQueue' = << >> /\ diskOperation' = 0
      BY <1>1, <1>2, <1>4, <1>7 DEF LastOperationTracked, n
    <2>2. QueueOrdered' /\ LastOperationTracked'
      BY <1>1, <1>3, <1>4, <2>1 DEF QueueOrdered, LastOperationTracked, n
    <2>3. NoLostWaiter'
      BY <1>1, <1>3, <1>5, <1>7 DEF NoLostWaiter, n
    <2> QED BY <1>6, <2>2, <2>3
  <1>8. CASE n > 1
    <2>1. diskQueue[1].tick < diskQueue[n].tick /\ diskQueue # << >>
      BY <1>1, <1>8 DEF QueueOrdered, n
    <2>2. LastOperationTracked' /\ diskQueue' # << >>
      BY <1>1, <1>2, <1>3, <1>4, <1>8, <2>1 DEF LastOperationTracked, n
    <2>3. QueueOrdered'
      <3>1. \A i, j \in 1 .. n - 1 :
              i < j => diskQueue'[i].tick < diskQueue'[j].tick
        BY <1>1, <1>2 DEF QueueOrdered, n
      <3>2. \A i \in 1 .. n - 1 : /\ diskQueue'[i].tick <= generation
                                  /\ diskQueue'[i].tick \notin scheduled
                                  /\ diskQueue'[i].tick # op.tick
        BY <1>1, <1>2, <1>3 DEF QueueOrdered, n
      <3>3. \A g \in scheduled' : g <= generation
        BY <1>1, <1>4 DEF QueueOrdered, n
      <3> QED BY <1>2, <1>4, <2>2, <3>1, <3>2, <3>3 DEF QueueOrdered
    <2>4. NoLostWaiter'
      <3> SUFFICES ASSUME NEW c \in Calls, call'[c].at = "wait"
                   PROVE  \E i \in 1 .. n - 1 : diskQueue'[i].tick = call'[c].op
        BY <1>2 DEF NoLostWaiter
      <3>1. PICK i \in 1 .. n : diskQueue[i].tick = call[c].op
        BY <1>5 DEF NoLostWaiter, n
      <3>2. i # 1 /\ call'[c] = call[c]
        BY <1>1, <1>5, <3>1
      <3>3. i - 1 \in 1 .. n - 1 /\ diskQueue'[i - 1] = diskQueue[i]
        BY <1>1, <1>2, <3>2
      <3> QED BY <3>1, <3>2, <3>3
    <2> QED BY <1>6, <2>2, <2>3, <2>4
  <1> QED BY <1>1, <1>7, <1>8

LEMMA NextAnyInv == AnyInv /\ [Next]_vars => AnyInv'
  <1> SUFFICES ASSUME AnyInv, [Next]_vars PROVE AnyInv'
    OBVIOUS
  <1>1. CASE Start \/ ResetStopped
    BY <1>1, StartAnyStep
  <1>2. CASE \E c \in Calls : Stop(c) \/ ResetRunning(c) \/ Destroy(c)
    BY <1>2, StopAnyStep DEF Stop, Destroy, ResetRunning, Methods
  <1>3. CASE \E c \in Calls : ResumeStop(c) \/ ResumeReset(c) \/ ResumeDestroy(c)
    BY <1>3, ResumeAnyStep
  <1>4. CASE (\E g \in scheduled : TickStale(g) \/ TickEnd(g)) \/ NetFail
    BY <1>4, TickQuietAnyStep
  <1>5. CASE \E g \in scheduled : TickRequest(g) \/ TickPending(g)
    BY <1>5, ServiceAnyStep DEF TickRequest, TickPending, AnyInv, TypeOK
  <1>6. CASE OpSettle
    BY <1>6, SettleAnyStep
  <1>7. CASE UNCHANGED vars
    BY <1>7 DEF vars, vmVars, diskVars, AnyInv, TypeOK, FlagsOK, QueueOrdered,
       LastOperationTracked, NoLostWaiter
  <1> QED BY <1>1, <1>2, <1>3, <1>4, <1>5, <1>6, <1>7 DEF Next, Internal

(* At most one tick, scheduled or suspended, is of the current generation. *)
LEMMA OneLoopHolds == AnyInv => OneLoop
  <1> SUFFICES ASSUME AnyInv PROVE OneLoop
    OBVIOUS
  <1> DEFINE S == {g \in scheduled : Live(g)}
             Q == {i \in 1 .. Len(diskQueue) : Live(diskQueue[i].tick)}
  <1>1. /\ S \subseteq {generation}
        /\ \A i, j \in Q : i = j
        /\ S = {} \/ Q = {}
    <2>1. \A i \in 1 .. Len(diskQueue) : diskQueue[i].tick \in Nat
      BY QueueTicks DEF AnyInv
    <2> QED BY <2>1 DEF AnyInv, QueueOrdered, TypeOK, Live
  <1>2. Cardinality(S) \in {0, 1} /\ (S = {} => Cardinality(S) = 0)
    <2>1. S = {} \/ S = {generation}
      BY <1>1
    <2> QED BY <2>1, FS_EmptySet, FS_Singleton
  <1>3. Cardinality(Q) \in {0, 1} /\ (Q = {} => Cardinality(Q) = 0)
    <2>1. Q = {} \/ \E i \in Q : Q = {i}
      BY <1>1
    <2> QED BY <2>1, FS_EmptySet, FS_Singleton
  <1> HIDE DEF S, Q
  <1>4. Cardinality(S) + Cardinality(Q) <= 1
    BY <1>1, <1>2, <1>3
  <1> QED BY <1>4 DEF OneLoop, S, Q

(* stop(), reset() and destroy() of any embedder wait for an operation     *)
(* that will settle, the youngest one when they were called, and one       *)
(* execution loop is alive however start() and they overlap.               *)
THEOREM AnyCallsTracked == Spec => []CallsTracked
  <1>1. AnyInv => CallsTracked
    BY OneLoopHolds DEF AnyInv, CallsTracked
  <1> QED BY InitAnyInv, NextAnyInv, <1>1, PTL DEF Spec
=============================================================================
