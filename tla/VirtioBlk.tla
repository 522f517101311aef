----------------------------- MODULE VirtioBlk ------------------------------
(***************************************************************************)
(* The virtio block device with a disk outside the machine                 *)
(* (Backend::ExternalBlock, crates/rv64-system/src/virtio.rs), its split   *)
(* virtqueue in guest memory, the poll and the completion path of          *)
(* VirtMachine (virt.rs) and a guest driver that uses them as Linux does.  *)
(*                                                                         *)
(* Ring indices are the free-running ones of the specification: 16 bits in *)
(* the code, modulo Width here.  A descriptor chain is named by its head;  *)
(* what service() makes of it is its kind: "good" chains become the one    *)
(* pending host operation, "bad" ones are answered with an error status at *)
(* once and "blind" ones, which have no writable status byte, without one. *)
(***************************************************************************)
EXTENDS Integers, FiniteSets

CONSTANTS
  Num,        \* queue size
  Width,      \* modulus of the ring indices
  MaxId       \* bound on NEXT_BLOCK_REQUEST_ID

ASSUME QueueAssumption ==
  /\ Num \in Nat \ {0}
  /\ Width \in Nat
  /\ Width > Num /\ Width % Num = 0
  /\ MaxId \in Nat

VARIABLES
  ready,         \* Queue.ready
  lastAvailIdx,  \* Queue.last_avail_idx
  pending,       \* ExternalBlock.pending: [id, head, usedIdx]
  intStatus,     \* int_status bit 0
  nextId,        \* NEXT_BLOCK_REQUEST_ID
  avail, availIdx, used, usedIdx,   \* the rings, in guest memory
  status,        \* the status byte of each chain
  kind,          \* the kind of each chain in flight, "free" otherwise
  lastUsed,      \* the driver's last_used_idx
  isr,           \* the driver is in its interrupt handler
  hostOp         \* id of the operation the host performs, 0 for none

deviceVars == << ready, lastAvailIdx, pending, intStatus, nextId >>
ringVars == << avail, availIdx, used, usedIdx, status >>
driverVars == << kind, lastUsed, isr >>
vars == << deviceVars, ringVars, driverVars, hostOp >>

Heads == 0 .. Num - 1
Indices == 0 .. Width - 1
Kinds == {"good", "bad", "blind"}
None == [id |-> 0, head |-> 0, usedIdx |-> 0]

Plus(i, n) == (i + n) % Width
(* Steps from index i to index j.                                          *)
Gap(i, j) == (j - i) % Width
SlotOf(i) == i % Num

(* The guest runs only while no operation is with the host.                *)
GuestRuns == hostOp = 0

Rings ==
  /\ avail = [s \in Heads |-> 0] /\ availIdx = 0
  /\ used = [s \in Heads |-> 0] /\ usedIdx = 0
  /\ status = [h \in Heads |-> "none"]

Init ==
  /\ ready = FALSE
  /\ lastAvailIdx = 0
  /\ pending = None
  /\ intStatus = 0
  /\ nextId = 1
  /\ Rings
  /\ kind = [h \in Heads |-> "free"]
  /\ lastUsed = 0
  /\ isr = FALSE
  /\ hostOp = 0

-----------------------------------------------------------------------------
(* The driver sets its queue up (MMIO writes up to QUEUE_READY) over fresh *)
(* rings.                                                                  *)
Setup ==
  /\ GuestRuns
  /\ ~ready
  /\ ready' = TRUE
  /\ avail' = [s \in Heads |-> 0] /\ availIdx' = 0
  /\ used' = [s \in Heads |-> 0] /\ usedIdx' = 0
  /\ status' = [h \in Heads |-> "none"]
  /\ UNCHANGED << lastAvailIdx, pending, intStatus, nextId, driverVars, hostOp >>

(* Mutant: a reset leaves the pending request in the device.               *)
ResetKeepsPending ==
  /\ GuestRuns
  /\ ready
  /\ ready' = FALSE
  /\ lastAvailIdx' = 0
  /\ intStatus' = 0
  /\ kind' = [h \in Heads |-> "free"]
  /\ lastUsed' = 0
  /\ isr' = FALSE
  /\ UNCHANGED << pending, nextId, ringVars, hostOp >>

(* A write of 0 to the status register: queues, interrupt and the pending  *)
(* request are gone.  The driver forgets what it had in flight.            *)
Reset ==
  /\ GuestRuns
  /\ ready
  /\ ready' = FALSE
  /\ lastAvailIdx' = 0
  /\ pending' = None
  /\ intStatus' = 0
  /\ kind' = [h \in Heads |-> "free"]
  /\ lastUsed' = 0
  /\ isr' = FALSE
  /\ UNCHANGED << nextId, ringVars, hostOp >>

(* The driver makes a chain available; whether it notifies is up to it.    *)
Post(h, k) ==
  /\ GuestRuns
  /\ ready
  /\ kind[h] = "free"
  /\ kind' = [kind EXCEPT ![h] = k]
  /\ status' = [status EXCEPT ![h] = "none"]
  /\ avail' = [avail EXCEPT ![SlotOf(availIdx)] = h]
  /\ availIdx' = Plus(availIdx, 1)
  /\ UNCHANGED << used, usedIdx, deviceVars, lastUsed, isr, hostOp >>

-----------------------------------------------------------------------------
(* process(): one chain after the other until the avail ring is empty or a *)
(* chain becomes the pending request.  HeadAt(i) is the i-th chain from    *)
(* last_avail_idx on; Prefix of them are answered at once.                 *)
HeadAt(i) == avail[SlotOf(Plus(lastAvailIdx, i))]
Waiting == Gap(lastAvailIdx, availIdx)

Prefix ==
  CHOOSE n \in 0 .. Waiting :
    /\ \A i \in 0 .. n - 1 : kind[HeadAt(i)] # "good"
    /\ n < Waiting => kind[HeadAt(n)] = "good"

(* The used entries of the Prefix, published one after the other.          *)
PublishPrefix ==
  LET entry(s) == {i \in 0 .. Prefix - 1 : SlotOf(Plus(usedIdx, i)) = s} IN
  /\ used' = [s \in Heads |->
       IF entry(s) = {} THEN used[s] ELSE HeadAt(CHOOSE i \in entry(s) : TRUE)]
  /\ usedIdx' = Plus(usedIdx, Prefix)

(* reject(): the error status of the bad chains of the Prefix.             *)
RejectPrefix ==
  status' = [h \in Heads |->
    IF \E i \in 0 .. Prefix - 1 : HeadAt(i) = h /\ kind[h] = "bad"
      THEN "error" ELSE status[h]]

(* The Prefix is consumed and the interrupt raised for it.                 *)
ConsumePrefix ==
  /\ lastAvailIdx' = Plus(lastAvailIdx, Prefix)
  /\ intStatus' = IF Prefix > 0 THEN 1 ELSE intStatus

(* process().  A chain or a used entry that cannot be read makes the code  *)
(* return and leaves the request unanswered (virtio.rs:365-423); the       *)
(* driver, which is Linux's, posts none.                                   *)
Process ==
  /\ PublishPrefix
  /\ RejectPrefix
  /\ ConsumePrefix
  /\ IF Prefix < Waiting
       THEN /\ pending' = [id |-> nextId, head |-> HeadAt(Prefix),
                           usedIdx |-> Plus(usedIdx, Prefix)]
            /\ nextId' = nextId + 1
       ELSE UNCHANGED << pending, nextId >>

(* QueueNotify, and poll_virtio() at the start of every slice, both call   *)
(* process(), which returns at once while a request is pending.            *)
CallsProcess ==
  /\ GuestRuns
  /\ ready
  /\ pending = None
  /\ nextId <= MaxId
  /\ Process
  /\ UNCHANGED << ready, avail, availIdx, driverVars, hostOp >>

Notify == CallsProcess
Poll == CallsProcess

(* The slice ends with a request pending: the host starts the operation.   *)
HostStarts ==
  /\ hostOp = 0
  /\ pending # None
  /\ hostOp' = pending.id
  /\ UNCHANGED << deviceVars, ringVars, driverVars >>

(* Mutants: the completion does not consume the avail entry, or raises no  *)
(* interrupt.                                                              *)
CompletionKeepsAvail(result) ==
  /\ pending' = None
  /\ status' = [status EXCEPT ![pending.head] = result]
  /\ used' = [used EXCEPT ![SlotOf(pending.usedIdx)] = pending.head]
  /\ usedIdx' = Plus(pending.usedIdx, 1)
  /\ intStatus' = 1
  /\ UNCHANGED lastAvailIdx

CompletionNoInterrupt(result) ==
  /\ pending' = None
  /\ status' = [status EXCEPT ![pending.head] = result]
  /\ used' = [used EXCEPT ![SlotOf(pending.usedIdx)] = pending.head]
  /\ usedIdx' = Plus(pending.usedIdx, 1)
  /\ lastAvailIdx' = Plus(lastAvailIdx, 1)
  /\ UNCHANGED intStatus

(* complete_block_request(): data and status are written, the used entry   *)
(* published where process() found the used ring to stand.                 *)
Completion(result) ==
  /\ pending' = None
  /\ status' = [status EXCEPT ![pending.head] = result]
  /\ used' = [used EXCEPT ![SlotOf(pending.usedIdx)] = pending.head]
  /\ usedIdx' = Plus(pending.usedIdx, 1)
  /\ lastAvailIdx' = Plus(lastAvailIdx, 1)
  /\ intStatus' = 1

HostCompletes ==
  /\ hostOp # 0
  /\ pending.id = hostOp
  /\ \E result \in {"ok", "error"} : Completion(result)
  /\ hostOp' = 0
  /\ UNCHANGED << ready, nextId, avail, availIdx, driverVars >>

-----------------------------------------------------------------------------
(* The driver's interrupt handler: acknowledge, then take every used entry.*)
Ack ==
  /\ GuestRuns
  /\ ready /\ intStatus = 1 /\ ~isr
  /\ isr' = TRUE
  /\ intStatus' = 0
  /\ UNCHANGED << ready, lastAvailIdx, pending, nextId, ringVars, kind, lastUsed,
                  hostOp >>

TakeUsed ==
  /\ GuestRuns
  /\ isr
  /\ lastUsed # usedIdx
  /\ lastUsed' = Plus(lastUsed, 1)
  /\ kind' = [kind EXCEPT ![used[SlotOf(lastUsed)]] = "free"]
  /\ UNCHANGED << deviceVars, ringVars, isr, hostOp >>

HandlerReturns ==
  /\ GuestRuns
  /\ isr
  /\ lastUsed = usedIdx
  /\ isr' = FALSE
  /\ UNCHANGED << deviceVars, ringVars, kind, lastUsed, hostOp >>

Handler == Ack \/ TakeUsed \/ HandlerReturns

Next ==
  \/ Setup \/ Reset
  \/ \E h \in Heads, k \in Kinds : Post(h, k)
  \/ Notify \/ Poll
  \/ HostStarts \/ HostCompletes
  \/ Handler

(* Every slice polls the queues, the runtime starts and completes the host *)
(* operation, and the driver serves its interrupt.  Notifications are not  *)
(* assumed.                                                                *)
Fairness ==
  WF_vars(Poll) /\ WF_vars(HostStarts) /\ WF_vars(HostCompletes) /\ WF_vars(Handler)

Spec == Init /\ [][Next]_vars /\ Fairness

-----------------------------------------------------------------------------
(* Chains are answered once each and in order, also when the indices wrap: *)
(* the device has answered as many as it has taken, the driver never sees  *)
(* more answers than requests, and the answers it has not taken yet are    *)
(* for different requests of its own, in the order it made them.           *)
InOrder ==
  ready =>
    /\ lastAvailIdx = usedIdx
    /\ Gap(lastUsed, usedIdx) + Waiting = Cardinality({h \in Heads : kind[h] # "free"})
    /\ \A i \in 0 .. Gap(lastUsed, usedIdx) - 1 :
         LET at == SlotOf(Plus(lastUsed, i)) IN
         /\ used[at] = avail[at]
         /\ kind[used[at]] # "free"

(* The driver never finds an answer whose status byte has not been written *)
(* (a request that gave the device no place for it aside).                 *)
StatusWritten ==
  ready => \A i \in 0 .. Gap(lastUsed, usedIdx) - 1 :
    LET h == used[SlotOf(Plus(lastUsed, i))] IN
    kind[h] # "blind" => status[h] # "none"

(* Every request is answered once, in order and with a status.             *)
AnsweredInOrder == InOrder /\ StatusWritten

(* The place in the used ring that was recorded with the pending request   *)
(* is still the right one when the host answers, and its chain is still    *)
(* the next one of the avail ring.                                         *)
PlaceCurrent ==
  pending # None =>
    /\ ready
    /\ pending.usedIdx = usedIdx
    /\ Waiting > 0 /\ HeadAt(0) = pending.head

(* The operation the host performs is the one the device waits for: guest  *)
(* code, which could reset the device, does not run meanwhile.             *)
HostOpPending == hostOp # 0 => pending # None /\ pending.id = hostOp

(* What was recorded when a host operation began holds when it ends,       *)
(* whatever the guest did to the device in between.                        *)
PendingCurrent == PlaceCurrent /\ HostOpPending

(* Every request is answered although its notification came while another  *)
(* one was pending, or never: the driver gets its chain back.              *)
RequestsReturn ==
  \A h \in Heads : kind[h] # "free" ~> (kind[h] = "free" \/ nextId > MaxId)
=============================================================================
