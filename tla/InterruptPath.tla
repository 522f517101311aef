--------------------------- MODULE InterruptPath -----------------------------
(***************************************************************************)
(* External interrupts of the virt machine: the UART and a virtio device   *)
(* drive level-triggered lines, the PLIC (crates/rv64-system/src/virt.rs)  *)
(* arbitrates them for the supervisor, and the hart samples the PLIC every *)
(* IRQ_POLL_INTERVAL instructions (Cpu::check_interrupts), so that what    *)
(* the guest claims is decided on lines as they were at the last sample.   *)
(*                                                                         *)
(* The guest is the part of a kernel that matters here: a trap handler     *)
(* that claims until nothing is left, an 8250 driver with interrupt-driven *)
(* transmission and a virtio driver that acknowledges its device.          *)
(***************************************************************************)
EXTENDS Integers, FiniteSets, FiniteSetsExt

CONSTANTS
  MaxTyped,     \* bound: bytes of console input
  MaxTx,        \* bytes the guest transmits at a time
  Priorities,   \* values of the priority registers
  Thresholds    \* values of the threshold register

ASSUME PathAssumption ==
  /\ MaxTyped \in Nat /\ MaxTx \in Nat
  /\ Priorities \subseteq Nat /\ Thresholds \subseteq Nat

VARIABLES
  plic,       \* Plic: [pending, claimed, enable, priority, threshold]
  uart,       \* Uart: [rx, thre, ierRx, ierTx], ier by its bits 0 and 1
  virtio,     \* int_status of the virtio device
  typed,      \* bytes of console input so far
  pc,         \* the guest: "run", or in its handler "claim", "handle", "complete"
  serving,    \* the source it claimed
  backlog,    \* bytes its tty has to transmit
  request     \* it waits for a virtio request

driverVars == << pc, serving, backlog, request >>
vars == << plic, uart, virtio, typed, driverVars >>

UART == 10      \* UART_IRQ
VIRTIO == 1     \* VIRTIO_IRQ_BASE
Sources == {VIRTIO, UART}

NewUart == [rx |-> 0, thre |-> FALSE, ierRx |-> FALSE, ierTx |-> FALSE]
NewPlic == [pending |-> {}, claimed |-> {}, enable |-> {},
            priority |-> [s \in Sources |-> 0], threshold |-> 0]

Init ==
  /\ plic = NewPlic
  /\ uart = NewUart
  /\ virtio = FALSE
  /\ typed = 0
  /\ pc = "run" /\ serving = 0 /\ backlog = 0 /\ request = FALSE

-----------------------------------------------------------------------------
(* The UART's registers.  Mutant: a byte that is sent does not raise the   *)
(* next THR-empty interrupt.                                               *)
WriteThrQuiet(u) == u

(* Enabling THR-empty interrupts raises one at once.                       *)
WriteIer(u, r, t) ==
  [u EXCEPT !.ierRx = r, !.ierTx = t, !.thre = u.thre \/ (t /\ ~u.ierTx)]

(* A byte is transmitted instantly: THR is empty again.                    *)
WriteThr(u) == [u EXCEPT !.thre = u.thre \/ u.ierTx]

Reception(u) == u.ierRx /\ u.rx > 0

(* IIR reports reception first and acknowledges THR-empty by reporting it. *)
ReadIir(u) == IF Reception(u) THEN u ELSE [u EXCEPT !.thre = FALSE]

(* Uart::irq().                                                            *)
UartIrq(u) == Reception(u) \/ u.thre

(* refresh_plic(): the lines as they are now.                              *)
Lines ==
  (IF UartIrq(uart) THEN {UART} ELSE {}) \cup (IF virtio THEN {VIRTIO} ELSE {})

Eligible(p) ==
  {s \in (p.pending \cap p.enable) \ p.claimed : p.priority[s] > p.threshold}

(* Plic::best(): the highest priority wins, the later source on a tie.     *)
Best(p) ==
  LET top == {s \in Eligible(p) : \A t \in Eligible(p) : p.priority[t] <= p.priority[s]}
  IN IF top = {} THEN 0 ELSE Max(top)

-----------------------------------------------------------------------------
(* The kernel's set-up of the controller.                                  *)
WritePlic(p) ==
  /\ pc = "run"
  /\ plic' = p
  /\ UNCHANGED << uart, virtio, typed, driverVars >>

SetPriority(s, value) == WritePlic([plic EXCEPT !.priority[s] = value])
SetEnable(sources) == WritePlic([plic EXCEPT !.enable = sources])
SetThreshold(value) == WritePlic([plic EXCEPT !.threshold = value])

Sampled == [plic EXCEPT !.pending = Lines]

(* check_interrupts(): the lines are sampled; SEIP traps into the handler. *)
Poll ==
  /\ plic' = Sampled
  /\ pc' = IF pc = "run" /\ Best(Sampled) # 0 THEN "claim" ELSE pc
  /\ UNCHANGED << uart, virtio, typed, serving, backlog, request >>

Claimed == [plic EXCEPT !.claimed = @ \cup ({Best(plic)} \ {0})]

(* Read of the claim register.  Nothing to claim: the handler returns.     *)
Claim ==
  /\ pc = "claim"
  /\ serving' = Best(plic)
  /\ plic' = Claimed
  /\ pc' = IF Best(plic) = 0 THEN "run" ELSE "handle"
  /\ UNCHANGED << uart, virtio, typed, backlog, request >>

Completed == [plic EXCEPT !.claimed = @ \ {serving}]

(* Write of the claim register: the source is served.                      *)
Complete ==
  /\ pc = "complete"
  /\ plic' = Completed
  /\ pc' = "claim"
  /\ serving' = 0
  /\ UNCHANGED << uart, virtio, typed, backlog, request >>

-----------------------------------------------------------------------------
(* uart_input(): console input from the host.                              *)
UartInput ==
  /\ typed < MaxTyped
  /\ typed' = typed + 1
  /\ uart' = [uart EXCEPT !.rx = @ + 1]
  /\ UNCHANGED << plic, virtio, driverVars >>

(* The 8250 driver opens or closes the port, or starts to transmit.        *)
SetReception(on) ==
  /\ pc = "run"
  /\ uart' = WriteIer(uart, on, uart.ierTx)
  /\ UNCHANGED << plic, virtio, typed, driverVars >>

StartTx(n) ==
  /\ pc = "run"
  /\ backlog = 0
  /\ backlog' = n
  /\ uart' = WriteIer(uart, uart.ierRx, TRUE)
  /\ UNCHANGED << plic, virtio, typed, pc, serving, request >>

(* Its handler: read all input; or send the next byte and stop             *)
(* transmission after the last one; or find nothing.                       *)
HandleReception ==
  /\ Reception(uart)
  /\ uart' = [ReadIir(uart) EXCEPT !.rx = 0]
  /\ UNCHANGED backlog

HandleTransmission ==
  LET told == ReadIir(uart) IN
  /\ ~Reception(uart) /\ uart.thre
  /\ backlog' = IF backlog = 0 THEN 0 ELSE backlog - 1
  /\ uart' = IF backlog = 0 THEN WriteIer(told, uart.ierRx, FALSE)
             ELSE IF backlog = 1 THEN WriteIer(WriteThr(told), uart.ierRx, FALSE)
             ELSE WriteThr(told)

HandleNothing ==
  /\ ~UartIrq(uart)
  /\ uart' = ReadIir(uart)
  /\ UNCHANGED backlog

HandleUart ==
  /\ pc = "handle" /\ serving = UART
  /\ HandleReception \/ HandleTransmission \/ HandleNothing
  /\ pc' = "complete"
  /\ UNCHANGED << plic, virtio, typed, serving, request >>

(* The virtio driver submits a request, the device answers, the handler    *)
(* acknowledges the interrupt.                                             *)
Submit ==
  /\ pc = "run" /\ ~request
  /\ request' = TRUE
  /\ UNCHANGED << plic, uart, virtio, typed, pc, serving, backlog >>

Answer ==
  /\ request /\ ~virtio
  /\ virtio' = TRUE
  /\ UNCHANGED << plic, uart, typed, driverVars >>

HandleVirtio ==
  /\ pc = "handle" /\ serving = VIRTIO
  /\ pc' = "complete"
  /\ virtio' = FALSE
  /\ request' = (request /\ ~virtio)
  /\ UNCHANGED << plic, uart, typed, serving, backlog >>

Handler == Claim \/ HandleUart \/ HandleVirtio \/ Complete

Next ==
  \/ \E s \in Sources, value \in Priorities : SetPriority(s, value)
  \/ \E sources \in SUBSET Sources : SetEnable(sources)
  \/ \E value \in Thresholds : SetThreshold(value)
  \/ Poll
  \/ UartInput
  \/ \E on \in BOOLEAN : SetReception(on)
  \/ \E n \in 1 .. MaxTx : StartTx(n)
  \/ Submit \/ Answer
  \/ Handler

(* The hart goes on executing, so it samples the lines and its handler     *)
(* proceeds; the device answers.                                           *)
Spec == Init /\ [][Next]_vars /\ WF_vars(Poll) /\ WF_vars(Handler) /\ WF_vars(Answer)

-----------------------------------------------------------------------------
Unmasked(s) == s \in plic.enable /\ plic.priority[s] > plic.threshold

(* Interrupts are served, although lines are only sampled now and then and *)
(* come up while the handler is busy, unless the guest masks them: console *)
(* input is read, a virtio completion reaches its driver, and the guest    *)
(* gets to send what it has, a THR-empty interrupt per byte.               *)
InterruptsServed ==
  /\ uart.rx > 0 ~> (uart.rx = 0 \/ ~uart.ierRx \/ ~Unmasked(UART))
  /\ virtio ~> (~virtio \/ ~Unmasked(VIRTIO))
  /\ backlog > 0 ~> (backlog = 0 \/ ~uart.ierTx \/ ~Unmasked(UART))
=============================================================================
