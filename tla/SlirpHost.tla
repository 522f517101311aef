------------------------------ MODULE SlirpHost ------------------------------
(***************************************************************************)
(* The host side of the guest's network: a libslirp instance driven by a   *)
(* poll thread behind two bounded frame queues                             *)
(* (native/Sources/CLishSlirp/lish_slirp.c), the handle that guards its    *)
(* lifetime (SlirpNetwork.swift) and the WebSocket session that moves      *)
(* frames between the browser and the queues on a serial dispatch queue    *)
(* (RawEthernetWebSocketServer.swift).                                     *)
(*                                                                         *)
(* Threads interleave at every lock: the worker, the session's queue and   *)
(* callers that change port forwards.  A thread that waits on a condition  *)
(* is asleep until it is signalled, then looks again.  Frames are numbers  *)
(* in the order they are made.  What libslirp does with a frame, and when  *)
(* it has one for the guest, is nondeterministic.                          *)
(***************************************************************************)
EXTENDS Integers, Sequences

CONSTANTS
  Callers,     \* threads that add or remove forwards
  Capacity,    \* queue_capacity
  Loads        \* the bounds of a behaviour: [callers, in, out], who calls, and the frames
               \* of the guest and of libslirp

ASSUME SlirpAssumption ==
  /\ Capacity \in Nat \ {0}
  /\ \A l \in Loads : l.callers \subseteq Callers /\ l.in \in Nat /\ l.out \in Nat
  /\ "worker" \notin Callers /\ "none" \notin Callers

VARIABLES
  stopping, input, output,   \* struct lish_slirp
  command,     \* [owner, complete, result]; owner "none" is COMMAND_NONE
  wake,        \* the wake pipe holds a byte
  asleep,      \* threads that wait on one of the two conditions
  worker,      \* [pc, return, command]: its place, where send_packet returns to, its copy
  handle, active, freed,   \* SlirpNetwork: handle, activeOperations, destroyed
  caller,      \* [pc, result] of every caller
  session,     \* [pc, stopped, held, sending, drains]: where its queue is, stopped,
               \* the frame to retry (0 is none), sending, signals on the queue
  inMade, inSeen,     \* frames received from the guest, and handed to libslirp
  outMade, outSent,   \* frames made for the guest, and sent to it
  load                \* the bounds of this behaviour

stateVars == << stopping, input, output, command, wake, asleep >>
lifeVars == << handle, active, freed >>
countVars == << inMade, inSeen, outMade, outSent >>
vars == << stateVars, worker, lifeVars, caller, session, countVars >>

NoCommand == [owner |-> "none", complete |-> FALSE, result |-> "none"]

Init ==
  /\ stopping = FALSE /\ input = << >> /\ output = << >>
  /\ command = NoCommand /\ wake = FALSE /\ asleep = {}
  /\ worker = [pc |-> "top", return |-> "top", command |-> NoCommand]
  /\ handle = TRUE /\ active = 0 /\ freed = FALSE
  /\ caller = [c \in Callers |-> [pc |-> "idle", result |-> "none"]]
  /\ session = [pc |-> "idle", stopped |-> FALSE, held |-> 0, sending |-> FALSE, drains |-> 0]
  /\ inMade = 0 /\ inSeen = 0 /\ outMade = 0 /\ outSent = 0
  /\ load \in Loads

-----------------------------------------------------------------------------
(* The worker thread, run_slirp().                                         *)
WorkerAt(place) == worker.pc = place /\ "worker" \notin asleep
Goes(place) == worker' = [worker EXCEPT !.pc = place]

(* should_stop().                                                          *)
Top ==
  /\ WorkerAt("top")
  /\ Goes(IF stopping THEN "exited" ELSE "input")
  /\ UNCHANGED << stateVars, lifeVars, caller, session, countVars >>

(* process_input(): pop until empty; libslirp may answer a frame.          *)
ProcessInput ==
  /\ WorkerAt("input")
  /\ IF input = << >>
       THEN /\ Goes("command")
            /\ UNCHANGED << input, inSeen >>
       ELSE /\ input' = Tail(input)
            /\ inSeen' = Head(input)
            /\ \/ Goes("input")
               \/ /\ outMade < load.out
                  /\ worker' = [worker EXCEPT !.pc = "send", !.return = "input"]
  /\ UNCHANGED << stopping, output, command, wake, asleep, lifeVars, caller, session,
                  inMade, outMade, outSent >>

(* process_command(): copy the command, perform it, publish the result.    *)
CopyCommand ==
  /\ WorkerAt("command")
  /\ worker' = [worker EXCEPT !.command = command,
       !.pc = IF command.owner = "none" \/ command.complete THEN "poll" ELSE "publish"]
  /\ UNCHANGED << stateVars, lifeVars, caller, session, countVars >>

PublishCommand ==
  /\ WorkerAt("publish")
  /\ command' = [command EXCEPT !.complete = TRUE, !.result = worker.command.owner]
  /\ asleep' = asleep \ Callers
  /\ Goes("poll")
  /\ UNCHANGED << stopping, input, output, wake, lifeVars, caller, session, countVars >>

(* poll() returns because of the wake pipe, which is drained, or because   *)
(* of a socket or a timer; libslirp may then have a frame for the guest    *)
(* (slirp_pollfds_poll(), and fire_due_timers() on the next turn).         *)
PollReturns ==
  /\ WorkerAt("poll")
  /\ wake' = FALSE
  /\ \/ Goes("top")
     \/ /\ outMade < load.out
        /\ worker' = [worker EXCEPT !.pc = "send", !.return = "top"]
  /\ UNCHANGED << stopping, input, output, command, asleep, lifeVars, caller, session,
                  countVars >>

(* send_packet(): wait for room, push; tell the session of the first frame *)
(* once the lock is released.                                              *)
SendPacket ==
  /\ WorkerAt("send")
  /\ \/ /\ stopping
        /\ Goes(worker.return)
        /\ UNCHANGED << output, asleep, outMade >>
     \/ /\ ~stopping /\ Len(output) = Capacity
        /\ asleep' = asleep \cup {"worker"}
        /\ UNCHANGED << worker, output, outMade >>
     \/ /\ ~stopping /\ Len(output) < Capacity
        /\ output' = Append(output, outMade + 1)
        /\ outMade' = outMade + 1
        /\ Goes(IF output = << >> THEN "signal" ELSE worker.return)
        /\ UNCHANGED asleep
  /\ UNCHANGED << stopping, input, command, wake, lifeVars, caller, session,
                  inMade, inSeen, outSent >>

(* output_ready(): queue.async of the session's sendNextFrame().           *)
SignalOutput ==
  /\ WorkerAt("signal")
  /\ session' = [session EXCEPT !.drains = @ + 1]
  /\ Goes(worker.return)
  /\ UNCHANGED << stateVars, lifeVars, caller, countVars >>

WorkerStep ==
  \/ Top \/ ProcessInput \/ CopyCommand \/ PublishCommand \/ SendPacket \/ SignalOutput
  \/ wake /\ PollReturns

-----------------------------------------------------------------------------
(* execute_forward_command(), or lish_slirp_get_stats(), inside            *)
(* withHandle().                                                           *)
CallerAt(c, place) == caller[c].pc = place /\ c \notin asleep
CallerGoes(c, place) == caller' = [caller EXCEPT ![c].pc = place]

EnterHandle(c) ==
  /\ CallerAt(c, "idle")
  /\ IF handle
       THEN active' = active + 1 /\ \E op \in {"claim", "stats"} : CallerGoes(c, op)
       ELSE caller' = [caller EXCEPT ![c] = [pc |-> "done", result |-> "stopped"]] /\ UNCHANGED active
  /\ UNCHANGED << stateVars, worker, handle, freed, session, countVars >>

PlaceCommand(c) ==
  /\ CallerAt(c, "claim")
  /\ \/ /\ stopping
        /\ caller' = [caller EXCEPT ![c] = [pc |-> "leave", result |-> "stopped"]]
        /\ UNCHANGED << command, asleep >>
     \/ /\ ~stopping /\ command.owner # "none"
        /\ asleep' = asleep \cup {c}
        /\ UNCHANGED << command, caller >>
     \/ /\ ~stopping /\ command.owner = "none"
        /\ command' = [NoCommand EXCEPT !.owner = c]
        /\ CallerGoes(c, "wake")
        /\ UNCHANGED asleep
  /\ UNCHANGED << stopping, input, output, wake, worker, lifeVars, session, countVars >>

WakeWorker(c) ==
  /\ CallerAt(c, "wake")
  /\ wake' = TRUE
  /\ CallerGoes(c, "await")
  /\ UNCHANGED << stopping, input, output, command, asleep, worker, lifeVars, session, countVars >>

AwaitCommand(c) ==
  /\ CallerAt(c, "await")
  /\ \/ /\ ~command.complete /\ ~stopping
        /\ asleep' = asleep \cup {c}
        /\ UNCHANGED << command, caller >>
     \/ /\ command.complete \/ stopping
        /\ caller' = [caller EXCEPT ![c] =
             [pc |-> "leave", result |-> IF stopping THEN "stopped" ELSE command.result]]
        /\ command' = NoCommand
        /\ asleep' = asleep \ Callers
  /\ UNCHANGED << stopping, input, output, wake, worker, lifeVars, session, countVars >>

LeaveHandle(c) ==
  /\ CallerAt(c, "leave")
  /\ active' = active - 1
  /\ CallerGoes(c, "done")
  /\ UNCHANGED << stateVars, worker, handle, freed, session, countVars >>

GetStats(c) ==
  /\ CallerAt(c, "stats")
  /\ caller' = [caller EXCEPT ![c] = [pc |-> "leave", result |-> "stats"]]
  /\ UNCHANGED << stateVars, worker, lifeVars, session, countVars >>

(* Callers come again.                                                     *)
CallAgain(c) ==
  /\ CallerAt(c, "done")
  /\ handle
  /\ caller' = [caller EXCEPT ![c] = [pc |-> "idle", result |-> "none"]]
  /\ UNCHANGED << stateVars, worker, lifeVars, session, countVars >>

CallerStep(c) ==
  PlaceCommand(c) \/ WakeWorker(c) \/ AwaitCommand(c) \/ GetStats(c) \/ LeaveHandle(c)

-----------------------------------------------------------------------------
(* RawEthernetSession: blocks of one serial queue, which interleave with   *)
(* the worker and the callers at their locks but never with each other     *)
(* (so its own withHandle() never meets its stop()).                       *)
QueueFree == session.pc = "idle"

(* Mutant: a frame that finds the queue full is forgotten.                 *)
AcceptOrForget(frame) ==
  /\ IF Len(input) < Capacity /\ ~stopping
       THEN /\ input' = Append(input, frame)
            /\ session' = [session EXCEPT !.pc = "wake", !.held = 0]
       ELSE /\ session' = [session EXCEPT !.held = 0]
            /\ UNCHANGED input
  /\ UNCHANGED << stopping, output, command, wake, asleep, worker, lifeVars, caller,
                  inSeen, outMade, outSent >>

(* acceptOrRetry(): lish_slirp_input(), or the same again after 1 ms.      *)
AcceptOrRetry(frame) ==
  /\ IF Len(input) < Capacity /\ ~stopping
       THEN /\ input' = Append(input, frame)
            /\ session' = [session EXCEPT !.pc = "wake", !.held = 0]
       ELSE /\ session' = [session EXCEPT !.held = frame]
            /\ UNCHANGED input
  /\ UNCHANGED << stopping, output, command, wake, asleep, worker, lifeVars, caller,
                  inSeen, outMade, outSent >>

(* receiveNextFrame(): one receive is outstanding unless a frame is held.  *)
ReceiveFrame ==
  /\ QueueFree /\ ~session.stopped /\ session.held = 0
  /\ inMade < load.in
  /\ inMade' = inMade + 1
  /\ AcceptOrRetry(inMade + 1)

RetryFrame ==
  /\ QueueFree /\ ~session.stopped /\ session.held # 0
  /\ AcceptOrRetry(session.held)
  /\ UNCHANGED inMade

WakeForInput ==
  /\ session.pc = "wake"
  /\ wake' = TRUE
  /\ session' = [session EXCEPT !.pc = "idle"]
  /\ UNCHANGED << stopping, input, output, command, asleep, worker, lifeVars, caller, countVars >>

(* sendNextFrame() in session state s: pop one frame, make room for the    *)
(* worker, start the send.                                                 *)
SendNextFrame(s) ==
  IF s.stopped \/ s.sending \/ output = << >>
    THEN session' = s /\ UNCHANGED << output, asleep, outSent >>
    ELSE /\ session' = [s EXCEPT !.sending = TRUE]
         /\ output' = Tail(output)
         /\ outSent' = Head(output)
         /\ asleep' = asleep \ {"worker"}

(* A block that output_ready() put on the queue.                           *)
Drain ==
  /\ QueueFree /\ session.drains > 0
  /\ SendNextFrame([session EXCEPT !.drains = @ - 1])
  /\ UNCHANGED << stopping, input, command, wake, worker, lifeVars, caller,
                  inMade, inSeen, outMade >>

(* finish() in session state s, up to network.stop() taking the handle.    *)
Finish(s) ==
  IF s.stopped
    THEN session' = s /\ UNCHANGED handle
    ELSE session' = [s EXCEPT !.stopped = TRUE, !.pc = "halt"] /\ handle' = FALSE

(* Mutant: the next frame is not looked for when a send ends.              *)
SendCompletedOnly ==
  /\ QueueFree /\ session.sending
  /\ session' = [session EXCEPT !.sending = FALSE]
  /\ UNCHANGED << stateVars, worker, lifeVars, caller, countVars >>

SendCompleted ==
  /\ QueueFree /\ session.sending
  /\ \/ SendNextFrame([session EXCEPT !.sending = FALSE]) /\ UNCHANGED handle
     \/ /\ Finish([session EXCEPT !.sending = FALSE])
        /\ UNCHANGED << output, asleep, outSent >>
  /\ UNCHANGED << stopping, input, command, wake, worker, active, freed, caller,
                  inMade, inSeen, outMade >>

(* The peer closes or fails, a frame is malformed, or the server stops or  *)
(* replaces the session.                                                   *)
SessionStop ==
  /\ QueueFree /\ ~session.stopped
  /\ Finish(session)
  /\ UNCHANGED << stateVars, worker, active, freed, caller, countVars >>

(* Mutant: the waiting threads are not woken.                              *)
HaltQuietly ==
  /\ session.pc = "halt"
  /\ stopping' = TRUE
  /\ session' = [session EXCEPT !.pc = "rouse"]
  /\ UNCHANGED << input, output, command, wake, asleep, worker, lifeVars, caller, countVars >>

(* lish_slirp_stop(): both broadcasts, then the wake pipe.                 *)
Halt ==
  /\ session.pc = "halt"
  /\ stopping' = TRUE
  /\ asleep' = {}
  /\ session' = [session EXCEPT !.pc = "rouse"]
  /\ UNCHANGED << input, output, command, wake, worker, lifeVars, caller, countVars >>

Rouse ==
  /\ session.pc = "rouse"
  /\ wake' = TRUE
  /\ session' = [session EXCEPT !.pc = "settle"]
  /\ UNCHANGED << stopping, input, output, command, asleep, worker, lifeVars, caller, countVars >>

(* Mutant: stop() does not wait for the operations under way.              *)
SettleAtOnce ==
  /\ session.pc = "settle"
  /\ session' = [session EXCEPT !.pc = "join"]
  /\ UNCHANGED << stateVars, worker, lifeVars, caller, countVars >>

(* while activeOperations != 0 { lifecycle.wait() }.                       *)
Settle ==
  /\ session.pc = "settle" /\ active = 0
  /\ session' = [session EXCEPT !.pc = "join"]
  /\ UNCHANGED << stateVars, worker, lifeVars, caller, countVars >>

(* lish_slirp_destroy(): join the worker and free everything.              *)
Destroy ==
  /\ session.pc = "join" /\ worker.pc = "exited"
  /\ freed' = TRUE
  /\ session' = [session EXCEPT !.pc = "idle"]
  /\ UNCHANGED << stateVars, worker, handle, active, caller, countVars >>

StopStep == Halt \/ Rouse \/ Settle \/ Destroy

Step ==
  \/ Top \/ ProcessInput \/ CopyCommand \/ PublishCommand \/ PollReturns \/ SendPacket
  \/ SignalOutput
  \/ \E c \in load.callers : EnterHandle(c) \/ CallAgain(c) \/ CallerStep(c)
  \/ ReceiveFrame \/ RetryFrame \/ WakeForInput \/ Drain \/ SendCompleted \/ SessionStop
  \/ StopStep

Next == Step /\ UNCHANGED load

(* Threads run, the queue runs its blocks in order, a send ends.           *)
Fairness ==
  /\ WF_vars(WorkerStep)
  /\ \A c \in Callers : WF_vars(CallerStep(c))
  /\ WF_vars(RetryFrame) /\ WF_vars(WakeForInput)
  /\ WF_vars(Drain) /\ WF_vars(SendCompleted)
  /\ WF_vars(StopStep)

Spec == Init /\ [][Next]_<< vars, load >> /\ Fairness

-----------------------------------------------------------------------------
(* The numbers a + 1 .. b in order.                                        *)
Numbered(a, b) == [i \in 1..(b - a) |-> a + i]

(* No frame is lost, duplicated or reordered on its way through the two    *)
(* queues, backpressure and retries included: what waits is exactly what   *)
(* has been made and not yet taken.                                        *)
FramesInOrder ==
  /\ input \o (IF session.held = 0 THEN << >> ELSE << session.held >>) = Numbered(inSeen, inMade)
  /\ output = Numbered(outSent, outMade)

(* A caller gets the result of its own command, never of another caller's, *)
(* or is told that the network has stopped.                                *)
CommandAnswered ==
  \A c \in Callers : caller[c].result \in {"none", "stopped", "stats", c}

(* When destroy() frees the state, no caller is inside withHandle() and    *)
(* the worker has left run_slirp().                                        *)
NoUseAfterFree ==
  freed => /\ worker.pc = "exited"
           /\ \A c \in Callers : caller[c].pc \in {"idle", "done"}

(* Callers on other threads are safe: their results and the state they use *)
(* stay theirs.                                                            *)
CallersSafe == CommandAnswered /\ NoUseAfterFree

(* Every frame of the guest reaches libslirp unless the session stops.     *)
InputDelivered ==
  (inSeen < inMade) ~> (inSeen = inMade \/ session.stopped)

(* Every frame of libslirp is sent unless the session stops.               *)
OutputDelivered ==
  (outSent < outMade) ~> (outSent = outMade \/ session.stopped)

(* Frames get through in both directions.                                  *)
FramesDelivered == InputDelivered /\ OutputDelivered

(* A command that has been placed is answered, also when the worker is     *)
(* held back by a full output queue.                                       *)
CommandsReturn ==
  \A c \in Callers : (caller[c].pc = "wake") ~> (caller[c].pc = "leave")

(* stop() returns: nobody waits for ever, whatever every thread was doing. *)
StopFinishes ==
  session.stopped ~> freed

(* Every call that blocks a thread comes back.                             *)
ThreadsReturn == CommandsReturn /\ StopFinishes
=============================================================================
