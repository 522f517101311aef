---------------------------- MODULE SlirpHostProofs ----------------------------
(***************************************************************************)
(* Proofs about SlirpHost for every set of callers, every capacity of the  *)
(* two queues and any number of frames: the queues keep the order of the   *)
(* frames and lose none, a caller never sees another caller's answer, and  *)
(* destroy() frees the state only when nobody can use it any more.         *)
(***************************************************************************)
EXTENDS SlirpHost, TLAPS, FiniteSetTheorems, SequenceTheorems

(* Places of the three kinds of thread.                                    *)
WorkerPlaces == {"top", "input", "command", "publish", "poll", "send", "signal", "exited"}
CallerPlaces == {"idle", "claim", "wake", "await", "stats", "leave", "done"}
SessionPlaces == {"idle", "wake", "halt", "rouse", "settle", "join"}

Commands == [owner : Callers \cup {"none"}, complete : BOOLEAN,
             result : Callers \cup {"none"}]

CallerStates ==
  [pc : CallerPlaces, result : Callers \cup {"none", "stopped", "stats"}]

SessionStates ==
  [pc : SessionPlaces, stopped : BOOLEAN, held : Nat, sending : BOOLEAN, drains : Nat]

(* Type invariant of the fields the proofs speak of.                       *)
TypeOK ==
  /\ stopping \in BOOLEAN /\ handle \in BOOLEAN /\ freed \in BOOLEAN
  /\ command \in Commands
  /\ worker \in [pc : WorkerPlaces, return : {"top", "input"}, command : Commands]
  /\ caller \in [Callers -> CallerStates]
  /\ session \in SessionStates
  /\ inMade \in Nat /\ outMade \in Nat
  /\ load \in Loads

-----------------------------------------------------------------------------
(* The two frame queues.                                                   *)

(* A numbered sequence as the queues see it: its length, its head, what    *)
(* is left when the head is taken, and what one more frame makes of it.    *)
LEMMA AppendDiffers ==
  ASSUME NEW s \in Seq(Nat), NEW x \in Nat
  PROVE  s # Append(s, x)
  <1>1. Len(Append(s, x)) = Len(s) + 1 /\ Len(s) \in Nat
    OBVIOUS
  <1> QED BY <1>1

LEMMA NumberedProperties ==
  ASSUME NEW a \in Nat, NEW b \in Nat, a <= b
  PROVE  /\ Numbered(a, b) \in Seq(Nat)
         /\ Len(Numbered(a, b)) = b - a
         /\ Numbered(a, b) = << >> <=> a = b
         /\ Append(Numbered(a, b), b + 1) = Numbered(a, b + 1)
         /\ a < b => /\ Head(Numbered(a, b)) = a + 1
                     /\ Tail(Numbered(a, b)) = Numbered(a + 1, b)
  <1> DEFINE s == Numbered(a, b)
  <1>1. s = [i \in 1 .. (b - a) |-> a + i] /\ b - a \in Nat
    BY DEF Numbered
  <1>2. s \in Seq(Nat) /\ Len(s) = b - a
    BY <1>1
  <1>3. s = << >> <=> a = b
    BY <1>1, <1>2
  <1>4. Append(s, b + 1) = Numbered(a, b + 1)
    BY <1>1, <1>2 DEF Numbered
  <1>5. ASSUME a < b
        PROVE  Head(s) = a + 1 /\ Tail(s) = Numbered(a + 1, b)
    <2>1. /\ Tail(s) \in Seq(Nat) /\ Len(Tail(s)) = b - (a + 1)
          /\ \A i \in 1 .. Len(Tail(s)) : Tail(s)[i] = s[i + 1]
      BY <1>2, <1>3, <1>5, HeadTailProperties
    <2>2. /\ Numbered(a + 1, b) \in Seq(Nat) /\ Len(Numbered(a + 1, b)) = b - (a + 1)
          /\ \A i \in 1 .. b - (a + 1) : Numbered(a + 1, b)[i] = a + 1 + i
      BY <1>5 DEF Numbered
    <2>3. \A i \in 1 .. Len(Tail(s)) : Tail(s)[i] = Numbered(a + 1, b)[i]
      BY <1>1, <2>1, <2>2
    <2>4. Tail(s) = Numbered(a + 1, b)
      <3> DEFINE t == Tail(s)
                 u == Numbered(a + 1, b)
      <3>1. t \in Seq(Nat) /\ u \in Seq(Nat) /\ Len(t) = Len(u)
        BY <2>1, <2>2
      <3>2. \A i \in 1 .. Len(t) : t[i] = u[i]
        BY <2>3
      <3> HIDE DEF t, u
      <3>3. t = u
        BY <3>1, <3>2, SeqEqual
      <3> QED BY <3>3 DEF t, u
    <2>5. Head(s) = a + 1
      BY <1>1, <1>2, <1>5
    <2> QED BY <2>4, <2>5
  <1> QED BY <1>2, <1>3, <1>4, <1>5

(* The frames lish_slirp_input() has accepted: all but the one held.       *)
Accepted == IF session.held = 0 THEN inMade ELSE inMade - 1

(* What waits in a queue is numbered, and a held frame is the last one     *)
(* received.                                                               *)
QueuesNumbered ==
  /\ session.held \in {0, inMade}
  /\ inSeen \in Nat /\ inSeen <= Accepted /\ input = Numbered(inSeen, Accepted)
  /\ outSent \in Nat /\ outSent <= outMade /\ output = Numbered(outSent, outMade)

-----------------------------------------------------------------------------
(* The callers.                                                            *)

(* Threads inside withHandle().                                            *)
Inside == {c \in Callers : caller[c].pc \notin {"idle", "done"}}

(* While the network is up, the one command slot is held by the caller     *)
(* that waits for it; the worker performs that caller's command and the    *)
(* result it publishes is for that caller.                                 *)
SlotOwned ==
  /\ \A c \in Callers :
       caller[c].result \in {"none", "stopped", "stats", c}
  /\ ~stopping =>
       /\ \A c \in Callers : caller[c].pc \in {"wake", "await"} <=> command.owner = c
       /\ command.complete => command.result = command.owner
       /\ worker.pc = "publish" => /\ ~command.complete
                                   /\ command.owner # "none"
                                   /\ worker.command.owner = command.owner

(* activeOperations counts the callers inside; the handle is taken before  *)
(* stop() begins, stop() goes on to destroy() when they have all left, and *)
(* the state is freed after the worker's end.                              *)
LifeGuarded ==
  /\ IsFiniteSet(Inside) /\ active = Cardinality(Inside)
  /\ session.pc \in {"halt", "rouse", "settle", "join"} => session.stopped
  /\ session.stopped => ~handle
  /\ session.pc = "join" \/ freed => active = 0 /\ session.stopped
  /\ freed => worker.pc = "exited"

IInv == TypeOK /\ QueuesNumbered /\ SlotOwned /\ LifeGuarded

-----------------------------------------------------------------------------
LEMMA InitIInv == Init => IInv
  <1> SUFFICES ASSUME Init PROVE IInv
    OBVIOUS
  <1> USE DEF Init
  <1>1. TypeOK
    BY DEF TypeOK, Commands, NoCommand, WorkerPlaces, CallerStates, CallerPlaces,
       SessionStates, SessionPlaces
  <1>2. QueuesNumbered
    BY NumberedProperties DEF QueuesNumbered, Accepted
  <1>3. SlotOwned
    BY SlirpAssumption DEF SlirpAssumption, SlotOwned, NoCommand
  <1>4. LifeGuarded
    <2>1. Inside = {}
      BY DEF Inside
    <2> QED BY <2>1, FS_EmptySet DEF LifeGuarded
  <1> QED BY <1>1, <1>2, <1>3, <1>4 DEF IInv

(* The steps of the worker, of a caller, and of the session's queue.       *)
WorkerActs ==
  Top \/ ProcessInput \/ CopyCommand \/ PublishCommand \/ PollReturns \/ SendPacket
  \/ SignalOutput

CallerActs(c) == EnterHandle(c) \/ CallAgain(c) \/ CallerStep(c)

SessionActs ==
  ReceiveFrame \/ RetryFrame \/ WakeForInput \/ Drain \/ SendCompleted \/ SessionStop
  \/ StopStep

LEMMA WorkerTypes ==
  ASSUME TypeOK, WorkerActs, UNCHANGED load
  PROVE  TypeOK'
  <1> USE DEF TypeOK, WorkerPlaces, Goes, stateVars, lifeVars, countVars
  <1>1. CASE Top
    BY <1>1 DEF Top
  <1>2. CASE ProcessInput
    BY <1>2 DEF ProcessInput
  <1>3. CASE CopyCommand
    BY <1>3 DEF CopyCommand
  <1>4. CASE PublishCommand
    BY <1>4 DEF PublishCommand, Commands
  <1>5. CASE PollReturns
    BY <1>5 DEF PollReturns
  <1>6. CASE SendPacket
    BY <1>6 DEF SendPacket
  <1>7. CASE SignalOutput
    BY <1>7 DEF SignalOutput, SessionStates, SessionPlaces
  <1> QED BY <1>1, <1>2, <1>3, <1>4, <1>5, <1>6, <1>7 DEF WorkerActs

LEMMA CallerTypes ==
  ASSUME TypeOK, NEW c \in Callers, CallerActs(c), UNCHANGED load
  PROVE  TypeOK'
  <1> USE DEF TypeOK, CallerStates, CallerPlaces, CallerGoes, stateVars, lifeVars, countVars
  <1>1. CASE EnterHandle(c)
    BY <1>1 DEF EnterHandle
  <1>2. CASE CallAgain(c)
    BY <1>2 DEF CallAgain
  <1>3. CASE PlaceCommand(c)
    <2>1. caller' \in [Callers -> CallerStates]
      BY <1>3 DEF PlaceCommand
    <2>2. command' \in Commands
      <3>1. [NoCommand EXCEPT !.owner = c] \in Commands
        BY DEF NoCommand, Commands
      <3> QED BY <1>3, <3>1 DEF PlaceCommand
    <2> QED BY <1>3, <2>1, <2>2 DEF PlaceCommand
  <1>4. CASE WakeWorker(c)
    BY <1>4 DEF WakeWorker
  <1>5. CASE AwaitCommand(c)
    <2>1. command.result \in Callers \cup {"none"}
      BY DEF Commands
    <2>2. caller' \in [Callers -> CallerStates]
      <3>1. CASE caller' = caller
        BY <3>1
      <3>2. CASE caller' = [caller EXCEPT ![c] =
               [pc |-> "leave", result |-> IF stopping THEN "stopped" ELSE command.result]]
        BY <2>1, <3>2
      <3> QED BY <1>5, <3>1, <3>2 DEF AwaitCommand
    <2>3. command' \in Commands
      <3>1. NoCommand \in Commands
        BY DEF NoCommand, Commands
      <3> QED BY <1>5, <3>1 DEF AwaitCommand
    <2> HIDE DEF CallerStates
    <2> QED BY <1>5, <2>2, <2>3 DEF AwaitCommand
  <1>6. CASE GetStats(c)
    BY <1>6 DEF GetStats
  <1>7. CASE LeaveHandle(c)
    BY <1>7 DEF LeaveHandle
  <1> QED BY <1>1, <1>2, <1>3, <1>4, <1>5, <1>6, <1>7 DEF CallerActs, CallerStep

LEMMA SessionTypes ==
  ASSUME TypeOK, SessionActs, UNCHANGED load
  PROVE  TypeOK'
  <1> USE DEF TypeOK, SessionStates, SessionPlaces, stateVars, lifeVars, countVars
  <1>1. ASSUME NEW f \in Nat, AcceptOrRetry(f)
        PROVE  session' \in SessionStates
    <2>1. CASE session' = [session EXCEPT !.pc = "wake", !.held = 0]
      BY <2>1
    <2>2. CASE session' = [session EXCEPT !.held = f]
      BY <2>2
    <2> QED BY <1>1, <2>1, <2>2 DEF AcceptOrRetry
  <1>2. ASSUME NEW t \in SessionStates, SendNextFrame(t)
        PROVE  session' \in SessionStates
    BY <1>2 DEF SendNextFrame
  <1>3. CASE ReceiveFrame
    <2>1. AcceptOrRetry(inMade + 1) /\ inMade' \in Nat /\ inMade + 1 \in Nat
      BY <1>3 DEF ReceiveFrame
    <2>2. session' \in SessionStates
      BY <1>1, <2>1
    <2> HIDE DEF SessionStates
    <2> QED BY <2>1, <2>2 DEF AcceptOrRetry
  <1>4. CASE RetryFrame
    <2>1. AcceptOrRetry(session.held) /\ inMade' \in Nat /\ session.held \in Nat
      BY <1>4 DEF RetryFrame
    <2>2. session' \in SessionStates
      BY <1>1, <2>1
    <2> HIDE DEF SessionStates
    <2> QED BY <2>1, <2>2 DEF AcceptOrRetry
  <1>5. CASE WakeForInput
    BY <1>5 DEF WakeForInput
  <1>6. CASE Drain
    <2>1. [session EXCEPT !.drains = @ - 1] \in SessionStates
      BY <1>6 DEF Drain
    <2>2. session' \in SessionStates
      BY <1>6, <1>2, <2>1 DEF Drain
    <2> HIDE DEF SessionStates
    <2> QED BY <1>6, <2>2 DEF Drain
  <1>7. CASE SendCompleted
    <2>1. [session EXCEPT !.sending = FALSE] \in SessionStates
      OBVIOUS
    <2>2. session' \in SessionStates /\ handle' \in BOOLEAN
      <3>1. CASE SendNextFrame([session EXCEPT !.sending = FALSE]) /\ UNCHANGED handle
        BY <1>2, <2>1, <3>1
      <3>2. CASE Finish([session EXCEPT !.sending = FALSE])
        BY <2>1, <3>2 DEF Finish
      <3> QED BY <1>7, <3>1, <3>2 DEF SendCompleted
    <2> HIDE DEF SessionStates
    <2> QED BY <1>7, <2>2 DEF SendCompleted
  <1>8. CASE SessionStop
    BY <1>8 DEF SessionStop, Finish
  <1>9. CASE StopStep
    BY <1>9 DEF StopStep, Halt, Rouse, Settle, Destroy
  <1> QED BY <1>3, <1>4, <1>5, <1>6, <1>7, <1>8, <1>9 DEF SessionActs

-----------------------------------------------------------------------------
(* A step that moves no frame.                                             *)
LEMMA QueuesLeft ==
  ASSUME QueuesNumbered, session'.held = session.held,
         UNCHANGED << input, output, inMade, inSeen, outMade, outSent >>
  PROVE  QueuesNumbered'
  BY DEF QueuesNumbered, Accepted

(* The worker takes the oldest frame of the guest and appends the newest   *)
(* of libslirp.                                                            *)
LEMMA WorkerQueues ==
  ASSUME TypeOK, QueuesNumbered, WorkerActs
  PROVE  QueuesNumbered'
  <1>1. CASE ProcessInput /\ input # << >>
    <2>1. inSeen < Accepted /\ Accepted \in Nat
      <3>1. Accepted \in Nat
        BY DEF QueuesNumbered, Accepted, TypeOK
      <3>2. inSeen # Accepted
        BY <1>1, <3>1, NumberedProperties DEF QueuesNumbered
      <3> QED BY <3>1, <3>2 DEF QueuesNumbered
    <2>2. inSeen' = inSeen + 1 /\ input' = Numbered(inSeen + 1, Accepted)
      BY <1>1, <2>1, NumberedProperties DEF QueuesNumbered, ProcessInput
    <2> QED BY <1>1, <2>1, <2>2 DEF QueuesNumbered, Accepted, ProcessInput
  <1>2. CASE SendPacket /\ output' # output
    <2>1. output' = Append(output, outMade + 1) /\ outMade' = outMade + 1
      BY <1>2 DEF SendPacket
    <2>2. output' = Numbered(outSent, outMade + 1)
      BY <2>1, NumberedProperties DEF QueuesNumbered, TypeOK
    <2> QED BY <1>2, <2>1, <2>2 DEF QueuesNumbered, Accepted, SendPacket, TypeOK
  <1>3. CASE SendPacket /\ output' = output
    <2>1. outMade' = outMade
      <3>1. output # Append(output, outMade + 1)
        BY NumberedProperties, AppendDiffers DEF QueuesNumbered, TypeOK
      <3> QED BY <1>3, <3>1 DEF SendPacket
    <2> QED BY <1>3, <2>1, QueuesLeft DEF SendPacket
  <1>4. CASE Top \/ (ProcessInput /\ input = << >>) \/ CopyCommand \/ PublishCommand
             \/ PollReturns \/ SignalOutput
    BY <1>4, QueuesLeft DEF Top, ProcessInput, CopyCommand, PublishCommand, PollReturns,
       SignalOutput, stateVars, lifeVars, countVars, TypeOK, SessionStates
  <1> QED BY <1>1, <1>2, <1>3, <1>4 DEF WorkerActs

LEMMA CallerQueues ==
  ASSUME QueuesNumbered, NEW c \in Callers, CallerActs(c)
  PROVE  QueuesNumbered'
  BY QueuesLeft DEF CallerActs, CallerStep, EnterHandle, CallAgain, PlaceCommand, WakeWorker,
     AwaitCommand, GetStats, LeaveHandle, stateVars, lifeVars, countVars

(* sendNextFrame() takes the oldest frame of libslirp.                     *)
LEMMA SendQueues ==
  ASSUME TypeOK, QueuesNumbered, NEW t \in SessionStates, t.held = session.held,
         SendNextFrame(t), UNCHANGED << input, inMade, inSeen, outMade >>
  PROVE  QueuesNumbered'
  <1>1. session'.held = session.held
    BY DEF SendNextFrame, SessionStates
  <1>2. CASE UNCHANGED << output, outSent >>
    BY <1>1, <1>2, QueuesLeft
  <1>3. CASE output # << >> /\ output' = Tail(output) /\ outSent' = Head(output)
    <2>1. outSent < outMade
      <3>1. outSent # outMade
        BY <1>3, NumberedProperties DEF QueuesNumbered, TypeOK
      <3> QED BY <3>1 DEF QueuesNumbered, TypeOK
    <2>2. outSent' = outSent + 1 /\ output' = Numbered(outSent + 1, outMade)
      BY <1>3, <2>1, NumberedProperties DEF QueuesNumbered, TypeOK
    <2> QED BY <1>1, <2>1, <2>2 DEF QueuesNumbered, Accepted, TypeOK
  <1> QED BY <1>2, <1>3 DEF SendNextFrame

(* A frame that is accepted, at once or on a retry, is the next one.       *)
LEMMA AcceptQueues ==
  ASSUME TypeOK, QueuesNumbered, ReceiveFrame \/ RetryFrame
  PROVE  QueuesNumbered'
  <1> DEFINE frame == IF session.held = 0 THEN inMade + 1 ELSE inMade
  <1>1. /\ AcceptOrRetry(frame) /\ inMade' = frame
        /\ Accepted = frame - 1 /\ frame \in Nat \ {0}
    BY DEF ReceiveFrame, RetryFrame, QueuesNumbered, Accepted, TypeOK
  <1> HIDE DEF frame
  <1>2. CASE input' = Append(input, frame) /\ session'.held = 0
    <2>1. input' = Numbered(inSeen, frame)
      <3>1. /\ frame - 1 \in Nat /\ inSeen \in Nat /\ inSeen <= frame - 1
            /\ input = Numbered(inSeen, frame - 1)
        BY <1>1 DEF QueuesNumbered
      <3>2. Append(Numbered(inSeen, frame - 1), (frame - 1) + 1) = Numbered(inSeen, (frame - 1) + 1)
        BY <3>1, NumberedProperties
      <3>3. (frame - 1) + 1 = frame
        BY <1>1
      <3> QED BY <1>2, <3>1, <3>2, <3>3
    <2>2. inSeen' = inSeen /\ UNCHANGED << output, outSent, outMade >>
      BY <1>1 DEF AcceptOrRetry
    <2> QED BY <1>1, <1>2, <2>1, <2>2 DEF QueuesNumbered, Accepted
  <1>3. CASE input' = input /\ session'.held = frame
    BY <1>1, <1>3 DEF QueuesNumbered, Accepted, AcceptOrRetry
  <1> QED BY <1>1, <1>2, <1>3 DEF AcceptOrRetry, TypeOK, SessionStates

LEMMA SessionQueues ==
  ASSUME TypeOK, QueuesNumbered, SessionActs
  PROVE  QueuesNumbered'
  <1>1. CASE ReceiveFrame \/ RetryFrame
    BY <1>1, AcceptQueues
  <1>2. CASE WakeForInput \/ StopStep \/ SessionStop
    BY <1>2, QueuesLeft DEF WakeForInput, StopStep, Halt, Rouse, Settle, Destroy, SessionStop,
       Finish, TypeOK, SessionStates, stateVars, lifeVars, countVars
  <1>3. CASE Drain
    <2> DEFINE t == [session EXCEPT !.drains = @ - 1]
    <2>1. t.held = session.held /\ t \in SessionStates
      BY <1>3 DEF Drain, TypeOK, SessionStates
    <2>2. SendNextFrame(t) /\ UNCHANGED << input, inMade, inSeen, outMade >>
      BY <1>3 DEF Drain
    <2> HIDE DEF t
    <2> QED BY <2>1, <2>2, SendQueues
  <1>4. CASE SendCompleted
    <2> DEFINE t == [session EXCEPT !.sending = FALSE]
    <2>1. t.held = session.held /\ t \in SessionStates
      BY DEF TypeOK, SessionStates
    <2>2. CASE SendNextFrame(t)
      <3>1. UNCHANGED << input, inMade, inSeen, outMade >>
        BY <1>4 DEF SendCompleted
      <3> HIDE DEF t
      <3> QED BY <2>1, <2>2, <3>1, SendQueues
    <2>3. CASE Finish(t) /\ UNCHANGED << output, outSent >>
      BY <1>4, <2>1, <2>3, QueuesLeft DEF SendCompleted, Finish, TypeOK, SessionStates
    <2> QED BY <1>4, <2>2, <2>3 DEF SendCompleted
  <1> QED BY <1>1, <1>2, <1>3, <1>4 DEF SessionActs

-----------------------------------------------------------------------------
(* process_command() publishes what it copied: nobody else can have placed *)
(* a command in between while the network is up.                           *)
LEMMA WorkerSlot ==
  ASSUME TypeOK, SlotOwned, WorkerActs
  PROVE  SlotOwned'
  <1> USE DEF Goes, WorkerAt, stateVars, lifeVars, countVars
  <1>1. CASE CopyCommand
    BY <1>1 DEF CopyCommand, TypeOK, SlotOwned
  <1>2. CASE PublishCommand
    <2>1. /\ worker.pc = "publish" /\ worker'.pc = "poll"
          /\ command' = [command EXCEPT !.complete = TRUE, !.result = worker.command.owner]
          /\ UNCHANGED << stopping, caller >>
      BY <1>2 DEF PublishCommand, TypeOK
    <2>2. /\ command'.owner = command.owner /\ command'.complete
          /\ command'.result = worker.command.owner
      BY <2>1 DEF TypeOK, Commands
    <2> QED BY <2>1, <2>2 DEF SlotOwned
  <1>3. CASE Top \/ ProcessInput \/ PollReturns \/ SendPacket \/ SignalOutput
    <2>1. UNCHANGED << stopping, command, caller >>
      BY <1>3 DEF Top, ProcessInput, PollReturns, SendPacket, SignalOutput
    <2>2. worker'.pc # "publish"
      BY <1>3 DEF Top, ProcessInput, PollReturns, SendPacket, SignalOutput, TypeOK
    <2> QED BY <2>1, <2>2 DEF SlotOwned
  <1> QED BY <1>1, <1>2, <1>3 DEF WorkerActs

(* A caller places its command in a free slot only and frees only its own. *)
LEMMA CallerSlot ==
  ASSUME TypeOK, SlotOwned, NEW c \in Callers, CallerActs(c)
  PROVE  SlotOwned'
  <1> USE DEF CallerGoes, CallerAt, stateVars, lifeVars, countVars
  <1>1. "none" \notin Callers
    BY SlirpAssumption DEF SlirpAssumption
  <1>2. CASE PlaceCommand(c) /\ command' # command
    <2>1. /\ ~stopping /\ command.owner = "none" /\ command' = [NoCommand EXCEPT !.owner = c]
          /\ caller' = [caller EXCEPT ![c].pc = "wake"]
          /\ UNCHANGED << stopping, worker >>
      BY <1>2 DEF PlaceCommand
    <2>2. command'.owner = c /\ ~command'.complete
      BY <2>1 DEF NoCommand
    <2>3. \A d \in Callers : /\ caller'[d].result = caller[d].result
                             /\ d # c => caller'[d].pc = caller[d].pc
                             /\ caller'[c].pc = "wake"
      BY <2>1 DEF TypeOK, CallerStates
    <2> QED BY <1>1, <2>1, <2>2, <2>3 DEF SlotOwned
  <1>3. CASE AwaitCommand(c) /\ caller' # caller
    <2>1. /\ command.complete \/ stopping
          /\ caller' = [caller EXCEPT ![c] =
               [pc |-> "leave", result |-> IF stopping THEN "stopped" ELSE command.result]]
          /\ command' = NoCommand
          /\ caller[c].pc = "await"
          /\ UNCHANGED << stopping, worker >>
      BY <1>3 DEF AwaitCommand
    <2>2. command'.owner = "none" /\ ~command'.complete
      BY <2>1 DEF NoCommand
    <2>3. ~stopping => command.owner = c /\ command.result = c
      BY <2>1 DEF SlotOwned
    <2>4. /\ caller'[c].pc = "leave" /\ caller'[c].result \in {"stopped", c}
          /\ \A d \in Callers : d # c => caller'[d] = caller[d]
      BY <2>1, <2>3 DEF TypeOK, CallerStates
    <2> QED BY <1>1, <2>1, <2>2, <2>3, <2>4 DEF SlotOwned
  <1>4. CASE (PlaceCommand(c) \/ AwaitCommand(c)) /\ UNCHANGED << command, caller >>
    BY <1>4 DEF PlaceCommand, AwaitCommand, SlotOwned
  <1>5. CASE WakeWorker(c)
    <2>1. /\ caller' = [caller EXCEPT ![c].pc = "await"] /\ caller[c].pc = "wake"
          /\ UNCHANGED << stopping, command, worker >>
      BY <1>5 DEF WakeWorker
    <2>2. /\ \A d \in Callers : d # c => caller'[d] = caller[d]
          /\ caller'[c].pc = "await" /\ caller'[c].result = caller[c].result
      BY <2>1 DEF TypeOK, CallerStates
    <2> QED BY <2>1, <2>2 DEF SlotOwned
  <1>6. CASE \/ EnterHandle(c) \/ CallAgain(c) \/ GetStats(c) \/ LeaveHandle(c)
             \/ PlaceCommand(c) /\ stopping
    <2>1. UNCHANGED << stopping, command, worker >>
      BY <1>6 DEF EnterHandle, CallAgain, GetStats, LeaveHandle, PlaceCommand
    <2>2. /\ \A d \in Callers : d # c => caller'[d] = caller[d]
          /\ caller[c].pc \notin {"wake", "await"} /\ caller'[c].pc \notin {"wake", "await"}
          /\ caller'[c].result \in {caller[c].result, "none", "stopped", "stats"}
      BY <1>6 DEF EnterHandle, CallAgain, GetStats, LeaveHandle, PlaceCommand, TypeOK,
         CallerStates
    <2> QED BY <2>1, <2>2 DEF SlotOwned
  <1>7. PlaceCommand(c) /\ command' = command /\ ~stopping => caller' = caller
    <2>1. [NoCommand EXCEPT !.owner = c].owner = c
      BY DEF NoCommand
    <2>2. ASSUME command.owner = "none", command' = [NoCommand EXCEPT !.owner = c]
          PROVE  command' # command
      <3>1. command'.owner = c
        BY <2>1, <2>2
      <3> QED BY <1>1, <2>2, <3>1
    <2> QED BY <2>2 DEF PlaceCommand
  <1>8. AwaitCommand(c) /\ caller' = caller => command' = command
    BY DEF AwaitCommand, TypeOK
  <1> QED BY <1>2, <1>3, <1>4, <1>5, <1>6, <1>7, <1>8 DEF CallerActs, CallerStep

LEMMA SessionSlot ==
  ASSUME SlotOwned, SessionActs
  PROVE  SlotOwned'
  <1>1. UNCHANGED << command, worker, caller >> /\ stopping' \in {stopping, TRUE}
    BY DEF SessionActs, ReceiveFrame, RetryFrame, AcceptOrRetry, WakeForInput, Drain,
       SendCompleted, SessionStop, StopStep, Halt, Rouse, Settle, Destroy, stateVars, lifeVars,
       countVars
  <1> QED BY <1>1 DEF SlotOwned

-----------------------------------------------------------------------------
(* The worker does nothing once it has ended, and never ends another way.  *)
LEMMA WorkerLife ==
  ASSUME TypeOK, LifeGuarded, WorkerActs
  PROVE  LifeGuarded'
  <1>1. worker.pc # "exited" /\ UNCHANGED << lifeVars, caller >>
    BY DEF WorkerActs, Top, ProcessInput, CopyCommand, PublishCommand, PollReturns, SendPacket,
       SignalOutput, WorkerAt
  <1>2. session'.pc = session.pc /\ session'.stopped = session.stopped
    BY DEF WorkerActs, Top, ProcessInput, CopyCommand, PublishCommand, PollReturns, SendPacket,
       SignalOutput, TypeOK, SessionStates
  <1>3. Inside' = Inside
    BY <1>1 DEF Inside
  <1> QED BY <1>1, <1>2, <1>3 DEF LifeGuarded, lifeVars

(* A caller enters only while the handle is there, so nobody enters after  *)
(* stop() has seen activeOperations at 0.                                  *)
LEMMA CallerLife ==
  ASSUME TypeOK, LifeGuarded, NEW c \in Callers, CallerActs(c)
  PROVE  LifeGuarded'
  <1> USE DEF CallerGoes, CallerAt, stateVars, lifeVars, countVars
  <1>1. UNCHANGED << worker, session, handle, freed >>
    BY DEF CallerActs, CallerStep, EnterHandle, CallAgain, PlaceCommand, WakeWorker,
       AwaitCommand, GetStats, LeaveHandle
  <1>2. CASE EnterHandle(c) /\ handle
    <2>1. Inside' = Inside \cup {c} /\ c \notin Inside /\ active' = active + 1
      BY <1>2 DEF EnterHandle, Inside, TypeOK, CallerStates
    <2>2. IsFiniteSet(Inside') /\ Cardinality(Inside') = Cardinality(Inside) + 1
      BY <2>1, FS_AddElement DEF LifeGuarded
    <2>3. ~session.stopped
      BY <1>2 DEF LifeGuarded
    <2> QED BY <1>1, <2>1, <2>2, <2>3 DEF LifeGuarded
  <1>3. CASE LeaveHandle(c)
    <2>1. Inside' = Inside \ {c} /\ c \in Inside /\ active' = active - 1
      BY <1>3 DEF LeaveHandle, Inside, TypeOK, CallerStates
    <2>2. IsFiniteSet(Inside') /\ Cardinality(Inside') = Cardinality(Inside) - 1
      BY <2>1, FS_RemoveElement DEF LifeGuarded
    <2>3. active # 0
      BY <2>1, FS_EmptySet DEF LifeGuarded
    <2> QED BY <1>1, <2>1, <2>2, <2>3 DEF LifeGuarded
  <1>4. CASE \/ EnterHandle(c) /\ ~handle
             \/ CallAgain(c) \/ PlaceCommand(c) \/ WakeWorker(c) \/ AwaitCommand(c) \/ GetStats(c)
    <2>1. Inside' = Inside
      <3>1. \A d \in Callers : d # c => caller'[d] = caller[d]
        BY <1>4 DEF EnterHandle, CallAgain, PlaceCommand, WakeWorker, AwaitCommand, GetStats, TypeOK
      <3>2. caller'[c].pc \in {"idle", "done"} <=> caller[c].pc \in {"idle", "done"}
        BY <1>4 DEF EnterHandle, CallAgain, PlaceCommand, WakeWorker, AwaitCommand, GetStats,
           TypeOK, CallerStates
      <3> QED BY <3>1, <3>2 DEF Inside
    <2>2. active' = active
      BY <1>4 DEF EnterHandle, CallAgain, PlaceCommand, WakeWorker, AwaitCommand, GetStats
    <2> QED BY <1>1, <2>1, <2>2 DEF LifeGuarded
  <1> QED BY <1>2, <1>3, <1>4 DEF CallerActs, CallerStep

(* stop(): the handle, then the wait, then the end of the worker.          *)
LEMMA SessionLife ==
  ASSUME TypeOK, LifeGuarded, SessionActs
  PROVE  LifeGuarded'
  <1> USE DEF stateVars, lifeVars, countVars
  <1>1. UNCHANGED << caller, worker, active >> /\ Inside' = Inside
    BY DEF SessionActs, ReceiveFrame, RetryFrame, AcceptOrRetry, WakeForInput, Drain,
       SendCompleted, SessionStop, StopStep, Halt, Rouse, Settle, Destroy, Inside
  <1>2. CASE Destroy
    BY <1>1, <1>2 DEF Destroy, LifeGuarded, TypeOK, SessionStates
  <1>3. CASE Halt \/ Rouse \/ Settle
    BY <1>1, <1>3 DEF Halt, Rouse, Settle, LifeGuarded, TypeOK, SessionStates
  <1>4. CASE SessionStop \/ SendCompleted
    <2>1. \/ UNCHANGED handle /\ session'.pc = "idle" /\ session'.stopped = session.stopped
          \/ handle' = FALSE /\ session'.pc = "halt" /\ session'.stopped
      BY <1>4 DEF SessionStop, SendCompleted, SendNextFrame, Finish, QueueFree, TypeOK,
         SessionStates
    <2>2. freed' = freed /\ session.pc = "idle"
      BY <1>4 DEF SessionStop, SendCompleted, QueueFree
    <2> QED BY <1>1, <2>1, <2>2 DEF LifeGuarded
  <1>5. CASE ReceiveFrame \/ RetryFrame \/ WakeForInput \/ Drain
    <2>1. UNCHANGED << handle, freed >> /\ session'.stopped = session.stopped
      BY <1>5 DEF ReceiveFrame, RetryFrame, AcceptOrRetry, WakeForInput, Drain, SendNextFrame,
         TypeOK, SessionStates
    <2>2. session'.pc \in {"idle", "wake"}
      BY <1>5 DEF ReceiveFrame, RetryFrame, AcceptOrRetry, WakeForInput, Drain, SendNextFrame,
         QueueFree, TypeOK, SessionStates
    <2> QED BY <1>1, <2>1, <2>2 DEF LifeGuarded
  <1> QED BY <1>2, <1>3, <1>4, <1>5 DEF SessionActs, StopStep

-----------------------------------------------------------------------------
LEMMA NextIInv == IInv /\ [Next]_<< vars, load >> => IInv'
  <1> SUFFICES ASSUME IInv, [Next]_<< vars, load >> PROVE IInv'
    OBVIOUS
  <1> USE DEF IInv
  <1>1. CASE Next /\ WorkerActs
    BY <1>1, WorkerTypes, WorkerQueues, WorkerSlot, WorkerLife DEF Next
  <1>2. CASE Next /\ \E c \in Callers : CallerActs(c)
    BY <1>2, CallerTypes, CallerQueues, CallerSlot, CallerLife DEF Next
  <1>3. CASE Next /\ SessionActs
    BY <1>3, SessionTypes, SessionQueues, SessionSlot, SessionLife DEF Next
  <1>4. Next => WorkerActs \/ (\E c \in Callers : CallerActs(c)) \/ SessionActs
    <2>1. load.callers \subseteq Callers
      BY SlirpAssumption DEF SlirpAssumption, TypeOK
    <2> QED BY <2>1 DEF Next, Step, WorkerActs, CallerActs, SessionActs
  <1>5. CASE UNCHANGED << vars, load >>
    BY <1>5 DEF vars, stateVars, lifeVars, countVars, TypeOK, QueuesNumbered, Accepted,
       SlotOwned, LifeGuarded, Inside
  <1> QED BY <1>1, <1>2, <1>3, <1>4, <1>5

(* The fields of the host keep their types.                                *)
THEOREM HostTypeOK == Spec => []TypeOK
  <1>1. IInv => TypeOK
    BY DEF IInv
  <1> QED BY InitIInv, NextIInv, <1>1, PTL DEF Spec

(* No frame is lost, duplicated or reordered in the two bounded queues,    *)
(* whatever their capacity, the retries of acceptOrRetry() included.       *)
THEOREM FramesKeepOrder == Spec => []FramesInOrder
  <1>1. IInv => FramesInOrder
    <2> SUFFICES ASSUME IInv
                 PROVE  input \o (IF session.held = 0 THEN << >> ELSE << session.held >>)
                          = Numbered(inSeen, inMade)
      BY DEF FramesInOrder, IInv, QueuesNumbered
    <2>1. /\ inSeen \in Nat /\ Accepted \in Nat /\ inSeen <= Accepted
          /\ input = Numbered(inSeen, Accepted) /\ input \in Seq(Nat)
      <3>1. Accepted \in Nat
        BY DEF IInv, QueuesNumbered, Accepted, TypeOK
      <3> QED BY <3>1, NumberedProperties DEF IInv, QueuesNumbered
    <2>2. CASE session.held = 0
      BY <2>1, <2>2, ConcatEmptySeq DEF Accepted
    <2>3. CASE session.held # 0
      <3>1. session.held = Accepted + 1 /\ session.held = inMade /\ inMade \in Nat
        BY <2>1, <2>3 DEF IInv, QueuesNumbered, Accepted, TypeOK
      <3>2. input \o << session.held >> = Append(input, session.held)
        BY <2>1, <3>1, AppendIsConcat
      <3>3. Append(Numbered(inSeen, Accepted), Accepted + 1) = Numbered(inSeen, Accepted + 1)
        BY <2>1, NumberedProperties
      <3> QED BY <2>1, <2>3, <3>1, <3>2, <3>3
    <2> QED BY <2>2, <2>3
  <1> QED BY InitIInv, NextIInv, <1>1, PTL DEF Spec

(* execute_forward_command() returns the caller's own result, and          *)
(* lish_slirp_destroy() never frees what a caller or the worker still uses.*)
THEOREM CallersStaySafe == Spec => []CallersSafe
  <1>1. IInv => CallersSafe
    <2> SUFFICES ASSUME IInv PROVE CallersSafe
      OBVIOUS
    <2>1. CommandAnswered
      BY DEF IInv, SlotOwned, CommandAnswered
    <2>2. ASSUME freed PROVE Inside = {}
      BY <2>2, FS_EmptySet DEF IInv, LifeGuarded
    <2>3. NoUseAfterFree
      BY <2>2 DEF IInv, LifeGuarded, NoUseAfterFree, Inside
    <2> QED BY <2>1, <2>3 DEF CallersSafe
  <1> QED BY InitIInv, NextIInv, <1>1, PTL DEF Spec
=============================================================================
