--------------------------- MODULE NativeDiskProofs ---------------------------
(***************************************************************************)
(* Proofs about NativeDisk for every disk, line size, cache limit and      *)
(* number of operations, under the one assumption its run makes too: a     *)
(* request whose connection failed before the host had it is lost          *)
(* (LateDelivery is FALSE).  The line cache is clean, and the disk path    *)
(* implements BlockDevice, through failures, reloads and crashes.          *)
(***************************************************************************)
EXTENDS NativeDisk, TLAPS, FiniteSetTheorems, SequenceTheorems

(* What travels: the client's operations, and reads of whole lines.        *)
LineReads == {[kind |-> "read", range |-> r] : r \in SUBSET Blocks}
Requests == [id : Nat \ {0}, op : LineReads \cup Writes \cup {Flush}]

TypeOK ==
  /\ tail \in Seq(Ops)
  /\ fetch \in Nat /\ fetches \in Nat /\ fetch <= fetches
  /\ net \subseteq Requests
  /\ queue \in Seq(Requests)
  /\ file \in [Blocks -> Values]
  /\ media \in [Blocks -> SUBSET Values]
  /\ known \in [Blocks -> SUBSET Values]
  /\ safe \in [Blocks -> SUBSET Values]
  /\ DOMAIN got \subseteq Blocks

-----------------------------------------------------------------------------
(* The parts of the inductive invariant.                                   *)

HeadIs(kind) == tail # << >> /\ Head(tail).kind = kind

(* The request the running operation has sent.                             *)
Sent ==
  IF Head(tail).kind = "read"
    THEN [kind |-> "read", range |-> BlocksOf(NextLine)]
    ELSE Head(tail)

(* The request of the running fetch is in one place: on the wire, the last *)
(* in the storage queue, or answered.  Everything else in the queue was    *)
(* given up by its client.                                                 *)
OneRequest ==
  /\ fetch # 0 => tail # << >>
  /\ \A m \in net : m.id = fetch /\ m.op = Sent
  /\ \A i \in 1 .. Len(queue) :
       /\ queue[i].id <= fetches
       /\ queue[i].id = fetch => i = Len(queue) /\ queue[i].op = Sent /\ net = {}
  /\ \A r \in replies :
       /\ r.id = fetch /\ fetch # 0 /\ net = {}
       /\ \A i \in 1 .. Len(queue) : queue[i].id # fetch
       /\ \A q \in replies : q = r

(* A good answer finds the storage queue empty and is still true.          *)
AnswersTrue ==
  \A r \in replies : r.ok =>
    /\ queue = << >>
    /\ HeadIs("read") => \A b \in BlocksOf(NextLine) : r.data[b] = file[b]
    /\ HeadIs("write") => \A b \in Head(tail).range : file[b] = Head(tail).value
    /\ HeadIs("flush") => \A b \in Blocks : media[b] = {file[b]}

(* What the client holds is clean, and no write that was given up will     *)
(* touch it.                                                               *)
Clean ==
  /\ IsFiniteSet(Cached) /\ Cardinality(Cached) <= MaxLines
  /\ \A l \in Cached : \A b \in BlocksOf(l) :
       \/ cache[l][b] = file[b]
       \/ fetch # 0 /\ HeadIs("write") /\ b \in Head(tail).range
  /\ DOMAIN got # {} => HeadIs("read")
  /\ \A b \in DOMAIN got : got[b] = file[b]
  /\ \A i \in 1 .. Len(queue) :
       queue[i].id # fetch /\ queue[i].op.kind = "write" =>
         \A b \in queue[i].op.range : LineOf(b) \notin Cached /\ b \notin DOMAIN got

(* The file is what the answers allow, the medium what the flushes allow,  *)
(* and so is what the writes still under way may make of them.             *)
Allowed ==
  /\ \A b \in Blocks : file[b] \in known[b] /\ file[b] \in media[b] /\ media[b] \subseteq safe[b]
  /\ \A m \in net \cup {queue[i] : i \in 1 .. Len(queue)} :
       m.op.kind = "write" =>
         \A b \in m.op.range : m.op.value \in known[b] /\ m.op.value \in safe[b]

IInv == TypeOK /\ OneRequest /\ AnswersTrue /\ Clean /\ Allowed

-----------------------------------------------------------------------------
(* Lemmas about the operators.                                             *)
LEMMA RequestKinds ==
  /\ \A op \in LineReads \cup Writes \cup {Flush} :
       /\ op.kind \in {"read", "write", "flush"}
       /\ op.range \subseteq Blocks
       /\ op.kind = "write" => op.value \in Values
  /\ Ops \subseteq LineReads \cup Writes \cup {Flush}
  BY DEF LineReads, Writes, Flush, Ops, Reads, Ranges

LEMMA HeadOp ==
  ASSUME TypeOK, tail # << >>
  PROVE  /\ Head(tail) \in Ops
         /\ Head(tail).kind \in {"read", "write", "flush"}
         /\ Head(tail).range \subseteq Blocks
         /\ Head(tail).kind = "write" => Head(tail).value \in Values
         /\ Sent \in LineReads \cup Writes \cup {Flush}
         /\ Sent.kind = Head(tail).kind
  <1>1. Head(tail) \in Ops
    BY DEF TypeOK
  <1>2. BlocksOf(NextLine) \subseteq Blocks
    BY DEF BlocksOf
  <1> QED BY <1>1, <1>2, RequestKinds DEF Sent, LineReads

(* The same running operation at the same place reads the same line.       *)
LEMMA SameHead ==
  ASSUME Head(tail)' = Head(tail), got' = got
  PROVE  NextLine' = NextLine /\ Sent' = Sent
  <1>1. NextLine' = NextLine
    BY DEF NextLine, NextBlock
  <1> QED BY <1>1 DEF Sent

(* Without a fetch nothing is on the wire.                                 *)
LEMMA QuietWire ==
  ASSUME TypeOK, OneRequest, fetch = 0
  PROVE  net = {} /\ replies = {} /\ \A i \in 1 .. Len(queue) : queue[i].id # 0
  <1>1. \A i \in 1 .. Len(queue) : queue[i] \in Requests
    BY ElementOfSeq DEF TypeOK
  <1> QED BY <1>1 DEF TypeOK, OneRequest, Requests

-----------------------------------------------------------------------------
LEMMA InitIInv == Init => IInv
  <1> SUFFICES ASSUME Init PROVE IInv
    OBVIOUS
  <1> USE DiskAssumption DEF Init, DiskAssumption
  <1>1. DOMAIN got = {} /\ Cached = {}
    BY DEF Cached
  <1>2. TypeOK
    BY <1>1 DEF TypeOK
  <1>3. OneRequest /\ AnswersTrue
    BY DEF OneRequest, AnswersTrue
  <1>4. Clean
    BY <1>1, FS_EmptySet DEF Clean
  <1>5. Allowed
    BY DEF Allowed
  <1> QED BY <1>2, <1>3, <1>4, <1>5 DEF IInv

(* #enqueue puts an operation behind the others.                           *)
LEMMA EnqueueStep ==
  ASSUME IInv, NEW op \in Ops, Enqueue(op)
  PROVE  IInv'
  <1> USE DEF IInv
  <1>1. UNCHANGED << cache, order, got, closed, fetch, fetches, hostVars, wireVars, specVars >>
    BY DEF Enqueue
  <1>2. tail' \in Seq(Ops) /\ tail' # << >> /\ (tail # << >> => Head(tail') = Head(tail))
    BY DEF Enqueue, TypeOK
  <1>3. TypeOK'
    BY <1>1, <1>2 DEF TypeOK, hostVars, wireVars, specVars
  <1>4. CASE tail = << >>
    <2>1. fetch = 0 /\ net = {} /\ replies = {} /\ \A i \in 1 .. Len(queue) : queue[i].id # 0
      BY <1>4, QuietWire DEF OneRequest
    <2>2. OneRequest' /\ AnswersTrue'
      BY <1>1, <1>2, <2>1 DEF OneRequest, AnswersTrue, hostVars, wireVars, TypeOK
    <2>3. Clean'
      BY <1>1, <1>4, <2>1 DEF Clean, HeadIs, hostVars, Cached
    <2> QED BY <1>1, <1>3, <2>2, <2>3 DEF Allowed, hostVars, wireVars, specVars
  <1>5. CASE tail # << >>
    <2>1. Head(tail)' = Head(tail) /\ NextLine' = NextLine /\ Sent' = Sent
      BY <1>1, <1>2, <1>5, SameHead
    <2>2. \A k \in {"read", "write", "flush"} : HeadIs(k)' = HeadIs(k)
      BY <1>2, <1>5, <2>1 DEF HeadIs
    <2>3. OneRequest' /\ AnswersTrue'
      BY <1>1, <1>2, <1>5, <2>1, <2>2 DEF OneRequest, AnswersTrue, hostVars, wireVars
    <2>4. Clean'
      BY <1>1, <1>5, <2>1, <2>2 DEF Clean, hostVars, Cached
    <2> QED BY <1>1, <1>3, <2>3, <2>4 DEF Allowed, hostVars, wireVars, specVars
  <1> QED BY <1>4, <1>5

(* A request leaves: ReadMiss, WriteSend and FlushSend.                    *)
LEMMA SendStep ==
  ASSUME IInv, tail # << >>, fetch = 0, Send(Sent),
         UNCHANGED << tail, cache, got, replies, hostVars >>,
         known' \in [Blocks -> SUBSET Values], safe' \in [Blocks -> SUBSET Values],
         \A b \in Blocks : known[b] \subseteq known'[b] /\ safe[b] \subseteq safe'[b],
         Sent.kind = "write" => \A b \in Sent.range :
           Sent.value \in known'[b] /\ Sent.value \in safe'[b]
  PROVE  IInv'
  <1> DEFINE m == [id |-> fetches + 1, op |-> Sent]
  <1> USE DEF IInv
  <1>1. /\ net = {} /\ replies = {} /\ net' = {m} /\ fetch' = fetches + 1 /\ fetches' = fetches + 1
        /\ \A i \in 1 .. Len(queue) : queue[i] \in Requests /\ queue[i].id <= fetches
    BY QuietWire, ElementOfSeq DEF Send, TypeOK, OneRequest
  <1>2. m \in Requests
    BY HeadOp DEF Requests, TypeOK
  <1>3. Sent' = Sent /\ \A k \in {"read", "write", "flush"} : HeadIs(k)' = HeadIs(k)
    BY SameHead DEF HeadIs
  <1>4. TypeOK'
    BY <1>1, <1>2 DEF TypeOK, hostVars
  <1>5. \A i \in 1 .. Len(queue) : queue[i].id \in Nat /\ queue[i].id # fetch'
    BY <1>1 DEF Requests, TypeOK
  <1>6. OneRequest'
    BY <1>1, <1>3, <1>5 DEF OneRequest, hostVars, TypeOK
  <1>7. AnswersTrue'
    BY <1>1 DEF AnswersTrue
  <1>8. Clean'
    BY <1>1, <1>3, QuietWire DEF Clean, hostVars, Cached
  <1>9. Allowed'
    <2>1. \A b \in Blocks : file'[b] \in known'[b] /\ file'[b] \in media'[b] /\ media'[b] \subseteq safe'[b]
      BY DEF Allowed, hostVars
    <2>2. \A i \in 1 .. Len(queue) : queue[i].op.kind = "write" =>
             /\ queue[i].op.range \subseteq Blocks
             /\ \A b \in queue[i].op.range :
                  queue[i].op.value \in known[b] /\ queue[i].op.value \in safe[b]
      BY <1>1, RequestKinds DEF Allowed, Requests
    <2>3. m.op.kind = "write" => \A b \in m.op.range : m.op.value \in known'[b] /\ m.op.value \in safe'[b]
      OBVIOUS
    <2> HIDE DEF m
    <2> QED BY <1>1, <2>1, <2>2, <2>3 DEF Allowed, hostVars
  <1> QED BY <1>4, <1>6, <1>7, <1>8, <1>9

(* The operation settles: a write takes its lines out of the cache,        *)
(* whatever its outcome, and what it leaves in the storage queue cannot    *)
(* reach the cache.                                                        *)
LEMMA SettleStep ==
  ASSUME IInv, tail # << >>, SettleOp,
         net' = {}, replies' = {},
         UNCHANGED << fetches, hostVars >>,
         \/ HeadIs("write") /\ Invalidate(Head(tail).range)
         \/ ~HeadIs("write") /\ UNCHANGED cache,
         fetch = 0 => ~HeadIs("write"),
         known' \in [Blocks -> SUBSET Values], safe' \in [Blocks -> SUBSET Values],
         \A b \in Blocks : file[b] \in known'[b] /\ media[b] \subseteq safe'[b],
         \A i \in 1 .. Len(queue) : queue[i].op.kind = "write" =>
           \A b \in queue[i].op.range :
             queue[i].op.value \in known'[b] /\ queue[i].op.value \in safe'[b]
  PROVE  IInv'
  <1> USE DEF IInv
  <1>1. tail' \in Seq(Ops) /\ DOMAIN got' = {} /\ fetch' = 0
    BY HeadTailProperties DEF SettleOp, TypeOK
  <1>2. \A i \in 1 .. Len(queue) : queue[i] \in Requests /\ queue[i].id # 0
    <2>1. \A i \in 1 .. Len(queue) : queue[i] \in Requests
      BY ElementOfSeq DEF TypeOK
    <2> QED BY <2>1 DEF Requests
  <1>3. TypeOK'
    BY <1>1 DEF TypeOK, hostVars
  <1>4. OneRequest' /\ AnswersTrue'
    BY <1>1, <1>2 DEF OneRequest, AnswersTrue, hostVars
  <1>5. Clean'
    <2>1. /\ Cached' \subseteq Cached
          /\ \A l \in Cached' : cache'[l] = cache[l]
          /\ HeadIs("write") => \A b \in Head(tail).range : LineOf(b) \notin Cached'
      BY DEF Invalidate, Keep, Cached
    <2>2. IsFiniteSet(Cached') /\ Cardinality(Cached') <= MaxLines
      <3>1. IsFiniteSet(Cached') /\ Cardinality(Cached') <= Cardinality(Cached)
        BY <2>1, FS_Subset DEF Clean
      <3>2. Cardinality(Cached') \in Nat /\ Cardinality(Cached) \in Nat
        BY <3>1, FS_CardinalityType DEF Clean
      <3> QED BY <3>1, <3>2, DiskAssumption DEF Clean, DiskAssumption
    <2>3. \A l \in Cached' : \A b \in BlocksOf(l) : cache'[l][b] = file[b]
      BY <2>1 DEF Clean, BlocksOf
    <2>4. ASSUME NEW i \in 1 .. Len(queue), queue[i].op.kind = "write",
                 NEW b \in queue[i].op.range
          PROVE  LineOf(b) \notin Cached'
      <3>1. CASE queue[i].id # fetch
        BY <2>1, <2>4, <3>1 DEF Clean
      <3>2. CASE queue[i].id = fetch
        <4>1. queue[i].op = Sent /\ fetch # 0
          BY <1>2, <3>2 DEF OneRequest
        <4>2. HeadIs("write") /\ queue[i].op = Head(tail)
          BY <2>4, <4>1, HeadOp DEF HeadIs, Sent
        <4> QED BY <2>1, <2>4, <4>2
      <3> QED BY <3>1, <3>2
    <2>5. file' = file /\ queue' = queue
      BY DEF hostVars
    <2> QED BY <1>1, <2>2, <2>3, <2>4, <2>5 DEF Clean, BlocksOf
  <1>6. Allowed'
    BY DEF Allowed, hostVars
  <1> QED BY <1>3, <1>4, <1>5, <1>6

(* The answer to the running fetch empties the wire.                       *)
LEMMA OneAnswer ==
  ASSUME OneRequest, NEW r \in replies
  PROVE  net = {} /\ replies \ {r} = {}
  BY DEF OneRequest

(* An answered write, flush or read, and a failed operation.               *)
LEMMA WriteDoneStep ==
  ASSUME IInv, WriteDone
  PROVE  IInv'
  <1> USE DEF IInv
  <1>1. PICK r \in replies : r.ok /\ replies' = replies \ {r}
    BY DEF WriteDone, Reply
  <1>2. /\ tail # << >> /\ HeadIs("write") /\ fetch # 0
        /\ UNCHANGED << net, fetches, hostVars, safe >>
        /\ SettleOp /\ Invalidate(Head(tail).range)
        /\ known' = [b \in Blocks |-> IF b \in Head(tail).range THEN {Head(tail).value} ELSE known[b]]
    BY DEF WriteDone, OneRequest, HeadIs
  <1>3. queue = << >> /\ \A b \in Head(tail).range : file[b] = Head(tail).value
    BY <1>1, <1>2 DEF AnswersTrue
  <1>4. known' \in [Blocks -> SUBSET Values]
    BY <1>2, HeadOp DEF TypeOK, HeadIs
  <1>5. \A b \in Blocks : file[b] \in known'[b] /\ media[b] \subseteq safe'[b]
    BY <1>2, <1>3 DEF Allowed
  <1>6. net' = {} /\ replies' = {}
    BY <1>1, <1>2, OneAnswer
  <1>7. safe' \in [Blocks -> SUBSET Values]
    BY <1>2 DEF TypeOK
  <1> QED BY <1>2, <1>3, <1>4, <1>5, <1>6, <1>7, SettleStep

LEMMA FlushDoneStep ==
  ASSUME IInv, FlushDone
  PROVE  IInv'
  <1> USE DEF IInv
  <1>1. PICK r \in replies : r.ok /\ replies' = replies \ {r}
    BY DEF FlushDone, Reply
  <1>2. /\ tail # << >> /\ HeadIs("flush") /\ ~HeadIs("write") /\ fetch # 0
        /\ UNCHANGED << cache, net, fetches, hostVars, known >>
        /\ SettleOp /\ safe' = known
    BY DEF FlushDone, OneRequest, HeadIs
  <1>3. queue = << >> /\ \A b \in Blocks : media[b] = {file[b]}
    BY <1>1, <1>2 DEF AnswersTrue
  <1>4. \A b \in Blocks : file[b] \in known'[b] /\ media[b] \subseteq safe'[b]
    BY <1>2, <1>3 DEF Allowed
  <1>5. net' = {} /\ replies' = {}
    BY <1>1, <1>2, OneAnswer
  <1>6. known' \in [Blocks -> SUBSET Values] /\ safe' \in [Blocks -> SUBSET Values]
    BY <1>2 DEF TypeOK
  <1> QED BY <1>2, <1>3, <1>4, <1>5, <1>6, SettleStep

LEMMA ReadDoneStep ==
  ASSUME IInv, ReadDone
  PROVE  IInv'
  <1> USE DEF IInv
  <1>1. /\ tail # << >> /\ ~HeadIs("write") /\ fetch = 0 /\ SettleOp
        /\ UNCHANGED << cache, net, replies, fetches, hostVars, safe >>
        /\ known' = [b \in Blocks |-> IF b \in DOMAIN got THEN {got[b]} ELSE known[b]]
    BY DEF ReadDone, Idle, HeadIs, wireVars
  <1>2. /\ net' = {} /\ replies' = {}
        /\ \A i \in 1 .. Len(queue) : queue[i].id # fetch /\ queue[i] \in Requests
    BY <1>1, QuietWire, ElementOfSeq DEF TypeOK
  <1>3. /\ known' \in [Blocks -> SUBSET Values] /\ safe' \in [Blocks -> SUBSET Values]
        /\ \A b \in Blocks : file[b] \in known'[b] /\ media[b] \subseteq safe'[b]
    BY <1>1 DEF TypeOK, Clean, Allowed
  <1>4. ASSUME NEW i \in 1 .. Len(queue), queue[i].op.kind = "write",
               NEW b \in queue[i].op.range
        PROVE  queue[i].op.value \in known'[b] /\ queue[i].op.value \in safe'[b]
    <2>1. b \in Blocks /\ b \notin DOMAIN got
      BY <1>2, <1>4, RequestKinds DEF Clean, Requests
    <2> QED BY <1>1, <1>4, <2>1 DEF Allowed
  <1> QED BY <1>1, <1>2, <1>3, <1>4, SettleStep

LEMMA OpFailsStep ==
  ASSUME IInv, ~LateDelivery, ErrorReply \/ ConnectionFails
  PROVE  IInv'
  <1> USE DEF IInv
  <1>1. fetch # 0 /\ tail # << >> /\ OpFails
    BY DEF ErrorReply, ConnectionFails, OneRequest
  <1>2. net' = {} /\ replies' = {}
    <2>1. CASE ErrorReply
      BY <2>1, OneAnswer DEF ErrorReply, Reply
    <2>2. CASE ConnectionFails
      BY <2>2 DEF ConnectionFails, OneRequest
    <2> QED BY <2>1, <2>2
  <1>3. /\ SettleOp /\ UNCHANGED << fetches, hostVars, known, safe >>
        /\ \/ HeadIs("write") /\ Invalidate(Head(tail).range)
           \/ ~HeadIs("write") /\ UNCHANGED cache
    BY <1>1 DEF OpFails, HeadIs
  <1>4. /\ known' \in [Blocks -> SUBSET Values] /\ safe' \in [Blocks -> SUBSET Values]
        /\ \A b \in Blocks : file[b] \in known'[b] /\ media[b] \subseteq safe'[b]
        /\ \A i \in 1 .. Len(queue) : queue[i].op.kind = "write" =>
             \A b \in queue[i].op.range :
               queue[i].op.value \in known'[b] /\ queue[i].op.value \in safe'[b]
    BY <1>3 DEF TypeOK, Allowed
  <1> QED BY <1>1, <1>2, <1>3, <1>4, SettleStep

-----------------------------------------------------------------------------
(* The three requests that leave.                                          *)
LEMMA RequestStep ==
  ASSUME IInv, ReadMiss \/ WriteSend \/ FlushSend
  PROVE  IInv'
  <1> USE DEF IInv
  <1>1. CASE ReadMiss
    <2>1. Sent = [kind |-> "read", range |-> BlocksOf(NextLine)] /\ Send(Sent)
      BY <1>1 DEF ReadMiss, Idle, Sent
    <2> QED BY <1>1, <2>1, SendStep DEF ReadMiss, Idle, specVars, TypeOK
  <1>2. CASE WriteSend
    <2>1. Sent = Head(tail) /\ Send(Sent) /\ tail # << >> /\ Head(tail).kind = "write" /\ fetch = 0
      BY <1>2 DEF WriteSend, Idle, Sent
    <2>2. Head(tail).value \in Values /\ Head(tail).range \subseteq Blocks
      BY <2>1, HeadOp
    <2>3. /\ known' \in [Blocks -> SUBSET Values] /\ safe' \in [Blocks -> SUBSET Values]
          /\ \A b \in Blocks : known[b] \subseteq known'[b] /\ safe[b] \subseteq safe'[b]
          /\ \A b \in Sent.range : Sent.value \in known'[b] /\ Sent.value \in safe'[b]
      BY <1>2, <2>1, <2>2 DEF WriteSend, TypeOK
    <2>4. UNCHANGED << tail, cache, got, replies, hostVars >>
      BY <1>2 DEF WriteSend
    <2> QED BY <2>1, <2>3, <2>4, SendStep
  <1>3. CASE FlushSend
    <2>1. Head(tail) = Flush
      BY <1>3 DEF FlushSend, Idle, TypeOK, Ops, Reads, Writes, Flush
    <2>2. Sent = Flush /\ Send(Sent)
      BY <1>3, <2>1 DEF FlushSend, Idle, Sent, Flush
    <2> QED BY <1>3, <2>2, SendStep DEF FlushSend, Idle, Flush, specVars, TypeOK
  <1> QED BY <1>1, <1>2, <1>3

-----------------------------------------------------------------------------
(* A cached line supplies its bytes.                                       *)
LEMMA ReadHitStep ==
  ASSUME IInv, ReadHit
  PROVE  IInv'
  <1> USE DEF IInv
  <1>1. /\ HeadIs("read") /\ fetch = 0 /\ NextLine \in Cached
        /\ Copy(NextLine, cache[NextLine])
        /\ UNCHANGED << tail, cache, fetch, fetches, hostVars, wireVars, specVars >>
    BY DEF ReadHit, Idle, HeadIs
  <1>2. /\ net = {} /\ replies = {}
        /\ \A i \in 1 .. Len(queue) : queue[i].id # fetch
    BY <1>1, QuietWire
  <1> DEFINE part == Head(tail).range \cap BlocksOf(NextLine)
  <1>3. /\ DOMAIN got' = DOMAIN got \cup part
        /\ \A b \in DOMAIN got' : got'[b] = IF b \in part THEN cache[NextLine][b] ELSE got[b]
        /\ part \subseteq Blocks
    BY <1>1 DEF Copy, BlocksOf
  <1>4. TypeOK'
    BY <1>1, <1>3 DEF TypeOK, hostVars, wireVars, specVars
  <1>5. OneRequest' /\ AnswersTrue'
    BY <1>1, <1>2 DEF OneRequest, AnswersTrue, hostVars, wireVars
  <1>6. Clean'
    <2>1. \A b \in part : cache[NextLine][b] = file[b] /\ LineOf(b) \in Cached
      BY <1>1 DEF Clean, HeadIs, BlocksOf
    <2>2. \A b \in DOMAIN got' : got'[b] = file[b]
      BY <1>3, <2>1 DEF Clean
    <2>3. \A i \in 1 .. Len(queue) : queue[i].id # fetch /\ queue[i].op.kind = "write" =>
            \A b \in queue[i].op.range : LineOf(b) \notin Cached /\ b \notin DOMAIN got'
      BY <1>3, <2>1 DEF Clean
    <2>4. Cached' = Cached /\ HeadIs("read")' /\ HeadIs("write")' = HeadIs("write")
      BY <1>1 DEF Cached, HeadIs
    <2> HIDE DEF part
    <2> QED BY <1>1, <2>2, <2>3, <2>4 DEF Clean, hostVars
  <1>7. Allowed'
    BY <1>1 DEF Allowed, hostVars, wireVars, specVars
  <1> QED BY <1>4, <1>5, <1>6, <1>7

(* A fetched line enters the cache, which keeps to its limit.              *)
LEMMA LineKeeps ==
  ASSUME IsFiniteSet(Cached), NEW line, NEW data, Line(line, data)
  PROVE  /\ Cached' \subseteq Cached \cup {line}
         /\ \A l \in Cached' : cache'[l] = IF l = line THEN data ELSE cache[l]
         /\ IsFiniteSet(Cached') /\ Cardinality(Cached') <= MaxLines
  <1> DEFINE lines == Cached \cup {line}
  <1>1. PICK kept \in SUBSET lines :
          /\ Cardinality(kept) = IF Cardinality(lines) > MaxLines THEN MaxLines
                                                                  ELSE Cardinality(lines)
          /\ cache' = [l \in kept |-> IF l = line THEN data ELSE cache[l]]
    BY DEF Line
  <1>2. IsFiniteSet(lines) /\ Cardinality(lines) \in Nat
    BY FS_AddElement, FS_CardinalityType
  <1>3. IsFiniteSet(kept) /\ Cardinality(kept) <= MaxLines
    BY <1>1, <1>2, FS_Subset, DiskAssumption DEF DiskAssumption
  <1> QED BY <1>1, <1>3 DEF Cached

LEMMA ReadLineStep ==
  ASSUME IInv, ReadLine
  PROVE  IInv'
  <1> USE DEF IInv
  <1>1. PICK r \in replies : /\ r.ok /\ Line(NextLine, r.data) /\ Copy(NextLine, r.data)
                             /\ replies' = replies \ {r}
    BY DEF ReadLine, Reply
  <1>2. /\ HeadIs("read") /\ fetch # 0 /\ fetch' = 0
        /\ UNCHANGED << tail, fetches, net, hostVars, specVars >>
    BY DEF ReadLine, HeadIs, OneRequest
  <1>3. /\ queue = << >> /\ net' = {} /\ replies' = {}
        /\ \A b \in BlocksOf(NextLine) : r.data[b] = file[b]
    BY <1>1, <1>2, OneAnswer DEF AnswersTrue
  <1> DEFINE part == Head(tail).range \cap BlocksOf(NextLine)
  <1>4. /\ DOMAIN got' = DOMAIN got \cup part
        /\ \A b \in DOMAIN got' : got'[b] = IF b \in part THEN r.data[b] ELSE got[b]
        /\ part \subseteq Blocks
    BY <1>1 DEF Copy, BlocksOf
  <1>5. TypeOK'
    BY <1>2, <1>3, <1>4 DEF TypeOK, hostVars, specVars
  <1>6. OneRequest' /\ AnswersTrue'
    BY <1>2, <1>3 DEF OneRequest, AnswersTrue, hostVars
  <1>7. Clean'
    <2>1. /\ Cached' \subseteq Cached \cup {NextLine}
          /\ \A l \in Cached' : cache'[l] = IF l = NextLine THEN r.data ELSE cache[l]
          /\ IsFiniteSet(Cached') /\ Cardinality(Cached') <= MaxLines
      BY <1>1, LineKeeps DEF Clean
    <2>2. \A l \in Cached' : \A b \in BlocksOf(l) : cache'[l][b] = file[b]
      BY <1>2, <1>3, <2>1 DEF Clean, HeadIs
    <2>3. \A b \in DOMAIN got' : got'[b] = file[b]
      BY <1>3, <1>4 DEF Clean
    <2>4. HeadIs("read")' /\ file' = file /\ queue' = << >>
      BY <1>2, <1>3 DEF HeadIs, hostVars
    <2> HIDE DEF part
    <2> QED BY <2>1, <2>2, <2>3, <2>4 DEF Clean, BlocksOf
  <1>8. Allowed'
    BY <1>2, <1>3 DEF Allowed, hostVars, specVars
  <1> QED BY <1>5, <1>6, <1>7, <1>8

(* destroy() of the client, and a page that goes away.                     *)
LEMMA DestroyClientStep ==
  ASSUME IInv, DestroyClient
  PROVE  IInv'
  <1> USE DEF IInv
  <1>1. /\ UNCHANGED << tail, got, fetch, fetches, hostVars, wireVars, specVars >>
        /\ Cached' = {}
    BY DEF DestroyClient, Cached
  <1>2. Sent' = Sent /\ NextLine' = NextLine /\ \A k \in {"read", "write", "flush"} : HeadIs(k)' = HeadIs(k)
    BY <1>1, SameHead DEF HeadIs
  <1>3. TypeOK' /\ Allowed'
    BY <1>1 DEF TypeOK, Allowed, hostVars, wireVars, specVars
  <1>4. OneRequest' /\ AnswersTrue'
    BY <1>1, <1>2 DEF OneRequest, AnswersTrue, hostVars, wireVars
  <1>5. Clean'
    <2>1. Cardinality({}) = 0 /\ IsFiniteSet({}) /\ 0 <= MaxLines
      BY FS_EmptySet, DiskAssumption DEF DiskAssumption
    <2> QED BY <1>1, <1>2, <2>1 DEF Clean, hostVars
  <1> QED BY <1>3, <1>4, <1>5

LEMMA ReloadStep ==
  ASSUME IInv, ~LateDelivery, Reload
  PROVE  IInv'
  <1> USE DEF IInv
  <1>1. /\ UNCHANGED << fetches, hostVars, specVars >>
        /\ tail' = << >> /\ Cached' = {} /\ DOMAIN got' = {} /\ fetch' = 0
        /\ net' = {} /\ replies' = {}
    BY DEF Reload, Cached
  <1>2. \A i \in 1 .. Len(queue) : queue[i] \in Requests
    BY ElementOfSeq DEF TypeOK
  <1>3. TypeOK'
    BY <1>1 DEF TypeOK, hostVars, specVars
  <1>4. OneRequest' /\ AnswersTrue'
    BY <1>1, <1>2 DEF OneRequest, AnswersTrue, hostVars, Requests
  <1>5. Clean'
    <2>1. Cardinality({}) = 0 /\ IsFiniteSet({}) /\ 0 <= MaxLines
      BY FS_EmptySet, DiskAssumption DEF DiskAssumption
    <2> QED BY <1>1, <2>1 DEF Clean, hostVars
  <1>6. Allowed'
    BY <1>1 DEF Allowed, hostVars, specVars
  <1> QED BY <1>3, <1>4, <1>5, <1>6

-----------------------------------------------------------------------------
(* The running fetch has one request.                                      *)
LEMMA OneOnWire ==
  ASSUME TypeOK, OneRequest, NEW m \in net
  PROVE  /\ net \ {m} = {} /\ replies = {}
         /\ m \in Requests /\ m.id = fetch /\ fetch # 0 /\ m.op = Sent
         /\ \A i \in 1 .. Len(queue) : queue[i].id # fetch
  <1>1. /\ \A x \in net : x \in Requests /\ x.id = fetch /\ x.op = Sent
        /\ replies = {} /\ \A i \in 1 .. Len(queue) : queue[i].id # fetch
    BY DEF TypeOK, OneRequest
  <1>2. \A x \in Requests : x = [id |-> x.id, op |-> x.op] /\ x.id # 0
    BY DEF Requests
  <1>3. \A x \in net : x = m
    BY <1>1, <1>2
  <1> QED BY <1>1, <1>2, <1>3

(* The host takes a request into its storage queue, or refuses it.         *)
LEMMA PerformStep ==
  ASSUME IInv, NEW m \in net, Perform(m)
  PROVE  IInv'
  <1> USE DEF IInv
  <1> DEFINE n == Len(queue)
  <1>1. /\ UNCHANGED << clientVars, file, media, replies, specVars >>
        /\ net' = net \ {m} /\ queue' = Append(queue, m)
        /\ m \in Requests /\ m.id = fetch /\ m.op = Sent
    BY OneOnWire DEF Perform
  <1>2. /\ queue' \in Seq(Requests) /\ Len(queue') = n + 1 /\ n \in Nat
        /\ \A i \in 1 .. n : queue'[i] = queue[i] /\ queue[i].id # fetch /\ queue[i].id <= fetches
        /\ queue'[n + 1] = m /\ queue' # << >>
    BY <1>1, AppendProperties DEF TypeOK, OneRequest
  <1>3. net' = {} /\ replies = {}
    BY <1>1, OneOnWire
  <1>4. /\ Sent' = Sent /\ NextLine' = NextLine /\ Cached' = Cached
        /\ \A k \in {"read", "write", "flush"} : HeadIs(k)' = HeadIs(k)
    BY <1>1, SameHead DEF HeadIs, clientVars, Cached
  <1>5. TypeOK'
    BY <1>1, <1>2 DEF TypeOK, clientVars, specVars
  <1>6. OneRequest' /\ AnswersTrue'
    BY <1>1, <1>2, <1>3, <1>4 DEF OneRequest, AnswersTrue, clientVars, TypeOK
  <1>7. Clean'
    BY <1>1, <1>2, <1>4 DEF Clean, clientVars
  <1>8. Allowed'
    BY <1>1, <1>2 DEF Allowed, specVars
  <1> QED BY <1>5, <1>6, <1>7, <1>8

LEMMA RefuseStep ==
  ASSUME IInv, NEW m \in net, Refuse(m)
  PROVE  IInv'
  <1> USE DEF IInv
  <1>1. /\ UNCHANGED << clientVars, hostVars, specVars >>
        /\ net' = net \ {m} /\ m \in Requests /\ m.id = fetch /\ m.op = Sent /\ fetch # 0
        /\ replies' = replies \cup {[id |-> fetch, ok |-> FALSE, data |-> << >>]}
    BY OneOnWire DEF Refuse, Respond
  <1>2. net' = {} /\ replies = {} /\ \A i \in 1 .. Len(queue) : queue[i].id # fetch
    BY <1>1, OneOnWire
  <1>3. /\ Sent' = Sent /\ NextLine' = NextLine /\ Cached' = Cached
        /\ \A k \in {"read", "write", "flush"} : HeadIs(k)' = HeadIs(k)
    BY <1>1, SameHead DEF HeadIs, clientVars, Cached
  <1>4. TypeOK' /\ Allowed'
    BY <1>1, <1>2 DEF TypeOK, Allowed, clientVars, hostVars, specVars
  <1>5. OneRequest' /\ AnswersTrue'
    BY <1>1, <1>2, <1>3 DEF OneRequest, AnswersTrue, clientVars, hostVars
  <1>6. Clean'
    BY <1>1, <1>3 DEF Clean, clientVars, hostVars
  <1> QED BY <1>4, <1>5, <1>6

(* The next operation of the storage queue.  What it does to the file and  *)
(* the medium stays within what is allowed.                                *)
LEMMA StoredAllowed ==
  ASSUME IInv, StoreStep
  PROVE  /\ file' \in [Blocks -> Values] /\ media' \in [Blocks -> SUBSET Values]
         /\ \A b \in Blocks : file'[b] \in known[b] /\ file'[b] \in media'[b] /\ media'[b] \subseteq safe[b]
         /\ \A b \in Blocks : file'[b] # file[b] =>
               Head(queue).op.kind = "write" /\ b \in Head(queue).op.range
  <1> USE DEF IInv
  <1> DEFINE m == Head(queue)
  <1>1. /\ queue # << >> /\ m \in Requests /\ m = queue[1] /\ 1 \in 1 .. Len(queue)
        /\ ReadLocked(m) \/ WriteLocked(m) \/ FlushLocked(m)
    BY HeadTailProperties DEF StoreStep, TypeOK
  <1>2. m.op.kind = "write" => /\ m.op.range \subseteq Blocks /\ m.op.value \in Values
                               /\ \A b \in m.op.range : m.op.value \in known[b] /\ m.op.value \in safe[b]
    BY <1>1, RequestKinds DEF Requests, Allowed
  <1> HIDE DEF m
  <1>3. CASE ReadLocked(m) \/ (FlushLocked(m) /\ UNCHANGED media)
    BY <1>3 DEF ReadLocked, FlushLocked, TypeOK, Allowed
  <1>4. CASE FlushLocked(m) /\ media' = [b \in Blocks |-> {file[b]}]
    BY <1>4 DEF FlushLocked, TypeOK, Allowed
  <1>5. CASE WriteLocked(m)
    <2>1. PICK written \in SUBSET m.op.range :
            /\ file' = [b \in Blocks |-> IF b \in written THEN m.op.value ELSE file[b]]
            /\ media' = [b \in Blocks |->
                 IF b \in written THEN media[b] \cup {m.op.value} ELSE media[b]]
      BY <1>5 DEF WriteLocked
    <2>2. m.op.kind = "write"
      BY <1>5 DEF WriteLocked
    <2>3. file' \in [Blocks -> Values] /\ media' \in [Blocks -> SUBSET Values]
      BY <1>2, <2>1, <2>2 DEF TypeOK
    <2>4. \A b \in Blocks : file'[b] \in known[b] /\ file'[b] \in media'[b] /\ media'[b] \subseteq safe[b]
      BY <1>2, <2>1, <2>2 DEF Allowed
    <2>5. \A b \in Blocks : file'[b] # file[b] => b \in m.op.range
      BY <2>1
    <2> QED BY <2>2, <2>3, <2>4, <2>5 DEF m
  <1> QED BY <1>1, <1>3, <1>4, <1>5 DEF FlushLocked

(* Its answer, if somebody waits for it, is true when it is given.         *)
LEMMA StoredAnswer ==
  ASSUME TypeOK, NEW m \in Requests, ReadLocked(m) \/ WriteLocked(m) \/ FlushLocked(m),
         m.id = fetch, m.op = Sent, tail # << >>
  PROVE  \E ok \in BOOLEAN : \E data :
           /\ replies' = replies \cup {[id |-> m.id, ok |-> ok, data |-> data]}
           /\ ok /\ HeadIs("read") => \A b \in BlocksOf(NextLine) : data[b] = file'[b]
           /\ ok /\ HeadIs("write") => \A b \in Head(tail).range : file'[b] = Head(tail).value
           /\ ok /\ HeadIs("flush") => \A b \in Blocks : media'[b] = {file'[b]}
  <1>1. Sent.kind = Head(tail).kind /\ Head(tail).range \subseteq Blocks
    BY HeadOp
  <1>2. CASE ReadLocked(m)
    <2>1. Head(tail).kind = "read" /\ m.op.range = BlocksOf(NextLine)
      BY <1>1, <1>2 DEF ReadLocked, Sent
    <2>2. CASE Respond(m, FALSE, << >>)
      BY <2>2 DEF Respond
    <2>3. CASE Respond(m, TRUE, [b \in m.op.range |-> file[b]])
      <3>1. replies' = replies \cup {[id |-> m.id, ok |-> TRUE, data |-> [b \in m.op.range |-> file[b]]]}
        BY <2>3 DEF Respond
      <3>2. file' = file
        BY <1>2 DEF ReadLocked
      <3> QED BY <2>1, <3>1, <3>2 DEF HeadIs
    <2> QED BY <1>2, <2>2, <2>3 DEF ReadLocked
  <1>3. CASE WriteLocked(m)
    <2>1. Head(tail).kind = "write" /\ m.op = Head(tail)
      BY <1>1, <1>3 DEF WriteLocked, Sent
    <2>2. PICK written :
            /\ file' = [b \in Blocks |-> IF b \in written THEN m.op.value ELSE file[b]]
            /\ Respond(m, written = m.op.range, << >>)
      BY <1>3 DEF WriteLocked
    <2>3. replies' = replies \cup {[id |-> m.id, ok |-> written = m.op.range, data |-> << >>]}
      BY <2>2 DEF Respond
    <2>4. written = m.op.range => \A b \in Head(tail).range : file'[b] = Head(tail).value
      BY <1>1, <2>1, <2>2
    <2> QED BY <2>1, <2>3, <2>4 DEF HeadIs
  <1>4. CASE FlushLocked(m)
    <2>1. Head(tail).kind = "flush" /\ file' = file
      BY <1>1, <1>4 DEF FlushLocked, Sent
    <2>2. CASE Respond(m, FALSE, << >>)
      BY <2>2 DEF Respond
    <2>3. CASE media' = [b \in Blocks |-> {file[b]}] /\ Respond(m, TRUE, << >>)
      BY <2>1, <2>3 DEF Respond, HeadIs
    <2> QED BY <1>4, <2>2, <2>3 DEF FlushLocked
  <1> QED BY <1>2, <1>3, <1>4

LEMMA StoreStepKeeps ==
  ASSUME IInv, StoreStep
  PROVE  IInv'
  <1> USE DEF IInv
  <1> DEFINE m == Head(queue)
             n == Len(queue)
  <1>1. /\ queue' = Tail(queue) /\ UNCHANGED << clientVars, net, specVars >>
        /\ m \in Requests /\ m = queue[1] /\ n \in Nat \ {0}
        /\ ReadLocked(m) \/ WriteLocked(m) \/ FlushLocked(m)
    BY HeadTailProperties DEF StoreStep, TypeOK
  <1>2. /\ queue' \in Seq(Requests) /\ Len(queue') = n - 1
        /\ \A i \in 1 .. n - 1 : queue'[i] = queue[i + 1] /\ i + 1 \in 1 .. n
    BY <1>1, HeadTailProperties DEF StoreStep, TypeOK
  <1>3. /\ Sent' = Sent /\ NextLine' = NextLine /\ Cached' = Cached
        /\ \A k \in {"read", "write", "flush"} : HeadIs(k)' = HeadIs(k)
    BY <1>1, SameHead DEF HeadIs, clientVars, Cached
  <1>4. /\ TypeOK'
        /\ \A b \in Blocks : file'[b] # file[b] => m.op.kind = "write" /\ b \in m.op.range
    BY <1>1, <1>2, StoredAllowed DEF TypeOK, clientVars, specVars
  <1>5. Allowed'
    <2>1. \A i \in 1 .. n - 1 : queue'[i] \in {queue[j] : j \in 1 .. n}
      BY <1>2
    <2> QED BY <1>1, <1>2, <2>1, StoredAllowed DEF Allowed, specVars
  <1> HIDE DEF m, n
  <1>6. CASE m.id # fetch
    <2>1. replies' = replies /\ \A r \in replies : ~r.ok
      BY <1>1, <1>6 DEF ReadLocked, WriteLocked, FlushLocked, Respond, AnswersTrue, m, n
    <2>2. OneRequest'
      <3>1. /\ tail' = tail /\ fetch' = fetch /\ fetches' = fetches /\ net' = net
            /\ Sent' = Sent
        BY <1>1, <1>3 DEF clientVars
      <3>2. \A i \in 1 .. n - 1 :
              /\ queue[i + 1].id <= fetches
              /\ queue[i + 1].id = fetch => i = n - 1 /\ queue[i + 1].op = Sent /\ net = {}
        <4> TAKE i \in 1 .. n - 1
        <4>1. i + 1 \in 1 .. Len(queue) /\ (i + 1 = Len(queue) => i = n - 1)
          BY <1>1, <1>2 DEF n
        <4> QED BY <4>1 DEF OneRequest
      <3>3. \A i \in 1 .. n - 1 :
              /\ queue'[i].id <= fetches
              /\ queue'[i].id = fetch => i = n - 1 /\ queue'[i].op = Sent /\ net = {}
        BY <1>2, <3>2
      <3>4. \A r \in replies : \A i \in 1 .. n - 1 : queue'[i].id # fetch
        BY <1>2 DEF OneRequest, n
      <3> QED BY <1>2, <2>1, <3>1, <3>3, <3>4 DEF OneRequest
    <2>3. AnswersTrue'
      BY <2>1 DEF AnswersTrue
    <2>4. m.op.kind = "write" => \A b \in m.op.range : LineOf(b) \notin Cached /\ b \notin DOMAIN got
      BY <1>1, <1>6 DEF Clean, n
    <2>5. /\ \A l \in Cached : \A b \in BlocksOf(l) : file'[b] = file[b]
          /\ \A b \in DOMAIN got : file'[b] = file[b]
      BY <1>4, <2>4 DEF BlocksOf, TypeOK
    <2>6. Clean'
      BY <1>1, <1>2, <1>3, <2>5 DEF Clean, clientVars, n
    <2> QED BY <1>4, <1>5, <2>2, <2>3, <2>6
  <1>7. CASE m.id = fetch
    <2>1. n = 1 /\ m.op = Sent /\ net = {} /\ replies = {} /\ fetch # 0 /\ tail # << >>
      <3>1. 1 \in 1 .. Len(queue) /\ queue[1].id = fetch /\ fetch # 0
        BY <1>1, <1>7 DEF Requests, n
      <3>2. 1 = n /\ m.op = Sent /\ net = {}
        BY <1>1, <3>1 DEF OneRequest, n
      <3>3. replies = {}
        BY <3>1 DEF OneRequest
      <3> QED BY <3>1, <3>2, <3>3 DEF OneRequest
    <2>2. queue' = << >>
      BY <1>2, <2>1
    <2>3. PICK ok, data :
           /\ ok \in BOOLEAN
           /\ replies' = {[id |-> m.id, ok |-> ok, data |-> data]}
           /\ ok /\ HeadIs("read") => \A b \in BlocksOf(NextLine) : data[b] = file'[b]
           /\ ok /\ HeadIs("write") => \A b \in Head(tail).range : file'[b] = Head(tail).value
           /\ ok /\ HeadIs("flush") => \A b \in Blocks : media'[b] = {file'[b]}
      <3>1. \E ok \in BOOLEAN : \E data :
              /\ replies' = replies \cup {[id |-> m.id, ok |-> ok, data |-> data]}
              /\ ok /\ HeadIs("read") => \A b \in BlocksOf(NextLine) : data[b] = file'[b]
              /\ ok /\ HeadIs("write") => \A b \in Head(tail).range : file'[b] = Head(tail).value
              /\ ok /\ HeadIs("flush") => \A b \in Blocks : media'[b] = {file'[b]}
        BY <1>1, <1>7, <2>1, StoredAnswer
      <3>2. \A r : replies \cup {r} = {r}
        BY <2>1
      <3>3. PICK ok \in BOOLEAN : \E data :
              /\ replies' = {[id |-> m.id, ok |-> ok, data |-> data]}
              /\ ok /\ HeadIs("read") => \A b \in BlocksOf(NextLine) : data[b] = file'[b]
              /\ ok /\ HeadIs("write") => \A b \in Head(tail).range : file'[b] = Head(tail).value
              /\ ok /\ HeadIs("flush") => \A b \in Blocks : media'[b] = {file'[b]}
        BY <3>1, <3>2
      <3> QED BY <3>3
    <2>4. OneRequest'
      BY <1>1, <1>3, <1>7, <2>1, <2>2, <2>3 DEF OneRequest, clientVars
    <2>5. AnswersTrue'
      BY <1>1, <1>3, <2>2, <2>3 DEF AnswersTrue, clientVars
    <2>6. m.op.kind = "write" => HeadIs("write") /\ m.op = Head(tail)
      BY <2>1, HeadOp DEF HeadIs, Sent
    <2>7. \A b \in Blocks : file'[b] # file[b] => HeadIs("write") /\ b \in Head(tail).range
      BY <1>4, <2>6
    <2>8. \A b \in DOMAIN got : file'[b] = file[b]
      BY <2>7 DEF Clean, HeadIs, TypeOK
    <2>9. Clean'
      BY <1>1, <1>3, <2>1, <2>2, <2>7, <2>8 DEF Clean, clientVars, BlocksOf
    <2> QED BY <1>4, <1>5, <2>4, <2>5, <2>9
  <1> QED BY <1>6, <1>7

(* Abrupt termination.                                                     *)
LEMMA CrashStep ==
  ASSUME IInv, Crash
  PROVE  IInv'
  <1> USE DEF IInv
  <1>1. /\ file' \in [Blocks -> Values] /\ media' = [b \in Blocks |-> {file'[b]}]
        /\ known' = media' /\ safe' = media'
        /\ queue' = << >> /\ net' = {} /\ replies' = {} /\ tail' = << >> /\ Cached' = {}
        /\ DOMAIN got' = {} /\ fetch' = 0 /\ fetches' = fetches
    BY DEF Crash, Cached
  <1>2. TypeOK'
    BY <1>1 DEF TypeOK
  <1>3. OneRequest' /\ AnswersTrue' /\ Allowed'
    BY <1>1 DEF OneRequest, AnswersTrue, Allowed
  <1>4. Clean'
    <2>1. Cardinality({}) = 0 /\ IsFiniteSet({}) /\ 0 <= MaxLines
      BY FS_EmptySet, DiskAssumption DEF DiskAssumption
    <2> QED BY <1>1, <2>1 DEF Clean
  <1> QED BY <1>2, <1>3, <1>4

-----------------------------------------------------------------------------
LEMMA NextIInv == ~LateDelivery /\ IInv /\ [Next]_vars => IInv'
  <1> SUFFICES ASSUME ~LateDelivery, IInv, [Next]_vars PROVE IInv'
    OBVIOUS
  <1>1. CASE \E op \in Ops : Enqueue(op)
    BY <1>1, EnqueueStep
  <1>2. CASE ClientStep
    BY <1>2, ReadHitStep, RequestStep, ReadLineStep, ReadDoneStep, WriteDoneStep, FlushDoneStep,
       OpFailsStep DEF ClientStep
  <1>3. CASE ConnectionFails
    BY <1>3, OpFailsStep
  <1>4. CASE DestroyClient \/ Reload \/ Crash
    BY <1>4, DestroyClientStep, ReloadStep, CrashStep
  <1>5. CASE HostStep
    BY <1>5, PerformStep, RefuseStep, StoreStepKeeps DEF HostStep
  <1>6. CASE UNCHANGED vars
    <2>1. UNCHANGED << clientVars, hostVars, wireVars, specVars >>
      BY <1>6 DEF vars
    <2>2. /\ Sent' = Sent /\ NextLine' = NextLine /\ Cached' = Cached
          /\ \A k \in {"read", "write", "flush"} : HeadIs(k)' = HeadIs(k)
      BY <2>1, SameHead DEF HeadIs, clientVars, Cached
    <2>3. TypeOK' /\ Allowed'
      BY <2>1 DEF IInv, TypeOK, Allowed, clientVars, hostVars, wireVars, specVars
    <2>4. OneRequest' /\ AnswersTrue'
      BY <2>1, <2>2 DEF IInv, OneRequest, AnswersTrue, clientVars, hostVars, wireVars
    <2>5. Clean'
      BY <2>1, <2>2 DEF IInv, Clean, clientVars, hostVars
    <2> QED BY <2>3, <2>4, <2>5 DEF IInv
  <1> QED BY <1>1, <1>2, <1>3, <1>4, <1>5, <1>6 DEF Next

(* The clean cache of NativeDiskClient holds what the image holds, at any  *)
(* moment of any interleaving with the storage queue, and keeps its limit. *)
THEOREM DiskCacheClean ==
  ASSUME ~LateDelivery
  PROVE  Spec => []CacheClean
  <1>1. IInv => CacheClean
    BY DEF IInv, Clean, HeadIs, CacheClean
  <1>2. IInv /\ [Next]_vars => IInv'
    BY NextIInv
  <1> QED BY InitIInv, <1>1, <1>2, PTL DEF Spec

-----------------------------------------------------------------------------
(* The refinement: a step of NativeDisk is a step of BlockDevice, or       *)
(* changes neither `known' nor `safe'.                                     *)
LEMMA StepImplements ==
  ASSUME IInv, [Next]_vars
  PROVE  [Disk!Next]_(Disk!vars)
  <1> USE DEF IInv
  <1>1. CASE WriteSend
    <2>1. Head(tail).range \subseteq Blocks /\ Head(tail).value \in Values
      BY <1>1, HeadOp DEF WriteSend, Idle
    <2>2. Disk!BeginWrite(Head(tail).range, Head(tail).value)
      BY <1>1 DEF WriteSend, Disk!BeginWrite
    <2> QED BY <2>1, <2>2 DEF Disk!Next
  <1>2. CASE WriteDone
    <2>1. Head(tail).range \subseteq Blocks /\ Head(tail).value \in Values
      BY <1>2, HeadOp DEF WriteDone, OneRequest
    <2>2. Disk!AckWrite(Head(tail).range, Head(tail).value)
      BY <1>2 DEF WriteDone, Disk!AckWrite
    <2> QED BY <2>1, <2>2 DEF Disk!Next
  <1>3. CASE ReadDone
    <2> DEFINE data == [b \in DOMAIN got |-> got[b]]
    <2>1. /\ DOMAIN got \in SUBSET Blocks
          /\ \A b \in DOMAIN got : got[b] \in known[b] /\ got[b] \in Values
      BY DEF TypeOK, Clean, Allowed
    <2>2. data \in [DOMAIN got -> Values]
      BY <2>1
    <2>3. Disk!AckRead(DOMAIN got, data)
      BY <1>3, <2>1 DEF ReadDone, Disk!AckRead
    <2> QED BY <2>1, <2>2, <2>3 DEF Disk!Next
  <1>4. CASE FlushDone
    BY <1>4 DEF FlushDone, Disk!Next, Disk!AckFlush
  <1>5. CASE Crash
    <2>1. /\ file' \in [Blocks -> Values] /\ \A b \in Blocks : file'[b] \in safe[b]
          /\ known' = [b \in Blocks |-> {file'[b]}] /\ safe' = known'
      BY <1>5 DEF Crash, Allowed
    <2> QED BY <2>1 DEF Disk!Next, Disk!Crash
  <1>6. CASE UNCHANGED specVars
    BY <1>6 DEF specVars, Disk!vars
  <1>7. \/ WriteSend \/ WriteDone \/ ReadDone \/ FlushDone \/ Crash \/ UNCHANGED specVars
    BY DEF Next, ClientStep, HostStep, Enqueue, ReadHit, ReadMiss, ReadLine, FlushSend,
       ErrorReply, ConnectionFails, OpFails, DestroyClient, Reload, Perform, Refuse, StoreStep,
       specVars, vars
  <1> QED BY <1>1, <1>2, <1>3, <1>4, <1>5, <1>6, <1>7

(* Whatever the guest is told of its disk, through transport failures,     *)
(* failing system calls, reloads and abrupt terminations, a disk with the  *)
(* guarantees of BlockDevice could have told it.                           *)
THEOREM DiskImplementsBlockDevice ==
  ASSUME ~LateDelivery
  PROVE  Spec => ImplementsDisk
  <1>1. Init => Disk!Init
    BY DEF Init, Disk!Init
  <1>2. IInv /\ [Next]_vars => IInv'
    BY NextIInv
  <1>3. IInv /\ [Next]_vars => [Disk!Next]_(Disk!vars)
    BY StepImplements
  <1> QED BY InitIInv, <1>1, <1>2, <1>3, PTL DEF Spec, ImplementsDisk, Disk!Spec
=============================================================================
