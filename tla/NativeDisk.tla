----------------------------- MODULE NativeDisk -----------------------------
(***************************************************************************)
(* The path of a disk operation from the Worker to the disk image: the     *)
(* serial, clean-caching client (NativeDiskClient, web/native-disk.js),    *)
(* one HTTP connection per request (DiskHTTPSession,                       *)
(* LishDisk/DiskHTTPServer.swift), the serial storage queue (DiskStore,    *)
(* LishDisk/DiskStore.swift) and the file behind it, with transport        *)
(* failures at any moment, failing system calls, page reloads, host stops  *)
(* and abrupt terminations.                                                *)
(*                                                                         *)
(* Bytes are abstracted to blocks and a block's content to a value; a      *)
(* write puts one value into all its blocks.  Ranges are the valid ones    *)
(* (#validateRange and checkedRange refuse the others without any effect). *)
(***************************************************************************)
EXTENDS Integers, Sequences, FiniteSets

CONSTANTS
  Blocks,         \* the disk, an initial segment of Nat
  Values,         \* contents of a block
  LineBlocks,     \* blocks per cache line (#cacheLineSize)
  MaxLines,       \* #maximumCacheLines
  MaxOpBlocks,    \* blocks per operation (#maximumRequestBytes)
  Image,          \* the disk image at the start
  LateDelivery,   \* may a PUT its client gave up on be performed later?
  MaxQueued,      \* bound on operations waiting in #tail
  MaxFetch        \* bound on fetches

ASSUME DiskAssumption ==
  /\ Blocks \subseteq Nat
  /\ LineBlocks \in Nat \ {0}
  /\ MaxLines \in Nat \ {0}
  /\ MaxOpBlocks \in Nat \ {0}
  /\ Image \in [Blocks -> Values]
  /\ LateDelivery \in BOOLEAN
  /\ MaxQueued \in Nat
  /\ MaxFetch \in Nat

VARIABLES
  tail,       \* NativeDiskClient.#tail: operations, the first one running
  cache,      \* #cache, a Map: the bytes of every cached line
  order,      \* the order of the Map's keys: pairs << older, younger >>
  got,        \* what the running read has copied so far
  closed,     \* NativeDiskClient.#closed
  fetch,      \* the running operation's fetch: its id, 0 for none
  fetches,    \* fetches made so far
  net,        \* requests on their way: [id, op]
  queue,      \* DiskStore.queue: requests being performed, in order
  replies,    \* responses on their way: [id, ok, data]
  file,       \* the image as pread sees it
  media,      \* per block: what an abrupt termination may leave
  known,      \* what the answers tell of each block (see BlockDevice)
  safe        \* what the acknowledged flushes promise of it

clientVars == << tail, cache, order, got, closed, fetch, fetches >>
hostVars == << queue, file, media >>
wireVars == << net, replies >>
specVars == << known, safe >>
vars == << clientVars, hostVars, wireVars, specVars >>

-----------------------------------------------------------------------------
Lines == {b \div LineBlocks : b \in Blocks}
LineOf(b) == b \div LineBlocks
BlocksOf(l) == {b \in Blocks : LineOf(b) = l}

(* Contiguous non-empty ranges.                                            *)
Ranges ==
  {r \in SUBSET Blocks :
     /\ r # {} /\ Cardinality(r) <= MaxOpBlocks
     /\ \A a, c \in r : \A b \in Blocks : a <= b /\ b <= c => b \in r}

Reads == {[kind |-> "read", range |-> r] : r \in Ranges}
Writes == {[kind |-> "write", range |-> r, value |-> v] : r \in Ranges, v \in Values}
Flush == [kind |-> "flush", range |-> {}]
Ops == Reads \cup Writes \cup {Flush}

Cached == DOMAIN cache

Init ==
  /\ tail = << >>
  /\ cache = << >>
  /\ order = {}
  /\ file = Image
  /\ media = [b \in Blocks |-> {Image[b]}]
  /\ known = media
  /\ safe = media
  /\ got = << >>
  /\ closed = FALSE
  /\ fetch = 0
  /\ fetches = 0
  /\ net = {}
  /\ queue = << >>
  /\ replies = {}

-----------------------------------------------------------------------------
(* read(), write(), flush(): #enqueue puts the operation behind the tail;  *)
(* a destroyed client refuses it.                                          *)
Enqueue(op) ==
  /\ ~closed
  /\ Len(tail) < MaxQueued
  /\ tail' = Append(tail, op)
  /\ UNCHANGED << cache, order, got, closed, fetch, fetches, hostVars, wireVars,
                  specVars >>

(* The running operation settles and the next one becomes the head.        *)
SettleOp ==
  /\ tail' = Tail(tail)
  /\ got' = << >>
  /\ fetch' = 0

(* fetch(): a request leaves.                                              *)
Send(op) ==
  /\ fetches < MaxFetch
  /\ fetches' = fetches + 1
  /\ fetch' = fetches + 1
  /\ net' = net \cup {[id |-> fetches + 1, op |-> op]}

Idle(kind) == tail # << >> /\ Head(tail).kind = kind /\ fetch = 0

(* One turn of read()'s loop: the line that holds the next byte is cached, *)
(* and becomes the youngest ...                                            *)
NextBlock(op) == CHOOSE b \in op.range \ DOMAIN got :
                   \A c \in op.range \ DOMAIN got : b <= c

(* The bytes of the read that a line supplies join those copied so far.    *)
Copy(line, data) ==
  LET part == Head(tail).range \cap BlocksOf(line) IN
  got' = [b \in DOMAIN got \cup part |-> IF b \in part THEN data[b] ELSE got[b]]

NextLine == LineOf(NextBlock(Head(tail)))

(* The Map's order once a line has been put behind all others.             *)
Youngest(line) == {p \in order : line \notin {p[1], p[2]}} \cup ((Cached \ {line}) \X {line})

ReadHit ==
  /\ Idle("read")
  /\ DOMAIN got # Head(tail).range
  /\ NextLine \in Cached
  /\ order' = Youngest(NextLine)
  /\ Copy(NextLine, cache[NextLine])
  /\ UNCHANGED << tail, cache, closed, fetch, fetches, hostVars, wireVars, specVars >>

(* ... or it is fetched.                                                   *)
ReadMiss ==
  /\ Idle("read")
  /\ DOMAIN got # Head(tail).range
  /\ NextLine \notin Cached
  /\ Send([kind |-> "read", range |-> BlocksOf(NextLine)])
  /\ UNCHANGED << tail, cache, order, got, closed, replies, hostVars, specVars >>

(* The cache keeps these lines only.                                       *)
Keep(lines) ==
  /\ cache' = [l \in lines |-> cache[l]]
  /\ order' = order \cap (lines \X lines)

(* The line arrives: it enters the cache, the oldest ones leave it, and    *)
(* its bytes are copied in the same turn.                                  *)
Line(line, data) ==
  LET lines == Cached \cup {line} IN
  \E kept \in SUBSET lines :
    /\ Cardinality(kept) = IF Cardinality(lines) > MaxLines THEN MaxLines
                                                            ELSE Cardinality(lines)
    /\ \A k \in kept, l \in lines \ kept : << l, k >> \in Youngest(line)
    /\ cache' = [l \in kept |-> IF l = line THEN data ELSE cache[l]]
    /\ order' = Youngest(line) \cap (kept \X kept)

Reply(ok) == {r \in replies : r.id = fetch /\ r.ok = ok}

ReadLine ==
  /\ fetch # 0
  /\ Head(tail).kind = "read"
  /\ \E r \in Reply(TRUE) :
       /\ Line(NextLine, r.data)
       /\ Copy(NextLine, r.data)
       /\ replies' = replies \ {r}
  /\ fetch' = 0
  /\ UNCHANGED << tail, closed, fetches, net, hostVars, specVars >>

(* All bytes are there: the read resolves.                                 *)
ReadDone ==
  /\ Idle("read")
  /\ DOMAIN got = Head(tail).range
  /\ SettleOp
  /\ known' = [b \in Blocks |-> IF b \in DOMAIN got THEN {got[b]} ELSE known[b]]
  /\ UNCHANGED << cache, order, closed, fetches, hostVars, wireVars, safe >>

(* write(): the PUT leaves.                                                *)
WriteSend ==
  /\ Idle("write")
  /\ LET op == Head(tail) IN
     /\ Send(op)
     /\ known' = [b \in Blocks |->
          IF b \in op.range THEN known[b] \cup {op.value} ELSE known[b]]
     /\ safe' = [b \in Blocks |->
          IF b \in op.range THEN safe[b] \cup {op.value} ELSE safe[b]]
  /\ UNCHANGED << tail, cache, order, got, closed, replies, hostVars >>

(* #invalidate, in the `finally' of write(): whatever the outcome.         *)
Invalidate(range) == Keep(Cached \ {LineOf(b) : b \in range})

WriteDone ==
  /\ fetch # 0
  /\ Head(tail).kind = "write"
  /\ LET op == Head(tail) IN
     \E r \in Reply(TRUE) :
       /\ replies' = replies \ {r}
       /\ Invalidate(op.range)
       /\ known' = [b \in Blocks |-> IF b \in op.range THEN {op.value} ELSE known[b]]
  /\ SettleOp
  /\ UNCHANGED << closed, fetches, net, hostVars, safe >>

FlushSend ==
  /\ Idle("flush")
  /\ Send(Flush)
  /\ UNCHANGED << tail, cache, order, got, closed, replies, hostVars, specVars >>

FlushDone ==
  /\ fetch # 0
  /\ Head(tail).kind = "flush"
  /\ \E r \in Reply(TRUE) : replies' = replies \ {r}
  /\ SettleOp
  /\ safe' = known
  /\ UNCHANGED << cache, order, closed, fetches, net, hostVars, known >>

(* Mutant: only a write that succeeded invalidates its lines.              *)
OpFailsKeepsLines ==
  /\ SettleOp
  /\ UNCHANGED << cache, order, closed, fetches, hostVars, known, safe >>

(* The operation rejects.                                                  *)
OpFails ==
  /\ IF Head(tail).kind = "write" THEN Invalidate(Head(tail).range)
                                  ELSE UNCHANGED << cache, order >>
  /\ SettleOp
  /\ UNCHANGED << closed, fetches, hostVars, known, safe >>

(* An error status arrived.                                                *)
ErrorReply ==
  /\ fetch # 0
  /\ \E r \in Reply(FALSE) : replies' = replies \ {r}
  /\ UNCHANGED net
  /\ OpFails

(* The connection failed.  What becomes of a request still on its way is   *)
(* the network's affair: it is lost, or (LateDelivery) performed later.    *)
ConnectionFails ==
  /\ fetch # 0
  /\ replies' = {r \in replies : r.id # fetch}
  /\ \/ net' = {m \in net : m.id # fetch}
     \/ LateDelivery /\ UNCHANGED net
  /\ OpFails

(* destroy(): later calls are refused; what is queued goes on.             *)
DestroyClient ==
  /\ ~closed
  /\ closed' = TRUE
  /\ cache' = << >>
  /\ order' = {}
  /\ UNCHANGED << tail, got, fetch, fetches, hostVars, wireVars, specVars >>

(* The page goes away, with its Worker and client, and a new one starts.   *)
Reload ==
  /\ closed' = FALSE
  /\ tail' = << >>
  /\ cache' = << >>
  /\ order' = {}
  /\ got' = << >>
  /\ fetch' = 0
  /\ net' = IF LateDelivery THEN net ELSE {}
  /\ replies' = {}
  /\ UNCHANGED << fetches, hostVars, specVars >>

-----------------------------------------------------------------------------
(* perform(request:): the request is complete and valid and joins the      *)
(* storage queue.                                                          *)
Perform(m) ==
  /\ net' = net \ {m}
  /\ queue' = Append(queue, m)
  /\ UNCHANGED << clientVars, file, media, replies, specVars >>

(* The session answers; a response nobody waits for is dropped with its    *)
(* connection.                                                             *)
Respond(m, ok, data) ==
  replies' = IF m.id = fetch
               THEN replies \cup {[id |-> m.id, ok |-> ok, data |-> data]}
               ELSE replies

(* A request that never reaches the store: refused connection, framing     *)
(* error, service stopped or store closed (close() waits on the storage    *)
(* queue for the operations submitted before it).                          *)
Refuse(m) ==
  /\ net' = net \ {m}
  /\ Respond(m, FALSE, << >>)
  /\ UNCHANGED << clientVars, hostVars, specVars >>

(* The next operation of the storage queue, one system call or loop of     *)
(* system calls at a time; an error leaves a prefix of a write behind.     *)
ReadLocked(m) ==
  /\ m.op.kind = "read"
  /\ \/ Respond(m, TRUE, [b \in m.op.range |-> file[b]])
     \/ Respond(m, FALSE, << >>)
  /\ UNCHANGED << file, media >>

WriteLocked(m) ==
  /\ m.op.kind = "write"
  /\ \E written \in {m.op.range} \cup
                    {{b \in m.op.range : b < k} : k \in m.op.range} :
       /\ file' = [b \in Blocks |-> IF b \in written THEN m.op.value ELSE file[b]]
       /\ media' = [b \in Blocks |->
            IF b \in written THEN media[b] \cup {m.op.value} ELSE media[b]]
       /\ Respond(m, written = m.op.range, << >>)

(* Mutant: a flush is acknowledged although fsync failed.                  *)
FlushLockedNoSync(m) ==
  /\ m.op.kind = "flush"
  /\ UNCHANGED << file, media >>
  /\ Respond(m, TRUE, << >>)

FlushLocked(m) ==
  /\ m.op.kind = "flush"
  /\ UNCHANGED file
  /\ \/ /\ media' = [b \in Blocks |-> {file[b]}]
        /\ Respond(m, TRUE, << >>)
     \/ UNCHANGED media /\ Respond(m, FALSE, << >>)

StoreStep ==
  /\ queue # << >>
  /\ LET m == Head(queue) IN ReadLocked(m) \/ WriteLocked(m) \/ FlushLocked(m)
  /\ queue' = Tail(queue)
  /\ UNCHANGED << clientVars, net, specVars >>

(* Abrupt termination of the application or the machine.                   *)
Crash ==
  /\ file' \in {f \in [Blocks -> Values] : \A b \in Blocks : f[b] \in media[b]}
  /\ media' = [b \in Blocks |-> {file'[b]}]
  /\ known' = media'
  /\ safe' = media'
  /\ queue' = << >>
  /\ net' = {}
  /\ replies' = {}
  /\ tail' = << >>
  /\ cache' = << >>
  /\ order' = {}
  /\ got' = << >>
  /\ closed' = FALSE
  /\ fetch' = 0
  /\ UNCHANGED fetches

-----------------------------------------------------------------------------
ClientStep ==
  \/ ReadHit \/ ReadMiss \/ ReadLine \/ ReadDone
  \/ WriteSend \/ WriteDone \/ FlushSend \/ FlushDone \/ ErrorReply

HostStep ==
  \/ \E m \in net : Perform(m) \/ Refuse(m)
  \/ StoreStep

Next ==
  \/ \E op \in Ops : Enqueue(op)
  \/ ClientStep \/ ConnectionFails
  \/ DestroyClient \/ Reload
  \/ HostStep
  \/ Crash

(* Promise continuations run, and the host works through its queues.       *)
Fairness == WF_vars(ClientStep) /\ WF_vars(HostStep)

Spec == Init /\ [][Next]_vars /\ Fairness

-----------------------------------------------------------------------------
(* The cache is clean: a line holds what the file holds, except where a    *)
(* write is being performed (its `finally' evicts those lines before the   *)
(* VM is answered).  It keeps to its limit.                                *)
CacheClean ==
  /\ \A l \in Cached : \A b \in BlocksOf(l) :
       \/ cache[l][b] = file[b]
       \/ fetch # 0 /\ Head(tail).kind = "write" /\ b \in Head(tail).range
  /\ Cardinality(Cached) <= MaxLines

(* Every answer, and every state found after a crash, is one the abstract  *)
(* disk allows: NativeDisk implements BlockDevice, whose state is what     *)
(* the answers tell (known) and the flushes promise (safe).                *)
Disk == INSTANCE BlockDevice WITH known <- known, safe <- safe
ImplementsDisk == Disk!Spec
=============================================================================
