-------------------------- MODULE ConnectionProofs --------------------------
(***************************************************************************)
(* Proofs about Connection, for every set of peers and every bound: type   *)
(* correctness, and the isolation of one client's session from another's.  *)
(***************************************************************************)
EXTENDS Connection, FiniteSetTheorems, TLAPS

USE PeersAssumption, BoundsAssumption

(* The inductive invariant behind SessionIsolation. *)

\* The socket thread holds a socket from accept to the end of the iteration.
SockHeld ==
  sock # NoConn <=> wpc \in {"publish", "queueOpen", "poll", "recv", "retire",
                             "queueCleanup", "release"}

\* The socket thread is started by Initialize.
StartedOnce == xpc = "deferred" => wpc = "none"

\* Outside MainFlightLoop no batch is half run.
BatchDone == xpc \in {"invoke", "crashed"} \/ temp = <<>>

\* Every session on the way from s to t, t apart, is ended by a cleanup.
AllEnded(s, es, t) ==
  \A i \in 1 .. Len(es) + 1 :
    LET c == Before(s, es, i) IN
      \/ c \in {NoConn, t}
      \/ \E j \in i .. Len(es) : CleanupOf(es[j], c)

SessionInv ==
  Chained /\ Isolated /\ AllEnded(session, Pending, PostedSession)

IInv ==
  /\ TypeOK /\ StartedOnce /\ SockHeld /\ BatchDone
  /\ (throws = 0 /\ xpc # "disabled") => SessionInv

-----------------------------------------------------------------------------
TypeInv == TypeOK /\ StartedOnce /\ SockHeld /\ BatchDone

\* The aircraft present are finitely many, so listing them gives a sequence.
LEMMA PlanesListed ==
  ASSUME NEW order \in SetToSeqs(Planes), TypeOK, NEW kind \in PeerKinds
  PROVE  [i \in 1 .. Len(order) |->
            Msg(kind, order[i], mapPlanes[order[i]])] \in Seq(Message)
<1>1. IsFiniteSet(Planes)
  BY FS_Subset DEF Planes
<1>2. Cardinality(Planes) \in Nat
  BY <1>1, FS_CardinalityType
<1>3. order \in [1 .. Cardinality(Planes) -> Planes]
  BY DEF SetToSeqs
<1>4. order \in Seq(Planes)
  BY <1>2, <1>3
<1>5. /\ Len(order) \in Nat
      /\ \A i \in 1 .. Len(order) :
           order[i] \in Peers /\ mapPlanes[order[i]] \in Conns
  BY <1>4 DEF Planes, TypeOK
<1>6. \A i \in 1 .. Len(order) : Msg(kind, order[i], mapPlanes[order[i]]) \in Message
  BY <1>5 DEF Msg, Message
<1> QED
  BY <1>5, <1>6

\* The initial state is well typed.
LEMMA InitTypeInv == Init => TypeInv
<1> SUFFICES ASSUME Init PROVE TypeInv
  OBVIOUS
<1>1. /\ connects \in 0 .. MaxConns /\ accepts \in 0 .. connects
      /\ opened \in 0 .. MaxConns
      /\ cmds \in 0 .. MaxCmds /\ throws \in 0 .. MaxThrows
  BY DEF Init
<1>2. /\ wpc \in WorkerPCs /\ xpc \in SimPCs
      /\ ub \in {"none", "send", "close"}
      /\ StartedOnce /\ SockHeld /\ BatchDone
  BY DEF StartedOnce, Init, WorkerPCs, SimPCs, SockHeld, BatchDone
<1>3. /\ temp \in Seq(Entry) /\ m_queuedCallbacks \in Seq(Entry)
      /\ outbox \in Seq(Message)
  BY DEF Init
<1>4. /\ left \subseteq Conns /\ garbled \subseteq Conns
      /\ mapPlanes \in [Peers -> Conns \cup {NoConn}]
      /\ view \in [Conns -> SUBSET Peers]
      /\ m_keepSocketAlive \in BOOLEAN /\ menu \in BOOLEAN /\ closed \in BOOLEAN
  BY Zenon DEF Init
<1>5. {sock, m_socket, target, session} \subseteq Conns \cup {NoConn}
  BY DEF Init
<1> QED
  BY <1>1, <1>2, <1>3, <1>4, <1>5, Zenon DEF TypeInv, TypeOK

\* A posted callback keeps the queue a queue of entries.
LEMMA QueueTyped ==
  ASSUME TypeOK, NEW e \in Entry, QueueCallback(e)
  PROVE  m_queuedCallbacks' \in Seq(Entry)
  BY DEF TypeOK, QueueCallback

LEMMA WorkerTypeInv ==
  ASSUME TypeInv, WorkerStep \/ Throw
  PROVE  TypeInv'
<1> USE DEF TypeInv, TypeOK, StartedOnce, SockHeld, BatchDone, WorkerPCs, sharedVars, appVars,
           simVars, sendVars, Worker, Conns, NoConn
<1>1. CASE OpenAcceptor \/ TestLoop \/ AcceptRetry \/ TestPoll
  <2>1. CASE OpenAcceptor
    BY <2>1 DEF OpenAcceptor
  <2>2. CASE TestLoop
    BY <2>2 DEF TestLoop
  <2>3. CASE AcceptRetry
    BY <2>3 DEF AcceptRetry
  <2>4. CASE TestPoll
    BY <2>4 DEF TestPoll
  <2> QED
    BY <1>1, <2>1, <2>2, <2>3, <2>4
<1>2. CASE Accept
  BY <1>2 DEF Accept
<1>3. CASE Publish \/ Retire \/ Release
  <2>1. CASE Publish
    BY <2>1 DEF Publish
  <2>2. CASE Retire
    BY <2>2 DEF Retire
  <2>3. CASE Release
    BY <2>3 DEF Release
  <2> QED
    BY <1>3, <2>1, <2>2, <2>3
<1>4. CASE QueueOpen
  <2>1. Call("open", sock, NoPeer) \in Entry
    BY <1>4 DEF QueueOpen, Call, Entry, Ops, PeerOps
  <2> QED
    BY <1>4, <2>1, QueueTyped DEF QueueOpen
<1>5. CASE QueueCleanup
  <2>1. Call("cleanup", sock, NoPeer) \in Entry
    BY <1>5 DEF QueueCleanup, Call, Entry, Ops, PeerOps
  <2> QED
    BY <1>5, <2>1, QueueTyped DEF QueueCleanup
<1>6. CASE Receive
  <2>1. m_queuedCallbacks' \in Seq(Entry)
    <3>1. \A op \in PeerOps, p \in Peers : Call(op, sock, p) \in Entry
      BY <1>6 DEF Receive, Call, Entry
    <3>2. \A op \in {"update", "models"} : Call(op, sock, NoPeer) \in Entry
      BY <1>6 DEF Receive, Call, Entry, Ops, PeerOps
    <3> QED
      BY <1>6, <3>1, <3>2, QueueTyped DEF Receive, ProcessPacket
  <2> QED
    BY <1>6, <2>1 DEF Receive
<1>7. CASE ReceiveFailed \/ ReceiveGarbled
  <2>1. CASE ReceiveFailed
    BY <2>1 DEF ReceiveFailed
  <2>2. CASE ReceiveGarbled
    BY <2>2 DEF ReceiveGarbled
  <2> QED
    BY <1>7, <2>1, <2>2
<1>8. CASE Throw
  BY <1>8 DEF Throw
<1> QED
  BY <1>1, <1>2, <1>3, <1>4, <1>5, <1>6, <1>7, <1>8 DEF WorkerStep, WorkerProgress

\* A refused spawn drops the batch and nothing else.
LEMMA RefusedTypeInv ==
  ASSUME TypeInv, SpawnRefused
  PROVE  TypeInv'
  BY DEF SpawnRefused, Quiet, TypeInv, TypeOK, StartedOnce, SockHeld, BatchDone,
         SimPCs, workerVars, sharedVars, simVars, sendVars

\* A client connecting or leaving.
LEMMA AppTypeInv ==
  ASSUME TypeInv, AppStep
  PROVE  TypeInv'
<1> USE DEF TypeInv, TypeOK, StartedOnce, SockHeld, BatchDone, workerVars, sharedVars, simVars,
           sendVars
<1>1. CASE AppConnect
  BY <1>1 DEF AppConnect
<1>2. ASSUME NEW c \in Conns, AppLeave(c) PROVE TypeInv'
  BY <1>2 DEF AppLeave
<1> QED
  BY <1>1, <1>2 DEF AppStep

\* The steps of send_msg.
LEMMA SendTypeInv ==
  ASSUME TypeInv, SendStep
  PROVE  TypeInv'
<1> USE DEF TypeInv, TypeOK, StartedOnce, SockHeld, BatchDone, sharedVars, appVars, workerVars,
           simVars, Sending
<1>1. outbox # <<>> => Tail(outbox) \in Seq(Message)
  OBVIOUS
<1>2. CASE SendTest
  <2>1. outbox' \in Seq(Message) /\ target' \in Conns \cup {NoConn}
    BY <1>1, <1>2 DEF SendTest
  <2> QED
    BY <1>2, <2>1 DEF SendTest
<1>3. CASE SendDelivered
  <2>1. PICK c \in Dereferenced \ {NoConn} : Finish(Told(c, Head(outbox)))
    BY <1>3 DEF SendDelivered
  <2>2. c \in Conns
    BY <2>1 DEF Dereferenced
  <2>3. Head(outbox) \in Message
    BY <1>3 DEF SendDelivered
  <2>4. Head(outbox).kind = "spawned" => Head(outbox).peer \in Peers
    BY <2>3 DEF Message, Kinds, PeerKinds
  <2>5. Told(c, Head(outbox)) \in [Conns -> SUBSET Peers]
    BY <2>2, <2>4 DEF Told
  <2> QED
    BY <1>1, <1>3, <2>1, <2>5 DEF SendDelivered, Finish, NoConn
<1>4. CASE SendFailed
  <2>1. /\ Finish(view) /\ outbox # <<>>
        /\ m_keepSocketAlive' = FALSE
        /\ ub' \in {"none", "send", "close"}
    BY <1>4 DEF SendFailed
  <2> QED
    BY ZenonT(30), <1>1, <2>1 DEF Finish, NoConn
<1>5. CASE SendCrashed
  <2>1. ub' \in {"none", "send", "close"}
    BY <1>5 DEF SendCrashed
  <2> QED
    BY <1>5, <2>1 DEF SendCrashed, SimPCs
<1> QED
  BY <1>2, <1>3, <1>4, <1>5 DEF SendStep

\* Destroying every aircraft announces each one.
LEMMA ClearTyped ==
  ASSUME TypeOK, ClearPlanes
  PROVE  /\ mapPlanes' \in [Peers -> Conns \cup {NoConn}]
         /\ outbox' \in Seq(Message)
<1>1. mapPlanes' \in [Peers -> Conns \cup {NoConn}]
  BY DEF ClearPlanes
<1>2. outbox' \in Seq(Message)
  BY PlanesListed DEF ClearPlanes, PeerKinds
<1> QED
  BY <1>1, <1>2

\* The callbacks of a batch.
LEMMA RunTypeInv ==
  ASSUME TypeInv, RunStep
  PROVE  TypeInv'
<1> USE DEF TypeInv, TypeOK, StartedOnce, SockHeld, BatchDone, sharedVars, appVars, workerVars,
           simVars, SimStep, RunNext, Quiet
<1> DEFINE e == Head(temp)
<1>1. /\ e \in Entry /\ temp' \in Seq(Entry)
      /\ xpc' = xpc /\ xpc = "invoke"
      /\ UNCHANGED <<connects, accepts, left, garbled, cmds, throws, wpc, sock,
                     m_socket, m_keepSocketAlive, m_queuedCallbacks, target, view,
                     ub, closed>>
  <2>1. PICK op \in Ops : RunNext(op)
    BY DEF RunStep, RunOpen, RunSpawn, RunDespawn, RunUpdate, RunModels, RunCleanup,
           Ops, PeerOps
  <2> QED
    BY <2>1
<1>2. /\ e.conn \in Conns
      /\ e.op \in PeerOps => e.peer \in Peers
  BY <1>1 DEF Entry, Ops, PeerOps
<1>3. ASSUME outbox' \in Seq(Message),
             mapPlanes' \in [Peers -> Conns \cup {NoConn}],
             menu' \in BOOLEAN, session' \in Conns \cup {NoConn},
             opened' \in 0 .. MaxConns
      PROVE  TypeInv'
  BY <1>1, <1>3
<1>4. CASE RunOpen
  <2>1. Msg("open", NoPeer, e.conn) \in Message
    BY <1>2 DEF Msg, Message, Kinds, PeerKinds
  <2>2. outbox' \in Seq(Message)
    BY <1>4, <2>1 DEF RunOpen
  <2>3. session' \in Conns \cup {NoConn} /\ opened' \in 0 .. MaxConns
    BY <1>2, <1>4 DEF RunOpen, Conns
  <2> QED
    BY <1>3, <1>4, <2>2, <2>3 DEF RunOpen
<1>5. ASSUME NEW p \in Peers, p \in Planes, Erase(p)
      PROVE  /\ mapPlanes' \in [Peers -> Conns \cup {NoConn}]
             /\ outbox' \in Seq(Message)
  <2>1. Msg("despawned", p, mapPlanes[p]) \in Message
    BY <1>5 DEF Planes, Msg, Message, PeerKinds
  <2> QED
    BY <1>5, <2>1 DEF Erase
<1>6. CASE RunSpawn
  <2>1. e.peer \in Peers
    BY <1>2, <1>6 DEF RunSpawn, PeerOps
  <2>2. ASSUME Emplace(e.peer, e.conn)
        PROVE  /\ mapPlanes' \in [Peers -> Conns \cup {NoConn}]
               /\ outbox' \in Seq(Message)
    <3>1. Msg("spawned", e.peer, e.conn) \in Message
      BY <1>2, <2>1 DEF Msg, Message, PeerKinds
    <3> QED
      BY <1>2, <2>1, <2>2, <3>1 DEF Emplace
  <2> QED
    BY <1>3, <1>5, <1>6, <2>1, <2>2 DEF RunSpawn
<1>7. CASE RunDespawn
  <2>1. e.peer \in Peers
    BY <1>2, <1>7 DEF RunDespawn, PeerOps
  <2> QED
    BY <1>3, <1>5, <1>7, <2>1 DEF RunDespawn
<1>8. CASE RunUpdate
  BY <1>3, <1>8 DEF RunUpdate
<1>9. CASE RunModels
  <2>1. Msg("models", NoPeer, e.conn) \in Message
    BY <1>2 DEF Msg, Message, Kinds, PeerKinds
  <2> QED
    BY <1>3, <1>9, <2>1 DEF RunModels
<1>10. CASE RunCleanup
  BY <1>3, <1>10, ClearTyped DEF RunCleanup
<1> QED
  BY <1>4, <1>6, <1>7, <1>8, <1>9, <1>10 DEF RunStep

\* The other callbacks of X-Plane's thread, and XPluginDisable.
LEMMA SimTypeInv ==
  ASSUME TypeInv,
         \/ Initialize \/ SwapQueue \/ Maintenance \/ DisableDeleteAll
         \/ FrameReports \/ CallbackReturns \/ ShutdownStep
  PROVE  TypeInv'
<1> USE DEF TypeInv, TypeOK, StartedOnce, SockHeld, BatchDone, sharedVars, appVars, workerVars,
           simVars, sendVars, SimStep, Quiet, SimPCs
<1>1. CASE Initialize
  <2>1. wpc = "none" /\ sock = NoConn
    BY <1>1 DEF Initialize
  <2> QED
    BY <1>1, <2>1 DEF Initialize, WorkerPCs
<1>2. CASE SwapQueue
  BY <1>2 DEF SwapQueue
<1>3. CASE Maintenance
  <2>1. outbox' \in Seq(Message)
    BY <1>3, PlanesListed DEF Maintenance, PeerKinds
  <2> QED
    BY <1>3, <2>1 DEF Maintenance
<1>4. CASE DisableDeleteAll
  BY <1>4, ClearTyped DEF DisableDeleteAll
<1>5. CASE FrameReports
  <2>1. Msg("report", NoPeer, NoConn) \in Message
    BY DEF Msg, Message, Kinds, PeerKinds
  <2> DEFINE r == Msg("report", NoPeer, NoConn)
  <2>2. <<r, r>> \in Seq(Message) /\ <<r, r, r>> \in Seq(Message)
    BY <2>1
  <2>3. outbox' \in Seq(Message)
    BY <1>5, <2>2 DEF FrameReports
  <2> QED
    BY <1>5, <2>3 DEF FrameReports
<1>6. CASE CallbackReturns
  BY <1>6 DEF CallbackReturns
<1>7. CASE ShutdownStop
  BY ZenonT(30), <1>7 DEF ShutdownStop
<1>8. CASE ShutdownTest
  BY <1>8 DEF ShutdownTest
<1>9. CASE ShutdownClose
  <2>1. /\ xpc' \in {"join", "crashed"} /\ temp' = <<>>
        /\ closed' \in BOOLEAN
        /\ ub' \in {"none", "send", "close"}
    BY <1>9 DEF ShutdownClose
  <2> QED
    BY <1>9, <2>1 DEF ShutdownClose, NoConn
<1>10. CASE ShutdownJoined
  BY <1>10 DEF ShutdownJoined, NoConn
<1> QED
  BY <1>1, <1>2, <1>3, <1>4, <1>5, <1>6, <1>7, <1>8, <1>9, <1>10 DEF ShutdownStep

LEMMA NextTypeInv == TypeInv /\ [Next]_vars => TypeInv'
<1> SUFFICES ASSUME TypeInv, [Next]_vars PROVE TypeInv'
  OBVIOUS
<1>1. CASE UNCHANGED vars
  BY <1>1 DEF vars, appVars, workerVars, sharedVars, simVars, sendVars,
           TypeInv, TypeOK, StartedOnce, SockHeld, BatchDone
<1>2. CASE Next
  BY <1>1, <1>2, AppTypeInv, WorkerTypeInv, RefusedTypeInv, SendTypeInv, RunTypeInv,
     SimTypeInv DEF Next, SimProgress, Terminated
<1> QED
  BY <1>1, <1>2

(* Type correctness: every state the two threads and the clients can reach   *)
(* is well typed.                                                            *)
THEOREM TypeCorrect == Spec => []TypeOK
<1>1. TypeInv => TypeOK
  BY DEF TypeInv
<1> QED
  BY <1>1, InitTypeInv, NextTypeInv, PTL DEF Spec

-----------------------------------------------------------------------------
(* The chain of sessions in the queue: what appending an entry and taking   *)
(* the first one do to it.                                                   *)

LEMMA ChainAppend ==
  ASSUME NEW es \in Seq(Entry), NEW e \in Entry, NEW s, NEW t,
         Chain(s, es, t), t = Required(e)
  PROVE  Chain(s, Append(es, e), After(e))
<1> DEFINE fs == Append(es, e)
<1>1. /\ Len(fs) = Len(es) + 1 /\ Len(es) \in Nat
      /\ \A i \in 1 .. Len(es) : fs[i] = es[i]
      /\ fs[Len(es) + 1] = e
  OBVIOUS
<1>2. \A i \in 1 .. Len(es) + 1 : Before(s, fs, i) = Before(s, es, i)
  BY <1>1 DEF Before
<1>3. Before(s, fs, Len(fs) + 1) = After(e)
  BY <1>1 DEF Before
<1>4. \A i \in 1 .. Len(fs) : Before(s, fs, i) = Required(fs[i])
  BY <1>1, <1>2 DEF Chain
<1> QED
  BY <1>3, <1>4 DEF Chain

LEMMA ChainPop ==
  ASSUME NEW es \in Seq(Entry), es # <<>>, NEW s, NEW t, Chain(s, es, t)
  PROVE  /\ s = Required(Head(es))
         /\ Chain(After(Head(es)), Tail(es), t)
<1> DEFINE fs == Tail(es)
           r == After(Head(es))
<1>1. /\ Len(es) \in Nat /\ Len(es) > 0 /\ Len(fs) = Len(es) - 1
      /\ Head(es) = es[1]
      /\ \A i \in 1 .. Len(fs) : fs[i] = es[i + 1]
  OBVIOUS
<1>2. s = Required(Head(es))
  BY <1>1 DEF Chain, Before
<1>3. \A i \in 1 .. Len(fs) + 1 : Before(r, fs, i) = Before(s, es, i + 1)
  <2> SUFFICES ASSUME NEW i \in 1 .. Len(fs) + 1
               PROVE  Before(r, fs, i) = Before(s, es, i + 1)
    OBVIOUS
  <2>1. CASE i = 1
    BY <1>1, <2>1 DEF Before
  <2>2. CASE i # 1
    BY <1>1, <2>2 DEF Before
  <2> QED
    BY <2>1, <2>2
<1>4. \A i \in 1 .. Len(fs) : Before(r, fs, i) = Required(fs[i])
  BY <1>1, <1>3 DEF Chain
<1>5. t = Before(r, fs, Len(fs) + 1)
  BY <1>1, <1>3 DEF Chain
<1> QED
  BY <1>2, <1>4, <1>5 DEF Chain

LEMMA EndedAppend ==
  ASSUME NEW es \in Seq(Entry), NEW e \in Entry, NEW s, NEW t,
         Chain(s, es, t), AllEnded(s, es, t), t = Required(e)
  PROVE  AllEnded(s, Append(es, e), After(e))
<1> DEFINE fs == Append(es, e)
<1>1. /\ Len(fs) = Len(es) + 1 /\ Len(es) \in Nat
      /\ \A i \in 1 .. Len(es) : fs[i] = es[i]
      /\ fs[Len(es) + 1] = e
  OBVIOUS
<1>2. \A i \in 1 .. Len(es) + 1 : Before(s, fs, i) = Before(s, es, i)
  BY <1>1 DEF Before
<1>3. t = After(e) \/ t = NoConn \/ CleanupOf(e, t)
  BY DEF Required, After, CleanupOf
<1> SUFFICES ASSUME NEW i \in 1 .. Len(fs) + 1
             PROVE  \/ Before(s, fs, i) \in {NoConn, After(e)}
                    \/ \E j \in i .. Len(fs) : CleanupOf(fs[j], Before(s, fs, i))
  BY DEF AllEnded
<1>4. CASE i = Len(fs) + 1
  BY <1>1, <1>4 DEF Before
<1>5. CASE i # Len(fs) + 1
  <2> DEFINE c == Before(s, es, i)
  <2>1. i \in 1 .. Len(es) + 1 /\ Before(s, fs, i) = c
    BY <1>1, <1>2, <1>5
  <2>2. CASE c = t
    BY <1>1, <1>3, <2>1, <2>2
  <2>3. CASE c = NoConn
    BY <2>1, <2>3
  <2>4. ASSUME NEW j \in i .. Len(es), CleanupOf(es[j], c)
        PROVE  \E k \in i .. Len(fs) : CleanupOf(fs[k], c)
    BY <1>1, <2>1, <2>4
  <2> QED
    BY <2>1, <2>2, <2>3, <2>4 DEF AllEnded
<1> QED
  BY <1>4, <1>5

LEMMA EndedPop ==
  ASSUME NEW es \in Seq(Entry), es # <<>>, NEW s, NEW t, AllEnded(s, es, t)
  PROVE  AllEnded(After(Head(es)), Tail(es), t)
<1> DEFINE fs == Tail(es)
           r == After(Head(es))
<1>1. /\ Len(es) \in Nat /\ Len(es) > 0 /\ Len(fs) = Len(es) - 1
      /\ Head(es) = es[1]
      /\ \A i \in 1 .. Len(fs) : fs[i] = es[i + 1]
  OBVIOUS
<1> SUFFICES ASSUME NEW i \in 1 .. Len(fs) + 1
             PROVE  \/ Before(r, fs, i) \in {NoConn, t}
                    \/ \E j \in i .. Len(fs) : CleanupOf(fs[j], Before(r, fs, i))
  BY DEF AllEnded
<1>2. Before(r, fs, i) = Before(s, es, i + 1)
  <2>1. CASE i = 1
    BY <1>1, <2>1 DEF Before
  <2>2. CASE i # 1
    BY <1>1, <2>2 DEF Before
  <2> QED
    BY <2>1, <2>2
<1>3. ASSUME NEW j \in i + 1 .. Len(es), CleanupOf(es[j], Before(s, es, i + 1))
      PROVE  \E k \in i .. Len(fs) : CleanupOf(fs[k], Before(r, fs, i))
  <2>1. j - 1 \in i .. Len(fs) /\ fs[j - 1] = es[j]
    BY <1>1
  <2> QED
    BY <1>2, <1>3, <2>1
<1> QED
  BY <1>1, <1>2, <1>3 DEF AllEnded

\* What posting an entry, taking the first one and swapping the queue out do to
\* the entries pending.
LEMMA PendingTyped ==
  ASSUME TypeOK
  PROVE  Pending \in Seq(Entry)
  BY DEF TypeOK, Pending

LEMMA PendingPosted ==
  ASSUME TypeOK, NEW e \in Entry, QueueCallback(e), UNCHANGED temp
  PROVE  Pending' = Append(Pending, e)
<1> DEFINE q == m_queuedCallbacks
<1>1. temp \in Seq(Entry) /\ q \in Seq(Entry)
  BY DEF TypeOK
<1>2. temp \o Append(q, e) = Append(temp \o q, e)
  BY <1>1
<1> QED
  BY <1>2 DEF QueueCallback, Pending

LEMMA PendingTaken ==
  ASSUME TypeOK, temp # <<>>, temp' = Tail(temp), UNCHANGED m_queuedCallbacks
  PROVE  /\ Pending # <<>> /\ Head(Pending) = Head(temp)
         /\ Pending' = Tail(Pending)
<1> DEFINE q == m_queuedCallbacks
<1>1. temp \in Seq(Entry) /\ q \in Seq(Entry)
  BY DEF TypeOK
<1>2. /\ temp \o q # <<>>
      /\ Head(temp \o q) = Head(temp)
      /\ Tail(temp) \o q = Tail(temp \o q)
  BY <1>1
<1> QED
  BY <1>2 DEF Pending

LEMMA PendingSwapped ==
  ASSUME TypeOK, temp = <<>>, temp' = m_queuedCallbacks, m_queuedCallbacks' = <<>>
  PROVE  Pending' = Pending
<1> DEFINE q == m_queuedCallbacks
<1>1. q \in Seq(Entry)
  BY DEF TypeOK
<1>2. q \o <<>> = <<>> \o q
  BY <1>1
<1> QED
  BY <1>2 DEF Pending

-----------------------------------------------------------------------------
(* Steps of the socket thread keep the sessions apart. *)

\* A step that touches neither the queue, the aircraft nor the posted session.
LEMMA SessionUntouched ==
  ASSUME SessionInv, UNCHANGED <<Pending, PostedSession, mapPlanes, session>>
  PROVE  SessionInv'
  BY DEF SessionInv, Chained, Isolated, Planes

LEMMA SessionPosted ==
  ASSUME TypeOK, SessionInv, NEW e \in Entry, QueueCallback(e),
         UNCHANGED <<temp, mapPlanes, session>>,
         PostedSession = Required(e), PostedSession' = After(e)
  PROVE  SessionInv'
<1>1. Pending \in Seq(Entry) /\ Pending' = Append(Pending, e)
  BY PendingTyped, PendingPosted
<1>2. Chained'
  BY <1>1, ChainAppend DEF SessionInv, Chained
<1>3. AllEnded(session, Pending, PostedSession)'
  BY <1>1, EndedAppend DEF SessionInv, Chained
<1>4. Isolated'
  BY DEF SessionInv, Isolated, Planes
<1> QED
  BY <1>2, <1>3, <1>4 DEF SessionInv

LEMMA WorkerSession ==
  ASSUME TypeInv, SessionInv, WorkerStep
  PROVE  SessionInv'
<1> USE DEF Worker, simVars, sendVars
<1>1. UNCHANGED <<temp, mapPlanes, session>>
  BY DEF WorkerStep, WorkerProgress, OpenAcceptor, TestLoop, Accept, AcceptRetry,
         Publish, QueueOpen, TestPoll, Receive, ReceiveFailed, ReceiveGarbled,
         Retire, QueueCleanup, Release
<1>2. CASE \/ OpenAcceptor \/ TestLoop \/ Accept \/ AcceptRetry \/ Publish
           \/ TestPoll \/ ReceiveFailed \/ ReceiveGarbled \/ Retire \/ Release
  <2>1. UNCHANGED m_queuedCallbacks
    BY <1>2 DEF OpenAcceptor, TestLoop, Accept, AcceptRetry, Publish, TestPoll,
       ReceiveFailed, ReceiveGarbled, Retire, Release, sharedVars
  <2>2. UNCHANGED PostedSession
    BY <1>2 DEF OpenAcceptor, TestLoop, Accept, AcceptRetry, Publish, TestPoll,
       ReceiveFailed, ReceiveGarbled, Retire, Release, PostedSession
  <2>3. UNCHANGED Pending
    BY <1>1, <2>1 DEF Pending
  <2> QED
    BY <1>1, <2>2, <2>3, SessionUntouched
<1>3. CASE QueueOpen
  <2> DEFINE e == Call("open", sock, NoPeer)
  <2>1. sock \in Conns
    BY <1>3 DEF QueueOpen, TypeInv, TypeOK, SockHeld
  <2>2. e \in Entry
    BY <2>1 DEF Call, Entry, Ops, PeerOps
  <2>3. PostedSession = Required(e) /\ PostedSession' = After(e)
    BY <1>3 DEF QueueOpen, PostedSession, Required, After, Call
  <2> QED
    BY <1>1, <1>3, <2>2, <2>3, SessionPosted DEF QueueOpen, TypeInv
<1>4. CASE QueueCleanup
  <2> DEFINE e == Call("cleanup", sock, NoPeer)
  <2>1. sock \in Conns
    BY <1>4 DEF QueueCleanup, TypeInv, TypeOK, SockHeld
  <2>2. e \in Entry
    BY <2>1 DEF Call, Entry, Ops, PeerOps
  <2>3. PostedSession = Required(e) /\ PostedSession' = After(e)
    BY <1>4 DEF QueueCleanup, PostedSession, Required, After, Call
  <2> QED
    BY <1>1, <1>4, <2>2, <2>3, SessionPosted DEF QueueCleanup, TypeInv
<1>5. CASE Receive
  <2>1. sock \in Conns /\ PostedSession = sock /\ PostedSession' = sock
    BY <1>5 DEF Receive, TypeInv, TypeOK, SockHeld, PostedSession
  <2>2. ASSUME NEW op \in PeerOps \cup {"update", "models"},
               NEW p \in Peers \cup {NoPeer},
               op \in PeerOps <=> p \in Peers,
               QueueCallback(Call(op, sock, p))
        PROVE  SessionInv'
    <3> DEFINE e == Call(op, sock, p)
    <3>1. e \in Entry
      BY <2>1, <2>2 DEF Call, Entry, Ops, PeerOps
    <3>2. PostedSession = Required(e) /\ PostedSession' = After(e)
      BY <2>1 DEF Required, After, Call, PeerOps
    <3> QED
      BY <1>1, <2>2, <3>1, <3>2, SessionPosted DEF TypeInv
  <2>3. CASE UNCHANGED m_queuedCallbacks
    BY <1>1, <2>1, <2>3, SessionUntouched DEF Pending
  <2> QED
    BY <1>5, <2>2, <2>3, PeersAssumption DEF Receive, ProcessPacket, PeerOps
<1> QED
  BY <1>2, <1>3, <1>4, <1>5 DEF WorkerStep, WorkerProgress

-----------------------------------------------------------------------------
(* Steps of X-Plane's thread keep the sessions apart. *)

LEMMA SessionTaken ==
  ASSUME TypeInv, SessionInv, NEW op \in Ops, RunNext(op),
         session' = After(Head(temp)), Isolated'
  PROVE  SessionInv'
<1> DEFINE e == Head(temp)
<1>1. /\ temp # <<>> /\ temp' = Tail(temp)
      /\ UNCHANGED <<m_queuedCallbacks, wpc, sock>>
  BY DEF RunNext, sharedVars, SimStep, workerVars
<1>2. /\ Pending \in Seq(Entry) /\ Pending # <<>>
      /\ Head(Pending) = e /\ Pending' = Tail(Pending)
  BY <1>1, PendingTyped, PendingTaken DEF TypeInv
<1>3. PostedSession' = PostedSession
  BY <1>1 DEF PostedSession
<1>4. Chained'
  BY <1>2, <1>3, ChainPop DEF SessionInv, Chained
<1>5. AllEnded(session, Pending, PostedSession)'
  BY <1>2, <1>3, EndedPop DEF SessionInv
<1> QED
  BY <1>4, <1>5 DEF SessionInv

\* A callback finds the session open that it needs.
LEMMA SessionFound ==
  ASSUME TypeInv, SessionInv, NEW op \in Ops, RunNext(op)
  PROVE  session = Required(Head(temp)) /\ Head(temp) \in Entry
<1>1. /\ temp # <<>> /\ temp' = Tail(temp) /\ UNCHANGED m_queuedCallbacks
  BY DEF RunNext, sharedVars
<1>2. /\ Pending \in Seq(Entry) /\ Pending # <<>> /\ Head(Pending) = Head(temp)
  BY <1>1, PendingTyped, PendingTaken DEF TypeInv
<1>3. session = Required(Head(temp))
  BY <1>2, ChainPop DEF SessionInv, Chained
<1>4. Head(temp) \in Entry
  BY <1>1 DEF TypeInv, TypeOK
<1> QED
  BY <1>3, <1>4

LEMMA RunSession ==
  ASSUME TypeInv, SessionInv, RunStep
  PROVE  SessionInv'
<1> DEFINE e == Head(temp)
<1>0. mapPlanes \in [Peers -> Conns \cup {NoConn}]
  BY DEF TypeInv, TypeOK
<1>1. CASE RunOpen
  <2>1. RunNext("open") /\ "open" \in Ops /\ e.op = "open"
    BY <1>1 DEF RunOpen, RunNext, Ops
  <2>2. session = NoConn
    BY <2>1, SessionFound DEF Required
  <2>3. Planes = {}
    BY <2>2 DEF SessionInv, Isolated, Planes
  <2>4. Isolated'
    BY <1>1, <2>3 DEF RunOpen, Isolated, Planes
  <2>5. session' = After(e)
    BY <1>1, <2>1 DEF RunOpen, After
  <2> QED
    BY <2>1, <2>4, <2>5, SessionTaken
<1>2. ASSUME NEW op \in Ops \ {"open", "cleanup"}, RunNext(op), UNCHANGED session,
             \A p \in Peers : mapPlanes'[p] \in {NoConn, mapPlanes[p], e.conn}
      PROVE  SessionInv'
  <2>1. e.op = op
    BY <1>2 DEF RunNext
  <2>2. session = e.conn /\ session' = After(e)
    BY <1>2, <2>1, SessionFound DEF Required, After
  <2>3. Isolated'
    BY <1>2, <2>2 DEF SessionInv, Isolated, Planes
  <2> QED
    BY <1>2, <2>2, <2>3, SessionTaken
<1>3. CASE RunSpawn
  <2>1. \A p \in Peers : mapPlanes'[p] \in {NoConn, mapPlanes[p], e.conn}
    BY <1>0, <1>3 DEF RunSpawn, Erase, Emplace
  <2> QED
    BY <1>2, <1>3, <2>1 DEF RunSpawn, Ops, PeerOps
<1>4. CASE RunDespawn
  <2>1. \A p \in Peers : mapPlanes'[p] \in {NoConn, mapPlanes[p], e.conn}
    BY <1>0, <1>4 DEF RunDespawn, Erase
  <2> QED
    BY <1>2, <1>4, <2>1 DEF RunDespawn, Ops, PeerOps
<1>5. CASE RunUpdate
  BY <1>2, <1>5 DEF RunUpdate, simVars, Ops
<1>6. CASE RunModels
  BY <1>2, <1>6 DEF RunModels, simVars, Ops
<1>7. CASE RunCleanup
  <2>1. RunNext("cleanup") /\ "cleanup" \in Ops /\ e.op = "cleanup"
    BY <1>7 DEF RunCleanup, RunNext, Ops
  <2>2. Isolated'
    BY <1>7 DEF RunCleanup, ClearPlanes, Isolated, Planes
  <2>3. session' = After(e)
    BY <1>7, <2>1 DEF RunCleanup, After
  <2> QED
    BY <2>1, <2>2, <2>3, SessionTaken
<1> QED
  BY <1>1, <1>3, <1>4, <1>5, <1>6, <1>7 DEF RunStep

\* The other steps: a frame beginning, sending, and XPluginDisable.
LEMMA SimSession ==
  ASSUME TypeInv, SessionInv,
         \/ Initialize \/ SwapQueue \/ Maintenance \/ DisableDeleteAll
         \/ SendStep \/ FrameReports \/ CallbackReturns
         \/ ShutdownStop \/ ShutdownTest \/ ShutdownClose
  PROVE  SessionInv'
<1> USE DEF SimStep, appVars, workerVars, sharedVars, simVars, sendVars
<1>1. CASE SwapQueue
  <2>1. temp = <<>>
    BY <1>1 DEF SwapQueue, TypeInv, BatchDone
  <2>2. Pending' = Pending
    BY <1>1, <2>1, PendingSwapped DEF SwapQueue, TypeInv
  <2>3. UNCHANGED <<PostedSession, mapPlanes, session>>
    BY <1>1 DEF SwapQueue, PostedSession
  <2> QED
    BY <2>2, <2>3, SessionUntouched
<1>2. CASE DisableDeleteAll
  <2>1. UNCHANGED <<temp, m_queuedCallbacks, wpc, sock, session>>
    BY <1>2 DEF DisableDeleteAll
  <2>2. Isolated'
    BY <1>2 DEF DisableDeleteAll, ClearPlanes, Isolated, Planes
  <2> QED
    BY <2>1, <2>2 DEF SessionInv, Chained, Pending, PostedSession
<1>3. CASE Initialize
  <2>1. /\ UNCHANGED <<temp, m_queuedCallbacks, mapPlanes, session>>
        /\ wpc = "none" /\ wpc' = "init"
    BY <1>3 DEF Initialize, TypeInv, StartedOnce
  <2>2. UNCHANGED <<Pending, PostedSession>>
    BY <2>1 DEF Pending, PostedSession
  <2> QED
    BY <2>1, <2>2, SessionUntouched
<1>4. CASE \/ Maintenance \/ SendStep \/ FrameReports \/ CallbackReturns
           \/ ShutdownStop \/ ShutdownTest \/ ShutdownClose
  <2>1. UNCHANGED <<temp, m_queuedCallbacks, wpc, sock, mapPlanes, session>>
    BY <1>4 DEF Maintenance, SendStep, SendTest, SendDelivered, SendFailed, Finish,
       SendCrashed, FrameReports, CallbackReturns, ShutdownStop, ShutdownTest,
       ShutdownClose
  <2>2. UNCHANGED <<Pending, PostedSession>>
    BY <2>1 DEF Pending, PostedSession
  <2> QED
    BY <2>1, <2>2, SessionUntouched
<1> QED
  BY <1>1, <1>2, <1>3, <1>4

-----------------------------------------------------------------------------
LEMMA InitIInv == Init => IInv
<1> SUFFICES ASSUME Init PROVE IInv
  OBVIOUS
<1>1. TypeInv
  BY InitTypeInv
<1>2. Pending = <<>> /\ session = NoConn /\ PostedSession = NoConn /\ Planes = {}
  BY DEF Init, Pending, PostedSession, Planes
<1>3. SessionInv
  BY <1>2 DEF SessionInv, Chained, Chain, Before, AllEnded, Isolated
<1> QED
  BY <1>1, <1>3 DEF IInv, TypeInv

\* An exception is counted, and the end of XPluginDisable is final.
LEMMA Irrevocable ==
  ASSUME TypeInv, Next
  PROVE  /\ throws' = 0 => throws = 0
         /\ throws' = 0 => ~Throw /\ ~SpawnRefused
         /\ xpc' # "disabled" => xpc # "disabled" /\ ~ShutdownJoined
<1> USE DEF sendVars, simVars, appVars, workerVars, sharedVars, vars, SimStep, Worker
<1>1. Throw \/ SpawnRefused => throws' # 0
  BY DEF Throw, SpawnRefused, TypeInv, TypeOK
<1>2. ShutdownJoined => xpc' = "disabled"
  BY DEF ShutdownJoined
<1>3. CASE AppStep
  BY <1>1, <1>2, <1>3 DEF AppStep, AppConnect, AppLeave
<1>4. CASE WorkerStep
  BY <1>1, <1>2, <1>4 DEF WorkerStep, WorkerProgress, OpenAcceptor, TestLoop, Accept,
     AcceptRetry, Publish, QueueOpen, TestPoll, Receive, ReceiveFailed,
     ReceiveGarbled, Retire, QueueCleanup, Release
<1>5. CASE Throw \/ SpawnRefused
  BY <1>1, <1>2, <1>5 DEF Throw, SpawnRefused, Quiet
<1>6. CASE SendStep \/ RunStep
  BY <1>1, <1>2, <1>6 DEF SendStep, SendTest, SendDelivered, SendFailed, SendCrashed,
     Finish, Sending, RunStep, RunOpen, RunSpawn, RunDespawn, RunUpdate, RunModels,
     RunCleanup, RunNext, Quiet
<1>7. CASE \/ Initialize \/ SwapQueue \/ Maintenance \/ DisableDeleteAll
           \/ FrameReports \/ CallbackReturns \/ ShutdownStep \/ Terminated
  BY <1>1, <1>2, <1>7 DEF Initialize, SwapQueue, Maintenance, DisableDeleteAll,
     FrameReports, CallbackReturns, Quiet, ShutdownStep, ShutdownStop, ShutdownTest,
     ShutdownClose, ShutdownJoined, Terminated
<1> QED
  BY <1>3, <1>4, <1>5, <1>6, <1>7 DEF Next, SimProgress

LEMMA NextIInv == IInv /\ [Next]_vars => IInv'
<1> SUFFICES ASSUME IInv, [Next]_vars PROVE IInv'
  OBVIOUS
<1>1. TypeInv /\ TypeInv'
  BY NextTypeInv DEF IInv, TypeInv
<1>2. ASSUME SessionInv, UNCHANGED <<temp, m_queuedCallbacks, wpc, sock, mapPlanes, session>>
      PROVE  SessionInv'
  <2>1. UNCHANGED <<Pending, PostedSession, mapPlanes, session>>
    BY <1>2 DEF Pending, PostedSession
  <2> QED
    BY <1>2, <2>1, SessionUntouched
<1>3. ASSUME throws' = 0, xpc' # "disabled"
      PROVE  SessionInv'
  <2>1. CASE UNCHANGED vars
    <3>1. SessionInv
      BY <1>3, <2>1 DEF vars, appVars, IInv
    <3> QED
      BY <1>2, <2>1, <3>1 DEF vars, workerVars, sharedVars, simVars
  <2>2. CASE Next
    <3>1. SessionInv /\ ~Throw /\ ~SpawnRefused /\ ~ShutdownJoined
      BY <1>1, <1>3, <2>2, Irrevocable DEF IInv
    <3>2. CASE AppStep
      BY <1>2, <3>1, <3>2 DEF AppStep, AppConnect, AppLeave, workerVars, sharedVars, simVars
    <3>3. CASE WorkerStep
      BY <1>1, <3>1, <3>3, WorkerSession
    <3>4. CASE RunStep
      BY <1>1, <3>1, <3>4, RunSession
    <3>5. CASE Terminated
      BY <1>2, <3>1, <3>5 DEF Terminated, vars, workerVars, sharedVars, simVars
    <3> QED
      BY <1>1, <2>2, <3>1, <3>2, <3>3, <3>4, <3>5, SimSession
         DEF Next, SimProgress, ShutdownStep
  <2> QED
    BY <2>1, <2>2
<1> QED
  BY <1>1, <1>3 DEF IInv, TypeInv

(* The invariant is what makes the FIFO queue enough: with it, an aircraft's *)
(* client is the one whose session is open, and that session is either the   *)
(* one being served or has its cleanup among the callbacks pending.          *)
LEMMA IInvIsolates == IInv => SessionIsolation
<1> SUFFICES ASSUME IInv, throws = 0, xpc # "disabled"
             PROVE  Chained /\ Isolated /\ NoOrphans
  BY DEF SessionIsolation
<1>1. SessionInv
  BY DEF IInv
<1>2. Pending \in Seq(Entry)
  BY PendingTyped DEF IInv
<1>3. \/ session \in {NoConn, PostedSession}
      \/ \E j \in 1 .. Len(Pending) : CleanupOf(Pending[j], session)
  <2>1. 1 \in 1 .. Len(Pending) + 1
    BY <1>2
  <2> QED
    BY <1>1, <2>1 DEF SessionInv, AllEnded, Before
<1>4. NoOrphans
  BY <1>1, <1>3 DEF NoOrphans, SessionInv, Isolated, Planes
<1> QED
  BY <1>1, <1>4 DEF SessionInv

(* The sessions of successive clients never mix, whatever the interleaving   *)
(* of the two threads: the callbacks pending are whole sessions in order,    *)
(* the aircraft in the simulator all belong to the one that is open, and     *)
(* none of them is left without a cleanup to come.                           *)
THEOREM SessionsIsolated == Spec => []SessionIsolation
  BY InitIInv, NextIInv, IInvIsolates, PTL DEF Spec

=============================================================================
