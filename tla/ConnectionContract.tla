------------------------- MODULE ConnectionContract -------------------------
(***************************************************************************)
(* Proofs that the sessions open in order, and that Connection implements  *)
(* SessionContract.                                                        *)
(***************************************************************************)
EXTENDS ConnectionProofs

LEMMA Predecessor == \A n \in Nat : n >= 1 => n - 1 \in Nat
  OBVIOUS

USE PeersAssumption, BoundsAssumption

(* The last client whose open has been posted, if every client accepted so   *)
(* far but the one being set up has had its open posted.                     *)
PostedUpTo ==
  IF wpc \in {"publish", "queueOpen"} THEN accepts - 1 ELSE accepts

\* The opens pending are for clients after the last one opened, in order.
OpensAhead(o, es, m) ==
  /\ o <= m
  /\ \A i \in 1 .. Len(es) :
       es[i].op = "open" =>
         /\ o < es[i].conn /\ es[i].conn <= m
         /\ \A j \in 1 .. i - 1 : es[j].op = "open" => es[j].conn < es[i].conn

OrderInv ==
  /\ sock # NoConn => sock = accepts
  /\ OpensAhead(opened, Pending, PostedUpTo)

LEMMA AheadAppend ==
  ASSUME NEW es \in Seq(Entry), NEW e \in Entry, NEW o \in Nat,
         NEW m \in Nat, NEW n \in Nat,
         OpensAhead(o, es, m), m <= n,
         e.op = "open" => m < e.conn /\ e.conn <= n
  PROVE  OpensAhead(o, Append(es, e), n)
<1> DEFINE fs == Append(es, e)
<1>1. /\ Len(fs) = Len(es) + 1 /\ Len(es) \in Nat
      /\ \A i \in 1 .. Len(es) : fs[i] = es[i] /\ es[i].conn \in Nat
      /\ fs[Len(es) + 1] = e /\ e.conn \in Nat
  BY DEF Entry, Conns
<1>2. o <= n
  BY DEF OpensAhead
<1>3. ASSUME NEW i \in 1 .. Len(fs), fs[i].op = "open"
      PROVE  /\ o < fs[i].conn /\ fs[i].conn <= n
             /\ \A j \in 1 .. i - 1 : fs[j].op = "open" => fs[j].conn < fs[i].conn
  <2>1. CASE i = Len(fs)
    BY <1>1, <1>3, <2>1 DEF OpensAhead
  <2>2. CASE i # Len(fs)
    <3>1. i \in 1 .. Len(es) /\ fs[i] = es[i]
      BY <1>1, <2>2
    <3>2. \A j \in 1 .. i - 1 : fs[j] = es[j]
      BY <1>1, <3>1
    <3> QED
      BY <1>1, <1>3, <3>1, <3>2 DEF OpensAhead
  <2> QED
    BY <2>1, <2>2
<1> QED
  BY <1>2, <1>3 DEF OpensAhead

LEMMA AheadPop ==
  ASSUME NEW es \in Seq(Entry), es # <<>>, NEW o \in Nat, NEW m \in Nat,
         OpensAhead(o, es, m)
  PROVE  /\ OpensAhead(o, Tail(es), m)
         /\ Head(es).op = "open" =>
              o < Head(es).conn /\ OpensAhead(Head(es).conn, Tail(es), m)
<1> DEFINE fs == Tail(es)
<1>1. /\ Len(es) \in Nat /\ Len(es) > 0 /\ Len(fs) = Len(es) - 1
      /\ Head(es) = es[1]
      /\ \A i \in 1 .. Len(fs) : fs[i] = es[i + 1]
  OBVIOUS
<1>2. ASSUME NEW i \in 1 .. Len(fs), fs[i].op = "open"
      PROVE  /\ o < fs[i].conn /\ fs[i].conn <= m
             /\ \A j \in 1 .. i - 1 : fs[j].op = "open" => fs[j].conn < fs[i].conn
             /\ Head(es).op = "open" => Head(es).conn < fs[i].conn
  <2>1. i + 1 \in 1 .. Len(es) /\ fs[i] = es[i + 1]
    BY <1>1
  <2>2. /\ o < es[i + 1].conn /\ es[i + 1].conn <= m
        /\ \A j \in 1 .. i : es[j].op = "open" => es[j].conn < es[i + 1].conn
    BY <1>2, <2>1 DEF OpensAhead
  <2>3. \A j \in 1 .. i - 1 : fs[j] = es[j + 1] /\ j + 1 \in 1 .. i
    BY <1>1
  <2> QED
    BY <1>1, <2>1, <2>2, <2>3
<1>3. Head(es).op = "open" => o < Head(es).conn /\ Head(es).conn <= m
  BY <1>1 DEF OpensAhead
<1> QED
  BY <1>2, <1>3 DEF OpensAhead

LEMMA AheadLater ==
  ASSUME NEW es \in Seq(Entry), NEW o \in Nat, NEW m \in Nat, NEW n \in Nat,
         OpensAhead(o, es, m), m <= n
  PROVE  OpensAhead(o, es, n)
<1>1. \A i \in 1 .. Len(es) : es[i].conn \in Nat
  BY DEF Entry, Conns
<1> QED
  BY <1>1 DEF OpensAhead

LEMMA PostedUpToNat ==
  ASSUME TypeInv, sock # NoConn => sock = accepts
  PROVE  PostedUpTo \in Nat
  BY DEF TypeInv, TypeOK, SockHeld, PostedUpTo, Conns, NoConn

-----------------------------------------------------------------------------
\* The socket thread touches nothing of X-Plane's thread.
LEMMA SocketThreadOnly ==
  ASSUME WorkerStep \/ Throw
  PROVE  UNCHANGED <<xpc, temp, simVars, sendVars>>
<1>1. CASE Throw
  BY <1>1 DEF Throw, Worker
<1>2. CASE WorkerStep
  BY <1>2 DEF WorkerStep, WorkerProgress, OpenAcceptor, TestLoop, Accept, AcceptRetry,
     Publish, QueueOpen, TestPoll, Receive, ReceiveFailed, ReceiveGarbled, Retire,
     QueueCleanup, Release, Worker
<1> QED
  BY <1>1, <1>2

LEMMA WorkerOrder ==
  ASSUME TypeInv, TypeInv', OrderInv, WorkerStep \/ Throw
  PROVE  OrderInv'
<1> USE DEF Worker, simVars, sendVars, sharedVars, appVars
<1>0. /\ Pending \in Seq(Entry) /\ opened \in Nat /\ accepts \in Nat
      /\ UNCHANGED <<temp, opened>>
  BY SocketThreadOnly, PendingTyped DEF TypeInv, TypeOK
<1>1. sock' # NoConn => sock' = accepts'
  BY DEF OrderInv, TypeInv, TypeOK, SockHeld, WorkerStep, WorkerProgress,
     OpenAcceptor, TestLoop, Accept, AcceptRetry, Publish, QueueOpen, TestPoll,
     Receive, ReceiveFailed, ReceiveGarbled, Retire, QueueCleanup, Release, Throw
<1>2. PostedUpTo \in Nat /\ PostedUpTo' \in Nat
  <2>1. PostedUpTo \in Nat
    BY PostedUpToNat DEF OrderInv
  <2>2. TypeOK' /\ SockHeld'
    BY DEF TypeInv
  <2>3. accepts' \in Nat
    BY <2>2 DEF TypeOK
  <2>4. sock' \in Conns \cup {NoConn}
    BY <2>2 DEF TypeOK
  <2>5. wpc' \in {"publish", "queueOpen"} => sock' # NoConn
    BY <2>2 DEF SockHeld
  <2>6. CASE wpc' \in {"publish", "queueOpen"}
    <3>1. sock' \in Conns /\ sock' = accepts'
      BY <1>1, <2>4, <2>5, <2>6
    <3>2. accepts' >= 1
      BY <3>1 DEF Conns
    <3>3. accepts' - 1 \in Nat
      BY <2>3, <3>2, Predecessor
    <3>4. PostedUpTo' = accepts' - 1
      BY <2>6 DEF PostedUpTo
    <3> QED
      BY <2>1, <3>3, <3>4
  <2>7. CASE wpc' \notin {"publish", "queueOpen"}
    BY <2>1, <2>3, <2>7 DEF PostedUpTo
  <2> QED
    BY <2>6, <2>7
<1>3. PostedUpTo <= PostedUpTo'
  BY <1>0 DEF PostedUpTo, WorkerStep, WorkerProgress, OpenAcceptor, TestLoop, Accept,
     AcceptRetry, Publish, QueueOpen, TestPoll, Receive, ReceiveFailed,
     ReceiveGarbled, Retire, QueueCleanup, Release, Throw
<1>4. ASSUME UNCHANGED m_queuedCallbacks
      PROVE  OrderInv'
  <2>1. Pending' = Pending
    BY <1>0, <1>4 DEF Pending
  <2> QED
    BY <1>0, <1>1, <1>2, <1>3, <2>1, AheadLater DEF OrderInv
<1>5. ASSUME NEW e \in Entry, QueueCallback(e),
             e.op = "open" => PostedUpTo < e.conn /\ e.conn <= PostedUpTo'
      PROVE  OrderInv'
  <2>1. Pending' = Append(Pending, e)
    BY <1>0, <1>5, PendingPosted DEF TypeInv
  <2> QED
    BY <1>0, <1>1, <1>2, <1>3, <1>5, <2>1, AheadAppend DEF OrderInv
<1>6. CASE QueueOpen
  <2> DEFINE e == Call("open", sock, NoPeer)
  <2>1. sock \in Conns /\ sock = accepts
    BY <1>6 DEF QueueOpen, TypeInv, TypeOK, SockHeld, OrderInv
  <2>2. e \in Entry /\ e.conn = accepts
    BY <2>1 DEF Call, Entry, Ops, PeerOps
  <2>3. PostedUpTo = accepts - 1 /\ PostedUpTo' = accepts
    BY <1>6 DEF QueueOpen, PostedUpTo
  <2> QED
    BY <1>0, <1>5, <1>6, <2>2, <2>3 DEF QueueOpen
<1>7. CASE QueueCleanup
  <2> DEFINE e == Call("cleanup", sock, NoPeer)
  <2>1. sock \in Conns
    BY <1>7 DEF QueueCleanup, TypeInv, TypeOK, SockHeld
  <2>2. e \in Entry /\ e.op # "open"
    BY <2>1 DEF Call, Entry, Ops, PeerOps
  <2> QED
    BY <1>5, <1>7, <2>2 DEF QueueCleanup
<1>8. CASE Receive
  <2>1. sock \in Conns
    BY <1>8 DEF Receive, TypeInv, TypeOK, SockHeld
  <2>2. \A op \in PeerOps, p \in Peers :
          Call(op, sock, p) \in Entry /\ Call(op, sock, p).op # "open"
    BY <2>1 DEF Call, Entry, PeerOps
  <2>3. \A op \in {"update", "models"} :
          Call(op, sock, NoPeer) \in Entry /\ Call(op, sock, NoPeer).op # "open"
    BY <2>1 DEF Call, Entry, Ops, PeerOps
  <2> QED
    BY <1>4, <1>5, <1>8, <2>2, <2>3 DEF Receive, ProcessPacket
<1> QED
  BY <1>4, <1>6, <1>7, <1>8 DEF WorkerStep, WorkerProgress, OpenAcceptor, TestLoop,
     Accept, AcceptRetry, Publish, TestPoll, ReceiveFailed, ReceiveGarbled, Retire,
     Release, Throw

LEMMA RunOrder ==
  ASSUME TypeInv, OrderInv, RunStep
  PROVE  /\ OrderInv'
         /\ RunOpen => opened < Head(temp).conn
<1> DEFINE e == Head(temp)
<1> USE DEF RunNext, SimStep, appVars, workerVars, sharedVars, simVars
<1>1. /\ temp # <<>> /\ temp' = Tail(temp)
      /\ UNCHANGED <<m_queuedCallbacks, wpc, sock, accepts>>
  BY DEF RunStep, RunOpen, RunSpawn, RunDespawn, RunUpdate, RunModels, RunCleanup
<1>2. /\ Pending \in Seq(Entry) /\ Pending # <<>>
      /\ Head(Pending) = e /\ Pending' = Tail(Pending)
  BY <1>1, PendingTyped, PendingTaken DEF TypeInv
<1>3. opened \in Nat /\ PostedUpTo \in Nat /\ PostedUpTo' = PostedUpTo
  BY <1>1, PostedUpToNat DEF TypeInv, TypeOK, OrderInv, PostedUpTo
<1>4. /\ OpensAhead(opened, Pending', PostedUpTo)
      /\ e.op = "open" => opened < e.conn /\ OpensAhead(e.conn, Pending', PostedUpTo)
  BY <1>2, <1>3, AheadPop DEF OrderInv
<1>5. CASE RunOpen
  BY <1>1, <1>3, <1>4, <1>5 DEF RunOpen, OrderInv
<1>6. CASE ~RunOpen
  <2>1. opened' = opened
    BY <1>6 DEF RunStep, RunSpawn, RunDespawn, RunUpdate, RunModels, RunCleanup
  <2> QED
    BY <1>1, <1>3, <1>4, <1>6, <2>1 DEF OrderInv
<1> QED
  BY <1>5, <1>6

\* A refused spawn drops the rest of the batch, opens included.
LEMMA AheadSuffix ==
  ASSUME NEW es \in Seq(Entry), NEW fs \in Seq(Entry), NEW o \in Nat, NEW m \in Nat,
         OpensAhead(o, es \o fs, m)
  PROVE  OpensAhead(o, fs, m)
<1> DEFINE n == Len(es)
           gs == es \o fs
<1>1. /\ n \in Nat /\ Len(fs) \in Nat /\ Len(gs) = n + Len(fs)
      /\ \A i \in 1 .. Len(fs) : gs[n + i] = fs[i]
  OBVIOUS
<1>3. /\ o <= m
      /\ \A k \in 1 .. Len(gs) : gs[k].op = "open" =>
           /\ o < gs[k].conn /\ gs[k].conn <= m
           /\ \A j \in 1 .. k - 1 : gs[j].op = "open" => gs[j].conn < gs[k].conn
  BY DEF OpensAhead
<1> HIDE DEF n, gs
<1>2. ASSUME NEW i \in 1 .. Len(fs), fs[i].op = "open"
      PROVE  /\ o < fs[i].conn /\ fs[i].conn <= m
             /\ \A j \in 1 .. i - 1 : fs[j].op = "open" => fs[j].conn < fs[i].conn
  <2> DEFINE k == n + i
  <2>1. k \in 1 .. Len(gs) /\ gs[k] = fs[i]
    BY <1>1
  <2>2. /\ o < gs[k].conn /\ gs[k].conn <= m
        /\ \A j \in 1 .. k - 1 : gs[j].op = "open" => gs[j].conn < gs[k].conn
    <3>1. k \in 1 .. Len(gs) /\ gs[k].op = "open"
      BY <1>2, <2>1
    <3> HIDE DEF k
    <3> QED
      BY <1>3, <3>1
  <2>3. ASSUME NEW j \in 1 .. i - 1, fs[j].op = "open"
        PROVE  fs[j].conn < fs[i].conn
    <3>1. j \in 1 .. Len(fs)
      BY <1>1
    <3>2. gs[n + j] = fs[j]
      BY <1>1, <3>1
    <3>3. n + j \in 1 .. k - 1
      BY <1>1, <3>1
    <3> HIDE DEF k
    <3> QED
      BY <2>1, <2>2, <2>3, <3>2, <3>3
  <2> QED
    BY <2>1, <2>2, <2>3
<1>4. o <= m
  BY <1>3
<1> QED
  BY <1>2, <1>4 DEF OpensAhead

LEMMA RefusedOrder ==
  ASSUME TypeInv, OrderInv, SpawnRefused
  PROVE  OrderInv'
<1>1. /\ temp' = <<>>
      /\ UNCHANGED <<m_queuedCallbacks, wpc, sock, accepts, opened>>
  BY DEF SpawnRefused, sharedVars, workerVars, simVars
<1>2. temp \in Seq(Entry) /\ m_queuedCallbacks \in Seq(Entry) /\ opened \in Nat
  BY DEF TypeInv, TypeOK
<1>3. Pending' = m_queuedCallbacks /\ PostedUpTo' = PostedUpTo
  BY <1>1, <1>2 DEF Pending, PostedUpTo
<1>4. PostedUpTo \in Nat
  BY PostedUpToNat DEF OrderInv
<1>5. OpensAhead(opened, m_queuedCallbacks, PostedUpTo)
  BY <1>2, <1>4, AheadSuffix DEF OrderInv, Pending
<1> QED
  BY <1>1, <1>3, <1>5 DEF OrderInv

\* No other step posts or takes an entry, accepts a client or opens a session.
LEMMA OtherOrder ==
  ASSUME TypeInv, OrderInv,
         \/ AppStep \/ Initialize \/ SwapQueue \/ Maintenance \/ DisableDeleteAll
         \/ SendStep \/ FrameReports \/ CallbackReturns \/ ShutdownStep \/ Terminated
  PROVE  OrderInv'
<1> USE DEF SimStep, appVars, workerVars, sharedVars, simVars, sendVars, vars
<1>1. CASE SwapQueue
  <2>1. temp = <<>>
    BY <1>1 DEF SwapQueue, TypeInv, BatchDone
  <2>2. Pending' = Pending
    BY <1>1, <2>1, PendingSwapped DEF SwapQueue, TypeInv
  <2>3. UNCHANGED <<wpc, sock, accepts, opened>>
    BY <1>1 DEF SwapQueue
  <2> QED
    BY <2>2, <2>3 DEF OrderInv, PostedUpTo
<1>2. CASE Initialize
  <2>1. /\ UNCHANGED <<temp, m_queuedCallbacks, sock, accepts, opened>>
        /\ wpc = "none" /\ wpc' = "init"
    BY <1>2 DEF Initialize, TypeInv, StartedOnce
  <2> QED
    BY <2>1 DEF OrderInv, PostedUpTo, Pending
<1>3. CASE ShutdownJoined
  <2>1. /\ temp = <<>> /\ temp' = <<>> /\ m_queuedCallbacks' = <<>>
        /\ UNCHANGED <<wpc, sock, accepts, opened>>
    BY <1>3 DEF ShutdownJoined, TypeInv, BatchDone
  <2>2. Pending' = <<>>
    BY <2>1 DEF Pending
  <2> QED
    BY <2>1, <2>2 DEF OrderInv, OpensAhead, PostedUpTo
<1>4. CASE \/ AppStep \/ Maintenance \/ DisableDeleteAll \/ SendStep \/ FrameReports
           \/ CallbackReturns \/ ShutdownStop \/ ShutdownTest \/ ShutdownClose
           \/ Terminated
  <2>1. UNCHANGED <<temp, m_queuedCallbacks, wpc, sock, accepts, opened>>
    BY <1>4 DEF AppStep, AppConnect, AppLeave, Maintenance, DisableDeleteAll,
       SendStep, SendTest, SendDelivered, SendFailed, SendCrashed, Finish,
       FrameReports, CallbackReturns, ShutdownStop, ShutdownTest, ShutdownClose,
       Terminated
  <2> QED
    BY <2>1 DEF OrderInv, PostedUpTo, Pending
<1> QED
  BY <1>1, <1>2, <1>3, <1>4 DEF ShutdownStep

LEMMA InitOrder == Init => OrderInv
<1> SUFFICES ASSUME Init PROVE OrderInv
  OBVIOUS
<1>1. Pending = <<>>
  BY DEF Init, Pending
<1> QED
  BY <1>1 DEF Init, OrderInv, OpensAhead, PostedUpTo

LEMMA NextOrder == TypeInv /\ TypeInv' /\ OrderInv /\ [Next]_vars => OrderInv'
<1> SUFFICES ASSUME TypeInv, TypeInv', OrderInv, [Next]_vars PROVE OrderInv'
  OBVIOUS
<1>1. CASE UNCHANGED vars
  BY <1>1 DEF vars, appVars, workerVars, sharedVars, simVars, OrderInv, Pending,
     PostedUpTo
<1>2. CASE Next
  BY <1>2, WorkerOrder, RefusedOrder, RunOrder, OtherOrder DEF Next, SimProgress
<1> QED
  BY <1>1, <1>2

\* Only an Open callback changes which client was opened last.
LEMMA OpenedByRunOpen ==
  ASSUME TypeInv, [Next]_vars, opened' # opened
  PROVE  RunOpen
<1> USE DEF Worker, SimStep, appVars, workerVars, sharedVars, simVars, sendVars, vars
<1>1. CASE AppStep
  BY <1>1 DEF AppStep, AppConnect, AppLeave
<1>2. CASE WorkerStep \/ Throw
  BY <1>2 DEF WorkerStep, WorkerProgress, OpenAcceptor, TestLoop, Accept, AcceptRetry,
     Publish, QueueOpen, TestPoll, Receive, ReceiveFailed, ReceiveGarbled, Retire,
     QueueCleanup, Release, Throw
<1>5. CASE SpawnRefused
  BY <1>5 DEF SpawnRefused
<1>3. CASE SendStep \/ RunStep
  BY <1>3 DEF SendStep, SendTest, SendDelivered, SendFailed, SendCrashed, Finish,
     RunStep, RunSpawn, RunDespawn, RunUpdate, RunModels, RunCleanup
<1>4. CASE \/ Initialize \/ SwapQueue \/ Maintenance \/ DisableDeleteAll
           \/ FrameReports \/ CallbackReturns \/ ShutdownStep \/ Terminated
  BY <1>4 DEF Initialize, SwapQueue, Maintenance, DisableDeleteAll, FrameReports,
     CallbackReturns, ShutdownStep, ShutdownStop, ShutdownTest, ShutdownClose,
     ShutdownJoined, Terminated
<1> QED
  BY <1>1, <1>2, <1>3, <1>4, <1>5 DEF Next, SimProgress

\* An Open callback opens a later client than any before.
LEMMA OpensLater ==
  ASSUME TypeInv, OrderInv, RunOpen
  PROVE  session' = opened' /\ opened' > opened
<1>1. opened < Head(temp).conn
  BY RunOrder DEF RunStep
<1>2. session' = Head(temp).conn /\ opened' = Head(temp).conn /\ opened \in Nat
  BY DEF RunOpen, TypeInv, TypeOK
<1>3. Head(temp).conn \in Nat
  BY DEF RunOpen, RunNext, TypeInv, TypeOK, Entry, Conns
<1> QED
  BY <1>1, <1>2, <1>3

(* Sessions open once each and in the order the clients connected, with any  *)
(* number of exceptions on either thread.                                    *)
THEOREM SessionsInOrder == Spec => OpensInOrder
<1>1. TypeInv /\ OrderInv /\ [Next]_vars => [opened' > opened]_opened
  BY OpenedByRunOpen, OpensLater
<1> QED
  BY <1>1, InitTypeInv, InitOrder, NextTypeInv, NextOrder, PTL DEF Spec, OpensInOrder

-----------------------------------------------------------------------------
\* No other step moves an aircraft or the session.
LEMMA OtherSteps ==
  ASSUME [Next]_vars, ~RunStep, ~DisableDeleteAll
  PROVE  UNCHANGED <<session, opened, mapPlanes>>
<1> USE DEF Worker, SimStep, appVars, workerVars, sharedVars, simVars, sendVars, vars
<1>1. CASE AppStep \/ SendStep
  BY <1>1 DEF AppStep, AppConnect, AppLeave, SendStep, SendTest, SendDelivered,
     SendFailed, SendCrashed, Finish
<1>2. CASE WorkerStep \/ Throw \/ SpawnRefused
  BY <1>2, SocketThreadOnly DEF SpawnRefused
<1>3. CASE \/ Initialize \/ SwapQueue \/ Maintenance \/ FrameReports
           \/ CallbackReturns \/ ShutdownStep \/ Terminated
  BY <1>3 DEF Initialize, SwapQueue, Maintenance, FrameReports, CallbackReturns,
     ShutdownStep, ShutdownStop, ShutdownTest, ShutdownClose, ShutdownJoined, Terminated
<1> QED
  BY <1>1, <1>2, <1>3 DEF Next, SimProgress

\* A callback of the queue is a step of SessionContract.
LEMMA RunContract ==
  ASSUME TypeInv, SessionInv, OrderInv, RunStep
  PROVE  Contract!Regular \/ UNCHANGED <<session, opened, mapPlanes>>
<1> DEFINE e == Head(temp)
<1> USE DEF Contract!Regular
<1>0. mapPlanes \in [Peers -> Conns \cup {NoConn}]
  BY DEF TypeInv, TypeOK
<1>1. ASSUME NEW op \in Ops, RunNext(op)
      PROVE  e.op = op /\ e \in Entry /\ session = Required(e)
  BY <1>1, SessionFound DEF RunNext
<1>2. ASSUME NEW op \in Ops \ {"open"}, RunNext(op)
      PROVE  session = e.conn /\ session # NoConn
  BY <1>1, <1>2 DEF Required, Entry, Conns, NoConn
<1>3. \A p \in Planes : p \in Peers /\ mapPlanes[p] = session
  BY DEF SessionInv, Isolated, Planes
<1>4. \A p \in Peers \ Planes : mapPlanes[p] = NoConn
  BY DEF Planes
<1>5. CASE RunOpen
  <2>1. e.conn \in Conns /\ session = NoConn
    BY <1>1, <1>5 DEF RunOpen, Ops, Required, Entry
  <2>2. e.conn > opened
    BY <1>5, <2>1, RunOrder DEF TypeInv, TypeOK, Conns
  <2>3. Contract!Begin(e.conn)
    BY <1>5, <2>1, <2>2 DEF RunOpen, Contract!Begin
  <2> QED
    BY <2>1, <2>3
<1>6. CASE RunSpawn
  <2>1. "spawn" \in Ops \ {"open"} /\ RunNext("spawn")
    BY <1>6 DEF RunSpawn, Ops, PeerOps
  <2>2. e.peer \in Peers /\ session = e.conn /\ session # NoConn
    BY <1>1, <1>2, <2>1 DEF Entry, PeerOps
  <2>3. CASE e.peer \in Planes
    <3>1. Contract!Remove(e.peer)
      BY <1>3, <1>6, <2>2, <2>3 DEF RunSpawn, Erase, Contract!Remove
    <3> QED
      BY <2>2, <3>1
  <2>4. CASE e.peer \notin Planes
    <3>1. Contract!Show(e.peer)
      BY <1>4, <1>6, <2>2, <2>4 DEF RunSpawn, Emplace, Contract!Show
    <3> QED
      BY <2>2, <3>1
  <2> QED
    BY <2>3, <2>4
<1>7. CASE RunDespawn
  <2>1. "despawn" \in Ops \ {"open"} /\ RunNext("despawn")
    BY <1>7 DEF RunDespawn, Ops, PeerOps
  <2>2. e.peer \in Peers /\ session # NoConn
    BY <1>1, <1>2, <2>1 DEF Entry, PeerOps
  <2>3. CASE e.peer \in Planes
    <3>1. Contract!Remove(e.peer)
      BY <1>3, <1>7, <2>2, <2>3 DEF RunDespawn, Erase, Contract!Remove
    <3> QED
      BY <2>2, <3>1
  <2>4. CASE e.peer \notin Planes
    BY <1>7, <2>4 DEF RunDespawn
  <2> QED
    BY <2>3, <2>4
<1>8. CASE RunUpdate \/ RunModels
  BY <1>8 DEF RunUpdate, RunModels, simVars
<1>9. CASE RunCleanup
  <2>1. "cleanup" \in Ops \ {"open"} /\ RunNext("cleanup")
    BY <1>9 DEF RunCleanup, Ops, PeerOps
  <2>2. Contract!End
    BY <1>2, <1>9, <2>1 DEF RunCleanup, ClearPlanes, Contract!End, Contract!NoAircraft
  <2> QED
    BY <2>2
<1> QED
  BY <1>5, <1>6, <1>7, <1>8, <1>9 DEF RunStep

LEMMA NextRegular ==
  ASSUME IInv, OrderInv, throws = 0, [Next]_vars
  PROVE  Contract!Regular \/ UNCHANGED <<session, opened, mapPlanes>>
<1>1. CASE RunStep
  <2>1. xpc = "invoke"
    BY <1>1 DEF RunStep, RunOpen, RunSpawn, RunDespawn, RunUpdate, RunModels,
       RunCleanup, RunNext, Quiet
  <2>2. SessionInv /\ TypeInv
    BY <2>1 DEF IInv, TypeInv
  <2> QED
    BY <1>1, <2>2, RunContract
<1>2. CASE DisableDeleteAll
  <2>1. Contract!Withdraw
    BY <1>2 DEF DisableDeleteAll, ClearPlanes, Contract!Withdraw, Contract!NoAircraft
  <2> QED
    BY <2>1 DEF Contract!Regular
<1>3. CASE ~RunStep /\ ~DisableDeleteAll
  BY <1>3, OtherSteps
<1> QED
  BY <1>1, <1>2, <1>3

\* Whatever the invariants are worth, a session is only ended, or taken over by
\* a client that comes later.
LEMMA NextExceptional ==
  ASSUME TypeInv, OrderInv, [Next]_vars
  PROVE  Contract!Exceptional
<1>1. CASE RunOpen
  BY <1>1, OpensLater DEF Contract!Exceptional
<1>2. CASE ~RunOpen
  <2>1. opened' = opened
    BY <1>2, OpenedByRunOpen
  <2>2. session' \in {session, NoConn}
    <3>1. CASE RunStep
      BY <1>2, <3>1 DEF RunStep, RunSpawn, RunDespawn, RunUpdate, RunModels,
         RunCleanup, simVars
    <3>2. CASE DisableDeleteAll
      BY <3>2 DEF DisableDeleteAll
    <3>3. CASE ~RunStep /\ ~DisableDeleteAll
      BY <3>3, OtherSteps
    <3> QED
      BY <3>1, <3>2, <3>3
  <2> QED
    BY <2>1, <2>2 DEF Contract!Exceptional
<1> QED
  BY <1>1, <1>2

(* Everything the two threads do to the session and the aircraft is what     *)
(* SessionContract allows: all of it until an exception strikes, and the     *)
(* order of the sessions for ever.                                           *)
THEOREM ContractKept == Spec => ImplementsContract
<1>1. Init => Contract!Init
  BY DEF Init, Contract!Init, Contract!NoAircraft
<1>2. IInv => TypeInv
  BY DEF IInv, TypeInv
<1>3. IInv /\ IInv' /\ OrderInv /\ [Next]_vars => [Contract!Next]_(Contract!vars)
  <2> SUFFICES ASSUME IInv, IInv', OrderInv, [Next]_vars
               PROVE  [Contract!Next]_(Contract!vars)
    OBVIOUS
  <2>1. throws \in Nat /\ throws' \in Nat
    BY DEF IInv, TypeOK
  <2>2. throws' = 0 => throws = 0
    BY <1>2, Irrevocable DEF vars, appVars
  <2>3. CASE throws' = 0
    BY <2>2, <2>3, NextRegular DEF Contract!Next, Contract!vars
  <2>4. CASE throws' > 0
    BY <1>2, <2>4, NextExceptional DEF Contract!Next
  <2> QED
    BY <2>1, <2>3, <2>4
<1> QED
  BY <1>1, <1>2, <1>3, InitIInv, NextIInv, InitOrder, NextOrder, PTL
  DEF Spec, ImplementsContract, Contract!Spec

=============================================================================
