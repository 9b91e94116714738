--------------------------- MODULE ConnectionView ---------------------------
(***************************************************************************)
(* Proofs about what reaches a client, and about the end of a session of   *)
(* X-Plane: the messages of one session do not reach a client whose own    *)
(* session is open, a well-behaved client keeps the listener running, and  *)
(* a disabled plugin has left nothing behind.  Then what an exception      *)
(* costs, and why XPluginDisable does not hang in join().                  *)
(***************************************************************************)
EXTENDS ConnectionContract

USE PeersAssumption, BoundsAssumption

-----------------------------------------------------------------------------
(* XPluginDisable removes the aircraft first and waits for the socket thread *)
(* last, and nothing it does in between can bring either back.               *)
CleanInv ==
  /\ xpc \in {"clearing", "stopping", "closing", "join", "disabled"} => Planes = {}
  /\ xpc = "disabled" => wpc \in {"none", "done"}

LEMMA NextClean == TypeInv /\ CleanInv /\ [Next]_vars => CleanInv'
<1> SUFFICES ASSUME TypeInv, CleanInv, [Next]_vars PROVE CleanInv'
  OBVIOUS
<1> USE DEF CleanInv, Planes, SimStep, appVars, workerVars, sharedVars, simVars, sendVars
<1>1. CASE UNCHANGED vars
  BY <1>1 DEF vars
<1>2. CASE AppStep
  BY <1>2 DEF AppStep, AppConnect, AppLeave
<1>3. CASE WorkerStep \/ Throw
  <2>1. UNCHANGED <<xpc, mapPlanes>>
    BY <1>3 DEF Worker, WorkerStep, WorkerProgress, OpenAcceptor, TestLoop, Accept,
       AcceptRetry, Publish, QueueOpen, TestPoll, Receive, ReceiveFailed,
       ReceiveGarbled, Retire, QueueCleanup, Release, Throw
  <2>2. wpc \notin {"none", "done"}
    BY <1>3 DEF Worker, WorkerStep, WorkerProgress, OpenAcceptor, TestLoop, Accept,
       AcceptRetry, Publish, QueueOpen, TestPoll, Receive, ReceiveFailed,
       ReceiveGarbled, Retire, QueueCleanup, Release, Throw
  <2> QED
    BY <2>1, <2>2
<1>4. CASE SpawnRefused \/ RunStep
  <2>1. xpc' \in {"invoke", "idle", "crashed"}
    BY <1>4 DEF SpawnRefused, RunStep, RunOpen, RunSpawn, RunDespawn, RunUpdate,
       RunModels, RunCleanup, RunNext, Quiet
  <2> QED
    BY <2>1
<1>5. CASE SendStep
  <2>1. UNCHANGED <<mapPlanes, wpc>> /\ xpc' \in {xpc, "crashed"}
    BY <1>5 DEF SendStep, SendTest, SendDelivered, SendFailed, SendCrashed, Finish
  <2> QED
    BY <2>1
<1>6. CASE \/ Initialize \/ SwapQueue \/ Maintenance \/ FrameReports
           \/ CallbackReturns
  BY <1>6 DEF Initialize, SwapQueue, Maintenance, FrameReports, CallbackReturns, Quiet
<1>7. CASE DisableDeleteAll
  BY <1>7 DEF DisableDeleteAll, ClearPlanes
<1>8. CASE ShutdownStep
  BY <1>8 DEF ShutdownStep, ShutdownStop, ShutdownTest, ShutdownClose, ShutdownJoined,
     Quiet
<1>9. CASE Terminated
  BY <1>9 DEF Terminated, vars
<1> QED
  BY <1>1, <1>2, <1>3, <1>4, <1>5, <1>6, <1>7, <1>8, <1>9 DEF Next, SimProgress

(* A disabled plugin leaves no aircraft behind and no socket thread that     *)
(* could still post a callback, exceptions included.                         *)
THEOREM DisabledLeavesNothing == Spec => []DisabledIsClean
<1>1. Init => CleanInv
  BY DEF Init, CleanInv
<1>2. CleanInv => DisabledIsClean
  BY DEF CleanInv, DisabledIsClean
<1> QED
  BY <1>1, <1>2, InitTypeInv, NextTypeInv, NextClean, PTL DEF Spec

-----------------------------------------------------------------------------
\* Steps that neither open nor close a session nor fill the outbox.
LEMMA SessionSteps ==
  ASSUME [Next]_vars, session' # session
  PROVE  RunOpen \/ RunCleanup
<1> USE DEF Worker, SimStep, appVars, workerVars, sharedVars, simVars, sendVars, vars
<1>1. CASE AppStep \/ SendStep \/ SpawnRefused
  BY <1>1 DEF AppStep, AppConnect, AppLeave, SendStep, SendTest, SendDelivered,
     SendFailed, SendCrashed, Finish, SpawnRefused
<1>2. CASE WorkerStep \/ Throw
  BY <1>2 DEF WorkerStep, WorkerProgress, OpenAcceptor, TestLoop, Accept, AcceptRetry,
     Publish, QueueOpen, TestPoll, Receive, ReceiveFailed, ReceiveGarbled, Retire,
     QueueCleanup, Release, Throw
<1>3. CASE RunStep
  BY <1>3 DEF RunStep, RunSpawn, RunDespawn, RunUpdate, RunModels
<1>4. CASE \/ Initialize \/ SwapQueue \/ Maintenance \/ DisableDeleteAll
           \/ FrameReports \/ CallbackReturns \/ ShutdownStep \/ Terminated
  BY <1>4 DEF Initialize, SwapQueue, Maintenance, DisableDeleteAll, FrameReports,
     CallbackReturns, ShutdownStep, ShutdownStop, ShutdownTest, ShutdownClose,
     ShutdownJoined, Terminated
<1> QED
  BY <1>1, <1>2, <1>3, <1>4 DEF Next, SimProgress

(* A message about a client is written while its session is open or, for the *)
(* notices of the cleanup, while none is.                                    *)
OutboxInv ==
  \A i \in 1 .. Len(outbox) :
    outbox[i].from # NoConn => session \in {NoConn, outbox[i].from}

\* The aircraft are listed in some order.
LEMMA Listed ==
  ASSUME NEW order \in SetToSeqs(Planes)
  PROVE  order \in Seq(Planes)
<1>1. IsFiniteSet(Planes)
  BY FS_Subset DEF Planes
<1>2. Cardinality(Planes) \in Nat /\ order \in [1 .. Cardinality(Planes) -> Planes]
  BY <1>1, FS_CardinalityType DEF SetToSeqs
<1> QED
  BY <1>2

\* What is sent about aircraft is about the client whose session it is.
LEMMA ListedOutbox ==
  ASSUME Isolated, session' \in {NoConn, session}, NEW kind,
         \E order \in SetToSeqs(Planes) :
           outbox' = [i \in 1 .. Len(order) |-> Msg(kind, order[i], mapPlanes[order[i]])]
  PROVE  OutboxInv'
<1>1. PICK order \in SetToSeqs(Planes) :
        outbox' = [i \in 1 .. Len(order) |-> Msg(kind, order[i], mapPlanes[order[i]])]
  OBVIOUS
<1>2. order \in Seq(Planes)
  BY Listed
<1>3. /\ Len(outbox') = Len(order)
      /\ \A i \in 1 .. Len(order) : outbox'[i].from = session
  BY <1>1, <1>2 DEF Msg, Isolated
<1> QED
  BY <1>3 DEF OutboxInv

LEMMA RunOutbox ==
  ASSUME TypeInv, SessionInv, RunStep
  PROVE  OutboxInv'
<1> DEFINE e == Head(temp)
<1> USE DEF Msg
<1>1. ASSUME NEW op \in Ops, RunNext(op)
      PROVE  /\ outbox = <<>> /\ e.op = op
             /\ session = Required(e)
  BY <1>1, SessionFound DEF RunNext, Quiet
<1>2. CASE RunOpen
  BY <1>2 DEF RunOpen, OutboxInv
<1>3. ASSUME NEW p \in Planes, Erase(p), UNCHANGED session
      PROVE  OutboxInv'
  BY <1>3 DEF Erase, OutboxInv, SessionInv, Isolated
<1>4. CASE RunSpawn
  <2>1. session = e.conn
    BY <1>1, <1>4 DEF RunSpawn, Ops, PeerOps, Required
  <2> QED
    BY <1>3, <1>4, <2>1 DEF RunSpawn, Emplace, OutboxInv
<1>5. CASE RunDespawn
  BY <1>1, <1>3, <1>5 DEF RunDespawn, Ops, PeerOps, OutboxInv
<1>6. CASE RunUpdate
  BY <1>1, <1>6 DEF RunUpdate, Ops, OutboxInv
<1>7. CASE RunModels
  <2>1. session = e.conn /\ session' = session
    BY <1>1, <1>7 DEF RunModels, Ops, Required, simVars
  <2> QED
    BY <1>7, <2>1 DEF RunModels, OutboxInv
<1>8. CASE RunCleanup
  BY <1>8, ListedOutbox DEF RunCleanup, ClearPlanes, SessionInv
<1> QED
  BY <1>2, <1>4, <1>5, <1>6, <1>7, <1>8 DEF RunStep

LEMMA NextOutbox ==
  ASSUME TypeInv, SessionInv, OutboxInv, [Next]_vars
  PROVE  OutboxInv'
<1>1. CASE RunStep
  BY <1>1, RunOutbox
<1>2. CASE ~RunStep
  <2>1. session' = session
    BY <1>2, SessionSteps DEF RunStep
  <2>2. ASSUME outbox' = outbox
        PROVE  OutboxInv'
    BY <2>1, <2>2 DEF OutboxInv
  <2>3. ASSUME outbox # <<>>, outbox' = Tail(outbox)
        PROVE  OutboxInv'
    <3>1. /\ Len(outbox') = Len(outbox) - 1 /\ Len(outbox) \in Nat
          /\ \A i \in 1 .. Len(outbox') : outbox'[i] = outbox[i + 1]
      BY <2>3 DEF TypeInv, TypeOK
    <3> QED
      BY <2>1, <3>1 DEF OutboxInv
  <2>4. CASE SendStep
    BY <2>2, <2>3, <2>4 DEF SendStep, SendTest, SendDelivered, SendFailed, SendCrashed,
       Finish, Sending
  <2>5. CASE Maintenance
    BY <2>1, <2>5, ListedOutbox DEF Maintenance, SessionInv
  <2>6. CASE DisableDeleteAll
    BY <2>1, <2>6, ListedOutbox DEF DisableDeleteAll, ClearPlanes, SessionInv
  <2>7. CASE FrameReports
    BY <2>7 DEF FrameReports, Msg, OutboxInv
  <2>8. CASE \/ UNCHANGED vars \/ AppStep \/ WorkerStep \/ Throw \/ SpawnRefused
             \/ Initialize \/ SwapQueue \/ CallbackReturns \/ ShutdownStep
             \/ Terminated
    <3>1. outbox' = outbox
      BY <2>8 DEF vars, sendVars, AppStep, AppConnect, AppLeave, WorkerStep,
         WorkerProgress, OpenAcceptor, TestLoop, Accept, AcceptRetry, Publish,
         QueueOpen, TestPoll, Receive, ReceiveFailed, ReceiveGarbled, Retire,
         QueueCleanup, Release, Throw, Worker, SpawnRefused, Initialize, SwapQueue,
         CallbackReturns, ShutdownStep, ShutdownStop, ShutdownTest, ShutdownClose,
         ShutdownJoined, Terminated
    <3> QED
      BY <2>2, <3>1
  <2> QED
    BY <1>2, <2>4, <2>5, <2>6, <2>7, <2>8 DEF Next, SimProgress
<1> QED
  BY <1>1, <1>2

(* A message of one client's session is never written to another client      *)
(* whose own session is open, although send_msg writes to whatever m_socket  *)
(* holds and m_socket is switched ahead of the queue.                        *)
StrayInv == throws = 0 /\ xpc # "disabled" => OutboxInv

THEOREM StraysComeFirst == Spec => []StrayOnlyBeforeOpen
<1>1. Init => StrayInv
  BY DEF Init, StrayInv, OutboxInv
<1>2. IInv /\ StrayInv /\ [Next]_vars => StrayInv'
  <2> SUFFICES ASSUME IInv, StrayInv, [Next]_vars, throws' = 0, xpc' # "disabled"
               PROVE  OutboxInv'
    BY DEF StrayInv
  <2>1. TypeInv
    BY DEF IInv, TypeInv
  <2>2. throws = 0 /\ xpc # "disabled"
    BY <2>1, Irrevocable DEF vars, appVars
  <2> QED
    BY <2>1, <2>2, NextOutbox DEF IInv, StrayInv
<1>3. IInv /\ StrayInv => StrayOnlyBeforeOpen
  <2> SUFFICES ASSUME IInv, StrayInv, throws = 0, Sending,
                      NEW c \in {target, m_socket} \ {NoConn, Head(outbox).from},
                      Head(outbox).from # NoConn
               PROVE  session # c
    BY DEF StrayOnlyBeforeOpen
  <2>1. outbox # <<>> /\ xpc # "disabled" /\ outbox \in Seq(Message)
    BY DEF Sending, IInv, TypeOK
  <2>2. 1 \in 1 .. Len(outbox) /\ Head(outbox) = outbox[1]
    BY <2>1
  <2>3. session \in {NoConn, Head(outbox).from}
    BY <2>1, <2>2 DEF StrayInv, OutboxInv
  <2> QED
    BY <2>3
<1> QED
  BY <1>1, <1>2, <1>3, InitIInv, NextIInv, PTL DEF Spec

-----------------------------------------------------------------------------
(* With clients that stay and behave, and no exception, the socket thread    *)
(* serves the first client until XPluginDisable tells it to stop.            *)
Running == {"idle", "invoke", "report", "maintain"}

Attached ==
  /\ ~closed
  /\ wpc = "none" \/ m_keepSocketAlive
  /\ wpc \notin {"retire", "queueCleanup", "release"}
  /\ m_socket = IF wpc \in {"queueOpen", "poll", "recv"} THEN sock ELSE NoConn
  /\ target \in {NoConn, m_socket}

SteadyInv ==
  left = {} /\ garbled = {} /\ throws = 0 =>
    /\ ub # "send"
    /\ xpc \in Running => m_keepSocketAlive
    /\ xpc \in Running \cup {"deferred", "clearing"} => Attached

Behaved == left = {} /\ garbled = {} /\ throws = 0

LEMMA BehavedBefore ==
  ASSUME TypeInv, [Next]_vars, Behaved'
  PROVE  Behaved
<1>1. throws = 0
  BY Irrevocable DEF Behaved, vars, appVars
<1>2. left \subseteq left' /\ garbled \subseteq garbled'
  <2> USE DEF Worker, SimStep, appVars, vars
  <2>1. CASE AppStep \/ SendStep \/ SpawnRefused \/ RunStep
    BY <2>1 DEF AppStep, AppConnect, AppLeave, SendStep, SendTest, SendDelivered,
       SendFailed, SendCrashed, Finish, SpawnRefused, RunStep, RunOpen, RunSpawn,
       RunDespawn, RunUpdate, RunModels, RunCleanup, RunNext
  <2>2. CASE WorkerStep \/ Throw
    BY <2>2 DEF WorkerStep, WorkerProgress, OpenAcceptor, TestLoop, Accept,
       AcceptRetry, Publish, QueueOpen, TestPoll, Receive, ReceiveFailed,
       ReceiveGarbled, Retire, QueueCleanup, Release, Throw
  <2>3. CASE \/ Initialize \/ SwapQueue \/ Maintenance \/ DisableDeleteAll
             \/ FrameReports \/ CallbackReturns \/ ShutdownStep \/ Terminated
             \/ UNCHANGED vars
    BY <2>3 DEF Initialize, SwapQueue, Maintenance, DisableDeleteAll, FrameReports,
       CallbackReturns, ShutdownStep, ShutdownStop, ShutdownTest, ShutdownClose,
       ShutdownJoined, Terminated
  <2> QED
    BY <2>1, <2>2, <2>3 DEF Next, SimProgress
<1> QED
  BY <1>1, <1>2 DEF Behaved

LEMMA WorkerSteady ==
  ASSUME TypeInv, SteadyInv, Behaved, Behaved', WorkerStep
  PROVE  SteadyInv'
<1> USE DEF Worker, appVars, sharedVars, sendVars, simVars
<1>1. UNCHANGED <<xpc, closed, target, ub, m_keepSocketAlive>>
  BY DEF WorkerStep, WorkerProgress, OpenAcceptor, TestLoop, Accept, AcceptRetry,
     Publish, QueueOpen, TestPoll, Receive, ReceiveFailed, ReceiveGarbled, Retire,
     QueueCleanup, Release
<1>2. wpc # "none" /\ ~ReceiveGarbled
  BY DEF WorkerStep, WorkerProgress, OpenAcceptor, TestLoop, Accept, AcceptRetry,
     Publish, QueueOpen, TestPoll, Receive, ReceiveFailed, ReceiveGarbled, Retire,
     QueueCleanup, Release, Behaved
<1>3. ASSUME Attached
      PROVE  Attached'
  <2>1. CASE OpenAcceptor \/ TestLoop \/ AcceptRetry \/ Accept
    BY <1>1, <1>2, <1>3, <2>1 DEF OpenAcceptor, TestLoop, AcceptRetry, Accept, Attached
  <2>2. CASE Publish \/ QueueOpen \/ TestPoll
    BY <1>1, <1>2, <1>3, <2>2 DEF Publish, QueueOpen, TestPoll, Attached
  <2>3. CASE Receive
    BY <1>1, <1>2, <1>3, <2>3 DEF Receive, Attached
  <2>4. ~ReceiveFailed /\ ~Retire /\ ~QueueCleanup /\ ~Release
    BY <1>3 DEF ReceiveFailed, Retire, QueueCleanup, Release, Attached, Behaved
  <2> QED
    BY <1>2, <2>1, <2>2, <2>3, <2>4 DEF WorkerStep, WorkerProgress
<1> QED
  BY <1>1, <1>3 DEF SteadyInv, Behaved

LEMMA SimSteady ==
  ASSUME TypeInv, SteadyInv, Behaved, Behaved', [Next]_vars, ~WorkerStep, ~Throw
  PROVE  SteadyInv'
<1> USE DEF SimStep, appVars, workerVars, sharedVars, sendVars, simVars
<1>1. CASE UNCHANGED vars \/ AppStep \/ Terminated
  <2>1. UNCHANGED <<xpc, closed, target, ub, m_keepSocketAlive, m_socket, wpc, sock>>
    BY <1>1 DEF vars, AppStep, AppConnect, AppLeave, Terminated
  <2> QED
    BY <2>1 DEF SteadyInv, Behaved, Attached
<1>2. CASE \/ SpawnRefused \/ RunStep \/ FrameReports \/ CallbackReturns
           \/ SwapQueue \/ Maintenance
  <2>1. UNCHANGED <<closed, target, ub, m_keepSocketAlive, m_socket, wpc, sock>>
    BY <1>2 DEF SpawnRefused, RunStep, RunOpen, RunSpawn, RunDespawn, RunUpdate,
       RunModels, RunCleanup, RunNext, FrameReports, CallbackReturns, SwapQueue,
       Maintenance
  <2>2. xpc \in Running /\ xpc' \in Running \cup {"crashed"}
    BY <1>2 DEF SpawnRefused, RunStep, RunOpen, RunSpawn, RunDespawn, RunUpdate,
       RunModels, RunCleanup, RunNext, FrameReports, CallbackReturns, SwapQueue,
       Maintenance, Quiet, Running
  <2> QED
    BY <2>1, <2>2 DEF SteadyInv, Behaved, Attached, Running
<1>3. CASE Initialize
  <2>1. wpc = "none" /\ Attached /\ ub # "send"
    BY <1>3 DEF Initialize, TypeInv, StartedOnce, SteadyInv, Behaved
  <2> QED
    BY <1>3, <2>1 DEF Initialize, SteadyInv, Behaved, Attached, Running
<1>4. CASE DisableDeleteAll
  <2>1. UNCHANGED <<closed, target, ub, m_keepSocketAlive, m_socket, wpc, sock>>
    BY <1>4 DEF DisableDeleteAll
  <2>2. xpc \in {"deferred", "idle"} /\ xpc' = "clearing"
    BY <1>4 DEF DisableDeleteAll
  <2> QED
    BY <2>1, <2>2 DEF SteadyInv, Behaved, Attached, Running
<1>5. CASE SendStep
  <2>1. Attached /\ ub # "send" /\ xpc \in Running \cup {"clearing"}
    BY <1>5 DEF SendStep, SendTest, SendDelivered, SendFailed, SendCrashed, Sending,
       SteadyInv, Behaved, Running
  <2>2. target # NoConn => Dereferenced = {target} /\ ~Destroyed(target)
    BY <2>1 DEF Attached, Dereferenced, Destroyed
  <2>3. ~SendFailed /\ ~SendCrashed
    BY <2>2 DEF SendFailed, SendCrashed, Behaved
  <2>4. CASE SendTest
    BY <2>1, <2>4 DEF SendTest, SteadyInv, Behaved, Attached, Running
  <2>5. CASE SendDelivered
    BY <2>1, <2>5 DEF SendDelivered, Finish, SteadyInv, Behaved, Attached, Running
  <2> QED
    BY <1>5, <2>3, <2>4, <2>5 DEF SendStep
<1>6. CASE ShutdownStep
  <2>1. xpc' \notin Running \cup {"deferred", "clearing"}
    BY <1>6 DEF ShutdownStep, ShutdownStop, ShutdownTest, ShutdownClose,
       ShutdownJoined, Running
  <2>2. ub' \in {ub, "close"}
    BY <1>6 DEF ShutdownStep, ShutdownStop, ShutdownTest, ShutdownClose, ShutdownJoined
  <2> QED
    BY <2>1, <2>2 DEF SteadyInv, Behaved
<1> QED
  BY <1>1, <1>2, <1>3, <1>4, <1>5, <1>6 DEF Next, SimProgress

(* While the clients stay connected and send nothing but commands, send_msg  *)
(* never meets a socket that is gone and the listener is never given up.     *)
THEOREM SteadyClients == Spec => []SteadyWhileConnected
<1>1. Init => SteadyInv
  BY DEF Init, SteadyInv, Attached, Running
<1>2. TypeInv /\ SteadyInv /\ [Next]_vars => SteadyInv'
  <2> SUFFICES ASSUME TypeInv, SteadyInv, [Next]_vars, Behaved'
               PROVE  SteadyInv'
    BY DEF SteadyInv, Behaved
  <2>1. Behaved
    BY BehavedBefore
  <2>2. ~Throw
    BY Irrevocable DEF Behaved, Throw, TypeInv, TypeOK
  <2> QED
    BY <2>1, <2>2, WorkerSteady, SimSteady
<1>3. SteadyInv => SteadyWhileConnected
  BY DEF SteadyInv, SteadyWhileConnected, Running
<1> QED
  BY <1>1, <1>2, <1>3, InitTypeInv, NextTypeInv, PTL DEF Spec

-----------------------------------------------------------------------------
(* What a client knows.  The notices still to be sent make up for the        *)
(* difference between what the client published has been told and what there *)
(* is, and a client that is published has been told nothing before.          *)

\* A notice about p is still to be sent.
Late(p) ==
  \E i \in 1 .. Len(outbox) :
    outbox[i].kind \in {"spawned", "despawned"} /\ outbox[i].peer = p

\* The notices waiting say what is the case, and no two are about one aircraft.
NoticesTrue ==
  \A i \in 1 .. Len(outbox) :
    /\ outbox[i].kind = "spawned" => outbox[i].peer \in Planes
    /\ outbox[i].kind = "despawned" => outbox[i].peer \notin Planes
    /\ \A j \in 1 .. Len(outbox) :
         /\ {outbox[i].kind, outbox[j].kind} \subseteq {"spawned", "despawned"}
         /\ outbox[i].peer = outbox[j].peer
         => i = j

\* The last client whose socket has been published.
Published == IF wpc = "publish" THEN accepts - 1 ELSE accepts

WireInv ==
  /\ outbox = <<>> /\ xpc # "closing" => target = NoConn
  /\ outbox # <<>> => xpc \in {"invoke", "report", "maintain", "clearing", "crashed"}
  /\ xpc \in {"stopping", "closing", "join", "disabled"} => ~m_keepSocketAlive
  /\ m_socket # NoConn =>
       m_socket = sock /\ wpc \in {"queueOpen", "poll", "recv", "retire"}
  /\ session \in {NoConn, opened}
  /\ target <= Published
  /\ \A c \in Conns : view[c] # {} => c <= Published
  /\ NoticesTrue

\* What client c, whose socket is the one published, knows.
Knows(c) ==
  /\ target \notin {NoConn, c} => view[c] = {} /\ session # c
  /\ \A p \in Peers : p \in view[c] => p \in Planes \/ Late(p)
  /\ session = c => \A p \in Planes : p \in view[c] \/ Late(p)

KnowsInv == m_keepSocketAlive /\ m_socket # NoConn => Knows(m_socket)

ViewInv == throws = 0 => WireInv /\ KnowsInv

\* What is known needs saying again only if one of these changes.
LEMMA KnowsKept ==
  ASSUME NEW c, Knows(c),
         UNCHANGED <<outbox, view, mapPlanes>>,
         target' \in {NoConn, c, target},
         session' \in {NoConn, session}
  PROVE  Knows(c)' \/ c = NoConn
  BY DEF Knows, Late, Planes

\* A list of aircraft has each of them, and each once.
LEMMA ListedOnce ==
  ASSUME NEW order \in SetToSeqs(Planes)
  PROVE  /\ \A i, j \in 1 .. Len(order) : order[i] = order[j] => i = j
         /\ \A p \in Planes : \E i \in 1 .. Len(order) : order[i] = p
<1> DEFINE n == Cardinality(Planes)
<1>1. IsFiniteSet(Planes)
  BY FS_Subset DEF Planes
<1>2. n \in Nat
  BY <1>1, FS_CardinalityType
<1>3. /\ order \in [1 .. n -> Planes]
      /\ \A i, j \in 1 .. n : i # j => order[i] # order[j]
  BY DEF SetToSeqs
<1>4. Len(order) = n
  BY <1>2, <1>3
<1>5. order \in Injection(1 .. n, Planes)
  BY <1>3 DEF Injection, IsInjective
<1>6. Cardinality(1 .. n) = n
  BY <1>2, FS_Interval
<1>7. order \in Surjection(1 .. n, Planes)
  BY <1>1, <1>5, <1>6, FS_Injection
<1> QED
  BY <1>3, <1>4, <1>7 DEF Surjection

LEMMA ClearedKnown ==
  ASSUME TypeOK, outbox = <<>>, ClearPlanes
  PROVE  /\ NoticesTrue'
         /\ \A p \in Planes : Late(p)'
         /\ Planes' = {}
<1>1. PICK order \in SetToSeqs(Planes) :
        outbox' = [i \in 1 .. Len(order) |->
                     Msg("despawned", order[i], mapPlanes[order[i]])]
  BY DEF ClearPlanes
<1>2. order \in Seq(Planes)
  BY Listed
<1>3. /\ Len(outbox') = Len(order) /\ Len(order) \in Nat
      /\ \A i \in 1 .. Len(order) :
           outbox'[i].kind = "despawned" /\ outbox'[i].peer = order[i]
  BY <1>1, <1>2 DEF Msg
<1>4. Planes' = {}
  BY DEF ClearPlanes, Planes
<1>5. NoticesTrue'
  BY <1>3, <1>4, ListedOnce DEF NoticesTrue
<1>6. \A p \in Planes : Late(p)'
  BY <1>3, ListedOnce DEF Late
<1> QED
  BY <1>4, <1>5, <1>6

-----------------------------------------------------------------------------
LEMMA IntsTyped ==
  ASSUME TypeOK
  PROVE  /\ accepts \in Nat /\ opened \in Nat
         /\ target \in Int /\ m_socket \in Int /\ session \in Int
<1>1. Conns \cup {NoConn} \subseteq Int
  BY DEF Conns, NoConn
<1>2. connects \in Nat /\ opened \in Nat
  BY DEF TypeOK
<1>3. accepts \in Nat
  BY <1>2 DEF TypeOK
<1>4. {target, m_socket, session} \subseteq Conns \cup {NoConn}
  BY DEF TypeOK
<1> QED
  BY <1>1, <1>2, <1>3, <1>4

LEMMA WorkerView ==
  ASSUME TypeInv, TypeInv', OrderInv, WireInv, KnowsInv, WorkerStep
  PROVE  WireInv' /\ KnowsInv'
<1> USE DEF Worker, appVars, sharedVars, sendVars, simVars
<1>1. UNCHANGED <<xpc, temp, simVars, sendVars>>
  BY SocketThreadOnly
<1>2. UNCHANGED m_keepSocketAlive
  BY DEF WorkerStep, WorkerProgress, OpenAcceptor, TestLoop, Accept, AcceptRetry,
     Publish, QueueOpen, TestPoll, Receive, ReceiveFailed, ReceiveGarbled, Retire,
     QueueCleanup, Release
<1>3. Published \in Int /\ Published' \in Int /\ Published <= Published'
  <2>1. accepts \in Int
    BY IntsTyped DEF TypeInv
  <2> QED
    BY <2>1 DEF Published, WorkerStep, WorkerProgress, OpenAcceptor, TestLoop, Accept,
       AcceptRetry, Publish, QueueOpen, TestPoll, Receive, ReceiveFailed,
       ReceiveGarbled, Retire, QueueCleanup, Release
<1>4. m_socket' # NoConn =>
        m_socket' = sock' /\ wpc' \in {"queueOpen", "poll", "recv", "retire"}
  BY DEF WireInv, WorkerStep, WorkerProgress, OpenAcceptor, TestLoop, Accept,
     AcceptRetry, Publish, QueueOpen, TestPoll, Receive, ReceiveFailed,
     ReceiveGarbled, Retire, QueueCleanup, Release
<1>5. NoticesTrue'
  BY <1>1 DEF WireInv, NoticesTrue, Planes
<1>6. target' <= Published' /\ \A c \in Conns : view'[c] # {} => c <= Published'
  <2>1. target \in Int /\ \A c \in Conns : c \in Int
    BY IntsTyped DEF TypeInv, Conns
  <2>2. target <= Published /\ \A c \in Conns : view[c] # {} => c <= Published
    BY DEF WireInv
  <2>3. target' = target /\ view' = view
    BY <1>1
  <2>4. ASSUME NEW n \in Int, n <= Published
        PROVE  n <= Published'
    BY <1>3, <2>4
  <2> QED
    BY <2>1, <2>2, <2>3, <2>4
<1>7. WireInv'
  BY <1>1, <1>2, <1>4, <1>5, <1>6 DEF WireInv
<1>8. CASE Publish
  <2>1. sock \in Conns /\ sock = accepts /\ m_socket' = sock /\ Published = accepts - 1
    BY <1>8 DEF Publish, TypeInv, TypeOK, SockHeld, OrderInv, Published
  <2>2. accepts \in Nat /\ target \in Int /\ opened \in Nat
    BY IntsTyped DEF TypeInv
  <2>3. view[sock] = {} /\ target # sock
    BY <2>1, <2>2 DEF WireInv
  <2>4. opened <= accepts - 1
    BY <1>8 DEF Publish, OrderInv, OpensAhead, PostedUpTo
  <2>5. session # sock
    BY <2>1, <2>2, <2>4 DEF WireInv, Conns, NoConn
  <2>6. sock' = sock
    BY <1>8 DEF Publish
  <2>7. Knows(m_socket)'
    BY <1>1, <2>1, <2>3, <2>5, <2>6 DEF Knows
  <2> QED
    BY <1>7, <2>7 DEF KnowsInv
<1>9. CASE ~Publish
  <2>1. m_socket' \in {NoConn, m_socket}
    BY <1>9 DEF WorkerStep, WorkerProgress, OpenAcceptor, TestLoop, Accept,
       AcceptRetry, QueueOpen, TestPoll, Receive, ReceiveFailed, ReceiveGarbled,
       Retire, QueueCleanup, Release
  <2> QED
    BY <1>1, <1>2, <1>7, <2>1, KnowsKept DEF KnowsInv
<1> QED
  BY <1>8, <1>9

\* The socket that is published is alive.
LEMMA SendView ==
  ASSUME TypeInv, OrderInv, WireInv, KnowsInv, SendStep
  PROVE  WireInv' /\ KnowsInv'
<1> USE DEF appVars, workerVars, sharedVars, simVars
<1>0. /\ UNCHANGED <<mapPlanes, session, opened, m_socket, sock, wpc, accepts>>
      /\ Sending /\ outbox # <<>> /\ outbox \in Seq(Message)
      /\ xpc' \in {xpc, "crashed"} /\ (m_keepSocketAlive' => m_keepSocketAlive)
      /\ target \in Conns \cup {NoConn} /\ m_socket \in Conns \cup {NoConn}
      /\ view \in [Conns -> SUBSET Peers]
  BY DEF SendStep, SendTest, SendDelivered, SendFailed, SendCrashed, Finish, Sending,
     TypeInv, TypeOK
<1> DEFINE m == Head(outbox)
<1>1. /\ Len(outbox) \in Nat /\ 1 \in 1 .. Len(outbox) /\ outbox[1] = m
      /\ outbox' = Tail(outbox) =>
           /\ Len(outbox') = Len(outbox) - 1
           /\ \A i \in 1 .. Len(outbox') :
                outbox'[i] = outbox[i + 1] /\ i + 1 \in 1 .. Len(outbox)
  BY <1>0
<1>2. NoticesTrue'
  <2>1. CASE outbox' = outbox
    BY <1>0, <2>1 DEF WireInv, NoticesTrue, Planes
  <2>2. CASE outbox' = Tail(outbox)
    BY <1>0, <1>1, <2>2 DEF WireInv, NoticesTrue, Planes
  <2> QED
    BY <2>1, <2>2 DEF SendStep, SendTest, SendDelivered, SendFailed, SendCrashed, Finish
<1>3. target' \in {NoConn, target, m_socket} /\ (outbox' = <<>> => target' = NoConn)
  BY <1>0 DEF SendStep, SendTest, SendDelivered, SendFailed, SendCrashed, Finish
<1>4. /\ Published' = Published /\ Published \in Int
      /\ 0 <= Published /\ target <= Published /\ m_socket <= Published
  BY <1>0 DEF Published, WireInv, OrderInv, TypeInv, TypeOK, SockHeld, Conns, NoConn
<1>5. CASE ~SendDelivered
  <2>1. view' = view
    BY <1>5 DEF SendStep, SendTest, SendFailed, SendCrashed, Finish
  <2>2. WireInv'
    BY <1>0, <1>2, <1>3, <1>4, <2>1 DEF WireInv, Sending, NoConn
  <2>3. ASSUME m_keepSocketAlive', m_socket # NoConn
        PROVE  outbox' = outbox /\ target' \in {m_socket, target}
    BY <1>5, <2>3 DEF SendStep, SendTest, SendFailed, SendCrashed
  <2> QED
    BY <1>0, <2>1, <2>2, <2>3, KnowsKept DEF KnowsInv
<1>6. CASE SendDelivered
  <2>1. PICK d \in Dereferenced \ {NoConn} : Finish(Told(d, m))
    BY <1>6 DEF SendDelivered
  <2>2. /\ d \in Conns /\ d \in {target, m_socket} /\ d <= Published
        /\ target # NoConn /\ target' = NoConn /\ outbox' = Tail(outbox)
        /\ view' = Told(d, m)
    BY <1>0, <1>4, <1>6, <2>1 DEF SendDelivered, Finish, Dereferenced
  <2>3. /\ \A c \in Conns \ {d} : view'[c] = view[c]
        /\ m.kind = "spawned" => view'[d] = view[d] \cup {m.peer}
        /\ m.kind = "despawned" => view'[d] = view[d] \ {m.peer}
        /\ m.kind \notin {"spawned", "despawned"} => view'[d] = view[d]
    BY <1>0, <2>2 DEF Told
  <2>4. WireInv'
    BY <1>0, <1>2, <1>4, <2>2, <2>3 DEF WireInv, Sending, NoConn
  <2>5. ASSUME m_keepSocketAlive', m_socket # NoConn
        PROVE  Knows(m_socket)'
    <3>1. Knows(m_socket)
      BY <1>0, <2>5 DEF KnowsInv
    <3>2. CASE d # m_socket
      <4>1. view[m_socket] = {} /\ session # m_socket
        BY <2>2, <3>1, <3>2 DEF Knows
      <4> QED
        BY <1>0, <2>2, <2>3, <2>5, <3>2, <4>1 DEF Knows
    <3>3. CASE d = m_socket
      <4>1. /\ m.kind = "spawned" => m.peer \in Planes
            /\ m.kind = "despawned" => m.peer \notin Planes
        BY <1>1 DEF WireInv, NoticesTrue
      <4>2. ASSUME NEW p \in Peers,
                   m.kind \in {"spawned", "despawned"} => m.peer # p
            PROVE  (p \in view'[d] <=> p \in view[d]) /\ (Late(p) => Late(p)')
        <5>1. p \in view'[d] <=> p \in view[d]
          BY <2>3, <4>2
        <5>2. ASSUME Late(p)
              PROVE  Late(p)'
          <6>1. PICK i \in 1 .. Len(outbox) :
                  outbox[i].kind \in {"spawned", "despawned"} /\ outbox[i].peer = p
            BY <5>2 DEF Late
          <6>2. i # 1
            BY <1>1, <4>2, <6>1
          <6>3. i - 1 \in 1 .. Len(outbox') /\ outbox'[i - 1] = outbox[i]
            BY <1>1, <2>2, <6>1, <6>2
          <6> QED
            BY <6>1, <6>3 DEF Late
        <5> QED
          BY <5>1, <5>2
      <4>3. ASSUME NEW p \in Peers, m.kind \in {"spawned", "despawned"}, m.peer = p
            PROVE  p \in view'[d] <=> p \in Planes
        BY <2>3, <4>1, <4>3
      <4>4. Planes' = Planes /\ Planes \subseteq Peers
        BY <1>0 DEF Planes
      <4> QED
        BY <1>0, <2>2, <3>1, <3>3, <4>2, <4>3, <4>4 DEF Knows
    <3> QED
      BY <3>2, <3>3
  <2> QED
    BY <1>0, <2>4, <2>5 DEF KnowsInv
<1> QED
  BY <1>5, <1>6

\* The steps of X-Plane's thread that fill the outbox, which is empty before.
LEMMA FillView ==
  ASSUME TypeInv, WireInv, KnowsInv, outbox = <<>>, xpc # "closing",
         UNCHANGED <<m_keepSocketAlive, m_socket, sock, wpc, accepts, target, view>>,
         xpc' \in {"invoke", "report", "maintain", "clearing"},
         session' \in {NoConn, opened'}, NoticesTrue',
         \/ session' \in {NoConn, session}
         \/ Planes = {} /\ Planes' = {},
         \A p \in Peers :
           \/ Late(p)'
           \/ p \in Planes <=> p \in Planes'
  PROVE  WireInv' /\ KnowsInv'
<1>1. target = NoConn
  BY DEF WireInv
<1>2. WireInv'
  BY <1>1 DEF WireInv, Published, NoConn
<1>3. \A p : ~Late(p)
  BY DEF Late
<1>4. ASSUME m_keepSocketAlive', m_socket' # NoConn
      PROVE  Knows(m_socket)'
  <2>1. Knows(m_socket)
    BY <1>4 DEF KnowsInv
  <2>2. Planes \subseteq Peers /\ Planes' \subseteq Peers
    BY DEF Planes
  <2>3. \A p \in Peers : p \in view'[m_socket'] => p \in Planes' \/ Late(p)'
    BY <1>3, <2>1 DEF Knows
  <2>4. ASSUME session' = m_socket', NEW p \in Planes'
        PROVE  p \in view'[m_socket'] \/ Late(p)'
    BY <1>3, <1>4, <2>1, <2>2, <2>4 DEF Knows
  <2> QED
    BY <1>1, <2>3, <2>4 DEF Knows
<1> QED
  BY <1>2, <1>4 DEF KnowsInv

LEMMA RunView ==
  ASSUME TypeInv, SessionInv, WireInv, KnowsInv, RunStep
  PROVE  WireInv' /\ KnowsInv'
<1> DEFINE e == Head(temp)
<1> USE DEF SimStep, appVars, workerVars, sharedVars, simVars
<1>1. ASSUME NEW op \in Ops, RunNext(op)
      PROVE  e.op = op /\ e \in Entry /\ session = Required(e)
  BY <1>1, SessionFound DEF RunNext
<1>2. /\ outbox = <<>> /\ xpc = "invoke" /\ xpc' = "invoke"
      /\ UNCHANGED <<m_keepSocketAlive, m_socket, sock, wpc, accepts, target, view>>
  BY DEF RunStep, RunOpen, RunSpawn, RunDespawn, RunUpdate, RunModels, RunCleanup,
     RunNext, Quiet
<1>3. session \in {NoConn, opened} /\ mapPlanes \in [Peers -> Conns \cup {NoConn}]
  BY DEF WireInv, TypeInv, TypeOK
<1>4. CASE RunOpen
  <2>1. session = NoConn
    BY <1>1, <1>4 DEF RunOpen, Ops, Required
  <2>2. Planes = {} /\ Planes' = {}
    BY <1>4, <2>1 DEF RunOpen, SessionInv, Isolated, Planes
  <2>3. session' = opened' /\ NoticesTrue'
    BY <1>4 DEF RunOpen, NoticesTrue, Msg
  <2> QED
    BY <1>2, <2>2, <2>3, FillView
<1>5. ASSUME NEW p \in Peers, NEW c \in Conns \cup {NoConn}, NEW kind,
             UNCHANGED <<session, opened>>,
             mapPlanes' = [mapPlanes EXCEPT ![p] = c],
             outbox' = <<Msg(kind, p, mapPlanes[p])>> \/ outbox' = <<Msg(kind, p, c)>>,
             kind = IF c = NoConn THEN "despawned" ELSE "spawned"
      PROVE  WireInv' /\ KnowsInv'
  <2>1. \A q \in Peers : q # p => (q \in Planes <=> q \in Planes')
    BY <1>3, <1>5 DEF Planes
  <2>2. p \in Planes' <=> c # NoConn
    BY <1>3, <1>5 DEF Planes
  <2>3. NoticesTrue' /\ Late(p)'
    BY <1>5, <2>2 DEF NoticesTrue, Late, Msg
  <2> QED
    BY <1>2, <1>3, <1>5, <2>1, <2>3, FillView
<1>6. ASSUME UNCHANGED <<session, opened, mapPlanes>>, NoticesTrue'
      PROVE  WireInv' /\ KnowsInv'
  <2>1. Planes' = Planes
    BY <1>6 DEF Planes
  <2> QED
    BY <1>2, <1>3, <1>6, <2>1, FillView
<1>7. CASE RunSpawn
  <2>1. e.peer \in Peers /\ e.conn \in Conns /\ UNCHANGED <<session, opened>>
    BY <1>1, <1>7 DEF RunSpawn, Ops, PeerOps, Entry
  <2>2. NoConn \notin Conns
    BY DEF NoConn, Conns
  <2> QED
    BY <1>5, <1>7, <2>1, <2>2 DEF RunSpawn, Erase, Emplace
<1>8. CASE RunDespawn
  <2>1. e.peer \in Peers /\ UNCHANGED <<session, opened>>
    BY <1>1, <1>8 DEF RunDespawn, Ops, PeerOps, Entry
  <2>2. CASE e.peer \in Planes
    BY <1>5, <1>8, <2>1, <2>2 DEF RunDespawn, Erase
  <2>3. CASE e.peer \notin Planes
    BY <1>2, <1>6, <1>8, <2>1, <2>3 DEF RunDespawn, NoticesTrue
  <2> QED
    BY <2>2, <2>3
<1>9. CASE RunUpdate
  BY <1>2, <1>6, <1>9 DEF RunUpdate, NoticesTrue
<1>10. CASE RunModels
  BY <1>6, <1>10 DEF RunModels, NoticesTrue, Msg
<1>11. CASE RunCleanup
  <2>1. session' = NoConn /\ ClearPlanes
    BY <1>11 DEF RunCleanup
  <2>2. /\ NoticesTrue' /\ Planes' = {} /\ \A p \in Planes : Late(p)'
    BY <1>2, <2>1, ClearedKnown DEF TypeInv
  <2> QED
    BY <1>2, <2>1, <2>2, FillView
<1> QED
  BY <1>4, <1>7, <1>8, <1>9, <1>10, <1>11 DEF RunStep

LEMMA SimView ==
  ASSUME TypeInv, OrderInv, WireInv, KnowsInv,
         \/ AppStep \/ Initialize \/ SwapQueue \/ Maintenance \/ DisableDeleteAll
         \/ FrameReports \/ CallbackReturns \/ ShutdownStep
  PROVE  WireInv' /\ KnowsInv'
<1> USE DEF SimStep, appVars, workerVars, sharedVars, simVars, sendVars
<1>1. session \in {NoConn, opened}
  BY DEF WireInv
<1>2. CASE Maintenance \/ FrameReports
  <2>1. /\ outbox = <<>> /\ xpc # "closing" /\ xpc' \in {"report", "maintain"}
        /\ UNCHANGED <<m_keepSocketAlive, m_socket, sock, wpc, accepts, target, view>>
        /\ UNCHANGED <<session, opened, mapPlanes>>
    BY <1>2 DEF Maintenance, FrameReports, Quiet, WireInv
  <2>2. \A i \in 1 .. Len(outbox') : outbox'[i].kind \in {"elevation", "report"}
    <3>1. CASE Maintenance
      <4>1. PICK order \in SetToSeqs(Planes) :
              outbox' = [i \in 1 .. Len(order) |->
                           Msg("elevation", order[i], mapPlanes[order[i]])]
        BY <3>1 DEF Maintenance
      <4>2. Len(order) \in Nat
        BY Listed
      <4>3. Len(outbox') = Len(order)
        BY <4>1, <4>2
      <4> QED
        BY <4>1, <4>3 DEF Msg
    <3>2. CASE FrameReports
      BY <3>2 DEF FrameReports, Msg
    <3> QED
      BY <1>2, <3>1, <3>2
  <2>3. NoticesTrue'
    BY <2>2 DEF NoticesTrue
  <2>4. Planes' = Planes
    BY <2>1 DEF Planes
  <2> QED
    BY <1>1, <2>1, <2>3, <2>4, FillView
<1>3. CASE DisableDeleteAll
  <2>1. /\ outbox = <<>> /\ xpc # "closing" /\ xpc' = "clearing" /\ ClearPlanes
        /\ UNCHANGED <<m_keepSocketAlive, m_socket, sock, wpc, accepts, target, view>>
        /\ UNCHANGED <<session, opened>>
    BY <1>3 DEF DisableDeleteAll, WireInv
  <2>2. /\ NoticesTrue' /\ Planes' = {} /\ \A p \in Planes : Late(p)'
    BY <2>1, ClearedKnown DEF TypeInv
  <2> QED
    BY <1>1, <2>1, <2>2, FillView
<1>4. CASE AppStep \/ Initialize \/ SwapQueue \/ CallbackReturns
  <2>1. /\ UNCHANGED <<outbox, view, target, mapPlanes, session, opened, m_socket,
                       sock, accepts>>
        /\ \/ UNCHANGED <<xpc, wpc, m_keepSocketAlive>>
           \/ /\ outbox = <<>> /\ xpc # "closing"
              /\ xpc' \in {"idle", "invoke"}
              /\ \/ UNCHANGED <<wpc, m_keepSocketAlive>>
                 \/ wpc = "none" /\ wpc' = "init"
    <3>1. CASE AppStep
      BY <3>1 DEF AppStep, AppConnect, AppLeave
    <3>2. CASE Initialize
      BY <3>2 DEF Initialize, WireInv, TypeInv, StartedOnce
    <3>3. CASE SwapQueue \/ CallbackReturns
      BY <3>3 DEF SwapQueue, CallbackReturns, Quiet, WireInv
    <3> QED
      BY <1>4, <3>1, <3>2, <3>3
  <2>2. wpc = "none" => m_socket = NoConn
    BY DEF WireInv
  <2>3. NoticesTrue' /\ Published' = Published
    BY <2>1 DEF WireInv, NoticesTrue, Planes, Published
  <2>4. WireInv'
    BY <2>1, <2>2, <2>3 DEF WireInv
  <2> QED
    BY <2>1, <2>2, <2>4, KnowsKept DEF KnowsInv
<1>5. CASE ShutdownStep
  <2>1. /\ outbox = <<>> /\ outbox' = <<>> /\ ~m_keepSocketAlive'
        /\ UNCHANGED <<view, mapPlanes, session, opened, sock, wpc, accepts>>
        /\ m_socket' \in {NoConn, m_socket} /\ target' \in {NoConn, target, m_socket}
        /\ xpc' # "closing" => target' = NoConn
    BY <1>5 DEF ShutdownStep, ShutdownStop, ShutdownTest, ShutdownClose,
       ShutdownJoined, Quiet, WireInv
  <2>2. 0 <= Published /\ m_socket <= Published /\ Published' = Published
    <3>1. accepts \in Nat /\ m_socket \in Int
      BY IntsTyped DEF TypeInv
    <3>2. wpc = "publish" => accepts \in Conns
      BY DEF TypeInv, TypeOK, SockHeld, OrderInv
    <3> QED
      BY <2>1, <3>1, <3>2 DEF Published, WireInv, OrderInv, Conns, NoConn
  <2>3. WireInv'
    BY <2>1, <2>2 DEF WireInv, NoticesTrue, NoConn
  <2> QED
    BY <2>1, <2>3 DEF KnowsInv
<1> QED
  BY <1>2, <1>3, <1>4, <1>5

(* Between callbacks a client whose session is open has been told exactly    *)
(* which aircraft are in the simulator, whatever else was written to it.     *)
THEOREM ClientsKnow == Spec => []ClientViewAgrees
<1> DEFINE Inv == IInv /\ OrderInv /\ ViewInv
<1>1. Init => ViewInv
  BY DEF Init, ViewInv, WireInv, KnowsInv, NoticesTrue, Published, NoConn
<1>2. Inv /\ IInv' /\ [Next]_vars => ViewInv'
  <2> SUFFICES ASSUME Inv, IInv', [Next]_vars, throws' = 0
               PROVE  WireInv' /\ KnowsInv'
    BY DEF ViewInv
  <2>1. TypeInv /\ TypeInv'
    BY DEF IInv, TypeInv
  <2>2. throws = 0
    BY <2>1, Irrevocable DEF vars, appVars
  <2>3. WireInv /\ KnowsInv
    BY <2>2 DEF ViewInv
  <2>4. CASE UNCHANGED vars \/ Terminated
    <3>1. UNCHANGED vars
      BY <2>4 DEF Terminated
    <3> QED
      BY <2>3, <3>1 DEF vars, appVars, workerVars, sharedVars, simVars, sendVars,
         WireInv, KnowsInv, Knows, Late, NoticesTrue, Published, Planes
  <2>5. CASE RunStep
    <3>1. xpc = "invoke"
      BY <2>5 DEF RunStep, RunOpen, RunSpawn, RunDespawn, RunUpdate, RunModels,
         RunCleanup, RunNext, Quiet
    <3> QED
      BY <2>1, <2>2, <2>3, <2>5, <3>1, RunView DEF IInv
  <2>6. CASE Next /\ ~RunStep /\ ~Terminated
    <3>1. ~Throw /\ ~SpawnRefused
      BY <2>1, <2>6, Irrevocable
    <3> QED
      BY <2>1, <2>3, <2>6, <3>1, WorkerView, SendView, SimView DEF Next, SimProgress
  <2> QED
    BY <2>4, <2>5, <2>6
<1>3. Inv => ClientViewAgrees
  <2> SUFFICES ASSUME Inv, throws = 0, m_keepSocketAlive, outbox = <<>>,
                      session # NoConn, session = m_socket
               PROVE  view[session] = Planes
    BY DEF ClientViewAgrees
  <2>1. Knows(session) /\ \A p : ~Late(p)
    BY DEF ViewInv, KnowsInv, Late
  <2>2. view[session] \subseteq Peers /\ Planes \subseteq Peers
    BY DEF IInv, TypeOK, Planes
  <2> QED
    BY <2>1, <2>2 DEF Knows
<1>4. IInv => TypeInv
  BY DEF IInv, TypeInv
<1> QED
  BY <1>1, <1>2, <1>3, <1>4, InitIInv, NextIInv, InitOrder, NextOrder, PTL DEF Spec

-----------------------------------------------------------------------------
(* What an exception costs.  A client's session is a stray if its aircraft   *)
(* are there although its session is not the open one; the list of pending   *)
(* callbacks breaks where one does not leave open the session the next one   *)
(* needs.  Every break, and a first callback that does not find its session, *)
(* can make one more stray when it is run, and only exceptions make breaks.  *)

Strays == {mapPlanes[p] : p \in Planes} \ {session}

\* The session the (i+1)-th of es needs, the one left open at the end being t.
Following(es, t, i) == IF i = Len(es) THEN t ELSE Required(es[i + 1])

Breaks(es, t) == {i \in 1 .. Len(es) : After(es[i]) # Following(es, t, i)}

\* The stray to come if a callback that needs session r finds session s open.
Owed(s, r) == IF s = r THEN {} ELSE IF r = NoConn THEN {s} ELSE {r}

Debt == Strays \cup Owed(session, Following(Pending, PostedSession, 0))

CostInv ==
  xpc # "disabled" =>
    Cardinality(Debt) + Cardinality(Breaks(Pending, PostedSession)) <= throws

\* Sets of clients, and of positions in a sequence, can be counted.
LEMMA Countable ==
  ASSUME TypeInv
  PROVE  /\ IsFiniteSet(Strays) /\ IsFiniteSet(Debt) /\ Cardinality(Debt) \in Nat
         /\ Cardinality(Strays) <= Cardinality(Debt) /\ Cardinality(Strays) \in Nat
<1>1. IsFiniteSet(Conns \cup {NoConn})
  <2>1. IsFiniteSet(1 .. MaxConns)
    <3>1. 1 \in Int /\ MaxConns \in Int
      OBVIOUS
    <3> QED
      BY <3>1, FS_Interval
  <2> QED
    BY <2>1, FS_AddElement DEF Conns
<1>2. IsFiniteSet(Strays)
  <2>1. Strays \subseteq Conns \cup {NoConn}
    BY DEF Strays, Planes, TypeInv, TypeOK
  <2> QED
    BY <1>1, <2>1, FS_Subset
<1>3. IsFiniteSet(Debt)
  <2>1. \/ Debt = Strays
        \/ \E c : Debt = Strays \cup {c}
    BY DEF Debt, Owed
  <2> QED
    BY <1>2, <2>1, FS_AddElement
<1> QED
  BY <1>2, <1>3, FS_CardinalityType, FS_Subset DEF Debt

LEMMA BreaksCounted ==
  ASSUME NEW es \in Seq(Entry), NEW t
  PROVE  /\ IsFiniteSet(Breaks(es, t)) /\ Cardinality(Breaks(es, t)) \in Nat
<1>1. Len(es) \in Int /\ IsFiniteSet(1 .. Len(es))
  BY FS_Interval
<1>2. IsFiniteSet(Breaks(es, t))
  BY <1>1, FS_Subset DEF Breaks
<1> QED
  BY <1>2, FS_CardinalityType

\* A set that is within another one, but for one element.
LEMMA OneMore ==
  ASSUME NEW S, IsFiniteSet(S), NEW x, NEW T \in SUBSET (S \cup {x})
  PROVE  /\ IsFiniteSet(T) /\ Cardinality(T) \in Nat
         /\ Cardinality(T) <= Cardinality(S) + 1
<1>1. /\ IsFiniteSet(S \cup {x})
      /\ Cardinality(S \cup {x}) <= Cardinality(S) + 1
  <2>1. Cardinality(S) \in Nat
    BY FS_CardinalityType
  <2>2. /\ IsFiniteSet(S \cup {x})
        /\ Cardinality(S \cup {x}) \in {Cardinality(S), Cardinality(S) + 1}
    BY FS_AddElement
  <2> QED
    BY <2>1, <2>2
<1>2. IsFiniteSet(T) /\ Cardinality(T) <= Cardinality(S \cup {x})
  BY <1>1, FS_Subset
<1>3. /\ Cardinality(T) \in Nat /\ Cardinality(S) \in Nat
      /\ Cardinality(S \cup {x}) \in Nat
  BY <1>1, <1>2, FS_CardinalityType
<1> QED
  BY <1>1, <1>2, <1>3

\* An entry that finds the session it needs adds no break behind the others.
LEMMA BreaksAppend ==
  ASSUME NEW es \in Seq(Entry), NEW e \in Entry, NEW t, t = Required(e)
  PROVE  /\ Following(Append(es, e), After(e), 0) = Following(es, t, 0)
         /\ Cardinality(Breaks(Append(es, e), After(e))) <= Cardinality(Breaks(es, t))
<1> DEFINE fs == Append(es, e)
<1>1. /\ Len(fs) = Len(es) + 1 /\ Len(es) \in Nat
      /\ \A i \in 1 .. Len(es) : fs[i] = es[i]
      /\ fs[Len(es) + 1] = e
  OBVIOUS
<1>2. \A i \in 0 .. Len(es) : Following(fs, After(e), i) = Following(es, t, i)
  BY <1>1 DEF Following
<1>3. Breaks(fs, After(e)) \subseteq Breaks(es, t)
  BY <1>1, <1>2 DEF Breaks, Following
<1>4. 0 \in 0 .. Len(es)
  BY <1>1
<1> QED
  BY <1>2, <1>3, <1>4, BreaksCounted, FS_Subset

\* Dropping the first n entries drops their breaks and moves the others down.
LEMMA BreaksDropped ==
  ASSUME NEW es \in Seq(Entry), NEW fs \in Seq(Entry), NEW t, NEW n \in 0 .. Len(es),
         Len(fs) = Len(es) - n, \A i \in 1 .. Len(fs) : fs[i] = es[i + n]
  PROVE  Cardinality(Breaks(fs, t)) <= Cardinality(Breaks(es, t) \ (1 .. n))
<1> DEFINE B == Breaks(es, t) \ (1 .. n)
           shift == [i \in Breaks(fs, t) |-> i + n]
<1>1. ASSUME NEW i \in Breaks(fs, t)
      PROVE  i \in Nat /\ i + n \in B
  <2>1. i \in 1 .. Len(fs) /\ After(fs[i]) # Following(fs, t, i)
    BY DEF Breaks
  <2>2. i + n \in (1 .. Len(es)) \ (1 .. n) /\ fs[i] = es[i + n]
    BY <2>1
  <2>3. Following(fs, t, i) = Following(es, t, i + n)
    <3>1. CASE i = Len(fs)
      BY <2>1, <3>1 DEF Following
    <3>2. CASE i # Len(fs)
      <4>1. i + 1 \in 1 .. Len(fs) /\ (i + 1) + n = (i + n) + 1 /\ i + n # Len(es)
        BY <2>1, <3>2
      <4>2. fs[i + 1] = es[(i + 1) + n]
        BY <4>1
      <4>3. fs[i + 1] = es[(i + n) + 1]
        BY <4>1, <4>2, Zenon
      <4> QED
        BY <3>2, <4>1, <4>3 DEF Following
    <3> QED
      BY <3>1, <3>2
  <2> QED
    BY <2>1, <2>2, <2>3 DEF Breaks
<1>2. shift \in Injection(Breaks(fs, t), B)
  <2>1. shift \in [Breaks(fs, t) -> B]
    BY <1>1
  <2>2. \A i, j \in Breaks(fs, t) : shift[i] = shift[j] => i = j
    BY <1>1
  <2> QED
    BY <2>1, <2>2 DEF Injection, IsInjective
<1>3. IsFiniteSet(B)
  BY BreaksCounted, FS_Subset
<1> QED
  BY <1>2, <1>3, FS_Injection

\* A step that touches neither the queue, the aircraft nor the sessions.
LEMMA CostUntouched ==
  ASSUME CostInv, xpc # "disabled",
         UNCHANGED <<Pending, PostedSession, mapPlanes, session, throws>>
  PROVE  CostInv'
  BY DEF CostInv, Debt, Strays, Planes

LEMMA CostPosted ==
  ASSUME TypeInv, CostInv, xpc # "disabled", NEW e \in Entry, QueueCallback(e),
         UNCHANGED <<temp, mapPlanes, session, throws>>,
         PostedSession = Required(e), PostedSession' = After(e)
  PROVE  CostInv'
<1>1. Pending \in Seq(Entry) /\ Pending' = Append(Pending, e)
  BY PendingTyped, PendingPosted DEF TypeInv
<1>2. /\ Following(Pending', PostedSession', 0) = Following(Pending, PostedSession, 0)
      /\ Cardinality(Breaks(Pending', PostedSession'))
           <= Cardinality(Breaks(Pending, PostedSession))
  BY <1>1, BreaksAppend
<1>3. Debt' = Debt
  BY <1>2 DEF Debt, Strays, Planes
<1>4. Pending' \in Seq(Entry)
  BY <1>1
<1>5. /\ Cardinality(Breaks(Pending', PostedSession')) \in Nat
      /\ Cardinality(Breaks(Pending, PostedSession)) \in Nat
  BY <1>1, <1>4, BreaksCounted
<1> QED
  BY <1>2, <1>3, <1>5, Countable DEF CostInv, TypeInv, TypeOK

LEMMA WorkerCost ==
  ASSUME TypeInv, CostInv, xpc # "disabled", WorkerStep
  PROVE  CostInv'
<1> USE DEF Worker, simVars, sendVars, appVars
<1>1. UNCHANGED <<temp, mapPlanes, session, throws>>
  BY DEF WorkerStep, WorkerProgress, OpenAcceptor, TestLoop, Accept, AcceptRetry,
         Publish, QueueOpen, TestPoll, Receive, ReceiveFailed, ReceiveGarbled,
         Retire, QueueCleanup, Release
<1>2. CASE \/ OpenAcceptor \/ TestLoop \/ Accept \/ AcceptRetry \/ Publish
           \/ TestPoll \/ ReceiveFailed \/ ReceiveGarbled \/ Retire \/ Release
  <2>1. UNCHANGED m_queuedCallbacks
    BY <1>2 DEF OpenAcceptor, TestLoop, Accept, AcceptRetry, Publish, TestPoll,
       ReceiveFailed, ReceiveGarbled, Retire, Release, sharedVars
  <2>2. UNCHANGED PostedSession
    BY <1>2 DEF OpenAcceptor, TestLoop, Accept, AcceptRetry, Publish, TestPoll,
       ReceiveFailed, ReceiveGarbled, Retire, Release, PostedSession
  <2>3. UNCHANGED Pending
    BY <1>1, <2>1 DEF Pending
  <2> QED
    BY <1>1, <2>2, <2>3, CostUntouched
<1>3. CASE QueueOpen \/ QueueCleanup
  <2> DEFINE e == Call(IF wpc = "queueOpen" THEN "open" ELSE "cleanup", sock, NoPeer)
  <2>1. sock \in Conns
    BY <1>3 DEF QueueOpen, QueueCleanup, TypeInv, TypeOK, SockHeld
  <2>2. e \in Entry
    BY <2>1 DEF Call, Entry, Ops, PeerOps
  <2>3. PostedSession = Required(e) /\ PostedSession' = After(e)
    BY <1>3 DEF QueueOpen, QueueCleanup, PostedSession, Required, After, Call
  <2>4. QueueCallback(e)
    BY <1>3 DEF QueueOpen, QueueCleanup
  <2> QED
    BY <1>1, <2>2, <2>3, <2>4, CostPosted
<1>4. CASE Receive
  <2>1. sock \in Conns /\ PostedSession = sock /\ PostedSession' = sock
    BY <1>4 DEF Receive, TypeInv, TypeOK, SockHeld, PostedSession
  <2>2. ASSUME NEW op \in PeerOps \cup {"update", "models"},
               NEW p \in Peers \cup {NoPeer},
               op \in PeerOps <=> p \in Peers,
               QueueCallback(Call(op, sock, p))
        PROVE  CostInv'
    <3> DEFINE e == Call(op, sock, p)
    <3>1. e \in Entry
      BY <2>1, <2>2 DEF Call, Entry, Ops, PeerOps
    <3>2. PostedSession = Required(e) /\ PostedSession' = After(e)
      BY <2>1 DEF Required, After, Call, PeerOps
    <3> QED
      BY <1>1, <2>2, <3>1, <3>2, CostPosted
  <2>3. CASE UNCHANGED m_queuedCallbacks
    <3>1. UNCHANGED <<Pending, PostedSession>>
      BY <1>1, <2>1, <2>3 DEF Pending
    <3> QED
      BY <1>1, <3>1, CostUntouched
  <2> QED
    BY <1>4, <2>2, <2>3, PeersAssumption DEF Receive, ProcessPacket, PeerOps
<1> QED
  BY <1>2, <1>3, <1>4 DEF WorkerStep, WorkerProgress

\* A callback is run: whatever strays it makes were owed, and if the one behind
\* it does not find its session, a break is used up.
LEMMA CostTaken ==
  ASSUME TypeInv, CostInv, xpc # "disabled", NEW op \in Ops, RunNext(op),
         Strays' \cup Owed(session', After(Head(temp)))
           \subseteq Strays \cup Owed(session, Required(Head(temp)))
  PROVE  CostInv'
<1> DEFINE e == Head(temp)
           es == Pending
           t == PostedSession
           next == Following(Pending', t, 0)
           B == Breaks(es, t)
<1>1. /\ temp # <<>> /\ temp' = Tail(temp)
      /\ UNCHANGED <<m_queuedCallbacks, wpc, sock, throws>>
  BY DEF RunNext, sharedVars, SimStep, workerVars, appVars
<1>2. /\ es \in Seq(Entry) /\ es # <<>> /\ Head(es) = e /\ Pending' = Tail(es)
      /\ t' = t
  BY <1>1, PendingTyped, PendingTaken DEF TypeInv, PostedSession
<1>3. /\ Len(es) \in Nat /\ Len(es) >= 1 /\ es[1] = e
      /\ Tail(es) \in Seq(Entry) /\ Len(Tail(es)) = Len(es) - 1
      /\ \A i \in 1 .. Len(Tail(es)) : Tail(es)[i] = es[i + 1]
  BY <1>2
<1>4. Debt = Strays \cup Owed(session, Required(e))
  BY <1>3 DEF Debt, Following
<1>5. next = Following(es, t, 1)
  BY <1>2, <1>3 DEF Following
<1>6. 1 \in B <=> After(e) # next
  BY <1>3, <1>5 DEF Breaks
<1>7. /\ Debt' = Strays' \cup Owed(session', next)
      /\ Breaks(Pending, PostedSession)' = Breaks(Tail(es), t)
  BY <1>2 DEF Debt
<1>8. /\ Cardinality(Breaks(Tail(es), t)) <= Cardinality(B \ {1})
      /\ Cardinality(Breaks(Tail(es), t)) \in Nat
  <2>1. 1 .. 1 = {1} /\ 1 \in 0 .. Len(es)
    BY <1>3
  <2>2. Cardinality(Breaks(Tail(es), t)) <= Cardinality(B \ (1 .. 1))
    BY <1>2, <1>3, <2>1, BreaksDropped
  <2>3. Cardinality(Breaks(Tail(es), t)) \in Nat
    BY <1>3, BreaksCounted
  <2> QED
    BY <2>1, <2>2, <2>3
<1>9. /\ IsFiniteSet(B) /\ Cardinality(B) \in Nat
      /\ Cardinality(B \ {1}) = IF 1 \in B THEN Cardinality(B) - 1 ELSE Cardinality(B)
  BY <1>2, BreaksCounted, FS_RemoveElement
<1>10. Cardinality(Debt) + Cardinality(B) <= throws /\ throws \in Nat
  BY DEF CostInv, TypeInv, TypeOK
<1>11. CASE After(e) = next
  <2>1. Debt' \subseteq Debt
    BY <1>4, <1>7, <1>11
  <2>2. Cardinality(Debt') <= Cardinality(Debt) /\ Cardinality(Debt') \in Nat
    BY <2>1, Countable, FS_Subset, FS_CardinalityType
  <2> QED
    BY <1>1, <1>6, <1>7, <1>8, <1>9, <1>10, <1>11, <2>2, Countable DEF CostInv
<1>12. CASE After(e) # next
  <2>1. PICK x : Owed(session', next) \subseteq {x}
    BY DEF Owed
  <2>2. Debt' \subseteq Debt \cup {x}
    BY <1>4, <1>7, <2>1
  <2>3. Cardinality(Debt') <= Cardinality(Debt) + 1 /\ Cardinality(Debt') \in Nat
    BY <2>2, Countable, OneMore
  <2> QED
    BY <1>1, <1>6, <1>7, <1>8, <1>9, <1>10, <1>12, <2>3, Countable DEF CostInv
<1> QED
  BY <1>11, <1>12

LEMMA RunCost ==
  ASSUME TypeInv, CostInv, xpc # "disabled", RunStep
  PROVE  CostInv'
<1> DEFINE e == Head(temp)
<1>0. mapPlanes \in [Peers -> Conns \cup {NoConn}]
  BY DEF TypeInv, TypeOK
<1>1. CASE RunOpen
  <2>1. RunNext("open") /\ "open" \in Ops /\ e.op = "open"
    BY <1>1 DEF RunOpen, RunNext, Ops
  <2>2. session' = e.conn /\ Required(e) = NoConn /\ After(e) = e.conn
    BY <1>1, <2>1 DEF RunOpen, Required, After
  <2>3. Strays' \subseteq Strays \cup Owed(session, NoConn)
    BY <1>1 DEF RunOpen, Strays, Planes, Owed
  <2>4. Owed(session', After(e)) = {}
    BY <2>2 DEF Owed
  <2> QED
    BY <2>1, <2>2, <2>3, <2>4, CostTaken
<1>2. ASSUME NEW op \in Ops \ {"open", "cleanup"}, RunNext(op), UNCHANGED session,
             \A p \in Peers : mapPlanes'[p] \in {NoConn, mapPlanes[p], e.conn}
      PROVE  CostInv'
  <2>1. e.op = op /\ e \in Entry
    BY <1>2 DEF RunNext, TypeInv, TypeOK
  <2>2. Required(e) = e.conn /\ After(e) = e.conn /\ e.conn # NoConn
    BY <2>1, <1>2 DEF Required, After, Entry, Conns, NoConn
  <2>3. Strays' \subseteq Strays \cup Owed(session, e.conn)
    BY <1>2, <2>2 DEF Strays, Planes, Owed
  <2> QED
    BY <1>2, <2>2, <2>3, CostTaken
<1>3. CASE RunSpawn
  <2>1. \A p \in Peers : mapPlanes'[p] \in {NoConn, mapPlanes[p], e.conn}
    BY <1>0, <1>3 DEF RunSpawn, Erase, Emplace
  <2> QED
    BY <1>2, <1>3, <2>1 DEF RunSpawn, Ops, PeerOps
<1>4. CASE RunDespawn
  <2>1. \A p \in Peers : mapPlanes'[p] \in {NoConn, mapPlanes[p], e.conn}
    BY <1>0, <1>4 DEF RunDespawn, Erase
  <2> QED
    BY <1>2, <1>4, <2>1 DEF RunDespawn, Ops, PeerOps
<1>5. CASE RunUpdate
  BY <1>2, <1>5 DEF RunUpdate, simVars, Ops
<1>6. CASE RunModels
  BY <1>2, <1>6 DEF RunModels, simVars, Ops
<1>7. CASE RunCleanup
  <2>1. RunNext("cleanup") /\ "cleanup" \in Ops /\ e.op = "cleanup"
    BY <1>7 DEF RunCleanup, RunNext, Ops
  <2>2. Strays' = {}
    BY <1>7 DEF RunCleanup, ClearPlanes, Strays, Planes
  <2>3. Owed(session', After(e)) = {}
    BY <1>7, <2>1 DEF RunCleanup, After, Owed
  <2> QED
    BY <2>1, <2>2, <2>3, CostTaken
<1> QED
  BY <1>1, <1>3, <1>4, <1>5, <1>6, <1>7 DEF RunStep

\* A refused spawn drops the rest of the batch, and the breaks in it.
LEMMA RefusedCost ==
  ASSUME TypeInv, CostInv, SpawnRefused
  PROVE  CostInv'
<1> DEFINE es == Pending
           q == m_queuedCallbacks
           t == PostedSession
<1>1. /\ throws' = throws + 1 /\ temp' = <<>> /\ xpc = "invoke"
      /\ UNCHANGED <<m_queuedCallbacks, wpc, sock, mapPlanes, session>>
  BY DEF SpawnRefused, Quiet, sharedVars, workerVars, simVars
<1>2. temp \in Seq(Entry) /\ q \in Seq(Entry)
  BY DEF TypeInv, TypeOK
<1>3. /\ es \in Seq(Entry) /\ Pending' = q /\ t' = t
      /\ Len(temp) \in 0 .. Len(es) /\ Len(q) = Len(es) - Len(temp)
      /\ \A i \in 1 .. Len(q) : q[i] = es[i + Len(temp)]
  <2>1. <<>> \o q = q
    BY <1>2
  <2> QED
    BY <1>1, <1>2, <2>1 DEF Pending, PostedSession
<1>4. Cardinality(Breaks(q, t)) <= Cardinality(Breaks(es, t))
  <2>1. Cardinality(Breaks(q, t)) <= Cardinality(Breaks(es, t) \ (1 .. Len(temp)))
    BY <1>2, <1>3, BreaksDropped
  <2>2. /\ Cardinality(Breaks(es, t) \ (1 .. Len(temp))) <= Cardinality(Breaks(es, t))
        /\ IsFiniteSet(Breaks(es, t) \ (1 .. Len(temp)))
    BY <1>3, BreaksCounted, FS_Subset
  <2> QED
    BY <1>2, <1>3, <2>1, <2>2, BreaksCounted, FS_CardinalityType
<1>5. Cardinality(Debt') <= Cardinality(Debt) + 1 /\ Cardinality(Debt') \in Nat
  <2>1. PICK x : Owed(session', Following(Pending', t', 0)) \subseteq {x}
    BY DEF Owed
  <2>2. Debt' \subseteq Debt \cup {x}
    BY <1>1, <2>1 DEF Debt, Strays, Planes
  <2> QED
    BY <2>2, Countable, OneMore
<1>6. Cardinality(Debt) + Cardinality(Breaks(es, t)) <= throws /\ throws \in Nat
  BY <1>1 DEF CostInv, TypeInv, TypeOK
<1>7. Cardinality(Breaks(es, t)) \in Nat /\ Cardinality(Breaks(q, t)) \in Nat
  BY <1>2, <1>3, BreaksCounted
<1> QED
  BY <1>1, <1>3, <1>4, <1>5, <1>6, <1>7, Countable DEF CostInv

\* A session cut short ends the list with a break, or the next one to come will
\* not find what it needs.
LEMMA ThrowCost ==
  ASSUME TypeInv, CostInv, xpc # "disabled", Throw
  PROVE  CostInv'
<1> DEFINE es == Pending
           t == PostedSession
<1>1. /\ throws' = throws + 1
      /\ UNCHANGED <<temp, m_queuedCallbacks, mapPlanes, session>>
  BY DEF Throw, Worker, sharedVars, simVars
<1>2. es' = es /\ Strays' = Strays /\ es \in Seq(Entry) /\ Len(es) \in Nat
  BY <1>1, PendingTyped DEF Pending, Strays, Planes, TypeInv
<1>3. Cardinality(Debt) + Cardinality(Breaks(es, t)) <= throws /\ throws \in Nat
  BY DEF CostInv, TypeInv, TypeOK
<1>4. /\ Cardinality(Breaks(es, t)) \in Nat /\ IsFiniteSet(Breaks(es, t))
      /\ Cardinality(Breaks(es, t')) \in Nat
  BY <1>2, BreaksCounted
<1>5. CASE es = <<>>
  <2>1. Breaks(es, t) = {} /\ Breaks(es, t') = {}
    BY <1>5 DEF Breaks
  <2>2. PICK x : Owed(session', Following(es', t', 0)) \subseteq {x}
    BY DEF Owed
  <2>3. Debt' \subseteq Debt \cup {x}
    BY <1>2, <2>2 DEF Debt
  <2>4. Cardinality(Debt') <= Cardinality(Debt) + 1 /\ Cardinality(Debt') \in Nat
    BY <2>3, Countable, OneMore
  <2> QED
    BY <1>1, <1>2, <1>3, <1>4, <2>1, <2>4, Countable DEF CostInv
<1>6. CASE es # <<>>
  <2>1. \A i \in 0 .. Len(es) - 1 : Following(es, t', i) = Following(es, t, i)
    BY <1>2 DEF Following
  <2>2. Breaks(es, t') \subseteq Breaks(es, t) \cup {Len(es)}
    BY <1>2, <2>1 DEF Breaks
  <2>3. Cardinality(Breaks(es, t')) <= Cardinality(Breaks(es, t)) + 1
    BY <1>4, <2>2, OneMore
  <2>4. Debt' = Debt
    <3>1. 0 \in 0 .. Len(es) - 1
      BY <1>2, <1>6
    <3> QED
      BY <1>1, <1>2, <2>1, <3>1 DEF Debt
  <2> QED
    BY <1>1, <1>2, <1>3, <1>4, <2>3, <2>4, Countable DEF CostInv
<1> QED
  BY <1>5, <1>6

LEMMA NextCost ==
  ASSUME TypeInv, CostInv, [Next]_vars
  PROVE  CostInv'
<1> USE DEF SimStep, appVars, workerVars, sharedVars, simVars, sendVars
<1> SUFFICES ASSUME xpc' # "disabled" PROVE CostInv'
  BY DEF CostInv
<1>1. ASSUME UNCHANGED <<temp, m_queuedCallbacks, wpc, sock, mapPlanes, session, throws>>,
             xpc # "disabled"
      PROVE  CostInv'
  <2>1. UNCHANGED <<Pending, PostedSession>>
    BY <1>1 DEF Pending, PostedSession
  <2> QED
    BY <1>1, <2>1, CostUntouched
<1>2. CASE UNCHANGED vars
  BY <1>1, <1>2 DEF vars
<1>3. CASE Next
  <2>1. xpc # "disabled" /\ ~ShutdownJoined
    BY <1>3, Irrevocable
  <2>2. CASE AppStep \/ Terminated
    BY <1>1, <2>1, <2>2 DEF AppStep, AppConnect, AppLeave, Terminated, vars
  <2>3. CASE SwapQueue
    <3>1. temp = <<>>
      BY <2>3 DEF SwapQueue, TypeInv, BatchDone
    <3>2. Pending' = Pending
      BY <2>3, <3>1, PendingSwapped DEF SwapQueue, TypeInv
    <3>3. UNCHANGED <<PostedSession, mapPlanes, session, throws>>
      BY <2>3 DEF SwapQueue, PostedSession
    <3> QED
      BY <2>1, <3>2, <3>3, CostUntouched
  <2>4. CASE Initialize
    <3>1. /\ UNCHANGED <<temp, m_queuedCallbacks, mapPlanes, session, throws>>
          /\ wpc = "none" /\ wpc' = "init"
      BY <2>4 DEF Initialize, TypeInv, StartedOnce
    <3>2. UNCHANGED <<Pending, PostedSession>>
      BY <3>1 DEF Pending, PostedSession
    <3> QED
      BY <2>1, <3>1, <3>2, CostUntouched
  <2>5. CASE DisableDeleteAll
    <3>1. UNCHANGED <<temp, m_queuedCallbacks, wpc, sock, session, throws>>
      BY <2>5 DEF DisableDeleteAll
    <3>2. UNCHANGED <<Pending, PostedSession>>
      BY <3>1 DEF Pending, PostedSession
    <3>3. Debt' \subseteq Debt
      BY <2>5, <3>1, <3>2 DEF DisableDeleteAll, ClearPlanes, Debt, Strays, Planes
    <3>4. /\ Cardinality(Debt') <= Cardinality(Debt) /\ Cardinality(Debt') \in Nat
          /\ Cardinality(Breaks(Pending, PostedSession)) \in Nat
      BY <3>3, Countable, FS_Subset, FS_CardinalityType, PendingTyped, BreaksCounted
         DEF TypeInv
    <3> QED
      BY <2>1, <3>1, <3>2, <3>4, Countable DEF CostInv, TypeInv, TypeOK
  <2>6. CASE \/ Maintenance \/ SendStep \/ FrameReports \/ CallbackReturns
             \/ ShutdownStop \/ ShutdownTest \/ ShutdownClose
    BY <1>1, <2>1, <2>6 DEF Maintenance, SendStep, SendTest, SendDelivered, SendFailed,
       Finish, SendCrashed, FrameReports, CallbackReturns, ShutdownStop, ShutdownTest,
       ShutdownClose
  <2> QED
    BY <1>3, <2>1, <2>2, <2>3, <2>4, <2>5, <2>6, WorkerCost, ThrowCost, RefusedCost,
       RunCost DEF Next, SimProgress, ShutdownStep
<1> QED
  BY <1>2, <1>3

(* Each exception, on either thread, leaves at most one client's aircraft    *)
(* behind: there are never more strays than there have been exceptions.      *)
THEOREM ExceptionsCostOneEach == Spec => []OneSessionPerException
<1>1. Init => CostInv
  <2> SUFFICES ASSUME Init PROVE CostInv
    OBVIOUS
  <2>1. /\ Pending = <<>> /\ session = NoConn /\ PostedSession = NoConn
        /\ Planes = {} /\ throws = 0
    BY DEF Init, Pending, PostedSession, Planes
  <2>2. Debt = {} /\ Breaks(Pending, PostedSession) = {}
    BY <2>1 DEF Debt, Strays, Owed, Following, Breaks
  <2>3. Cardinality(Debt) = 0 /\ Cardinality(Breaks(Pending, PostedSession)) = 0
    BY <2>2, FS_EmptySet
  <2> QED
    BY <2>1, <2>3 DEF CostInv
<1>2. TypeInv /\ CostInv /\ CleanInv => OneSessionPerException
  <2> SUFFICES ASSUME TypeInv, CostInv, CleanInv PROVE Cardinality(Strays) <= throws
    BY DEF OneSessionPerException, Strays
  <2>1. throws \in Nat
    BY DEF TypeInv, TypeOK
  <2>2. CASE xpc = "disabled"
    <3>1. Strays = {}
      BY <2>2 DEF CleanInv, Strays
    <3> QED
      BY <2>1, <3>1, FS_EmptySet
  <2>3. CASE xpc # "disabled"
    <3>1. Cardinality(Breaks(Pending, PostedSession)) \in Nat
      BY PendingTyped, BreaksCounted DEF TypeInv
    <3> QED
      BY <2>1, <2>3, <3>1, Countable DEF CostInv
  <2> QED
    BY <2>2, <2>3
<1>3. Init => CleanInv
  BY DEF Init, CleanInv
<1> QED
  BY <1>1, <1>2, <1>3, InitTypeInv, NextTypeInv, NextClean, NextCost, PTL DEF Spec

-----------------------------------------------------------------------------
(* XPluginDisable does not hang in join().  A read is the only place where   *)
(* the socket thread can wait for somebody else, and the socket it reads     *)
(* from is the one that Shutdown found and closed.                           *)

JoinNotBlocked == xpc = "join" /\ wpc = "recv" => closed

\* How many steps the socket thread has still to take, at most, once it has been
\* told to stop and its socket is closed.
StepsLeft ==
  [none |-> 0, done |-> 0, loop |-> 1, init |-> 2, release |-> 2,
   queueCleanup |-> 3, retire |-> 4, poll |-> 5, recv |-> 5, queueOpen |-> 6,
   publish |-> 7, accept |-> 8]

\* While X-Plane waits in join(), every step of the socket thread brings it
\* nearer to its end, and nothing it reads keeps it going.
JoinCountsDown ==
  [][xpc = "join" /\ wpc' # wpc => StepsLeft[wpc'] < StepsLeft[wpc]]_vars

JoinInv ==
  /\ wpc \in {"queueOpen", "poll", "recv"} => m_socket = sock
  /\ xpc \in {"stopping", "closing", "join"} => ~m_keepSocketAlive
  /\ xpc = "closing" /\ wpc = "recv" => target = sock
  /\ JoinNotBlocked

LEMMA NextJoin ==
  ASSUME TypeInv, JoinInv, [Next]_vars
  PROVE  JoinInv'
<1> USE DEF JoinInv, JoinNotBlocked, SimStep, Worker, appVars, workerVars, sharedVars,
            simVars, sendVars
<1>1. CASE UNCHANGED vars \/ AppStep \/ Terminated
  BY <1>1 DEF vars, AppStep, AppConnect, AppLeave, Terminated
<1>2. CASE WorkerStep \/ Throw
  <2>1. CASE OpenAcceptor \/ TestLoop \/ Accept \/ AcceptRetry \/ Publish
    BY <2>1 DEF OpenAcceptor, TestLoop, Accept, AcceptRetry, Publish
  <2>2. CASE QueueOpen \/ TestPoll \/ Receive
    BY <2>2 DEF QueueOpen, TestPoll, Receive
  <2>3. CASE ReceiveFailed \/ ReceiveGarbled \/ Retire \/ QueueCleanup \/ Release
    BY <2>3 DEF ReceiveFailed, ReceiveGarbled, Retire, QueueCleanup, Release
  <2>4. CASE Throw
    BY <2>4 DEF Throw
  <2> QED
    BY <1>2, <2>1, <2>2, <2>3, <2>4 DEF WorkerStep, WorkerProgress
<1>3. CASE SpawnRefused \/ RunStep
  <2>1. xpc' \in {"invoke", "idle", "crashed"} /\ UNCHANGED <<wpc, m_socket, sock>>
    BY <1>3 DEF SpawnRefused, RunStep, RunOpen, RunSpawn, RunDespawn, RunUpdate,
       RunModels, RunCleanup, RunNext, Quiet
  <2> QED
    BY <2>1
<1>4. CASE SendStep
  <2>1. /\ xpc \in {"invoke", "report", "maintain", "clearing"}
        /\ xpc' \in {xpc, "crashed"} /\ UNCHANGED <<wpc, m_socket, sock>>
    BY <1>4 DEF SendStep, SendTest, SendDelivered, SendFailed, SendCrashed, Finish,
       Sending
  <2> QED
    BY <2>1
<1>5. CASE \/ Initialize \/ SwapQueue \/ Maintenance \/ FrameReports
           \/ CallbackReturns \/ DisableDeleteAll
  BY <1>5 DEF Initialize, SwapQueue, Maintenance, FrameReports, CallbackReturns, Quiet,
     DisableDeleteAll
<1>6. CASE ShutdownStop \/ ShutdownJoined
  BY <1>6 DEF ShutdownStop, ShutdownJoined, Quiet
<1>7. CASE ShutdownTest
  BY <1>7 DEF ShutdownTest, TypeInv, SockHeld
<1>8. CASE ShutdownClose
  <2>1. ASSUME wpc = "recv"
        PROVE  Dereferenced = {sock} /\ ~Destroyed(sock) /\ sock # NoConn
    BY <1>8, <2>1 DEF ShutdownClose, Dereferenced, Destroyed, TypeInv, SockHeld
  <2> QED
    BY <1>8, <2>1 DEF ShutdownClose
<1> QED
  BY <1>1, <1>2, <1>3, <1>4, <1>5, <1>6, <1>7, <1>8 DEF Next, SimProgress, ShutdownStep

(* Without exceptions m_socket is the socket being served, or null; between  *)
(* test and close the socket thread is where Shutdown found it, or beyond.   *)
MeetInv ==
  throws = 0 =>
    /\ m_socket # NoConn =>
         m_socket = sock /\ wpc \in {"queueOpen", "poll", "recv", "retire"}
    /\ xpc = "closing" =>
         \/ m_socket = target /\ target # NoConn
         \/ m_socket = NoConn /\ wpc \in {"queueCleanup", "release", "loop", "done"}

LEMMA NextMeet ==
  ASSUME TypeInv, JoinInv, MeetInv, [Next]_vars
  PROVE  MeetInv'
<1> USE DEF MeetInv, SimStep, Worker, appVars, workerVars, sharedVars, simVars, sendVars
<1>1. CASE UNCHANGED vars \/ AppStep \/ Terminated
  BY <1>1 DEF vars, AppStep, AppConnect, AppLeave, Terminated
<1>2. CASE WorkerStep \/ Throw
  <2> USE DEF JoinInv, TypeInv, SockHeld
  <2>1. CASE OpenAcceptor \/ TestLoop \/ Accept \/ AcceptRetry \/ Publish
    BY <2>1 DEF OpenAcceptor, TestLoop, Accept, AcceptRetry, Publish
  <2>2. CASE QueueOpen \/ TestPoll \/ Receive
    BY <2>2 DEF QueueOpen, TestPoll, Receive
  <2>3. CASE ReceiveFailed \/ ReceiveGarbled \/ Retire \/ QueueCleanup \/ Release
    BY <2>3 DEF ReceiveFailed, ReceiveGarbled, Retire, QueueCleanup, Release
  <2>4. CASE Throw
    BY <2>4 DEF Throw, TypeOK
  <2> QED
    BY <1>2, <2>1, <2>2, <2>3, <2>4 DEF WorkerStep, WorkerProgress
<1>3. CASE SpawnRefused \/ RunStep
  <2>1. /\ xpc' \in {"invoke", "idle", "crashed"} /\ UNCHANGED <<wpc, m_socket, sock>>
        /\ throws' = 0 => throws = 0
    BY <1>3 DEF SpawnRefused, RunStep, RunOpen, RunSpawn, RunDespawn, RunUpdate,
       RunModels, RunCleanup, RunNext, Quiet, TypeInv, TypeOK
  <2> QED
    BY <2>1
<1>4. CASE SendStep
  <2>1. /\ xpc \in {"invoke", "report", "maintain", "clearing"}
        /\ xpc' \in {xpc, "crashed"} /\ UNCHANGED <<wpc, m_socket, sock, throws>>
    BY <1>4 DEF SendStep, SendTest, SendDelivered, SendFailed, SendCrashed, Finish,
       Sending
  <2> QED
    BY <2>1
<1>5. CASE \/ Initialize \/ SwapQueue \/ Maintenance \/ FrameReports
           \/ CallbackReturns \/ DisableDeleteAll
  BY <1>5 DEF Initialize, SwapQueue, Maintenance, FrameReports, CallbackReturns, Quiet,
     DisableDeleteAll, TypeInv, StartedOnce
<1>6. CASE ShutdownStep
  BY <1>6 DEF ShutdownStep, ShutdownStop, ShutdownTest, ShutdownClose, ShutdownJoined, Quiet
<1> QED
  BY <1>1, <1>2, <1>3, <1>4, <1>5, <1>6 DEF Next, SimProgress

LEMMA JoinStep ==
  ASSUME TypeInv, JoinInv, [Next]_vars, xpc = "join", wpc' # wpc
  PROVE  StepsLeft[wpc'] < StepsLeft[wpc]
<1> USE DEF Worker, SimStep, appVars, workerVars, sharedVars, simVars, sendVars, StepsLeft
<1>1. ~m_keepSocketAlive /\ (wpc = "recv" => closed)
  BY DEF JoinInv, JoinNotBlocked
<1>2. CASE UNCHANGED vars \/ ~(WorkerStep \/ Throw)
  <2>1. xpc # "deferred" /\ wpc' # wpc
    OBVIOUS
  <2> QED
    BY <1>2, <2>1 DEF Next, vars, AppStep, AppConnect, AppLeave, Terminated, SpawnRefused,
       Quiet, Initialize, SwapQueue, Maintenance, DisableDeleteAll, SimProgress,
       SendStep, SendTest, SendDelivered, SendFailed, SendCrashed, Finish, RunStep,
       RunOpen, RunSpawn, RunDespawn, RunUpdate, RunModels, RunCleanup, RunNext,
       FrameReports, CallbackReturns, ShutdownStep, ShutdownStop, ShutdownTest,
       ShutdownClose, ShutdownJoined
<1>3. CASE Throw
  BY <1>3 DEF Throw
<1>4. CASE OpenAcceptor \/ TestLoop \/ Accept \/ AcceptRetry \/ Publish \/ QueueOpen
  BY <1>1, <1>4 DEF OpenAcceptor, TestLoop, Accept, AcceptRetry, Publish, QueueOpen
<1>5. CASE \/ TestPoll \/ Receive \/ ReceiveFailed \/ ReceiveGarbled \/ Retire
           \/ QueueCleanup \/ Release
  BY <1>1, <1>5 DEF TestPoll, Receive, ReceiveFailed, ReceiveGarbled, Retire,
     QueueCleanup, Release
<1> QED
  BY <1>2, <1>3, <1>4, <1>5 DEF WorkerStep, WorkerProgress

(* While XPluginDisable waits in join(), the socket thread is never blocked  *)
(* in a read that nobody ends: Shutdown has closed the very socket it reads  *)
(* from, whatever the interleaving of its test and close with accept and     *)
(* retire.                                                                   *)
THEOREM DisableNotBlocked == Spec => []JoinNotBlocked
<1>1. Init => JoinInv
  BY DEF Init, JoinInv, JoinNotBlocked
<1>2. JoinInv => JoinNotBlocked
  BY DEF JoinInv
<1> QED
  BY <1>1, <1>2, InitTypeInv, NextTypeInv, NextJoin, PTL DEF Spec

(* The socket Shutdown closes is the one it has tested, or retired by now;   *)
(* and if the socket thread is in a read, it reads from that one.            *)
THEOREM ShutdownMeets == Spec => []ShutdownMeetsItsClient
<1>1. Init => JoinInv /\ MeetInv
  BY DEF Init, JoinInv, JoinNotBlocked, MeetInv
<1>2. JoinInv /\ MeetInv => ShutdownMeetsItsClient
  BY DEF JoinInv, MeetInv, ShutdownMeetsItsClient
<1> QED
  BY <1>1, <1>2, InitTypeInv, NextTypeInv, NextJoin, NextMeet, PTL DEF Spec

(* And it is at most eight of its steps from its end, a client that is       *)
(* accepted meanwhile included: it is published, but never read from.        *)
THEOREM DisableCountsDown == Spec => JoinCountsDown
<1>1. Init => JoinInv
  BY DEF Init, JoinInv, JoinNotBlocked
<1>2. TypeInv /\ JoinInv /\ [Next]_vars
        => [xpc = "join" /\ wpc' # wpc => StepsLeft[wpc'] < StepsLeft[wpc]]_vars
  BY JoinStep
<1> QED
  BY <1>1, <1>2, InitTypeInv, NextTypeInv, NextJoin, PTL DEF Spec, JoinCountsDown

=============================================================================
