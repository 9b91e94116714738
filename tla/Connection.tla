----------------------------- MODULE Connection -----------------------------
(***************************************************************************)
(* The session between the UniFly app and the plugin (src/src/unifly.cpp). *)
(*                                                                         *)
(* Two threads share one UniFly object.  The socket thread (SocketWorker)  *)
(* accepts one client at a time, publishes its socket in m_socket, queues  *)
(* a callback for everything the client asks for and retires the socket    *)
(* when the stream ends.  X-Plane's thread runs the queued callbacks once  *)
(* per frame, owns the aircraft map and the menu, and writes every message *)
(* to whatever m_socket holds at that moment.  m_queuedCallbacks is behind *)
(* a mutex and m_keepSocketAlive is atomic; m_socket is a plain shared_ptr *)
(* that both threads read and write without synchronisation.               *)
(*                                                                         *)
(* The model covers one UniFly object, from XPluginEnable to the end of    *)
(* XPluginDisable.  A client is a number: the n-th to connect is n.        *)
(***************************************************************************)
EXTENDS Integers, Sequences, FiniteSets, SequencesExt

CONSTANTS
  Peers,      \* ids of remote pilots the app may spawn
  NoPeer,     \* stands in for the peer of an entry or message without one
  MaxConns,   \* bound: how many times an app connects
  MaxCmds,    \* bound: commands received from all clients together
  MaxThrows   \* bound: exceptions, of either thread

ASSUME PeersAssumption  == IsFiniteSet(Peers) /\ NoPeer \notin Peers
ASSUME BoundsAssumption == /\ MaxConns \in Nat
                           /\ MaxCmds \in Nat
                           /\ MaxThrows \in Nat

Conns  == 1 .. MaxConns
NoConn == 0                 \* a null shared_ptr, or nobody

VARIABLES
  \* the clients and the kernel
  connects,           \* clients that have connected so far
  accepts,            \* clients accepted so far; the rest wait in the backlog
  left,               \* clients that closed their end
  garbled,            \* clients that sent a frame recv_message rejects
  \* the socket thread
  wpc,                \* where the socket thread is in SocketWorker
  sock,               \* its local shared_ptr `socket`
  \* shared by both threads
  m_socket, m_keepSocketAlive, m_queuedCallbacks,
  \* X-Plane's thread
  xpc,                \* which callback X-Plane is in, and where
  temp,               \* the deque swapped out by InvokeQueuedCallbacks
  outbox,             \* messages the running callback has still to send
  target,             \* the socket the test in send_msg or Shutdown found
  mapPlanes,          \* peer -> the client it was spawned for (NoConn: absent)
  menu,               \* the argument of the last EnableMenuItems
  \* history
  session,            \* the client whose Open callback ran last, until cleanup
  opened,             \* the last client whose Open callback ran
  view,               \* client -> peers it has been told are in the simulator
  cmds, throws,       \* how much of the bounds is used up
  closed,             \* Shutdown closed the published socket
  ub                  \* where m_socket was used null or destroyed, if it was

workerVars == <<wpc, sock>>
sharedVars == <<m_socket, m_keepSocketAlive, m_queuedCallbacks>>
appVars    == <<connects, accepts, left, garbled, cmds, throws>>
simVars    == <<mapPlanes, menu, session, opened>>
sendVars   == <<outbox, target, view, ub, closed>>
vars == <<appVars, workerVars, sharedVars, xpc, temp, simVars, sendVars>>

-----------------------------------------------------------------------------
(* What is queued and what is sent.  The client an entry was queued for and *)
(* the client a message is about are history: neither is on the wire.       *)

PeerOps == {"spawn", "despawn"}
Ops     == PeerOps \cup {"open", "update", "models", "cleanup"}
Entry   == [op : PeerOps, conn : Conns, peer : Peers]
             \cup [op : Ops \ PeerOps, conn : Conns, peer : {NoPeer}]

PeerKinds == {"spawned", "despawned", "elevation"}
Kinds     == PeerKinds \cup {"open", "models", "report"}
Message   == [kind : PeerKinds, peer : Peers, from : Conns]
               \cup [kind : Kinds \ PeerKinds, peer : {NoPeer},
                     from : Conns \cup {NoConn}]

Call(op, c, p) == [op |-> op, conn |-> c, peer |-> p]
Msg(k, p, c)   == [kind |-> k, peer |-> p, from |-> c]

WorkerPCs == {"none", "init", "loop", "accept", "publish", "queueOpen", "poll",
              "recv", "retire", "queueCleanup", "release", "done"}
SimPCs    == {"deferred", "idle", "invoke", "report", "maintain", "clearing",
              "stopping", "closing", "join", "disabled", "crashed"}

\* Everything posted and not yet started, oldest first.
Pending == temp \o m_queuedCallbacks

\* Peers that have an aircraft in the simulator.
Planes == {p \in Peers : mapPlanes[p] # NoConn}

TypeOK ==
  /\ connects \in 0 .. MaxConns
  /\ accepts \in 0 .. connects
  /\ left \subseteq Conns /\ garbled \subseteq Conns
  /\ wpc \in WorkerPCs
  /\ sock \in Conns \cup {NoConn}
  /\ m_socket \in Conns \cup {NoConn}
  /\ m_keepSocketAlive \in BOOLEAN
  /\ m_queuedCallbacks \in Seq(Entry)
  /\ xpc \in SimPCs
  /\ temp \in Seq(Entry)
  /\ outbox \in Seq(Message)
  /\ target \in Conns \cup {NoConn}
  /\ mapPlanes \in [Peers -> Conns \cup {NoConn}]
  /\ menu \in BOOLEAN
  /\ session \in Conns \cup {NoConn}
  /\ opened \in 0 .. MaxConns
  /\ view \in [Conns -> SUBSET Peers]
  /\ cmds \in 0 .. MaxCmds
  /\ throws \in 0 .. MaxThrows
  /\ closed \in BOOLEAN
  /\ ub \in {"none", "send", "close"}

Init ==
  /\ connects = 0 /\ accepts = 0 /\ left = {} /\ garbled = {}
  /\ wpc = "none" /\ sock = NoConn
  /\ m_socket = NoConn /\ m_keepSocketAlive = FALSE
  /\ m_queuedCallbacks = <<>>
  /\ xpc = "deferred" /\ temp = <<>> /\ outbox = <<>> /\ target = NoConn
  /\ mapPlanes = [p \in Peers |-> NoConn]
  /\ menu = FALSE
  /\ session = NoConn /\ opened = 0 /\ view = [c \in Conns |-> {}]
  /\ cmds = 0 /\ throws = 0 /\ closed = FALSE /\ ub = "none"

-----------------------------------------------------------------------------
(* The app: it may connect while the acceptor listens, and go at any time. *)

Listening == wpc \notin {"none", "init", "done"}

AppConnect ==
  /\ xpc # "crashed" /\ Listening
  /\ connects < MaxConns
  /\ connects' = connects + 1
  /\ UNCHANGED <<accepts, left, garbled, cmds, throws>>
  /\ UNCHANGED <<workerVars, sharedVars, xpc, temp, simVars, sendVars>>

AppLeave(c) ==
  /\ xpc \notin {"crashed", "disabled"}
  /\ c <= connects /\ c \notin left
  /\ left' = left \cup {c}
  /\ UNCHANGED <<connects, accepts, garbled, cmds, throws>>
  /\ UNCHANGED <<workerVars, sharedVars, xpc, temp, simVars, sendVars>>

-----------------------------------------------------------------------------
(* The socket thread. *)

\* Fault: push_front for push_back.
QueueCallbackAtFront(e) == m_queuedCallbacks' = <<e>> \o m_queuedCallbacks

QueueCallback(e) == m_queuedCallbacks' = Append(m_queuedCallbacks, e)

\* A step of the socket thread from one line to the next.
Worker(from, to) ==
  /\ xpc # "crashed"
  /\ wpc = from
  /\ wpc' = to
  /\ UNCHANGED <<xpc, temp, simVars, sendVars>>

\* The acceptor is opened, bound and put to listen, or its constructor throws.
OpenAcceptor ==
  /\ \/ Worker("init", "loop")
     \/ Worker("init", "done")
  /\ UNCHANGED <<sock, sharedVars, appVars>>

\* while (m_keepSocketAlive.load())
TestLoop ==
  /\ \/ m_keepSocketAlive /\ Worker("loop", "accept")
     \/ ~m_keepSocketAlive /\ Worker("loop", "done")
  /\ UNCHANGED <<sock, sharedVars, appVars>>

\* Fault: would_block is taken for a connection.
AcceptNobody ==
  /\ Worker("accept", "publish")
  /\ accepts' = accepts + 1
  /\ sock' = accepts + 1
  /\ UNCHANGED <<sharedVars, connects, left, garbled, cmds, throws>>

\* accept() takes the oldest waiting client.
Accept ==
  /\ accepts < connects
  /\ Worker("accept", "publish")
  /\ accepts' = accepts + 1
  /\ sock' = accepts + 1
  /\ UNCHANGED <<sharedVars, connects, left, garbled, cmds, throws>>

\* Fault: an accept without a client ends the thread.
AcceptOnce ==
  /\ Worker("accept", "done")
  /\ UNCHANGED <<sock, sharedVars, appVars>>

\* accept() reports would_block (nobody waits) or another error: try again.
AcceptRetry ==
  /\ Worker("accept", "loop")
  /\ UNCHANGED <<sock, sharedVars, appVars>>

\* m_socket = socket
Publish ==
  /\ Worker("publish", "queueOpen")
  /\ m_socket' = sock
  /\ UNCHANGED <<sock, m_keepSocketAlive, m_queuedCallbacks, appVars>>

QueueOpen ==
  /\ Worker("queueOpen", "poll")
  /\ QueueCallback(Call("open", sock, NoPeer))
  /\ UNCHANGED <<sock, m_socket, m_keepSocketAlive, appVars>>

\* The inner while (m_keepSocketAlive.load())
TestPoll ==
  /\ \/ m_keepSocketAlive /\ Worker("poll", "recv")
     \/ ~m_keepSocketAlive /\ Worker("poll", "retire")
  /\ UNCHANGED <<sock, sharedVars, appVars>>

\* ProcessPacket: the callback a command is turned into, if any (KIND_NOT_SET).
ProcessPacket(c) ==
  \/ \E op \in PeerOps, p \in Peers : QueueCallback(Call(op, c, p))
  \/ \E op \in {"update", "models"} : QueueCallback(Call(op, c, NoPeer))
  \/ UNCHANGED m_queuedCallbacks

\* recv_message delivers a command.  The client may be gone by now: what it
\* sent before it left is still read.  Nothing is read from a closed socket.
Receive ==
  /\ Worker("recv", "poll")
  /\ cmds < MaxCmds /\ ~closed
  /\ cmds' = cmds + 1
  /\ ProcessPacket(sock)
  /\ UNCHANGED <<sock, m_socket, m_keepSocketAlive,
                 connects, accepts, left, garbled, throws>>

\* Fault: the end of the stream is not told from an empty message.
ReceiveFailedIgnored ==
  /\ Worker("recv", "poll")
  /\ sock \in left \/ closed
  /\ UNCHANGED <<sock, sharedVars, appVars>>

\* recv_message fails: end of stream, or the socket was closed by Shutdown.
ReceiveFailed ==
  /\ Worker("recv", "retire")
  /\ sock \in left \/ closed
  /\ UNCHANGED <<sock, sharedVars, appVars>>

\* recv_message rejects a frame: its length is out of bounds or its body does
\* not parse.
ReceiveGarbled ==
  /\ Worker("recv", "retire")
  /\ ~closed
  /\ garbled' = garbled \cup {sock}
  /\ UNCHANGED <<sock, sharedVars, connects, accepts, left, cmds, throws>>

\* m_socket = nullptr.  The local `socket` still holds the object.
Retire ==
  /\ Worker("retire", "queueCleanup")
  /\ m_socket' = NoConn
  /\ UNCHANGED <<sock, m_keepSocketAlive, m_queuedCallbacks, appVars>>

\* Fault: the aircraft of a client that disconnects are left to the next one.
QueueCleanupSkipped ==
  /\ Worker("queueCleanup", "release")
  /\ UNCHANGED <<sock, sharedVars, appVars>>

QueueCleanup ==
  /\ Worker("queueCleanup", "release")
  /\ QueueCallback(Call("cleanup", sock, NoPeer))
  /\ UNCHANGED <<sock, m_socket, m_keepSocketAlive, appVars>>

\* The iteration ends and `socket` goes out of scope.
Release ==
  /\ Worker("release", "loop")
  /\ sock' = NoConn
  /\ UNCHANGED <<sharedVars, appVars>>

\* An exception on the socket thread.  Inside the session the inner catch ends
\* it without retiring m_socket or queueing the cleanup; outside, the outer
\* catch ends the thread, and an accepted client is dropped.
Throw ==
  /\ throws < MaxThrows
  /\ throws' = throws + 1
  /\ \/ /\ \E pc \in {"queueOpen", "recv", "queueCleanup"} : Worker(pc, "release")
        /\ UNCHANGED sock
     \/ /\ \E pc \in {"loop", "publish"} : Worker(pc, "done")
        /\ sock' = NoConn
  /\ UNCHANGED <<sharedVars, connects, accepts, left, garbled, cmds>>

\* What the socket thread does by itself, and what it waits for a client to do.
WorkerProgress ==
  \/ OpenAcceptor \/ TestLoop \/ Accept \/ AcceptRetry \/ Publish \/ QueueOpen
  \/ TestPoll \/ ReceiveFailed \/ Retire \/ QueueCleanup \/ Release

WorkerStep == WorkerProgress \/ Receive \/ ReceiveGarbled

-----------------------------------------------------------------------------
(* X-Plane's thread: sending.  A callback that sends fills outbox, and      *)
(* send_msg is called for one message after the other before it goes on.    *)

Sending == xpc \in {"invoke", "report", "maintain", "clearing"} /\ outbox # <<>>

\* The socket object c is gone: nobody holds it, or its io_context is.
Destroyed(c) == \/ wpc = "done"
                \/ sock # c /\ m_socket # c

\* Fault: having no socket counts as a failed send.
SendTestStops ==
  /\ Sending /\ target = NoConn
  /\ IF m_socket = NoConn
     THEN outbox' = Tail(outbox) /\ m_keepSocketAlive' = FALSE /\ UNCHANGED target
     ELSE target' = m_socket /\ UNCHANGED <<outbox, m_keepSocketAlive>>
  /\ UNCHANGED <<m_socket, m_queuedCallbacks, appVars, workerVars, xpc, temp>>
  /\ UNCHANGED <<simVars, view, ub, closed>>

\* if (m_socket): a message to nobody is dropped.
SendTest ==
  /\ Sending /\ target = NoConn
  /\ IF m_socket = NoConn
     THEN outbox' = Tail(outbox) /\ UNCHANGED target
     ELSE target' = m_socket /\ UNCHANGED outbox
  /\ UNCHANGED <<appVars, workerVars, sharedVars, xpc, temp, simVars>>
  /\ UNCHANGED <<view, ub, closed>>

\* The socket send_message is given: *m_socket is read again, and the compiler
\* may as well keep the pointer the test read.
Dereferenced == {target, m_socket}

Finish(delivered) ==
  /\ outbox' = Tail(outbox) /\ target' = NoConn
  /\ view' = delivered
  /\ UNCHANGED <<appVars, workerVars, m_socket, m_queuedCallbacks>>
  /\ UNCHANGED <<xpc, temp, simVars, closed>>

\* What client c knows once it has read message m.
Told(c, m) ==
  IF m.kind = "spawned" THEN [view EXCEPT ![c] = @ \cup {m.peer}]
  ELSE IF m.kind = "despawned" THEN [view EXCEPT ![c] = @ \ {m.peer}]
  ELSE view

SendDelivered ==
  /\ Sending /\ target # NoConn
  /\ \E c \in Dereferenced \ {NoConn} :
       /\ ~Destroyed(c)
       /\ Finish(Told(c, Head(outbox)))
  /\ UNCHANGED <<m_keepSocketAlive, ub>>

\* Fault: a failed write is only logged.
SendFailedIgnored ==
  /\ Sending /\ target # NoConn
  /\ \E c \in Dereferenced \ {NoConn} :
       \/ c \in left /\ ~Destroyed(c) /\ UNCHANGED ub
       \/ Destroyed(c) /\ ub' = "send"
  /\ UNCHANGED m_keepSocketAlive
  /\ Finish(view)

\* The write fails, or the object was already destroyed and the write fails
\* on what is left of it.
SendFailed ==
  /\ Sending /\ target # NoConn
  /\ \E c \in Dereferenced \ {NoConn} :
       \/ c \in left /\ ~Destroyed(c) /\ UNCHANGED ub
       \/ Destroyed(c) /\ ub' = "send"
  /\ m_keepSocketAlive' = FALSE
  /\ Finish(view)

\* A null pointer is dereferenced, or a destroyed object brings the process down.
SendCrashed ==
  /\ Sending /\ target # NoConn
  /\ \E c \in Dereferenced :
       \/ c = NoConn /\ ub' = "send"
       \/ c # NoConn /\ Destroyed(c) /\ ub' = "send"
  /\ xpc' = "crashed"
  /\ UNCHANGED <<appVars, workerVars, sharedVars, temp, simVars>>
  /\ UNCHANGED <<outbox, target, view, closed>>

-----------------------------------------------------------------------------
(* X-Plane's thread: the callbacks. *)

\* The callback X-Plane is in has sent everything it had to send.
Quiet(pc) == xpc = pc /\ outbox = <<>>

\* A step of X-Plane's thread that leaves the socket thread's state alone.
SimStep == UNCHANGED <<appVars, workerVars, target, view, ub, closed>>

\* DeferredStartup: XPMP2 is set up and the socket thread started.
Initialize ==
  /\ xpc = "deferred" /\ xpc' = "idle"
  /\ m_keepSocketAlive' = TRUE
  /\ wpc' = "init"
  /\ UNCHANGED <<appVars, sock, m_socket, m_queuedCallbacks, temp, simVars, sendVars>>

\* Fault: the queue is copied and not emptied.
SwapQueueCopied ==
  /\ xpc = "idle" /\ xpc' = "invoke"
  /\ temp' = m_queuedCallbacks
  /\ SimStep /\ UNCHANGED <<sharedVars, outbox, simVars>>

\* A frame begins: InvokeQueuedCallbacks swaps the queue out under the lock.
SwapQueue ==
  /\ xpc = "idle" /\ xpc' = "invoke"
  /\ temp' = m_queuedCallbacks
  /\ m_queuedCallbacks' = <<>>
  /\ SimStep /\ UNCHANGED <<m_socket, m_keepSocketAlive, outbox, simVars>>

\* The next callback of the batch, an op, is taken and run.
RunNext(op) ==
  /\ Quiet("invoke") /\ temp # <<>>
  /\ Head(temp).op = op
  /\ temp' = Tail(temp)
  /\ SimStep /\ UNCHANGED <<sharedVars, xpc>>

RunOpen ==
  /\ RunNext("open")
  /\ LET c == Head(temp).conn IN
       /\ session' = c /\ opened' = c
       /\ outbox' = <<Msg("open", NoPeer, c)>>
  /\ menu' = TRUE
  /\ UNCHANGED mapPlanes

\* The aircraft of peer p is destroyed, and XPMP2's notifier says so.
Erase(p) ==
  /\ mapPlanes' = [mapPlanes EXCEPT ![p] = NoConn]
  /\ outbox' = <<Msg("despawned", p, mapPlanes[p])>>

Emplace(p, c) ==
  /\ mapPlanes' = [mapPlanes EXCEPT ![p] = c]
  /\ outbox' = <<Msg("spawned", p, c)>>

\* HandleSpawn: a peer that already has an aircraft loses it.
RunSpawn ==
  /\ RunNext("spawn")
  /\ LET e == Head(temp) IN
       IF e.peer \in Planes THEN Erase(e.peer) ELSE Emplace(e.peer, e.conn)
  /\ UNCHANGED <<menu, session, opened>>

\* XPMP2 refuses the identifier: the exception leaves HandleSpawn before the
\* map is touched, and with it the rest of the batch and of MainFlightLoop.
\* X-Plane may or may not survive it.
SpawnRefused ==
  /\ throws < MaxThrows
  /\ Quiet("invoke") /\ temp # <<>>
  /\ Head(temp).op = "spawn" /\ Head(temp).peer \notin Planes
  /\ throws' = throws + 1
  /\ temp' = <<>> /\ xpc' \in {"idle", "crashed"}
  /\ UNCHANGED <<connects, accepts, left, garbled, cmds, workerVars, sharedVars>>
  /\ UNCHANGED <<simVars, sendVars>>

\* HandleDespawn
RunDespawn ==
  /\ RunNext("despawn")
  /\ LET p == Head(temp).peer IN
       IF p \in Planes THEN Erase(p) ELSE UNCHANGED <<mapPlanes, outbox>>
  /\ UNCHANGED <<menu, session, opened>>

\* HandleReportPosition, HandleReportContext, teleport and settings: nothing is
\* sent and no aircraft comes or goes.
RunUpdate ==
  /\ RunNext("update")
  /\ UNCHANGED <<outbox, simVars>>

\* LoadModels answers with the models installed.
RunModels ==
  /\ RunNext("models")
  /\ outbox' = <<Msg("models", NoPeer, Head(temp).conn)>>
  /\ UNCHANGED simVars

\* DespawnAll: every aircraft is destroyed, in the order the map clears them.
ClearPlanes ==
  /\ mapPlanes' = [p \in Peers |-> NoConn]
  /\ \E order \in SetToSeqs(Planes) :
       outbox' = [i \in 1 .. Len(order) |->
                    Msg("despawned", order[i], mapPlanes[order[i]])]

\* Fault: the cleanup only disables the menu.
RunCleanupMenuOnly ==
  /\ RunNext("cleanup")
  /\ menu' = FALSE
  /\ session' = NoConn
  /\ UNCHANGED <<mapPlanes, opened, outbox>>

RunCleanup ==
  /\ RunNext("cleanup")
  /\ ClearPlanes
  /\ menu' = FALSE
  /\ session' = NoConn
  /\ UNCHANGED opened

\* The rest of MainFlightLoop: EventFrame, LocalReadFrequent and, every 90
\* frames, LocalReadInfrequent.
FrameReports ==
  /\ Quiet("invoke") /\ temp = <<>>
  /\ xpc' = "report"
  /\ LET report == Msg("report", NoPeer, NoConn) IN
       outbox' \in {<<report, report>>, <<report, report, report>>}
  /\ SimStep /\ UNCHANGED <<sharedVars, temp, simVars>>

\* AircraftMaintenanceCallback on one of the frames it reports elevations.
Maintenance ==
  /\ xpc = "idle" /\ xpc' = "maintain"
  /\ \E order \in SetToSeqs(Planes) :
       outbox' = [i \in 1 .. Len(order) |->
                    Msg("elevation", order[i], mapPlanes[order[i]])]
  /\ SimStep /\ UNCHANGED <<sharedVars, temp, simVars>>

CallbackReturns ==
  /\ Quiet("report") \/ Quiet("maintain")
  /\ xpc' = "idle"
  /\ SimStep /\ UNCHANGED <<sharedVars, temp, outbox, simVars>>

-----------------------------------------------------------------------------
(* X-Plane's thread: XPluginDisable. *)

DisableDeleteAll ==
  /\ xpc \in {"deferred", "idle"} /\ xpc' = "clearing"
  /\ ClearPlanes
  /\ SimStep /\ UNCHANGED <<sharedVars, temp, menu, session, opened>>

\* Fault: the socket thread is not told to stop.
ShutdownStopForgotten ==
  /\ Quiet("clearing") /\ xpc' = "stopping"
  /\ SimStep /\ UNCHANGED <<sharedVars, temp, outbox, simVars>>

\* Shutdown: m_keepSocketAlive.store(false)
ShutdownStop ==
  /\ Quiet("clearing") /\ xpc' = "stopping"
  /\ m_keepSocketAlive' = FALSE
  /\ SimStep /\ UNCHANGED <<m_socket, m_queuedCallbacks, temp, outbox, simVars>>

\* Fault: the client's socket is not shut down before the join.
ShutdownTestSkipped ==
  /\ xpc = "stopping" /\ xpc' = "join"
  /\ target' = NoConn
  /\ UNCHANGED <<appVars, workerVars, sharedVars, temp, simVars>>
  /\ UNCHANGED <<outbox, view, ub, closed>>

\* if (m_socket)
ShutdownTest ==
  /\ xpc = "stopping"
  /\ xpc' = IF m_socket = NoConn THEN "join" ELSE "closing"
  /\ target' = m_socket
  /\ UNCHANGED <<appVars, workerVars, sharedVars, temp, simVars>>
  /\ UNCHANGED <<outbox, view, ub, closed>>

\* m_socket->shutdown(...), m_socket->close(...)
ShutdownClose ==
  /\ xpc = "closing"
  /\ \E c \in Dereferenced :
       \/ c # NoConn /\ ~Destroyed(c)
            /\ xpc' = "join" /\ closed' = TRUE /\ UNCHANGED ub
       \/ c # NoConn /\ Destroyed(c)
            /\ xpc' \in {"join", "crashed"} /\ ub' = "close" /\ UNCHANGED closed
       \/ c = NoConn
            /\ xpc' = "crashed" /\ ub' = "close" /\ UNCHANGED closed
  /\ target' = NoConn
  /\ UNCHANGED <<appVars, workerVars, sharedVars, temp, simVars, outbox, view>>

\* Fault: the thread is detached and not joined.
ShutdownDetached ==
  /\ xpc = "join" /\ xpc' = "disabled"
  /\ m_socket' = NoConn /\ m_queuedCallbacks' = <<>>
  /\ SimStep /\ UNCHANGED <<m_keepSocketAlive, temp, outbox, simVars>>

\* m_socketThread->join() returns, and environment.reset() destroys the rest:
\* callbacks still queued are never run.
ShutdownJoined ==
  /\ xpc = "join" /\ xpc' = "disabled"
  /\ wpc \in {"none", "done"}
  /\ m_socket' = NoConn /\ m_queuedCallbacks' = <<>>
  /\ SimStep /\ UNCHANGED <<m_keepSocketAlive, temp, outbox, simVars>>

SendStep == SendTest \/ SendDelivered \/ SendFailed \/ SendCrashed

RunStep ==
  RunOpen \/ RunSpawn \/ RunDespawn \/ RunUpdate \/ RunModels \/ RunCleanup

ShutdownStep == ShutdownStop \/ ShutdownTest \/ ShutdownClose \/ ShutdownJoined

SimProgress ==
  SendStep \/ RunStep \/ FrameReports \/ CallbackReturns \/ ShutdownStep

AppStep == AppConnect \/ \E c \in Conns : AppLeave(c)

\* The end: the plugin is disabled, or the process is gone.
Terminated == xpc \in {"disabled", "crashed"} /\ UNCHANGED vars

Next ==
  \/ AppStep \/ WorkerStep \/ Throw \/ SpawnRefused
  \/ Initialize \/ SwapQueue \/ Maintenance \/ DisableDeleteAll \/ SimProgress
  \/ Terminated

Spec == Init /\ [][Next]_vars

\* asio::write has no time limit: while a client that has not gone may be the one
\* it writes to, that client decides when it returns, and whether it does.
HeldByClient ==
  /\ Sending /\ target # NoConn
  /\ \E c \in Dereferenced \ {NoConn} : c \notin left

(* Both threads keep running.  X-Plane calls MainFlightLoop and the          *)
(* maintenance callback every frame (both return -1), so neither is starved  *)
(* by the other, and an accept() that is tried again and again while a       *)
(* client waits does not fail for ever.  Nothing is assumed of the clients:  *)
(* one that stays connected need not read, and then the write need not end.  *)
Fairness ==
  /\ WF_vars(WorkerProgress) /\ SF_vars(Accept)
  /\ WF_vars(~HeldByClient /\ SimProgress)
  /\ WF_vars(Initialize) /\ SF_vars(SwapQueue)

FairSpec == Spec /\ Fairness
-----------------------------------------------------------------------------
(* Safety. *)

(* Whose session an entry of the queue must find open when it runs, and      *)
(* whose session it leaves open.                                             *)
Required(e) == IF e.op = "open" THEN NoConn ELSE e.conn

After(e) == IF e.op = "cleanup" THEN NoConn ELSE e.conn

\* Whose session the i-th of the entries es finds open, if s's is open now.
Before(s, es, i) == IF i = 1 THEN s ELSE After(es[i - 1])

\* es takes the simulator from session s to session t.
Chain(s, es, t) ==
  /\ \A i \in 1 .. Len(es) : Before(s, es, i) = Required(es[i])
  /\ t = Before(s, es, Len(es) + 1)

\* The client whose session has been opened and not ended, seen from the end of
\* the queue: the socket thread's view.
PostedSession ==
  IF wpc \in {"poll", "recv", "retire", "queueCleanup"} THEN sock ELSE NoConn

CleanupOf(e, c) == e.op = "cleanup" /\ e.conn = c

(* The callbacks waiting to run are whole sessions one after the other: an   *)
(* open follows the cleanup of the client before it, and everything else     *)
(* follows the open of its own client.  This is what the single FIFO queue,  *)
(* filled in the order SocketWorker posts, is for.                           *)
Chained == Chain(session, Pending, PostedSession)

(* Every aircraft in the simulator was spawned for the client whose session  *)
(* is open: no client inherits, or repositions, another client's aircraft.   *)
Isolated == \A p \in Planes : mapPlanes[p] = session

(* An aircraft's client is still being served, or its cleanup is queued or   *)
(* about to be: no aircraft is left that nobody will remove.                 *)
NoOrphans ==
  \A p \in Planes :
    \/ mapPlanes[p] = PostedSession
    \/ \E i \in 1 .. Len(Pending) : CleanupOf(Pending[i], mapPlanes[p])

(* The three hold as long as no exception cuts SocketWorker short (the inner *)
(* catch skips the cleanup) or a batch (the rest is dropped), up to the      *)
(* moment the UniFly object is destroyed together with its queue.            *)
SessionIsolation ==
  (throws = 0 /\ xpc # "disabled") => Chained /\ Isolated /\ NoOrphans

(* An exception costs at most one session: of the clients whose aircraft are *)
(* there although their session is not the one that is open, there are no    *)
(* more than there have been exceptions, and the next cleanup takes those    *)
(* along.  This is what remains of Isolated when the inner catch skips a     *)
(* cleanup, or a refused spawn drops a whole batch with opens and cleanups.  *)
OneSessionPerException ==
  Cardinality({mapPlanes[p] : p \in Planes} \ {session}) <= throws

(* A message about one client (its Open, the spawn and despawn notices of    *)
(* its aircraft, the answer to its LoadModels) can be written to another     *)
(* client, since send_msg writes to whatever m_socket holds; but only to one *)
(* whose own Open has not been sent yet.                                     *)
StrayOnlyBeforeOpen ==
  throws = 0 /\ Sending =>
    LET from == Head(outbox).from IN
      \A c \in {target, m_socket} \ {NoConn, from} :
        from # NoConn => session # c

(* Between callbacks a client whose session is open knows exactly which      *)
(* aircraft are in the simulator, unless a write has failed: the notices     *)
(* that reached it, stray ones included, add up to mapPlanes.                *)
ClientViewAgrees ==
  (/\ throws = 0 /\ m_keepSocketAlive /\ outbox = <<>>
   /\ session # NoConn /\ session = m_socket)
     => view[session] = Planes

(* While every client stays connected and well behaved the unsynchronised    *)
(* m_socket is never caught between the test in send_msg and its use, and    *)
(* the listener keeps running until X-Plane disables the plugin.             *)
SteadyWhileConnected ==
  left = {} /\ garbled = {} /\ throws = 0 =>
    /\ ub # "send"
    /\ xpc \in {"idle", "invoke", "report", "maintain"} => m_keepSocketAlive

(* A disabled plugin leaves nothing behind in the simulator: no aircraft,    *)
(* and no socket thread that could still post a callback to the UniFly       *)
(* object that is gone.                                                      *)
DisabledIsClean ==
  xpc = "disabled" => Planes = {} /\ wpc \in {"none", "done"}

(* Between Shutdown's test of m_socket and its close the socket thread can   *)
(* do one thing to it, retire it: the close never meets the next client's    *)
(* socket, and a thread that is in a read, where nothing else would end its  *)
(* wait, reads from the socket that is closed.  It is the store before the   *)
(* test that keeps the thread from going on to another client in between.    *)
(* (After an exception the socket tested may be one the inner catch left in  *)
(* m_socket, and the next client's may take its place.)                      *)
ShutdownMeetsItsClient ==
  xpc = "closing" =>
    /\ throws = 0 => m_socket \in {target, NoConn}
    /\ wpc = "recv" => sock = target /\ m_socket = target

(* Sessions are opened in the order the clients connected and at most once   *)
(* each, also when exceptions end some of them early.                        *)
OpensInOrder == [][opened' > opened]_opened

(* Seen from the simulator, the two threads keep the promise SessionContract *)
(* states: isolation until an exception strikes, the order for ever.         *)
Contract == INSTANCE SessionContract
              WITH Clients <- Conns, Nobody <- NoConn, broken <- throws > 0,
                   turn <- session, latest <- opened, aircraft <- mapPlanes

ImplementsContract == Contract!Spec

-----------------------------------------------------------------------------
(* Liveness. *)

(* XPluginDisable returns: Shutdown never waits in join() for a socket       *)
(* thread that is blocked in accept or in a read.  Only a client that stays  *)
(* connected and never reads can keep it, in a write of the despawn notices  *)
(* that come before Shutdown.                                                *)
DisableCompletes ==
  xpc = "clearing" ~> (xpc \in {"disabled", "crashed"} \/ []HeldByClient)

(* The aircraft of a client that has gone are removed for good, although     *)
(* nobody asks for it: the socket thread notices the end of the stream, and  *)
(* a later frame runs the cleanup, also when a failed write has ended the    *)
(* listener meanwhile.  A client that stays and never reads prevents it: the *)
(* next one, if X-Plane's thread is writing to it already.                   *)
DepartedCleared ==
  \A c \in Conns :
    c \in left
      ~> \/ [](xpc = "crashed" \/ \A p \in Planes : mapPlanes[p] # c)
         \/ []HeldByClient

(* A client that waits is accepted once those before it have gone, unless    *)
(* the listener has been told to stop (or could not listen at all).          *)
WaitingAccepted ==
  \A c \in Conns :
    (connects >= c /\ 1 .. (c - 1) \subseteq left)
      ~> (accepts >= c \/ ~m_keepSocketAlive \/ xpc = "crashed")

(* What send_msg's own guard, `if (m_socket)`, is there for: the socket it   *)
(* writes to exists.                                                         *)
SendsOnLiveSocket == ub # "send"
=============================================================================
