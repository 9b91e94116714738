-------------------------------- MODULE Link --------------------------------
(***************************************************************************)
(* One session's connection: length-prefixed messages over TCP             *)
(* (socket.cpp) between the client, the socket thread, which reads and     *)
(* queues, and X-Plane's thread, which empties the queue at the beginning  *)
(* of a frame and then writes (unifly.cpp).  Connection says what the      *)
(* sessions are about; here they are bytes that need room.                 *)
(*                                                                         *)
(* A message travels as pieces, its prefix and as many as its size.  A     *)
(* stream is all the pieces a sender has begun to send; of these `written` *)
(* are in the receiver's or the sender's TCP buffer or beyond, and `read`  *)
(* have been taken by the receiver.  The client has one thread: while it   *)
(* writes it does not read.                                                *)
(***************************************************************************)
EXTENDS Integers, Sequences

CONSTANTS
  UpSizes, DownSizes,  \* what the client and the plugin may want to send
  RecvLimit,           \* the longest message recv_message takes (65535)
  SendLimit,           \* the longest message send_message takes (2^32 - 1)
  Room,                \* direction -> pieces the TCP buffers hold
  MaxUp, MaxDown       \* bounds: messages in each direction

Dirs == {"up", "down"}
Messages(d) ==
  IF d = "up" THEN [id : 1 .. MaxUp, size : UpSizes] ELSE [id : 1 .. MaxDown, size : DownSizes]

ASSUME SizesAssumption == UpSizes \subseteq Nat /\ DownSizes \subseteq Nat
ASSUME RoomAssumption == Room \in [Dirs -> Nat \ {0}]
ASSUME LimitAssumption == RecvLimit \in Nat /\ SendLimit \in Nat /\ MaxUp \in Nat /\ MaxDown \in Nat

VARIABLES
  stream,    \* direction -> the pieces begun to be sent
  written, read,  \* direction -> how many of them
  length, missing, \* direction -> message_length, and the pieces of the body not read
  left,      \* messages this frame has still to send; 0 between frames
  queued,    \* m_queuedCallbacks: how many
  alive,     \* m_keepSocketAlive
  closed,    \* the socket thread has left the session
  gone,      \* the client has
  \* history
  sent, got  \* direction -> messages handed to the sender, and to the receiver

wire == <<stream, written, read>>
ends == <<left, queued, alive, closed, gone>>
vars == <<wire, length, missing, ends, sent, got>>

Each(x) == [d \in Dirs |-> x]

Init ==
  /\ stream = Each(<<>>) /\ written = Each(0) /\ read = Each(0)
  /\ length = Each(0) /\ missing = Each(0)
  /\ left = 0 /\ queued = 0 /\ alive = TRUE /\ closed = FALSE /\ gone = FALSE
  /\ sent = Each(<<>>) /\ got = Each(<<>>)

\* A write is going on.
Writing(d) == written[d] < Len(stream[d])

\* Message number id: prefix and body in one buffer.
Framed(id, size) ==
  [k \in 1 .. size + 1 |-> [id |-> id, part |-> k - 1, size |-> size]]

Begin(d, size) ==
  LET id == Len(sent[d]) + 1 IN
  /\ stream' = [stream EXCEPT ![d] = @ \o Framed(id, size)]
  /\ sent' = [sent EXCEPT ![d] = Append(@, [id |-> id, size |-> size])]

\* asio::write goes on until the whole buffer is sent, and waits for room.
Write(d) ==
  /\ ~gone /\ Writing(d) /\ written[d] - read[d] < Room[d]
  /\ written' = [written EXCEPT ![d] = @ + 1]
  /\ UNCHANGED <<stream, read, length, missing, ends, sent, got>>

-----------------------------------------------------------------------------
(* recv_message and ProcessPacket. *)

\* The piece asio::read gets next.
Piece(d) == stream[d][read[d] + 1]
Readable(d) == read[d] < written[d]

\* Fault: the length is used as it comes.
TakesAll(d, size) == TRUE

\* recv_message refuses empty messages and those above its limit; what the client
\* takes is its own affair.
Takes(d, size) == d = "down" \/ (size # 0 /\ size <= RecvLimit)

ReadPrefix(d) ==
  /\ Readable(d) /\ missing[d] = 0 /\ Takes(d, Piece(d).size)
  /\ read' = [read EXCEPT ![d] = @ + 1]
  /\ length' = [length EXCEPT ![d] = Piece(d).size]
  /\ missing' = [missing EXCEPT ![d] = Piece(d).size]
  /\ got' = IF Piece(d).size = 0
            THEN [got EXCEPT ![d] = Append(@, [id |-> Piece(d).id, size |-> 0])] ELSE got
  /\ UNCHANGED <<stream, written, ends, sent>>

\* A piece of the body, and with the last one the message.
ReadBody(d) ==
  /\ Readable(d) /\ missing[d] > 0
  /\ read' = [read EXCEPT ![d] = @ + 1]
  /\ missing' = [missing EXCEPT ![d] = @ - 1]
  /\ got' = IF missing[d] = 1
            THEN [got EXCEPT ![d] = Append(@, [id |-> Piece(d).id, size |-> length[d]])] ELSE got
  /\ UNCHANGED <<stream, written, length, sent>>

\* Fault: a queue with a limit, which makes the socket thread wait for a frame.
QueueCallbackBounded == queued < 1 /\ queued' = queued + 1

QueueCallback == queued' = queued + 1

\* The socket thread looks at m_keepSocketAlive when it has processed a message.
ReceiveBody ==
  /\ ~closed /\ ReadBody("up")
  /\ IF missing["up"] = 1
     THEN QueueCallback /\ closed' = ~alive
     ELSE UNCHANGED <<queued, closed>>
  /\ UNCHANGED <<left, alive, gone>>

ReceivePrefix == ~closed /\ ReadPrefix("up")

\* Fault: a message that is refused does not end the session.
RefuseGoesOn ==
  /\ ~closed /\ Readable("up") /\ missing["up"] = 0 /\ ~Takes("up", Piece("up").size)
  /\ read' = [read EXCEPT !["up"] = @ + 1]
  /\ UNCHANGED <<stream, written, length, missing, ends, sent, got>>

Refuse ==
  /\ ~closed /\ Readable("up") /\ missing["up"] = 0 /\ ~Takes("up", Piece("up").size)
  /\ read' = [read EXCEPT !["up"] = @ + 1]
  /\ closed' = TRUE
  /\ UNCHANGED <<stream, written, length, missing, left, queued, alive, gone, sent, got>>

\* The message is whole but ParseFromArray does not take it.
ParseFails ==
  /\ ~closed /\ ReadBody("up") /\ missing["up"] = 1
  /\ closed' = TRUE
  /\ UNCHANGED <<left, queued, alive, gone>>

\* The client has left: reading fails, now or when what it has sent is read.
ReceiveFails ==
  /\ ~closed /\ gone
  /\ closed' = TRUE
  /\ UNCHANGED <<wire, length, missing, left, queued, alive, gone, sent, got>>

-----------------------------------------------------------------------------
(* A frame: InvokeQueuedCallbacks and the reports, send_msg and send_message. *)

\* Each callback may have an answer, and the frame has its own report.
EnterFrame ==
  /\ left = 0 /\ ~Writing("down")
  /\ left' \in 1 .. queued + 1
  /\ queued' = 0
  /\ UNCHANGED <<wire, length, missing, alive, closed, gone, sent, got>>

\* `if (m_socket)` says no, or the bytes go to a client that has gone.
SendNothing ==
  /\ left > 0 /\ ~Writing("down") /\ (closed \/ gone)
  /\ left' = left - 1
  /\ UNCHANGED <<wire, length, missing, queued, alive, closed, gone, sent, got>>

Send(size) ==
  /\ left > 0 /\ ~Writing("down") /\ ~closed /\ ~gone
  /\ size <= SendLimit /\ Len(sent["down"]) < MaxDown
  /\ left' = left - 1
  /\ Begin("down", size)
  /\ UNCHANGED <<written, read, length, missing, queued, alive, closed, gone, got>>

\* The message is too long, or the client has gone: send_msg clears
\* m_keepSocketAlive, which the socket thread sees after its next message.
SendFails(size) ==
  /\ left > 0 /\ ~Writing("down") /\ ~closed
  /\ size > SendLimit \/ gone
  /\ left' = left - 1 /\ alive' = FALSE
  /\ UNCHANGED <<wire, length, missing, queued, closed, gone, sent, got>>

\* A write ends early when the client has left.  Whether the end of the session on
\* the plugin's side ends it, too, depends on the platform.
WriteFails ==
  /\ Writing("down") /\ (gone \/ closed)
  /\ stream' = [stream EXCEPT !["down"] = SubSeq(@, 1, written["down"])]
  /\ alive' = FALSE
  /\ UNCHANGED <<written, read, length, missing, left, queued, closed, gone, sent, got>>

-----------------------------------------------------------------------------
(* The client. *)

ClientBegins(size) ==
  /\ ~gone /\ ~Writing("up") /\ Len(sent["up"]) < MaxUp
  /\ Begin("up", size)
  /\ UNCHANGED <<written, read, length, missing, ends, got>>

ClientReads ==
  /\ ~gone /\ ~Writing("up")
  /\ \/ ReadPrefix("down")
     \/ ReadBody("down") /\ UNCHANGED ends

ClientLeaves ==
  /\ ~gone /\ gone' = TRUE
  /\ UNCHANGED <<wire, length, missing, left, queued, alive, closed, sent, got>>

Next ==
  \/ \E d \in Dirs : Write(d)
  \/ ReceivePrefix \/ ReceiveBody \/ Refuse \/ ParseFails \/ ReceiveFails
  \/ EnterFrame \/ SendNothing \/ WriteFails
  \/ \E size \in DownSizes : Send(size) \/ SendFails(size)
  \/ \E size \in UpSizes : ClientBegins(size)
  \/ ClientReads \/ ClientLeaves

Spec == Init /\ [][Next]_vars

\* The threads go on when they can, and the client does not only write.
Fairness ==
  /\ \A d \in Dirs : WF_vars(Write(d))
  /\ WF_vars(ReceivePrefix \/ ReceiveBody \/ Refuse)
  /\ WF_vars(EnterFrame)
  /\ SF_vars(ClientReads)

FairSpec == Spec /\ Fairness

-----------------------------------------------------------------------------
(* Properties. *)

Pieces == [id : Nat, part : Nat, size : Nat]

\* Types.  No buffer, the one recv_message allocates included, outgrows its room.
TypeOK ==
  /\ stream \in [Dirs -> Seq(Pieces)]
  /\ written \in [Dirs -> Nat] /\ read \in [Dirs -> Nat]
  /\ \A d \in Dirs : /\ read[d] <= written[d] /\ written[d] <= Len(stream[d])
                     /\ written[d] - read[d] <= Room[d]
  /\ length \in [Dirs -> Nat] /\ missing \in [Dirs -> Nat]
  /\ \A d \in Dirs : missing[d] <= length[d]
  /\ length["up"] <= RecvLimit
  /\ left \in Nat /\ queued \in Nat
  /\ alive \in BOOLEAN /\ closed \in BOOLEAN /\ gone \in BOOLEAN
  /\ DOMAIN sent = Dirs /\ DOMAIN got = Dirs
  /\ \A d \in Dirs : sent[d] \in Seq(Messages(d)) /\ got[d] \in Seq(Messages(d))

\* In both directions the receiver finds every message it takes whole, at its place,
\* however the bytes are cut up; a message that is refused is the last one looked at.
Up == INSTANCE Channel WITH Message <- Messages("up"), sent <- sent["up"], received <- got["up"]
Down == INSTANCE Channel WITH Message <- Messages("down"), sent <- sent["down"], received <- got["down"]
ImplementsChannel == Up!Spec /\ Down!Spec

\* X-Plane is not held up for ever by a client that writes before it reads: the socket
\* thread makes room for the client's writes whether or not a frame is waiting.
FramesGoOn == Writing("down") ~> (~Writing("down") \/ closed \/ gone)
=============================================================================
