------------------------------ MODULE LogQueue ------------------------------
(***************************************************************************)
(* Logging from two threads (src/src/utilities.cpp).                       *)
(*                                                                         *)
(* X-Plane's Log.txt may only be written on X-Plane's thread.  LogMsg      *)
(* formats a message in one static buffer; on X-Plane's thread PushMsg     *)
(* writes it at once, after whatever waits; on any other thread it appends *)
(* it to a queue behind a mutex and clears an atomic flag, by which        *)
(* FlushMsgs, called every frame, learns without the mutex that there is   *)
(* something to write.  The static buffer is not protected by anything.    *)
(***************************************************************************)
EXTENDS Integers, Sequences, SequencesExt

CONSTANTS
  XP,        \* X-Plane's thread
  Workers,   \* the other threads that log: the plugin has one, the socket thread
  Nobody,    \* not a thread
  MaxMsgs    \* bound: calls of LogMsg by each thread

Threads == Workers \cup {XP}

ASSUME ThreadsAssumption == XP \notin Workers /\ Nobody \notin Threads
ASSUME MaxMsgsAssumption == MaxMsgs \in Nat /\ MaxMsgs >= 2

VARIABLES
  aszMsg,       \* the static buffer of LogGetString
  qMsgs, fMsgsEmpty,
  mtxMsgs,      \* the thread that holds the mutex, or Nobody
  xpThread,     \* Global::xpThread
  Log,          \* Log.txt, line by line
  pc,           \* where each thread is
  sMsg,         \* the argument of PushMsg in each thread, <<>> outside it
  phase,        \* how far X-Plane is in the life of the plugin
  \* history
  calls,        \* how many times each thread has called LogMsg
  ahead,        \* what was queued when X-Plane's thread last called LogMsg
  raced         \* two threads have been in LogGetString at once

shared == <<qMsgs, fMsgsEmpty, mtxMsgs, Log>>
vars == <<aszMsg, shared, xpThread, pc, sMsg, phase, calls, ahead, raced>>

\* A message is named by the thread that logs it and its number there.  The
\* text of a line is the parts it was put together from.
Msgs    == [by : Threads, n : 1 .. MaxMsgs]
Prefix  == [by |-> Nobody, n |-> 0]
Newline == [by |-> Nobody, n |-> 1]
Text    == Seq(Msgs \cup {Prefix, Newline})
Line    == [id : Msgs, text : Text]

PushPCs  == {"idle", "body", "newline", "copy", "lock", "push", "clear"}
FlushPCs == {"test", "flushLock", "drain", "own"}
Phases   == {"loaded", "running", "joining", "disabled"}

Current(t) == [by |-> t, n |-> calls[t]]

TypeOK ==
  /\ aszMsg \in Text
  /\ qMsgs \in Seq(Line) /\ Log \in Seq(Line)
  /\ fMsgsEmpty \in BOOLEAN
  /\ mtxMsgs \in Threads \cup {Nobody}
  /\ xpThread \in {XP, Nobody}
  /\ pc \in [Threads -> PushPCs \cup FlushPCs \cup {"none", "done"}]
  /\ pc[XP] \notin {"none", "done"}
  /\ \A w \in Workers : pc[w] \notin FlushPCs
  /\ sMsg \in [Threads -> Text]
  /\ phase \in Phases
  /\ calls \in [Threads -> 0 .. MaxMsgs]
  /\ ahead \subseteq Msgs
  /\ raced \in BOOLEAN

\* Before C++20 a default-constructed atomic_flag may be set or clear.
Init ==
  /\ aszMsg = <<>>
  /\ qMsgs = <<>> /\ fMsgsEmpty \in BOOLEAN /\ mtxMsgs = Nobody /\ Log = <<>>
  /\ xpThread = Nobody
  /\ pc = [t \in Threads |-> IF t = XP THEN "idle" ELSE "none"]
  /\ sMsg = [t \in Threads |-> <<>>]
  /\ phase = "loaded"
  /\ calls = [t \in Threads |-> 0] /\ ahead = {} /\ raced = FALSE

-----------------------------------------------------------------------------
(* LogGetString and the copy PushMsg takes of its result. *)

Goto(t, from, to) == pc[t] = from /\ pc' = [pc EXCEPT ![t] = to]

Formatting(t) == pc[t] \in {"body", "newline", "copy"}

\* The messages queued, but for one whose PushMsg has not returned.
Queued    == {qMsgs[i].id : i \in 1 .. Len(qMsgs)}
Unsettled == {Current(t) : t \in {u \in Threads : pc[u] = "clear"}}
Waiting   == Queued \ Unsettled

\* Fault: the prefix goes after what the buffer holds.
LogPrefixAppended(t) ==
  /\ Goto(t, "idle", "body")
  /\ aszMsg' = Append(aszMsg, Prefix)
  /\ calls' = [calls EXCEPT ![t] = @ + 1]
  /\ ahead' = IF t = XP THEN Waiting ELSE ahead
  /\ raced' = (raced \/ \E u \in Threads \ {t} : Formatting(u))
  /\ UNCHANGED <<shared, xpThread, sMsg>>

\* LogMsg is called: the buffer is started afresh.
LogPrefix(t) ==
  /\ Goto(t, "idle", "body")
  /\ aszMsg' = <<Prefix>>
  /\ calls' = [calls EXCEPT ![t] = @ + 1]
  /\ ahead' = IF t = XP THEN Waiting ELSE ahead
  /\ raced' = (raced \/ \E u \in Threads \ {t} : Formatting(u))
  /\ UNCHANGED <<shared, xpThread, sMsg>>

LogBody(t) ==
  /\ Goto(t, "body", "newline")
  /\ aszMsg' = Append(aszMsg, Current(t))
  /\ UNCHANGED <<shared, xpThread, sMsg, phase, calls, ahead, raced>>

LogNewline(t) ==
  /\ Goto(t, "newline", "copy")
  /\ aszMsg' = IF Last(aszMsg) = Newline THEN aszMsg ELSE Append(aszMsg, Newline)
  /\ UNCHANGED <<shared, xpThread, sMsg, phase, calls, ahead, raced>>

\* Fault: any thread passes for X-Plane's once that is marked.
IsXPThreadMarked(t) == xpThread # Nobody

IsXPThread(t) == t = xpThread

\* Fault: X-Plane's thread writes its message without flushing the queue.
PushMsgUnflushed(t) ==
  /\ Goto(t, "copy", IF IsXPThread(t) THEN "own" ELSE "lock")
  /\ sMsg' = [sMsg EXCEPT ![t] = aszMsg]
  /\ UNCHANGED <<aszMsg, shared, xpThread, phase, calls, ahead, raced>>

PushMsg(t) ==
  /\ Goto(t, "copy", IF IsXPThread(t) THEN "test" ELSE "lock")
  /\ sMsg' = [sMsg EXCEPT ![t] = aszMsg]
  /\ UNCHANGED <<aszMsg, shared, xpThread, phase, calls, ahead, raced>>

-----------------------------------------------------------------------------
(* PushMsg on a thread that is not X-Plane's. *)

Lock(t) == mtxMsgs = Nobody /\ mtxMsgs' = t

LockToPush(t) ==
  /\ Goto(t, "lock", "push")
  /\ Lock(t)
  /\ UNCHANGED <<aszMsg, qMsgs, fMsgsEmpty, Log, xpThread, sMsg, phase, calls, ahead, raced>>

\* Fault: the queue is a stack.
PushOnTop(t) ==
  /\ Goto(t, "push", "clear")
  /\ qMsgs' = <<[id |-> Current(t), text |-> sMsg[t]]>> \o qMsgs
  /\ UNCHANGED <<aszMsg, fMsgsEmpty, mtxMsgs, Log, xpThread, sMsg, phase, calls, ahead, raced>>

Push(t) ==
  /\ Goto(t, "push", "clear")
  /\ qMsgs' = Append(qMsgs, [id |-> Current(t), text |-> sMsg[t]])
  /\ UNCHANGED <<aszMsg, fMsgsEmpty, mtxMsgs, Log, xpThread, sMsg, phase, calls, ahead, raced>>

\* Fault: the flag is not cleared.
ClearFlagForgotten(t) ==
  /\ Goto(t, "clear", "idle")
  /\ mtxMsgs' = Nobody
  /\ sMsg' = [sMsg EXCEPT ![t] = <<>>]
  /\ UNCHANGED <<aszMsg, fMsgsEmpty, qMsgs, Log, xpThread, phase, calls, ahead, raced>>

\* The flag is cleared, and the lock_guard releases the mutex.
ClearFlag(t) ==
  /\ Goto(t, "clear", "idle")
  /\ fMsgsEmpty' = FALSE
  /\ mtxMsgs' = Nobody
  /\ sMsg' = [sMsg EXCEPT ![t] = <<>>]
  /\ UNCHANGED <<aszMsg, qMsgs, Log, xpThread, phase, calls, ahead, raced>>

-----------------------------------------------------------------------------
(* FlushMsgs, from PushMsg on X-Plane's thread and from MainFlightLoop. *)

\* Where X-Plane's thread goes on after FlushMsgs.
Flushed == IF sMsg[XP] = <<>> THEN "idle" ELSE "own"

\* if (!fMsgsEmpty.test_and_set())
TestFlag ==
  /\ Goto(XP, "test", IF fMsgsEmpty THEN Flushed ELSE "flushLock")
  /\ fMsgsEmpty' = TRUE
  /\ UNCHANGED <<aszMsg, qMsgs, mtxMsgs, Log, xpThread, sMsg, phase, calls, ahead, raced>>

LockToFlush ==
  /\ Goto(XP, "flushLock", "drain")
  /\ Lock(XP)
  /\ UNCHANGED <<aszMsg, qMsgs, fMsgsEmpty, Log, xpThread, sMsg, phase, calls, ahead, raced>>

\* Fault: `if` for `while`.
DrainFirstOnly ==
  /\ qMsgs # <<>>
  /\ Goto(XP, "drain", Flushed)
  /\ mtxMsgs' = Nobody
  /\ Log' = Append(Log, Head(qMsgs)) /\ qMsgs' = Tail(qMsgs)
  /\ UNCHANGED <<aszMsg, fMsgsEmpty, xpThread, sMsg, phase, calls, ahead, raced>>

Drain ==
  /\ pc[XP] = "drain" /\ qMsgs # <<>>
  /\ Log' = Append(Log, Head(qMsgs)) /\ qMsgs' = Tail(qMsgs)
  /\ UNCHANGED <<aszMsg, fMsgsEmpty, mtxMsgs, xpThread, pc, sMsg, phase, calls, ahead, raced>>

Drained ==
  /\ qMsgs = <<>>
  /\ Goto(XP, "drain", Flushed)
  /\ mtxMsgs' = Nobody
  /\ UNCHANGED <<aszMsg, qMsgs, fMsgsEmpty, Log, xpThread, sMsg, phase, calls, ahead, raced>>

WriteOwn ==
  /\ Goto(XP, "own", "idle")
  /\ Log' = Append(Log, [id |-> Current(XP), text |-> sMsg[XP]])
  /\ sMsg' = [sMsg EXCEPT ![XP] = <<>>]
  /\ UNCHANGED <<aszMsg, qMsgs, fMsgsEmpty, mtxMsgs, xpThread, phase, calls, ahead, raced>>

-----------------------------------------------------------------------------
(* Who logs when. *)

\* XPluginStart logs its first message before MarkXPlaneThread.
MarkXPlaneThread ==
  /\ pc[XP] = "idle" /\ xpThread = Nobody /\ calls[XP] = 1
  /\ xpThread' = XP
  /\ UNCHANGED <<aszMsg, shared, pc, sMsg, phase, calls, ahead, raced>>

\* The last call is kept for Joined.
XPLogs ==
  /\ phase # "joining"
  /\ calls[XP] < IF xpThread = Nobody THEN 1 ELSE MaxMsgs - 1
  /\ LogPrefix(XP)
  /\ UNCHANGED phase

WorkerLogs(w) ==
  /\ calls[w] < MaxMsgs
  /\ LogPrefix(w)
  /\ UNCHANGED phase

\* Initialize starts the socket thread.
Initialize ==
  /\ phase = "loaded" /\ xpThread = XP /\ pc[XP] = "idle"
  /\ phase' = "running"
  /\ pc' = [t \in Threads |-> "idle"]
  /\ UNCHANGED <<aszMsg, shared, xpThread, sMsg, calls, ahead, raced>>

\* The first thing MainFlightLoop does.
FrameFlush ==
  /\ phase = "running" /\ Goto(XP, "idle", "test")
  /\ UNCHANGED <<aszMsg, shared, xpThread, sMsg, phase, calls, ahead, raced>>

WorkerEnds(w) ==
  /\ Goto(w, "idle", "done")
  /\ UNCHANGED <<aszMsg, shared, xpThread, sMsg, phase, calls, ahead, raced>>

Disable ==
  /\ phase = "running" /\ pc[XP] = "idle"
  /\ phase' = "joining"
  /\ UNCHANGED <<aszMsg, shared, xpThread, pc, sMsg, calls, ahead, raced>>

\* Fault: Shutdown does not wait for the thread.
JoinedEarly ==
  /\ phase = "joining"
  /\ phase' = "disabled"
  /\ LogPrefix(XP)

\* LOG_MSG("joined socket thread")
Joined ==
  /\ phase = "joining" /\ \A w \in Workers : pc[w] = "done"
  /\ phase' = "disabled"
  /\ LogPrefix(XP)

Format(t) == LogBody(t) \/ LogNewline(t) \/ PushMsg(t)

Queue(t) == LockToPush(t) \/ Push(t) \/ ClearFlag(t)

Flush == TestFlag \/ LockToFlush \/ Drain \/ Drained \/ WriteOwn

Terminated == phase = "disabled" /\ pc[XP] = "idle" /\ UNCHANGED vars

Next ==
  \/ \E t \in Threads : Format(t) \/ Queue(t)
  \/ Flush
  \/ MarkXPlaneThread \/ XPLogs \/ Initialize \/ FrameFlush \/ Disable \/ Joined
  \/ \E w \in Workers : WorkerLogs(w) \/ WorkerEnds(w)
  \/ Terminated

Spec == Init /\ [][Next]_vars

(* A call of LogMsg or FlushMsgs that has begun goes on, and each thread     *)
(* that waits for the mutex gets it in turn.  X-Plane calls MainFlightLoop   *)
(* every frame; once it waits in join(), the socket thread ends (this is     *)
(* DisableCompletes of Connection).                                          *)
Fairness ==
  /\ \A t \in Threads : WF_vars(Format(t)) /\ SF_vars(Queue(t))
  /\ SF_vars(Flush)
  /\ WF_vars(MarkXPlaneThread) /\ WF_vars(Initialize) /\ WF_vars(FrameFlush)
  /\ \A w \in Workers : WF_vars(phase = "joining" /\ WorkerEnds(w))
  /\ WF_vars(Joined)

FairSpec == Spec /\ Fairness
-----------------------------------------------------------------------------
(* A message in the queue is never overlooked: when the flag says there is   *)
(* nothing to flush, nothing waits, unless FlushMsgs is on its way to the    *)
(* queue already.  The message a thread has pushed and not yet announced is  *)
(* not waiting: its own ClearFlag follows.                                   *)
NothingStranded ==
  fMsgsEmpty /\ pc[XP] \notin {"flushLock", "drain"} => Waiting = {}

(* X-Plane's thread writes its own message only after the messages that were *)
(* waiting when it called LogMsg ("but only after waiting msgs").            *)
WaitingFirst == pc[XP] = "own" => ahead \cap Waiting = {}

\* The lines written and the lines queued.
All == Log \o qMsgs

(* A line is the one message it is for, unless two threads have formatted    *)
(* messages at the same time.                                                *)
IntactUnlessRaced ==
  ~raced => \A i \in 1 .. Len(All) :
              All[i].text = <<Prefix, All[i].id, Newline>>

(* Nothing is left in the queue when the plugin has been disabled: what the  *)
(* socket thread logged last is written, although no frame follows.          *)
WrittenWhenDisabled ==
  phase = "disabled" /\ pc[XP] = "idle" => qMsgs = <<>>

(* Whatever a thread logs reaches Log.txt, not only at the end.              *)
QueuedGetsWritten ==
  \A m \in Msgs :
    (\E i \in 1 .. Len(qMsgs) : qMsgs[i].id = m)
      ~> (\E i \in 1 .. Len(Log) : Log[i].id = m)

-----------------------------------------------------------------------------
(* LogMsg as one step. *)

\* The threads whose call of LogMsg has not taken effect.
Open == {t \in Threads :
           \/ pc[t] \in {"body", "newline", "copy", "lock", "push", "clear"}
           \/ pc[t] \in {"test", "flushLock", "drain"} /\ sMsg[t] # <<>>}

Ids(lines) == [i \in 1 .. Len(lines) |-> lines[i].id]

\* The queue without a line whose PushMsg still holds the mutex.
Announced == IF \E t \in Threads : pc[t] = "clear" THEN Front(qMsgs) ELSE qMsgs

\* What FlushMsgs has left X-Plane's thread to write itself.
Own == IF pc[XP] = "own" THEN <<Current(XP)>> ELSE <<>>

\* A message takes effect when its thread lets go of the mutex, or on X-Plane's
\* thread when FlushMsgs finds nothing more.
Order == Ids(Log) \o Own \o Ids(Announced)

(* Whatever the threads do, LogMsg is atomic: each call takes effect once,   *)
(* at a moment between its beginning and its return, and Log.txt grows in    *)
(* that order.  So no message is lost, doubled or overtaken by one that was  *)
(* logged after LogMsg had returned from it, by whichever thread.            *)
Atomic == INSTANCE LogContract WITH open <- Open, order <- Order, written <- Len(Log)
ImplementsLog == Atomic!Spec

(* What LogGetString is meant to ensure: every line ends in a newline.       *)
TrailingNewline ==
  \A i \in 1 .. Len(Log) : Last(Log[i].text) = Newline

=============================================================================
