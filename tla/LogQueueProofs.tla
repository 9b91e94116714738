--------------------------- MODULE LogQueueProofs ---------------------------
(***************************************************************************)
(* Proofs that the queue behind LogMsg overlooks, loses, repeats and       *)
(* reorders nothing, for any number of threads and messages.               *)
(***************************************************************************)
EXTENDS LogQueue, TLAPS

USE ThreadsAssumption, MaxMsgsAssumption

\* Thread t is in LogMsg, and its message is neither queued nor written yet.
Inside(t) == \/ pc[t] \in {"body", "newline", "copy", "lock", "push", "own"}
             \/ pc[t] \in {"test", "flushLock", "drain"} /\ sMsg[t] # <<>>

\* How many messages of thread t have been queued or written.
Accepted(t) == IF Inside(t) THEN calls[t] - 1 ELSE calls[t]

(* Log.txt, and after it the queue, has every message of every thread once   *)
(* and in the order that thread logged them, also those X-Plane's thread     *)
(* queued before it was marked: none is lost between queue, flag and file.   *)
InOrderOnce ==
  /\ \A i, j \in 1 .. Len(All) :
       (i < j /\ All[i].id.by = All[j].id.by) => All[i].id.n < All[j].id.n
  /\ \A t \in Threads : \A n \in 1 .. Accepted(t) :
       \E i \in 1 .. Len(All) : All[i].id = [by |-> t, n |-> n]

(* X-Plane's thread queues its first message and writes the others itself,   *)
(* having been marked in between.                                            *)
MarkedInv ==
  /\ xpThread = Nobody => phase = "loaded" /\ pc[XP] \notin FlushPCs /\ calls[XP] <= 1
  /\ xpThread = XP => pc[XP] \notin {"lock", "push", "clear"}
  /\ xpThread = XP => calls[XP] >= 1
  /\ xpThread = XP /\ Inside(XP) => calls[XP] >= 2
  /\ pc[XP] = "idle" => sMsg[XP] = <<>>
  /\ pc[XP] = "own" => sMsg[XP] # <<>>

CalledInv ==
  /\ \A t \in Threads : Inside(t) \/ pc[t] = "clear" => calls[t] >= 1
  /\ phase # "disabled" => calls[XP] < MaxMsgs

\* The buffer holds something once a thread has begun to fill it.
BufferInv == \A t \in Threads : Formatting(t) => aszMsg # <<>>

\* No worker runs before Initialize.
StartedInv == phase = "loaded" => \A w \in Workers : pc[w] = "none"

TypeInv == TypeOK /\ MarkedInv /\ CalledInv /\ BufferInv /\ StartedInv

LEMMA CurrentTyped ==
  ASSUME TypeInv, NEW t \in Threads, Inside(t)
  PROVE  Current(t) \in Msgs
  BY DEF TypeInv, TypeOK, CalledInv, Current, Msgs

LEMMA WaitingTyped ==
  ASSUME qMsgs \in Seq(Line)
  PROVE  Waiting \subseteq Msgs
<1>1. \A i \in 1 .. Len(qMsgs) : qMsgs[i] \in Line
  OBVIOUS
<1>2. \A line \in Line : line.id \in Msgs
  BY DEF Line
<1> QED
  BY <1>1, <1>2 DEF Waiting, Queued

LEMMA InitTypeInv == Init => TypeInv
<1> SUFFICES ASSUME Init PROVE TypeInv
  OBVIOUS
<1>1. \A t \in Threads : pc[t] \in {"idle", "none"} /\ calls[t] = 0 /\ sMsg[t] = <<>>
  <2>1. \A t \in Threads : pc[t] \in {"idle", "none"}
    BY DEF Init
  <2>2. \A t \in Threads : calls[t] = 0
    BY DEF Init
  <2>3. \A t \in Threads : sMsg[t] = <<>>
    BY DEF Init
  <2> QED
    BY <2>1, <2>2, <2>3
<1>2. TypeOK
  <2>1. XP \in Threads
    BY DEF Threads
  <2>2. <<>> \in Text /\ <<>> \in Seq(Line)
    BY DEF Text
  <2>3. pc \in [Threads -> PushPCs \cup FlushPCs \cup {"none", "done"}] /\ pc[XP] = "idle"
    BY <2>1 DEF Init, PushPCs
  <2>4. \A w \in Workers : pc[w] \notin FlushPCs
    BY DEF Init, FlushPCs, Threads
  <2>5. calls \in [Threads -> 0 .. MaxMsgs] /\ sMsg \in [Threads -> Text]
    BY <2>2 DEF Init
  <2> QED
    BY <2>2, <2>3, <2>4, <2>5 DEF Init, TypeOK, Phases
<1>3. \A t \in Threads : ~Inside(t) /\ ~Formatting(t) /\ pc[t] # "clear"
  BY <1>1 DEF Inside, Formatting
<1>4. XP \in Threads
  BY DEF Threads
<1>5. MarkedInv
  BY <1>1, <1>3, <1>4 DEF Init, MarkedInv, FlushPCs
<1>6. CalledInv /\ BufferInv
  BY <1>1, <1>3, <1>4 DEF CalledInv, BufferInv
<1>7. StartedInv
  BY DEF Init, StartedInv, Threads
<1> QED
  BY <1>2, <1>5, <1>6, <1>7 DEF TypeInv

LEMMA NextTypeOK == TypeInv /\ [Next]_vars => TypeOK'
<1> SUFFICES ASSUME TypeInv, [Next]_vars PROVE TypeOK'
  OBVIOUS
<1> USE DEF TypeInv, TypeOK, Threads, PushPCs, FlushPCs, Phases, shared, Goto, Text
<1>1. CASE UNCHANGED vars
  BY <1>1 DEF vars
<1>2. ASSUME NEW t \in Threads, Format(t)
      PROVE  TypeOK'
  <2>1. CASE LogBody(t)
    <3>1. Current(t) \in Msgs
      BY <2>1, CurrentTyped DEF LogBody, Inside
    <3> QED
      BY SMTT(30), <2>1, <3>1 DEF LogBody
  <2>2. CASE LogNewline(t)
    BY <2>2 DEF LogNewline
  <2>3. CASE PushMsg(t)
    BY <2>3 DEF PushMsg, IsXPThread
  <2> QED
    BY <1>2, <2>1, <2>2, <2>3 DEF Format
<1>3. ASSUME NEW t \in Threads, Queue(t)
      PROVE  TypeOK'
  <2>1. CASE LockToPush(t)
    BY <2>1 DEF LockToPush, Lock
  <2>3. CASE ClearFlag(t)
    <3>1. <<>> \in Text
      OBVIOUS
    <3>2. sMsg' \in [Threads -> Text]
      BY <2>3, <3>1 DEF ClearFlag
    <3> QED
      BY <2>3, <3>2 DEF ClearFlag
  <2>2. CASE Push(t)
    <3>1. [id |-> Current(t), text |-> sMsg[t]] \in Line
      BY <2>2, CurrentTyped DEF Push, Inside, Line
    <3> QED
      BY <2>2, <3>1 DEF Push
  <2> QED
    BY <1>3, <2>1, <2>2, <2>3 DEF Queue
<1>4. CASE TestFlag \/ LockToFlush \/ Drained
  BY <1>4 DEF TestFlag, LockToFlush, Drained, Flushed, Lock
<1>5. CASE Drain
  BY <1>5 DEF Drain
<1>6. CASE WriteOwn
  <2>1. [id |-> Current(XP), text |-> sMsg[XP]] \in Line
    BY <1>6, CurrentTyped DEF WriteOwn, Inside, Line
  <2> QED
    BY <1>6, <2>1 DEF WriteOwn
<1>7. ASSUME NEW t \in Threads, LogPrefix(t), calls[t] < MaxMsgs, phase' \in Phases
      PROVE  TypeOK'
  <2>1. ahead' \subseteq Msgs
    BY <1>7, WaitingTyped DEF LogPrefix
  <2>2. raced' \in BOOLEAN
    BY <1>7 DEF LogPrefix
  <2>3. calls' \in [Threads -> 0 .. MaxMsgs]
    BY <1>7 DEF LogPrefix
  <2> QED
    BY <1>7, <2>1, <2>2, <2>3 DEF LogPrefix
<1>8. CASE XPLogs \/ Joined \/ \E w \in Workers : WorkerLogs(w)
  <2>1. CASE XPLogs
    <3>1. calls[XP] < MaxMsgs
      BY <2>1 DEF XPLogs
    <3> QED
      BY <1>7, <2>1, <3>1 DEF XPLogs
  <2>2. CASE Joined
    BY <1>7, <2>2 DEF Joined, CalledInv
  <2>3. CASE \E w \in Workers : WorkerLogs(w)
    BY <1>7, <2>3 DEF WorkerLogs
  <2> QED
    BY <1>8, <2>1, <2>2, <2>3
<1>9. CASE MarkXPlaneThread \/ Initialize \/ FrameFlush \/ Disable \/ Terminated
  BY <1>9 DEF MarkXPlaneThread, Initialize, FrameFlush, Disable, Terminated, vars
<1>10. CASE \E w \in Workers : WorkerEnds(w)
  BY <1>10 DEF WorkerEnds
<1> QED
  BY <1>1, <1>2, <1>3, <1>4, <1>5, <1>6, <1>8, <1>9, <1>10 DEF Next, Flush

\* A step of another thread changes nothing that MarkedInv is about.
LEMMA NextMarked == TypeInv /\ [Next]_vars => MarkedInv'
<1> SUFFICES ASSUME TypeInv, [Next]_vars PROVE MarkedInv'
  OBVIOUS
<1> USE DEF TypeInv, TypeOK, Threads, shared, Goto, FlushPCs
<1>0. ASSUME xpThread' = xpThread, phase' = phase, pc'[XP] = pc[XP],
             calls'[XP] = calls[XP], sMsg'[XP] = sMsg[XP]
      PROVE  MarkedInv'
  BY <1>0 DEF MarkedInv, Inside
<1>1. CASE UNCHANGED vars
  BY <1>0, <1>1 DEF vars
<1>2. ASSUME NEW t \in Threads, Format(t)
      PROVE  MarkedInv'
  <2>1. CASE t # XP
    <3>1. /\ xpThread' = xpThread /\ phase' = phase /\ pc'[XP] = pc[XP]
          /\ calls' = calls /\ sMsg'[XP] = sMsg[XP]
      BY <1>2, <2>1 DEF Format, LogBody, LogNewline, PushMsg
    <3> QED
      BY <1>0, <3>1
  <2>2. CASE t = XP
    <3>1. CASE LogBody(t) \/ LogNewline(t)
      BY <2>2, <3>1 DEF LogBody, LogNewline, MarkedInv, Inside
    <3>2. CASE PushMsg(t)
      BY <2>2, <3>2 DEF PushMsg, IsXPThread, MarkedInv, Inside
    <3> QED
      BY <1>2, <3>1, <3>2 DEF Format
  <2> QED
    BY <2>1, <2>2
<1>3. ASSUME NEW t \in Threads, Queue(t)
      PROVE  MarkedInv'
  <2>1. CASE t # XP
    <3>1. /\ xpThread' = xpThread /\ phase' = phase /\ pc'[XP] = pc[XP]
          /\ calls' = calls /\ sMsg'[XP] = sMsg[XP]
      BY <1>3, <2>1 DEF Queue, LockToPush, Push, ClearFlag
    <3> QED
      BY <1>0, <3>1
  <2>2. CASE t = XP
    BY <1>3, <2>2 DEF Queue, LockToPush, Push, ClearFlag, MarkedInv, Inside
  <2> QED
    BY <2>1, <2>2
<1>4. CASE Flush
  BY <1>4 DEF Flush, TestFlag, LockToFlush, Drain, Drained, WriteOwn, Flushed,
     MarkedInv, Inside
<1>5. CASE MarkXPlaneThread \/ FrameFlush \/ Disable \/ Terminated
  BY <1>5 DEF MarkXPlaneThread, FrameFlush, Disable, Terminated, vars, MarkedInv, Inside
<1>6. CASE Initialize
  BY <1>6 DEF Initialize, MarkedInv, Inside
<1>7. CASE XPLogs \/ Joined
  <2>1. /\ pc[XP] = "idle" /\ pc'[XP] = "body" /\ sMsg' = sMsg
        /\ calls'[XP] = calls[XP] + 1 /\ calls[XP] \in Nat /\ xpThread' = xpThread
    BY <1>7 DEF XPLogs, Joined, LogPrefix
  <2>2. xpThread = Nobody => phase' = "loaded" /\ calls[XP] < 1
    BY <1>7 DEF XPLogs, Joined, MarkedInv
  <2> QED
    BY <2>1, <2>2 DEF MarkedInv, Inside
<1>8. ASSUME NEW w \in Workers, WorkerLogs(w) \/ WorkerEnds(w)
      PROVE  MarkedInv'
  <2>1. /\ xpThread' = xpThread /\ phase' = phase /\ pc'[XP] = pc[XP]
        /\ calls'[XP] = calls[XP] /\ sMsg'[XP] = sMsg[XP]
    BY <1>8 DEF WorkerLogs, LogPrefix, WorkerEnds
  <2> QED
    BY <1>0, <2>1
<1> QED
  BY <1>1, <1>2, <1>3, <1>4, <1>5, <1>6, <1>7, <1>8 DEF Next

LEMMA NextCalled == TypeInv /\ [Next]_vars => CalledInv'
<1> SUFFICES ASSUME TypeInv, [Next]_vars PROVE CalledInv'
  OBVIOUS
<1> USE DEF TypeInv, TypeOK, Threads, shared, Goto, CalledInv, Inside
<1>1. CASE UNCHANGED vars
  BY <1>1 DEF vars
<1>2. ASSUME NEW t \in Threads, Format(t) \/ Queue(t)
      PROVE  CalledInv'
  <2>1. CASE LogBody(t) \/ LogNewline(t)
    BY <2>1 DEF LogBody, LogNewline
  <2>2. CASE PushMsg(t)
    BY <2>2 DEF PushMsg
  <2>3. CASE LockToPush(t) \/ Push(t)
    BY <2>3 DEF LockToPush, Push
  <2>4. CASE ClearFlag(t)
    BY <2>4 DEF ClearFlag
  <2> QED
    BY <1>2, <2>1, <2>2, <2>3, <2>4 DEF Format, Queue
<1>3. CASE Flush
  BY <1>3 DEF Flush, TestFlag, LockToFlush, Drain, Drained, WriteOwn, Flushed
<1>4. CASE MarkXPlaneThread \/ Disable \/ Terminated
  BY <1>4 DEF MarkXPlaneThread, Disable, Terminated, vars
<1>5. CASE FrameFlush
  BY <1>5 DEF FrameFlush, MarkedInv
<1>6. CASE Initialize
  BY <1>6 DEF Initialize
<1>7. ASSUME NEW t \in Threads, LogPrefix(t), calls[t] < MaxMsgs,
             phase' # "disabled" => phase # "disabled" /\ calls'[XP] < MaxMsgs
      PROVE  CalledInv'
  BY <1>7 DEF LogPrefix
<1>8. CASE XPLogs
  <2>1. calls[XP] + 1 < MaxMsgs
    BY <1>8 DEF XPLogs
  <2>2. calls'[XP] = calls[XP] + 1 /\ phase' = phase /\ LogPrefix(XP)
    BY <1>8 DEF XPLogs, LogPrefix
  <2> QED
    BY <1>7, <2>1, <2>2
<1>9. CASE Joined
  BY <1>7, <1>9 DEF Joined
<1>10. ASSUME NEW w \in Workers, WorkerLogs(w) \/ WorkerEnds(w)
       PROVE  CalledInv'
  <2>1. CASE WorkerLogs(w)
    <3>1. calls'[XP] = calls[XP]
      BY <2>1 DEF WorkerLogs, LogPrefix
    <3> QED
      BY <1>7, <2>1, <3>1 DEF WorkerLogs
  <2>2. CASE WorkerEnds(w)
    BY <2>2 DEF WorkerEnds
  <2> QED
    BY <1>10, <2>1, <2>2
<1> QED
  BY <1>1, <1>2, <1>3, <1>4, <1>5, <1>6, <1>8, <1>9, <1>10 DEF Next

LEMMA NextBuffer == TypeInv /\ [Next]_vars => BufferInv'
<1> SUFFICES ASSUME TypeInv, [Next]_vars PROVE BufferInv'
  OBVIOUS
<1> USE DEF TypeInv, TypeOK, Threads, shared, Goto, BufferInv, Formatting
<1>1. CASE UNCHANGED vars
  BY <1>1 DEF vars
<1>2. ASSUME NEW t \in Threads, LogPrefix(t)
      PROVE  BufferInv'
  BY <1>2 DEF LogPrefix
<1>3. ASSUME NEW t \in Threads, LogBody(t) \/ LogNewline(t)
      PROVE  BufferInv'
  <2>1. aszMsg' # <<>>
    BY <1>3 DEF LogBody, LogNewline, Text
  <2> QED
    BY <2>1
<1>4. ASSUME UNCHANGED aszMsg,
             \A t \in Threads : Formatting(t)' => Formatting(t)
      PROVE  BufferInv'
  BY <1>4
<1>5. ASSUME NEW t \in Threads, PushMsg(t) \/ Queue(t)
      PROVE  BufferInv'
  BY <1>4, <1>5 DEF PushMsg, Queue, LockToPush, Push, ClearFlag
<1>6. CASE Flush
  BY <1>4, <1>6 DEF Flush, TestFlag, LockToFlush, Drain, Drained, WriteOwn, Flushed
<1>7. CASE MarkXPlaneThread \/ Initialize \/ FrameFlush \/ Disable \/ Terminated
  BY <1>4, <1>7 DEF MarkXPlaneThread, Initialize, FrameFlush, Disable, Terminated, vars
<1>8. CASE \E w \in Workers : WorkerEnds(w)
  BY <1>4, <1>8 DEF WorkerEnds
<1> QED
  BY <1>1, <1>2, <1>3, <1>5, <1>6, <1>7, <1>8
  DEF Next, Format, XPLogs, Joined, WorkerLogs

LEMMA NextStarted == TypeInv /\ [Next]_vars => StartedInv'
<1> SUFFICES ASSUME TypeInv, [Next]_vars, phase' = "loaded"
             PROVE  \A w \in Workers : pc'[w] = "none"
  BY DEF StartedInv
<1> USE DEF TypeInv, TypeOK, Threads, shared, Goto
<1>1. phase = "loaded" /\ ~Initialize
  BY DEF Next, Format, LogBody, LogNewline, PushMsg, Queue, LockToPush, Push, ClearFlag,
     Flush, TestFlag, LockToFlush, Drain, Drained, WriteOwn, MarkXPlaneThread, XPLogs,
     Initialize, FrameFlush, Disable, Joined, WorkerLogs, WorkerEnds, LogPrefix,
     Terminated, vars
<1>2. \A w \in Workers : w # XP /\ pc[w] = "none"
  BY <1>1 DEF StartedInv
<1>3. ASSUME NEW t \in Threads, Format(t) \/ Queue(t) \/ LogPrefix(t)
      PROVE  \A w \in Workers : pc'[w] = "none"
  BY <1>2, <1>3 DEF Format, LogBody, LogNewline, PushMsg, Queue, LockToPush, Push,
     ClearFlag, LogPrefix
<1>4. CASE Flush \/ MarkXPlaneThread \/ FrameFlush \/ Disable \/ UNCHANGED vars
  BY <1>2, <1>4 DEF Flush, TestFlag, LockToFlush, Drain, Drained, WriteOwn,
     MarkXPlaneThread, FrameFlush, Disable, vars
<1>5. CASE \E w \in Workers : WorkerEnds(w)
  BY <1>2, <1>5 DEF WorkerEnds
<1> QED
  BY <1>1, <1>3, <1>4, <1>5 DEF Next, XPLogs, Joined, WorkerLogs, Terminated

LEMMA NextTypeInv == TypeInv /\ [Next]_vars => TypeInv'
  BY NextTypeOK, NextMarked, NextCalled, NextBuffer, NextStarted DEF TypeInv

(* Every variable keeps its type.                                            *)
THEOREM LogTypeCorrect == Spec => []TypeOK
<1>1. TypeInv => TypeOK
  BY DEF TypeInv
<1> QED
  BY <1>1, InitTypeInv, NextTypeInv, PTL DEF Spec

-----------------------------------------------------------------------------
(* What waits, and what the flag says of it. *)

\* How many messages of thread t PushMsg has dealt with and returned from.
Settled(t) == IF Inside(t) \/ pc[t] = "clear" THEN calls[t] - 1 ELSE calls[t]

LEMMA PushWaiting ==
  ASSUME TypeInv, NEW t \in Threads, Push(t)
  PROVE  /\ Queued' = Queued \cup {Current(t)}
         /\ Waiting' \subseteq Waiting
<1> DEFINE e == [id |-> Current(t), text |-> sMsg[t]]
<1>1. qMsgs' = Append(qMsgs, e) /\ qMsgs \in Seq(Line) /\ calls' = calls
  BY DEF Push, TypeInv, TypeOK
<1>2. /\ Len(qMsgs') = Len(qMsgs) + 1 /\ Len(qMsgs) \in Nat
      /\ qMsgs'[Len(qMsgs) + 1] = e
      /\ \A i \in 1 .. Len(qMsgs) : qMsgs'[i] = qMsgs[i]
  BY <1>1
<1>3. Queued' = Queued \cup {Current(t)}
  <2>1. \A i \in 1 .. Len(qMsgs') : i \in 1 .. Len(qMsgs) \/ i = Len(qMsgs) + 1
    BY <1>2
  <2>2. Len(qMsgs) + 1 \in 1 .. Len(qMsgs')
        /\ \A i \in 1 .. Len(qMsgs) : i \in 1 .. Len(qMsgs')
    BY <1>2
  <2>3. e.id = Current(t)
    OBVIOUS
  <2> QED
    BY <1>2, <2>1, <2>2, <2>3 DEF Queued
<1>4. Unsettled' = Unsettled \cup {Current(t)}
  <2>1. /\ pc \in [Threads -> PushPCs \cup FlushPCs \cup {"none", "done"}]
        /\ pc' = [pc EXCEPT ![t] = "clear"]
    BY DEF Push, Goto, TypeInv, TypeOK
  <2>2. \A u \in Threads : Current(u)' = Current(u)
    BY <1>1 DEF Current
  <2>3. \A u \in Threads : pc'[u] = "clear" <=> u = t \/ pc[u] = "clear"
    BY <2>1
  <2> QED
    BY <2>2, <2>3 DEF Unsettled
<1> QED
  BY <1>3, <1>4 DEF Waiting

LEMMA DrainWaiting ==
  ASSUME TypeInv, Drain
  PROVE  /\ \A j \in 1 .. Len(qMsgs') : \E i \in 1 .. Len(qMsgs) : qMsgs'[j] = qMsgs[i]
         /\ Waiting' \subseteq Waiting
<1>1. qMsgs' = Tail(qMsgs) /\ qMsgs # <<>> /\ qMsgs \in Seq(Line) /\ UNCHANGED <<pc, calls>>
  BY DEF Drain, TypeInv, TypeOK
<1>2. /\ Len(qMsgs') = Len(qMsgs) - 1 /\ Len(qMsgs) \in Nat
      /\ \A j \in 1 .. Len(qMsgs') : qMsgs'[j] = qMsgs[j + 1]
  BY <1>1
<1>3. \A j \in 1 .. Len(qMsgs') : \E i \in 1 .. Len(qMsgs) : qMsgs'[j] = qMsgs[i]
  BY <1>2
<1>4. Queued' \subseteq Queued
  BY <1>3 DEF Queued
<1>5. Unsettled' = Unsettled
  BY <1>1 DEF Unsettled, Current
<1> QED
  BY <1>3, <1>4, <1>5 DEF Waiting

\* A step that keeps the queue and who is about to clear the flag.
LEMMA WaitingKept ==
  ASSUME UNCHANGED qMsgs,
         \A t \in Threads : (pc'[t] = "clear") = (pc[t] = "clear"),
         \A t \in Threads : pc[t] = "clear" => calls'[t] = calls[t]
  PROVE  Waiting' = Waiting
<1>1. Queued' = Queued
  BY DEF Queued
<1>2. Unsettled' = Unsettled
  <2>1. \A t \in Threads : pc[t] = "clear" => Current(t)' = Current(t)
    BY DEF Current
  <2>2. ASSUME NEW m PROVE m \in Unsettled' <=> m \in Unsettled
    BY <2>1 DEF Unsettled
  <2> QED
    BY <2>2 DEF Unsettled
<1> QED
  BY <1>1, <1>2 DEF Waiting

\* The steps that concern neither the queue nor the flag.
Elsewhere ==
  \/ \E t \in Threads : Format(t) \/ LockToPush(t)
  \/ LockToFlush \/ WriteOwn
  \/ MarkXPlaneThread \/ XPLogs \/ Initialize \/ FrameFlush \/ Disable \/ Joined
  \/ \E w \in Workers : WorkerLogs(w) \/ WorkerEnds(w)
  \/ UNCHANGED vars

LEMMA StepKinds ==
  ASSUME [Next]_vars
  PROVE  \/ \E t \in Threads : Push(t) \/ ClearFlag(t)
         \/ Drain \/ Drained \/ TestFlag \/ Elsewhere
  BY DEF Next, Flush, Queue, Terminated, Elsewhere

LEMMA ElsewhereKeeps ==
  ASSUME TypeInv, Elsewhere
  PROVE  /\ UNCHANGED <<qMsgs, fMsgsEmpty>>
         /\ Waiting' = Waiting
<1> USE DEF TypeInv, TypeOK, Threads, shared, Goto
<1>1. UNCHANGED <<qMsgs, fMsgsEmpty>>
  BY DEF Elsewhere, Format, LogBody, LogNewline, PushMsg, LockToPush, LockToFlush,
     WriteOwn, MarkXPlaneThread, XPLogs, Initialize, FrameFlush, Disable, Joined,
     WorkerLogs, WorkerEnds, LogPrefix, vars
<1>2. ASSUME NEW t \in Threads, Format(t) \/ LockToPush(t)
      PROVE  Waiting' = Waiting
  BY <1>1, <1>2, WaitingKept DEF Format, LogBody, LogNewline, PushMsg, LockToPush
<1>3. CASE LockToFlush \/ WriteOwn \/ MarkXPlaneThread \/ FrameFlush \/ Disable \/ UNCHANGED vars
  BY <1>1, <1>3, WaitingKept DEF LockToFlush, WriteOwn, MarkXPlaneThread, FrameFlush,
     Disable, vars
<1>4. CASE Initialize
  <2>1. \A t \in Threads : pc[t] # "clear"
    BY <1>4 DEF Initialize, StartedInv
  <2> QED
    BY <1>1, <1>4, <2>1, WaitingKept DEF Initialize
<1>5. ASSUME NEW t \in Threads, LogPrefix(t)
      PROVE  Waiting' = Waiting
  BY <1>1, <1>5, WaitingKept DEF LogPrefix
<1>6. CASE \E w \in Workers : WorkerEnds(w)
  BY <1>1, <1>6, WaitingKept DEF WorkerEnds
<1> QED
  BY <1>1, <1>2, <1>3, <1>4, <1>5, <1>6 DEF Elsewhere, XPLogs, Joined, WorkerLogs

LEMMA InitStranded == Init => Queued = {} /\ Waiting = {}
  BY DEF Init, Queued, Waiting

LEMMA NextStranded ==
  ASSUME TypeInv, NothingStranded, [Next]_vars
  PROVE  NothingStranded'
<1> USE DEF NothingStranded
<1>0. pc \in [Threads -> PushPCs \cup FlushPCs \cup {"none", "done"}] /\ XP \in Threads
  BY DEF TypeInv, TypeOK, Threads
<1>1. ASSUME NEW t \in Threads, Push(t)
      PROVE  NothingStranded'
  <2>1. fMsgsEmpty' = fMsgsEmpty
    BY <1>1 DEF Push
  <2>2. pc'[XP] \notin {"flushLock", "drain"} => pc[XP] \notin {"flushLock", "drain"}
    BY <1>0, <1>1 DEF Push, Goto
  <2> QED
    BY <1>1, <2>1, <2>2, PushWaiting
<1>2. ASSUME NEW t \in Threads, ClearFlag(t)
      PROVE  NothingStranded'
  BY <1>2 DEF ClearFlag
<1>3. CASE Drain
  BY <1>3 DEF Drain
<1>4. CASE Drained
  BY <1>4 DEF Drained, Queued, Waiting
<1>5. CASE TestFlag
  <2>1. Waiting' = Waiting
    BY <1>0, <1>5, WaitingKept DEF TestFlag, Goto, Flushed
  <2> QED
    BY <1>0, <1>5, <2>1 DEF TestFlag, Goto
<1>6. CASE Elsewhere
  <2>1. pc'[XP] \notin {"flushLock", "drain"} => pc[XP] \notin {"flushLock", "drain"}
    BY <1>0, <1>6 DEF Elsewhere, Format, LogBody, LogNewline, PushMsg, LockToPush,
       LockToFlush, WriteOwn, MarkXPlaneThread, XPLogs, Initialize, FrameFlush, Disable,
       Joined, WorkerLogs, WorkerEnds, LogPrefix, vars, Goto
  <2> QED
    BY <1>6, <2>1, ElsewhereKeeps
<1> QED
  BY <1>1, <1>2, <1>3, <1>4, <1>5, <1>6, StepKinds

(* No message that has been queued is ever overlooked, whatever the flag     *)
(* was to begin with.                                                        *)
THEOREM NoMessageStranded == Spec => []NothingStranded
<1>1. TypeInv /\ NothingStranded /\ [Next]_vars => NothingStranded'
  BY NextStranded
<1>2. Init => NothingStranded
  BY InitStranded DEF NothingStranded
<1> QED
  BY <1>1, <1>2, InitTypeInv, NextTypeInv, PTL DEF Spec

(* Once the plugin is disabled there is nobody left to queue anything, and   *)
(* what X-Plane's thread finds at its last FlushMsgs is all there is.        *)
JoinedInv ==
  phase = "disabled" =>
    /\ xpThread = XP /\ \A w \in Workers : pc[w] = "done"
    /\ pc[XP] \in {"idle", "own"} => qMsgs = <<>>

LEMMA NextJoined ==
  ASSUME TypeInv, NothingStranded, JoinedInv, [Next]_vars
  PROVE  JoinedInv'
<1>0. pc \in [Threads -> PushPCs \cup FlushPCs \cup {"none", "done"}] /\ XP \in Threads
      /\ \A w \in Workers : w # XP /\ w \in Threads
  BY DEF TypeInv, TypeOK, Threads
<1> USE DEF Goto, shared
<1>1. CASE Joined
  <2>1. xpThread = XP
    BY <1>1 DEF Joined, TypeInv, TypeOK, MarkedInv
  <2> QED
    BY <1>0, <1>1, <2>1 DEF Joined, LogPrefix, JoinedInv
<1>2. CASE phase # "disabled" /\ ~Joined
  BY <1>2 DEF JoinedInv, Next, Format, LogBody, LogNewline, PushMsg, Queue, LockToPush,
     Push, ClearFlag, Flush, TestFlag, LockToFlush, Drain, Drained, WriteOwn,
     MarkXPlaneThread, XPLogs, Initialize, FrameFlush, Disable, WorkerLogs,
     WorkerEnds, LogPrefix, Terminated, vars
<1>3. CASE phase = "disabled" /\ ~Joined
  <2>1. /\ xpThread = XP /\ \A w \in Workers : pc[w] = "done"
        /\ pc[XP] \in {"idle", "own"} => qMsgs = <<>>
    BY <1>3 DEF JoinedInv
  <2>2. \A t \in Threads : pc[t] \notin {"lock", "push", "clear"}
    BY <2>1 DEF TypeInv, MarkedInv, Threads
  <2>3. Unsettled = {}
    BY <2>2 DEF Unsettled
  <2>4. Waiting = {} => qMsgs = <<>>
    <3>1. Waiting = {} => Queued = {}
      BY <2>3 DEF Waiting
    <3>2. qMsgs # <<>> => qMsgs[1].id \in Queued
      BY SMTT(30) DEF Queued, TypeInv, TypeOK
    <3> QED
      BY <3>1, <3>2
  <2>5. CASE Format(XP)
    BY <1>0, <2>1, <2>5 DEF Format, LogBody, LogNewline, PushMsg, IsXPThread, JoinedInv
  <2>6. CASE TestFlag
    BY <1>0, <2>1, <2>4, <2>6 DEF TestFlag, Flushed, NothingStranded, JoinedInv
  <2>7. CASE LockToFlush \/ Drain \/ WriteOwn
    BY <1>0, <2>1, <2>7 DEF LockToFlush, Drain, WriteOwn, JoinedInv
  <2>8. CASE Drained
    BY <1>0, <2>1, <2>8 DEF Drained, Flushed, JoinedInv
  <2>9. CASE XPLogs
    BY <1>0, <2>1, <2>9 DEF XPLogs, LogPrefix, JoinedInv
  <2>10. CASE UNCHANGED vars
    BY <2>1, <2>10 DEF vars, JoinedInv
  <2>11. ASSUME NEW t \in Threads
         PROVE  ~Queue(t) /\ (Format(t) => t = XP)
    BY <2>1, <2>2 DEF Queue, LockToPush, Push, ClearFlag, Format, LogBody, LogNewline,
       PushMsg, Threads
  <2>12. /\ ~MarkXPlaneThread /\ ~Initialize /\ ~FrameFlush /\ ~Disable
         /\ \A w \in Workers : ~WorkerLogs(w) /\ ~WorkerEnds(w)
    BY <1>0, <1>3, <2>1 DEF MarkXPlaneThread, Initialize, FrameFlush, Disable, WorkerLogs,
       WorkerEnds, LogPrefix
  <2> QED
    BY <1>3, <2>5, <2>6, <2>7, <2>8, <2>9, <2>10, <2>11, <2>12
    DEF Next, Flush, Terminated
<1> QED
  BY <1>1, <1>2, <1>3

(* After XPluginDisable nothing is left in the queue.                        *)
THEOREM AllWrittenWhenDisabled == Spec => []WrittenWhenDisabled
<1> DEFINE Inv == TypeInv /\ NothingStranded /\ JoinedInv
<1>1. Init => Inv
  <2> SUFFICES ASSUME Init PROVE Inv
    OBVIOUS
  <2>1. JoinedInv
    BY DEF Init, JoinedInv
  <2> QED
    BY <2>1, InitTypeInv, InitStranded DEF NothingStranded
<1>2. Inv /\ [Next]_vars => Inv'
  BY NextTypeInv, NextStranded, NextJoined
<1>3. Inv => WrittenWhenDisabled
  BY DEF JoinedInv, WrittenWhenDisabled
<1> QED
  BY <1>1, <1>2, <1>3, PTL DEF Spec

-----------------------------------------------------------------------------
(* The order of what is written and queued. *)

\* The lines s hold the first acc[t] messages of each thread t, in order.
Delivery(s, acc) ==
  /\ \A i \in 1 .. Len(s) : s[i].id.n <= acc[s[i].id.by]
  /\ \A i, j \in 1 .. Len(s) :
       (i < j /\ s[i].id.by = s[j].id.by) => s[i].id.n < s[j].id.n
  /\ \A t \in Threads : \A n \in 1 .. acc[t] :
       \E i \in 1 .. Len(s) : s[i].id = [by |-> t, n |-> n]

Counts == [t \in Threads |-> Accepted(t)]

\* A thread's next line may go in wherever none of its lines comes after.
LEMMA DeliverNext ==
  ASSUME NEW l \in Seq(Line), NEW q \in Seq(Line), NEW e \in Line,
         NEW acc \in [Threads -> Nat], NEW t \in Threads,
         Delivery(l \o q, acc),
         e.id.by = t, e.id.n = acc[t] + 1,
         \A i \in 1 .. Len(q) : q[i].id.by # t
  PROVE  Delivery(Append(l, e) \o q, [acc EXCEPT ![t] = @ + 1])
<1> DEFINE s == l \o q
           z == Append(l, e) \o q
           k == Len(l) + 1
           new == [acc EXCEPT ![t] = @ + 1]
<1>1. /\ Len(l) \in Nat /\ Len(q) \in Nat /\ k \in 1 .. Len(z)
      /\ Len(s) = Len(l) + Len(q) /\ Len(z) = Len(s) + 1
      /\ z[k] = e
  OBVIOUS
<1>2. \A i \in 1 .. Len(z) :
        /\ i < k => i \in 1 .. Len(s) /\ z[i] = s[i]
        /\ i > k => /\ i - 1 \in 1 .. Len(s) /\ z[i] = s[i - 1]
                    /\ i - k \in 1 .. Len(q) /\ z[i] = q[i - k]
  BY SMTT(30), <1>1
<1>3. \A i \in 1 .. Len(s) : \E j \in 1 .. Len(z) : z[j] = s[i]
  <2> SUFFICES ASSUME NEW i \in 1 .. Len(s)
               PROVE  \E j \in 1 .. Len(z) : z[j] = s[i]
    OBVIOUS
  <2>1. CASE i < k
    <3>1. i \in 1 .. Len(z) /\ z[i] = s[i]
      BY <1>1, <1>2, <2>1
    <3> QED
      BY <3>1
  <2>2. CASE i >= k
    <3>1. i + 1 \in 1 .. Len(z) /\ z[i + 1] = s[i]
      BY <1>1, <1>2, <2>2
    <3> QED
      BY <3>1
  <2> QED
    BY <1>1, <2>1, <2>2
<1>4. /\ \A x \in Line : x.id.by \in Threads /\ x.id.n \in Nat
      /\ \A i \in 1 .. Len(s) : s[i] \in Line
  <2>1. \A x \in Line : x.id \in Msgs
    BY DEF Line
  <2>2. \A m \in Msgs : m.by \in Threads /\ m.n \in Nat
    BY DEF Msgs
  <2>3. \A i \in 1 .. Len(s) : s[i] \in Line
    OBVIOUS
  <2> QED
    BY <2>1, <2>2, <2>3
<1>5. /\ new \in [Threads -> Nat] /\ new[t] = acc[t] + 1
      /\ \A u \in Threads \ {t} : new[u] = acc[u]
  OBVIOUS
<1>d. Delivery(s, acc)
  OBVIOUS
<1>k. k = Len(l) + 1
  OBVIOUS
<1> HIDE DEF s, z, k, new
<1>6. \A i \in 1 .. Len(s) : s[i].id.n <= acc[s[i].id.by]
  BY <1>d DEF Delivery
<1>7. \A i, j \in 1 .. Len(s) :
        (i < j /\ s[i].id.by = s[j].id.by) => s[i].id.n < s[j].id.n
  BY <1>d DEF Delivery
<1>8. \A i \in 1 .. Len(z) : z[i].id.n <= new[z[i].id.by]
  <2> SUFFICES ASSUME NEW i \in 1 .. Len(z)
               PROVE  z[i].id.n <= new[z[i].id.by]
    OBVIOUS
  <2>1. CASE i = k
    BY <1>1, <1>5, <2>1
  <2>2. CASE i # k
    <3>1. PICK j \in 1 .. Len(s) : z[i] = s[j]
      <4>1. i < k \/ i > k
        BY <1>1, <1>k, <2>2
      <4> QED
        BY <1>2, <4>1
    <3>2. /\ s[j].id.n <= acc[s[j].id.by] /\ s[j].id.by \in Threads
          /\ s[j].id.n \in Nat /\ acc[s[j].id.by] \in Nat
      BY <1>4, <1>6
    <3>3. acc[s[j].id.by] <= new[s[j].id.by]
      <4>1. \A u \in Threads : acc[u] \in Nat /\ acc[u] <= new[u]
        <5>1. acc[t] \in Nat /\ acc[t] <= new[t]
          BY <1>5
        <5>2. \A u \in Threads \ {t} : acc[u] \in Nat /\ acc[u] <= new[u]
          BY <1>5
        <5> QED
          BY <5>1, <5>2
      <4> QED
        BY <3>2, <4>1
    <3> QED
      BY SMTT(30), <1>5, <3>1, <3>2, <3>3
  <2> QED
    BY <2>1, <2>2
<1>9. ASSUME NEW i \in 1 .. Len(z), NEW j \in 1 .. Len(z),
             i < j, z[i].id.by = z[j].id.by
      PROVE  z[i].id.n < z[j].id.n
  <2>1. i # k
    <3> SUFFICES ASSUME i = k PROVE FALSE
      OBVIOUS
    <3>1. z[i].id.by = t
      BY <1>1
    <3>2. j - k \in 1 .. Len(q) /\ z[j] = q[j - k]
      BY <1>2, <1>9
    <3> QED
      BY <1>9, <3>1, <3>2
  <2>2. CASE j = k
    <3>1. i < k /\ i \in 1 .. Len(s) /\ z[i] = s[i]
      BY <1>2, <1>9, <2>2
    <3>2. s[i].id.by = t /\ s[i].id.n <= acc[t] /\ s[i].id.n \in Nat
      BY <1>1, <1>4, <1>6, <1>9, <2>2, <3>1
    <3>3. z[j].id.n = acc[t] + 1
      BY <1>1, <2>2
    <3> QED
      BY <3>1, <3>2, <3>3
  <2>3. CASE j # k
    <3> DEFINE old(x) == IF x < k THEN x ELSE x - 1
    <3>1. k \in Nat
      BY <1>1
    <3>2. /\ old(i) \in 1 .. Len(s) /\ old(j) \in 1 .. Len(s)
          /\ z[i] = s[old(i)] /\ z[j] = s[old(j)]
      BY SMTT(30), <1>2, <2>1, <2>3, <3>1
    <3>3. old(i) < old(j)
      BY <1>9, <2>1, <2>3, <3>1
    <3> QED
      BY <1>7, <1>9, <3>2, <3>3
  <2> QED
    BY <2>2, <2>3
<1>10. ASSUME NEW u \in Threads, NEW n \in 1 .. new[u]
       PROVE  \E i \in 1 .. Len(z) : z[i].id = [by |-> u, n |-> n]
  <2>1. CASE u = t /\ n = acc[t] + 1
    <3>1. e.id = [by |-> u, n |-> n]
      BY <2>1 DEF Line, Msgs
    <3> QED
      BY <1>1, <3>1
  <2>2. CASE ~(u = t /\ n = acc[t] + 1)
    <3>1. n \in 1 .. acc[u]
      BY <1>5, <2>2
    <3>2. PICK i \in 1 .. Len(s) : s[i].id = [by |-> u, n |-> n]
      BY <1>d, <3>1 DEF Delivery
    <3> QED
      BY <1>3, <3>2
  <2> QED
    BY <2>1, <2>2
<1> QED
  BY <1>8, <1>9, <1>10 DEF Delivery, z, new

LEMMA CountsTyped ==
  ASSUME TypeInv
  PROVE  /\ Counts \in [Threads -> Nat]
         /\ \A t \in Threads : Inside(t) => Counts[t] = calls[t] - 1
         /\ \A t \in Threads : ~Inside(t) => Counts[t] = calls[t]
  BY DEF TypeInv, TypeOK, CalledInv, Counts, Accepted

\* Only Push and WriteOwn add to the lines.
LEMMA CountsKept ==
  ASSUME TypeInv,
         \A t \in Threads : Accepted(t)' = Accepted(t)
  PROVE  Counts' = Counts
  BY DEF Counts

LEMMA CountsUp ==
  ASSUME TypeInv, NEW t \in Threads, Push(t) \/ (t = XP /\ WriteOwn)
  PROVE  Counts' = [Counts EXCEPT ![t] = @ + 1]
<1> USE DEF TypeInv, TypeOK, Goto
<1>1. /\ Inside(t) /\ ~Inside(t)' /\ calls' = calls
      /\ \A u \in Threads \ {t} : Inside(u)' = Inside(u)
  <2>1. CASE Push(t)
    BY <2>1 DEF Push, Inside
  <2>2. CASE t = XP /\ WriteOwn
    BY <2>2 DEF WriteOwn, Inside
  <2> QED
    BY <2>1, <2>2
<1>2. Accepted(t) = calls[t] - 1 /\ Accepted(t)' = calls[t] /\ calls[t] \in Nat
  BY <1>1 DEF Accepted
<1>3. \A u \in Threads \ {t} : Accepted(u)' = Accepted(u)
  BY <1>1 DEF Accepted
<1>4. \A u \in Threads : Counts[u] = Accepted(u) /\ Counts'[u] = Accepted(u)'
  BY DEF Counts
<1>5. \A u \in Threads : Counts'[u] = IF u = t THEN Counts[t] + 1 ELSE Counts[u]
  BY <1>2, <1>3, <1>4
<1>6. /\ Counts \in [Threads -> Nat]
      /\ Counts' = [u \in Threads |-> Counts'[u]]
  BY CountsTyped DEF Counts
<1> HIDE DEF TypeInv, TypeOK, Goto
<1> QED
  BY <1>5, <1>6

LEMMA AcceptedKept ==
  ASSUME TypeInv, Elsewhere, ~WriteOwn, NEW t \in Threads
  PROVE  Accepted(t)' = Accepted(t)
<1> USE DEF TypeInv, TypeOK, Threads, shared, Goto, FlushPCs, Inside, Accepted
<1>1. ASSUME NEW u \in Threads, LogBody(u) \/ LogNewline(u) \/ LockToPush(u)
      PROVE  Accepted(t)' = Accepted(t)
  BY <1>1 DEF LogBody, LogNewline, LockToPush
<1>2. ASSUME NEW u \in Threads, PushMsg(u)
      PROVE  Accepted(t)' = Accepted(t)
  BY <1>2 DEF PushMsg, BufferInv, Formatting
<1>3. ASSUME NEW u \in Threads, LogPrefix(u)
      PROVE  Accepted(t)' = Accepted(t)
  BY <1>3 DEF LogPrefix
<1>4. CASE LockToFlush \/ MarkXPlaneThread \/ Disable \/ UNCHANGED vars
  BY <1>4 DEF LockToFlush, MarkXPlaneThread, Disable, vars
<1>5. CASE FrameFlush
  BY <1>5 DEF FrameFlush, MarkedInv
<1>6. CASE Initialize
  BY <1>6 DEF Initialize, StartedInv
<1>7. ASSUME NEW w \in Workers, WorkerEnds(w)
      PROVE  Accepted(t)' = Accepted(t)
  BY <1>7 DEF WorkerEnds
<1> QED
  BY <1>1, <1>2, <1>3, <1>4, <1>5, <1>6, <1>7
  DEF Elsewhere, Format, XPLogs, Joined, WorkerLogs

Delivered == Delivery(All, Counts)

\* What X-Plane's thread has queued before it was marked is ahead of whatever
\* it writes, and what it found waiting has been settled.
AheadInv ==
  /\ \A m \in ahead : m.n <= Settled(m.by)
  /\ xpThread = XP /\ Inside(XP) =>
       \A i \in 1 .. Len(qMsgs) : qMsgs[i].id.by = XP => qMsgs[i].id \in ahead

LEMMA SettledGrows ==
  ASSUME TypeInv, [Next]_vars, NEW t \in Threads
  PROVE  /\ Settled(t) \in Int /\ Settled(t)' \in Int
         /\ Settled(t) <= Settled(t)'
<1> USE DEF TypeInv, TypeOK, Threads, shared, Goto, FlushPCs, Inside, Settled
<1>0. calls[t] \in Int
  OBVIOUS
<1>1. ASSUME NEW u \in Threads, LogBody(u) \/ LogNewline(u) \/ LockToPush(u)
      PROVE  Settled(t)' = Settled(t)
  BY <1>1 DEF LogBody, LogNewline, LockToPush
<1>2. ASSUME NEW u \in Threads, PushMsg(u)
      PROVE  Settled(t)' = Settled(t)
  BY <1>2 DEF PushMsg, BufferInv, Formatting
<1>3. ASSUME NEW u \in Threads, LogPrefix(u)
      PROVE  Settled(t)' = Settled(t)
  BY <1>3 DEF LogPrefix
<1>4. ASSUME LockToFlush \/ MarkXPlaneThread \/ Disable \/ UNCHANGED vars
      PROVE  Settled(t)' = Settled(t)
  BY <1>4 DEF LockToFlush, MarkXPlaneThread, Disable, vars
<1>5. ASSUME FrameFlush
      PROVE  Settled(t)' = Settled(t)
  BY <1>5 DEF FrameFlush, MarkedInv
<1>6. ASSUME Initialize
      PROVE  Settled(t)' = Settled(t)
  BY <1>6 DEF Initialize, StartedInv
<1>7. ASSUME NEW w \in Workers, WorkerEnds(w)
      PROVE  Settled(t)' = Settled(t)
  BY <1>7 DEF WorkerEnds
<1>8. ASSUME Drain \/ Drained \/ TestFlag
      PROVE  Settled(t)' = Settled(t)
  BY <1>8 DEF Drain, Drained, TestFlag, Flushed
<1>9. ASSUME NEW u \in Threads, Push(u)
      PROVE  Settled(t)' = Settled(t)
  BY <1>9 DEF Push
<1>10. ASSUME NEW u \in Threads, ClearFlag(u)
       PROVE  Settled(t)' \in {Settled(t), Settled(t) + 1}
  BY <1>10 DEF ClearFlag
<1>11. ASSUME WriteOwn
       PROVE  Settled(t)' \in {Settled(t), Settled(t) + 1}
  BY <1>11 DEF WriteOwn
<1>12. Settled(t) \in Int
  BY <1>0
<1>13. Settled(t)' \in {Settled(t), Settled(t) + 1}
  BY <1>1, <1>2, <1>3, <1>4, <1>5, <1>6, <1>7, <1>8, <1>9, <1>10, <1>11, <1>12, StepKinds
  DEF Elsewhere, Format, XPLogs, Joined, WorkerLogs
<1> HIDE DEF TypeInv, TypeOK, Settled
<1> QED
  BY <1>12, <1>13

\* What waits has been dealt with: PushMsg has returned from it.
LEMMA WaitingSettled ==
  ASSUME TypeInv, Delivered, NEW m \in Waiting
  PROVE  m.n <= Settled(m.by)
<1>1. PICK i \in 1 .. Len(qMsgs) : m = qMsgs[i].id
  BY DEF Waiting, Queued
<1>2. m \in Msgs
  BY WaitingTyped DEF TypeInv, TypeOK
<1>3. m.by \in Threads /\ m.n \in Nat /\ m = [by |-> m.by, n |-> m.n]
  BY <1>2 DEF Msgs
<1>4. m.n <= Counts[m.by]
  <2>1. qMsgs \in Seq(Line) /\ Log \in Seq(Line)
    BY DEF TypeInv, TypeOK
  <2>2. Len(Log) + i \in 1 .. Len(All) /\ All[Len(Log) + i] = qMsgs[i]
    BY <2>1 DEF All
  <2> QED
    BY <1>1, <2>2 DEF Delivered, Delivery
<1>5. /\ Counts \in [Threads -> Nat] /\ calls \in [Threads -> 0 .. MaxMsgs]
      /\ Inside(m.by) => Counts[m.by] = calls[m.by] - 1
      /\ ~Inside(m.by) => Counts[m.by] = calls[m.by]
  BY <1>3, CountsTyped DEF TypeInv, TypeOK
<1>6. CASE pc[m.by] = "clear"
  <2>1. m # Current(m.by)
    BY <1>3, <1>6 DEF Waiting, Unsettled
  <2>2. m.n # calls[m.by]
    BY <1>3, <2>1 DEF Current
  <2>3. ~Inside(m.by)
    BY <1>6 DEF Inside, FlushPCs
  <2>4. Settled(m.by) = calls[m.by] - 1
    BY <1>6 DEF Settled
  <2>5. calls[m.by] \in Int
    BY <1>3, <1>5
  <2> QED
    BY <1>3, <1>4, <1>5, <2>2, <2>3, <2>4, <2>5
<1>7. CASE pc[m.by] # "clear"
  BY <1>4, <1>5, <1>7 DEF Settled
<1> QED
  BY <1>6, <1>7

LEMMA DrainAll ==
  ASSUME TypeInv, Drain
  PROVE  All' = All
<1> DEFINE e == Head(qMsgs)
           r == Tail(qMsgs)
<1>1. qMsgs \in Seq(Line) /\ Log \in Seq(Line) /\ qMsgs # <<>>
  BY DEF Drain, TypeInv, TypeOK
<1>2. e \in Line /\ r \in Seq(Line) /\ qMsgs = <<e>> \o r
  BY <1>1
<1>3. All' = Append(Log, e) \o r
  BY DEF All, Drain
<1> HIDE DEF e, r
<1>4. Append(Log, e) \o r = Log \o (<<e>> \o r)
  BY <1>1, <1>2
<1> QED
  BY <1>2, <1>3, <1>4 DEF All

\* A thread that is about to be delivered has nothing in the queue.
LEMMA PushDelivered ==
  ASSUME TypeInv, Delivered, NEW t \in Threads, Push(t)
  PROVE  Delivered'
<1> DEFINE e == [id |-> Current(t), text |-> sMsg[t]]
<1>1. Inside(t) /\ sMsg \in [Threads -> Text]
  BY DEF Push, Goto, Inside, TypeInv, TypeOK
<1>2. e \in Line
  BY <1>1, CurrentTyped DEF Line
<1>3. All \in Seq(Line) /\ Counts \in [Threads -> Nat]
  BY CountsTyped DEF TypeInv, TypeOK, All
<1>4. All' = Append(All, e)
  <2>1. qMsgs \in Seq(Line) /\ Log \in Seq(Line)
    BY DEF TypeInv, TypeOK
  <2>2. qMsgs' = Append(qMsgs, e) /\ Log' = Log
    BY DEF Push
  <2> HIDE DEF e
  <2> QED
    BY <1>2, <2>1, <2>2 DEF All
<1>5. Counts' = [Counts EXCEPT ![t] = @ + 1]
  BY CountsUp
<1>6. e.id.by = t /\ e.id.n = Counts[t] + 1
  <2>1. calls \in [Threads -> 0 .. MaxMsgs]
    BY DEF TypeInv, TypeOK
  <2> QED
    BY <1>1, <2>1, CountsTyped DEF Current
<1> HIDE DEF e
<1>7. All \o <<>> = All /\ Append(All, e) \o <<>> = Append(All, e)
  BY <1>2, <1>3
<1>8. Delivery(All \o <<>>, Counts)
  BY <1>7 DEF Delivered
<1>9. <<>> \in Seq(Line) /\ \A i \in 1 .. Len(<<>>) : <<>>[i].id.by # t
  OBVIOUS
<1>10. Delivery(Append(All, e) \o <<>>, [Counts EXCEPT ![t] = @ + 1])
  BY <1>2, <1>3, <1>6, <1>8, <1>9, DeliverNext
<1> QED
  BY <1>4, <1>5, <1>7, <1>10 DEF Delivered, Delivery

LEMMA WriteDelivered ==
  ASSUME TypeInv, Delivered, WaitingFirst, AheadInv, WriteOwn
  PROVE  Delivered'
<1> DEFINE e == [id |-> Current(XP), text |-> sMsg[XP]]
<1>1. /\ Inside(XP) /\ pc[XP] = "own" /\ sMsg \in [Threads -> Text] /\ XP \in Threads
      /\ xpThread = XP
  BY DEF WriteOwn, Goto, Inside, TypeInv, TypeOK, MarkedInv, Threads, FlushPCs
<1>2. e \in Line
  BY <1>1, CurrentTyped DEF Line
<1>3. qMsgs \in Seq(Line) /\ Log \in Seq(Line) /\ Counts \in [Threads -> Nat]
  BY CountsTyped DEF TypeInv, TypeOK
<1>4. All' = Append(Log, e) \o qMsgs
  BY DEF WriteOwn, All
<1>5. Counts' = [Counts EXCEPT ![XP] = @ + 1]
  BY <1>1, CountsUp
<1>6. e.id.by = XP /\ e.id.n = Counts[XP] + 1
  <2>1. calls \in [Threads -> 0 .. MaxMsgs]
    BY DEF TypeInv, TypeOK
  <2> QED
    BY <1>1, <2>1, CountsTyped DEF Current
<1>7. ASSUME NEW i \in 1 .. Len(qMsgs), qMsgs[i].id.by = XP
      PROVE  FALSE
  <2>1. qMsgs[i].id \in ahead /\ qMsgs[i].id \in Queued
    BY <1>1, <1>7 DEF AheadInv, Queued
  <2>2. qMsgs[i].id \notin Unsettled
    <3>1. ASSUME NEW u \in Threads, pc[u] = "clear"
          PROVE  qMsgs[i].id # Current(u)
      BY <1>1, <1>7, <3>1 DEF Current
    <3> QED
      BY <3>1 DEF Unsettled
  <2> QED
    BY <1>1, <2>1, <2>2 DEF WaitingFirst, Waiting
<1> HIDE DEF e
<1>8. Delivery(Log \o qMsgs, Counts)
  BY DEF Delivered, All
<1>9. Delivery(Append(Log, e) \o qMsgs, [Counts EXCEPT ![XP] = @ + 1])
  BY <1>1, <1>2, <1>3, <1>6, <1>7, <1>8, DeliverNext
<1> QED
  BY <1>4, <1>5, <1>9 DEF Delivered, Delivery

LEMMA NextDelivered ==
  ASSUME TypeInv, Delivered, WaitingFirst, AheadInv, [Next]_vars
  PROVE  Delivered'
<1>1. ASSUME All' = All, \A t \in Threads : Accepted(t)' = Accepted(t)
      PROVE  Delivered'
  BY <1>1, CountsKept DEF Delivered, Delivery
<1>2. CASE Elsewhere /\ ~WriteOwn
  <2>1. Log' = Log
    BY <1>2 DEF Elsewhere, Format, LogBody, LogNewline, PushMsg, LockToPush, LockToFlush,
       MarkXPlaneThread, XPLogs, Initialize, FrameFlush, Disable, Joined,
       WorkerLogs, WorkerEnds, LogPrefix, vars, shared
  <2>2. All' = All
    BY <1>2, <2>1, ElsewhereKeeps DEF All
  <2> QED
    BY <1>1, <1>2, <2>2, AcceptedKept
<1>3. ASSUME NEW t \in Threads, ClearFlag(t)
      PROVE  Delivered'
  <2>1. \A u \in Threads : Accepted(u)' = Accepted(u)
    BY <1>3 DEF ClearFlag, Goto, Accepted, Inside, TypeInv, TypeOK
  <2> QED
    BY <1>1, <1>3, <2>1 DEF ClearFlag, All
<1>4. CASE Drain
  <2>1. \A u \in Threads : Accepted(u)' = Accepted(u)
    BY <1>4 DEF Drain, Accepted, Inside
  <2> QED
    BY <1>1, <1>4, <2>1, DrainAll
<1>5. CASE Drained \/ TestFlag
  <2>1. \A u \in Threads : Accepted(u)' = Accepted(u)
    BY <1>5 DEF Drained, TestFlag, Flushed, Goto, Accepted, Inside, TypeInv, TypeOK
  <2> QED
    BY <1>1, <1>5, <2>1 DEF Drained, TestFlag, All
<1> QED
  BY <1>2, <1>3, <1>4, <1>5, PushDelivered, WriteDelivered, StepKinds

\* Only a new call of X-Plane's thread changes what is ahead of it.
LEMMA AheadKept ==
  ASSUME TypeInv, [Next]_vars, ~LogPrefix(XP)
  PROVE  /\ UNCHANGED ahead
         /\ xpThread' = XP /\ Inside(XP)' => xpThread = XP /\ Inside(XP)
<1> USE DEF TypeInv, TypeOK, Threads, shared, Goto, FlushPCs, Inside
<1>1. ASSUME NEW u \in Threads, Format(u) \/ Queue(u)
      PROVE  /\ UNCHANGED ahead
             /\ xpThread' = XP /\ Inside(XP)' => xpThread = XP /\ Inside(XP)
  <2>1. CASE LogBody(u) \/ LogNewline(u) \/ LockToPush(u) \/ Push(u) \/ ClearFlag(u)
    BY <2>1 DEF LogBody, LogNewline, LockToPush, Push, ClearFlag
  <2>2. CASE PushMsg(u)
    BY <2>2 DEF PushMsg
  <2> QED
    BY <1>1, <2>1, <2>2 DEF Format, Queue
<1>2. CASE Flush
  BY <1>2 DEF Flush, TestFlag, LockToFlush, Drain, Drained, WriteOwn, Flushed
<1>3. CASE MarkXPlaneThread \/ Disable \/ Terminated \/ UNCHANGED vars
  BY <1>3 DEF MarkXPlaneThread, Disable, Terminated, vars
<1>4. CASE FrameFlush
  BY <1>4 DEF FrameFlush, MarkedInv
<1>5. CASE Initialize
  BY <1>5 DEF Initialize
<1>6. ASSUME NEW w \in Workers, WorkerLogs(w) \/ WorkerEnds(w)
      PROVE  /\ UNCHANGED ahead
             /\ xpThread' = XP /\ Inside(XP)' => xpThread = XP /\ Inside(XP)
  BY <1>6 DEF WorkerLogs, LogPrefix, WorkerEnds
<1> QED
  BY <1>1, <1>2, <1>3, <1>4, <1>5, <1>6 DEF Next, XPLogs, Joined

LEMMA NextAhead ==
  ASSUME TypeInv, Delivered, AheadInv, [Next]_vars
  PROVE  AheadInv'
<1>1. XP \in Threads /\ ahead \subseteq Msgs /\ \A m \in Msgs : m.by \in Threads /\ m.n \in Nat
  BY DEF TypeInv, TypeOK, Threads, Msgs
<1>2. CASE LogPrefix(XP)
  <2>1. ahead' = Waiting /\ UNCHANGED qMsgs /\ pc[XP] = "idle"
    BY <1>2 DEF LogPrefix, Goto, shared
  <2>2. ASSUME NEW m \in Waiting
        PROVE  m.n <= Settled(m.by)'
    <3>1. m \in Msgs /\ m.n <= Settled(m.by)
      BY WaitingTyped, WaitingSettled DEF TypeInv, TypeOK
    <3>2. /\ Settled(m.by) \in Int /\ Settled(m.by)' \in Int
          /\ Settled(m.by) <= Settled(m.by)'
      BY <1>1, <3>1, SettledGrows
    <3> QED
      BY <1>1, <3>1, <3>2
  <2>3. ASSUME NEW i \in 1 .. Len(qMsgs), qMsgs[i].id.by = XP
        PROVE  qMsgs[i].id \in Waiting
    <3>1. ASSUME NEW u \in Threads, pc[u] = "clear"
          PROVE  qMsgs[i].id # Current(u)
      BY <2>1, <2>3, <3>1 DEF Current
    <3> QED
      BY <3>1 DEF Waiting, Queued, Unsettled
  <2> QED
    BY <2>1, <2>2, <2>3 DEF AheadInv
<1>3. CASE ~LogPrefix(XP)
  <2>1. /\ UNCHANGED ahead
        /\ xpThread' = XP /\ Inside(XP)' => xpThread = XP /\ Inside(XP)
    BY <1>3, AheadKept
  <2>2. ASSUME NEW m \in ahead
        PROVE  m.n <= Settled(m.by)'
    <3>1. m \in Msgs /\ m.n <= Settled(m.by)
      BY <1>1 DEF AheadInv
    <3>2. /\ Settled(m.by) \in Int /\ Settled(m.by)' \in Int
          /\ Settled(m.by) <= Settled(m.by)'
      BY <1>1, <3>1, SettledGrows
    <3> QED
      BY <1>1, <3>1, <3>2
  <2>3. ASSUME xpThread = XP, NEW j \in 1 .. Len(qMsgs'), qMsgs'[j].id.by = XP
        PROVE  \E i \in 1 .. Len(qMsgs) : qMsgs'[j] = qMsgs[i]
    <3>1. ASSUME NEW t \in Threads, Push(t)
          PROVE  \E i \in 1 .. Len(qMsgs) : qMsgs'[j] = qMsgs[i]
      <4>1. t # XP
        BY <2>3, <3>1 DEF Push, Goto, TypeInv, MarkedInv
      <4> DEFINE e == [id |-> Current(t), text |-> sMsg[t]]
      <4>2. qMsgs' = Append(qMsgs, e) /\ qMsgs \in Seq(Line) /\ e.id.by = t
        BY <3>1 DEF Push, TypeInv, TypeOK, Current
      <4> HIDE DEF e
      <4>3. Len(qMsgs) \in Nat /\ Len(qMsgs') = Len(qMsgs) + 1 /\ qMsgs'[Len(qMsgs) + 1] = e
            /\ \A i \in 1 .. Len(qMsgs) : qMsgs'[i] = qMsgs[i]
        BY <4>2
      <4>4. j # Len(qMsgs) + 1
        BY <2>3, <4>1, <4>2, <4>3
      <4>5. j \in 1 .. Len(qMsgs)
        BY <4>3, <4>4
      <4> QED
        BY <4>3, <4>5
    <3>2. CASE Drain
      BY <3>2, DrainWaiting
    <3>3. CASE Elsewhere
      BY <3>3, ElsewhereKeeps
    <3>4. ASSUME UNCHANGED qMsgs
          PROVE  \E i \in 1 .. Len(qMsgs) : qMsgs'[j] = qMsgs[i]
      BY <3>4
    <3> QED
      BY <3>1, <3>2, <3>3, <3>4, StepKinds DEF ClearFlag, Drained, TestFlag
  <2> QED
    BY <2>1, <2>2, <2>3 DEF AheadInv
<1> QED
  BY <1>2, <1>3

LEMMA NextWaitingFirst ==
  ASSUME TypeInv, NothingStranded, AheadInv, WaitingFirst, [Next]_vars
  PROVE  WaitingFirst'
<1> SUFFICES ASSUME pc'[XP] = "own" PROVE (ahead \cap Waiting)' = {}
  BY DEF WaitingFirst
<1>0. /\ pc \in [Threads -> PushPCs \cup FlushPCs \cup {"none", "done"}] /\ XP \in Threads
      /\ ahead \subseteq Msgs
  BY DEF TypeInv, TypeOK, Threads
<1>1. ~LogPrefix(XP)
  BY <1>0 DEF LogPrefix, Goto
<1>2. UNCHANGED ahead
  BY <1>1, AheadKept
<1>3. CASE TestFlag /\ pc[XP] # "own"
  <2>1. fMsgsEmpty /\ pc[XP] = "test"
    BY <1>0, <1>3 DEF TestFlag, Goto
  <2>2. Waiting' = Waiting
    BY <1>0, <1>3, WaitingKept DEF TestFlag, Goto, Flushed
  <2> QED
    BY <2>1, <2>2 DEF NothingStranded
<1>4. CASE Drained
  BY <1>4 DEF Drained, Waiting, Queued
<1>5. CASE pc[XP] = "own"
  <2>1. ASSUME NEW t \in Threads, ClearFlag(t)
        PROVE  (ahead \cap Waiting)' = {}
    <3>1. Settled(t) = calls[t] - 1 /\ calls[t] \in Int
      BY <2>1 DEF ClearFlag, Goto, Settled, TypeInv, TypeOK
    <3>2. Current(t) \notin ahead
      BY <3>1 DEF AheadInv, Current
    <3>3. Waiting' \subseteq Waiting \cup {Current(t)}
      <4>1. Queued' = Queued
        BY <2>1 DEF ClearFlag, Queued
      <4>2. \A u \in Threads \ {t} : pc'[u] = pc[u] /\ Current(u)' = Current(u)
        BY <1>0, <2>1 DEF ClearFlag, Goto, Current
      <4>3. Unsettled \subseteq Unsettled' \cup {Current(t)}
        BY <4>2 DEF Unsettled
      <4> QED
        BY <4>1, <4>3 DEF Waiting
    <3> QED
      BY <1>2, <1>5, <3>2, <3>3 DEF WaitingFirst
  <2>2. ASSUME NEW t \in Threads, Push(t)
        PROVE  (ahead \cap Waiting)' = {}
    BY <1>2, <1>5, <2>2, PushWaiting DEF WaitingFirst
  <2>3. CASE Elsewhere
    BY <1>2, <1>5, <2>3, ElsewhereKeeps DEF WaitingFirst
  <2>4. ~Drain /\ ~Drained /\ ~TestFlag
    BY <1>5 DEF Drain, Drained, TestFlag, Goto
  <2> QED
    BY <2>1, <2>2, <2>3, <2>4, StepKinds
<1>6. CASE pc[XP] # "own" /\ ~TestFlag /\ ~Drained
  <2>1. FALSE
    BY <1>0, <1>6 DEF Next, Format, LogBody, LogNewline, PushMsg, Queue, LockToPush, Push,
       ClearFlag, Flush, LockToFlush, Drain, WriteOwn, MarkXPlaneThread, XPLogs,
       Initialize, FrameFlush, Disable, Joined, WorkerLogs, WorkerEnds, LogPrefix,
       Terminated, vars, Goto
  <2> QED
    BY <2>1
<1> QED
  BY <1>3, <1>4, <1>5, <1>6

OrderInv == NothingStranded /\ WaitingFirst /\ AheadInv /\ Delivered

LEMMA InitOrder == Init => OrderInv
<1> SUFFICES ASSUME Init PROVE OrderInv
  OBVIOUS
<1>1. \A t \in Threads : Accepted(t) = 0
  BY DEF Init, Accepted, Inside
<1>2. All = <<>>
  BY DEF Init, All
<1>3. Delivered
  BY <1>1, <1>2 DEF Delivered, Delivery, Counts
<1>4. AheadInv /\ WaitingFirst
  BY DEF Init, AheadInv, WaitingFirst
<1> QED
  BY <1>3, <1>4, InitStranded DEF OrderInv, NothingStranded

LEMMA NextOrder == TypeInv /\ OrderInv /\ [Next]_vars => OrderInv'
  BY NextStranded, NextWaitingFirst, NextAhead, NextDelivered DEF OrderInv

(* What waited when X-Plane's thread logged is written before its message.   *)
THEOREM WaitingWrittenFirst == Spec => []WaitingFirst
<1>1. OrderInv => WaitingFirst
  BY DEF OrderInv
<1> QED
  BY <1>1, InitTypeInv, NextTypeInv, InitOrder, NextOrder, PTL DEF Spec

(* Log.txt and the queue have each message once, each thread's in order.     *)
THEOREM LoggedInOrderOnce == Spec => []InOrderOnce
<1>1. TypeInv /\ OrderInv => InOrderOnce
  <2> SUFFICES ASSUME Delivered, TypeInv PROVE InOrderOnce
    BY DEF OrderInv
  <2>1. \A t \in Threads : Counts[t] = Accepted(t)
    BY DEF Counts
  <2> QED
    BY <2>1 DEF Delivered, Delivery, InOrderOnce
<1> QED
  BY <1>1, InitTypeInv, NextTypeInv, InitOrder, NextOrder, PTL DEF Spec

-----------------------------------------------------------------------------
(* While no two threads have formatted at once, each has the buffer for      *)
(* itself from LogPrefix to the copy PushMsg takes, and the copy is whole.   *)

Whole(m)     == <<Prefix, m, Newline>>
AllWhole(s)  == \A i \in 1 .. Len(s) : s[i].text = Whole(s[i].id)
Copied(t)    == \/ pc[t] \in {"lock", "push", "own"}
                \/ pc[t] \in {"test", "flushLock", "drain"} /\ sMsg[t] # <<>>

Alone    == \A t, u \in Threads : Formatting(t) /\ Formatting(u) => t = u
InBuffer == \A t \in Threads :
  /\ pc[t] = "body"    => aszMsg = <<Prefix>>
  /\ pc[t] = "newline" => aszMsg = <<Prefix, Current(t)>>
  /\ pc[t] = "copy"    => aszMsg = Whole(Current(t))
InCopy   == \A t \in Threads : Copied(t) => sMsg[t] = Whole(Current(t))
InQueue  == AllWhole(qMsgs)
InLog    == AllWhole(Log)

Intact    == Alone /\ InBuffer /\ InCopy /\ InQueue /\ InLog
IntactInv == ~raced => Intact

LEMMA WholeAppended ==
  ASSUME NEW s \in Seq(Line), NEW e \in Line, AllWhole(s), e.text = Whole(e.id)
  PROVE  AllWhole(Append(s, e))
<1>1. /\ Len(s) \in Nat /\ Len(Append(s, e)) = Len(s) + 1
      /\ Append(s, e)[Len(s) + 1] = e
      /\ \A i \in 1 .. Len(s) : Append(s, e)[i] = s[i]
  OBVIOUS
<1>2. ASSUME NEW i \in 1 .. Len(s) + 1
      PROVE  Append(s, e)[i].text = Whole(Append(s, e)[i].id)
  <2>1. CASE i \in 1 .. Len(s)
    BY <1>1, <2>1 DEF AllWhole
  <2>2. CASE i = Len(s) + 1
    BY <1>1, <2>2
  <2> QED
    BY <1>1, <2>1, <2>2
<1> QED
  BY <1>1, <1>2 DEF AllWhole

LEMMA WholeDrained ==
  ASSUME NEW s \in Seq(Line), s # <<>>, AllWhole(s)
  PROVE  AllWhole(Tail(s)) /\ Head(s) \in Line /\ Head(s).text = Whole(Head(s).id)
<1>1. /\ Len(s) \in Nat /\ Len(s) >= 1 /\ Len(Tail(s)) = Len(s) - 1 /\ Head(s) = s[1]
      /\ \A i \in 1 .. Len(s) - 1 : Tail(s)[i] = s[i + 1]
      /\ Head(s) \in Line
  OBVIOUS
<1> QED
  BY <1>1 DEF AllWhole

LEMMA AppendOne ==
  ASSUME NEW S, NEW a \in S, NEW b \in S, NEW c \in S
  PROVE  Append(<<a>>, b) = <<a, b>> /\ Append(<<a, b>>, c) = <<a, b, c>>
<1>1. ASSUME NEW s \in Seq(S), Len(s) = 2, s[1] = a, s[2] = b
      PROVE  s = <<a, b>>
  BY <1>1
<1>2. ASSUME NEW s \in Seq(S), Len(s) = 3, s[1] = a, s[2] = b, s[3] = c
      PROVE  s = <<a, b, c>>
  BY <1>2
<1>3. LET s == Append(<<a>>, b)
      IN  s \in Seq(S) /\ Len(s) = 2 /\ s[1] = a /\ s[2] = b
  OBVIOUS
<1>4. LET s == Append(<<a, b>>, c)
      IN  s \in Seq(S) /\ Len(s) = 3 /\ s[1] = a /\ s[2] = b /\ s[3] = c
  OBVIOUS
<1>5. Append(<<a>>, b) = <<a, b>>
  BY <1>1, <1>3
<1>6. Append(<<a, b>>, c) = <<a, b, c>>
  BY <1>2, <1>4
<1> QED
  BY <1>5, <1>6

\* Thread t has the buffer for itself.
LEMMA FormatIntact ==
  ASSUME TypeInv, Intact, NEW t \in Threads, Format(t)
  PROVE  Intact'
<1>1. UNCHANGED <<qMsgs, Log, calls>>
  BY DEF Format, LogBody, LogNewline, PushMsg, shared
<1>2. InQueue' /\ InLog' /\ \A u \in Threads : Current(u)' = Current(u)
  BY <1>1 DEF InQueue, InLog, Current, Intact
<1>3. /\ pc \in [Threads -> PushPCs \cup FlushPCs \cup {"none", "done"}]
      /\ sMsg \in [Threads -> Text]
  BY DEF TypeInv, TypeOK
<1>4. Formatting(t) /\ \A u \in Threads \ {t} : ~Formatting(u)
  BY DEF Format, LogBody, LogNewline, PushMsg, Goto, Formatting, Intact, Alone
<1>5. \A u \in Threads \ {t} : pc'[u] = pc[u] /\ sMsg'[u] = sMsg[u]
  BY <1>3 DEF Format, LogBody, LogNewline, PushMsg, Goto
<1>6. Alone'
  BY <1>4, <1>5 DEF Alone, Formatting
<1>7. \A u \in Threads \ {t} : Copied(u)' => sMsg'[u] = Whole(Current(u)')
  BY <1>2, <1>5 DEF Copied, InCopy, Intact
<1>8. \A u \in Threads \ {t} : pc'[u] \notin {"body", "newline", "copy"}
  BY <1>4, <1>5 DEF Formatting
<1> DEFINE Parts == Msgs \cup {Prefix, Newline}
<1>9. Prefix \in Parts /\ Newline \in Parts /\ Current(t) \in Parts
  <2>1. Inside(t)
    BY <1>4 DEF Formatting, Inside
  <2> QED
    BY <2>1, CurrentTyped
<1> HIDE DEF Parts
<1>10. CASE LogBody(t)
  <2>1. pc[t] = "body" /\ pc'[t] = "newline" /\ aszMsg' = Append(aszMsg, Current(t))
    BY <1>3, <1>10 DEF LogBody, Goto
  <2>2. aszMsg = <<Prefix>>
    BY <2>1 DEF Intact, InBuffer
  <2>3. aszMsg' = <<Prefix, Current(t)>>
    BY <1>9, <2>1, <2>2, AppendOne
  <2>4. InBuffer'
    BY <1>2, <1>8, <2>1, <2>3 DEF InBuffer
  <2>5. InCopy'
    BY <1>7, <2>1 DEF InCopy, Copied
  <2> QED
    BY <1>2, <1>6, <2>4, <2>5 DEF Intact
<1>11. CASE LogNewline(t)
  <2>1. /\ pc[t] = "newline" /\ pc'[t] = "copy"
        /\ aszMsg' = IF Last(aszMsg) = Newline THEN aszMsg ELSE Append(aszMsg, Newline)
    BY <1>3, <1>11 DEF LogNewline, Goto
  <2>2. aszMsg = <<Prefix, Current(t)>>
    BY <2>1 DEF Intact, InBuffer
  <2>3. Last(aszMsg) # Newline
    <3>1. Current(t).by # Newline.by
      BY DEF Current, Newline, Threads
    <3>2. Current(t) # Newline
      BY <3>1
    <3>3. Len(aszMsg) = 2 /\ aszMsg[2] = Current(t)
      BY <2>2
    <3> QED
      BY <3>2, <3>3 DEF Last
  <2>4. aszMsg' = Whole(Current(t))
    <3>1. aszMsg' = Append(<<Prefix, Current(t)>>, Newline)
      BY <2>1, <2>2, <2>3
    <3> QED
      BY <1>9, <3>1, AppendOne DEF Whole
  <2>5. InBuffer'
    BY <1>2, <1>8, <2>1, <2>4 DEF InBuffer
  <2>6. InCopy'
    BY <1>7, <2>1 DEF InCopy, Copied
  <2> QED
    BY <1>2, <1>6, <2>5, <2>6 DEF Intact
<1>12. CASE PushMsg(t)
  <2>1. /\ pc[t] = "copy" /\ pc'[t] \in {"test", "lock"}
        /\ sMsg'[t] = aszMsg
    BY <1>3, <1>12 DEF PushMsg, Goto
  <2>2. sMsg'[t] = Whole(Current(t))
    BY <2>1 DEF Intact, InBuffer
  <2>3. InBuffer'
    BY <1>8, <2>1 DEF InBuffer
  <2>4. InCopy'
    BY <1>2, <1>7, <2>2 DEF InCopy
  <2> QED
    BY <1>2, <1>6, <2>3, <2>4 DEF Intact
<1> QED
  BY <1>10, <1>11, <1>12 DEF Format

\* The buffer of one that formats a message is left alone by the others.
LEMMA BufferIntact ==
  ASSUME Intact, UNCHANGED aszMsg, \A u \in Threads : Current(u)' = Current(u),
         \A u \in Threads : Formatting(u)' => pc'[u] = pc[u]
  PROVE  Alone' /\ InBuffer'
<1>1. \A u \in Threads : Formatting(u)' => Formatting(u)
  BY DEF Formatting
<1>2. Alone'
  BY <1>1 DEF Intact, Alone
<1>3. InBuffer'
  BY DEF Intact, InBuffer, Formatting
<1> QED
  BY <1>2, <1>3

LEMMA QueueIntact ==
  ASSUME TypeInv, Intact, NEW t \in Threads, Queue(t)
  PROVE  Intact'
<1> USE DEF TypeInv, TypeOK, Goto, Intact
<1>1. UNCHANGED <<aszMsg, Log, calls>>
  BY DEF Queue, LockToPush, Push, ClearFlag
<1>2. InLog' /\ \A u \in Threads : Current(u)' = Current(u)
  BY <1>1 DEF InLog, Current
<1>3. Alone' /\ InBuffer'
  <2>1. \A u \in Threads : Formatting(u)' => pc'[u] = pc[u]
    BY DEF Queue, LockToPush, Push, ClearFlag, Formatting
  <2> QED
    BY <1>1, <1>2, <2>1, BufferIntact
<1>4. InCopy'
  BY <1>2 DEF Queue, LockToPush, Push, ClearFlag, InCopy, Copied
<1>5. InQueue'
  <2>1. CASE UNCHANGED qMsgs
    BY <2>1 DEF InQueue
  <2>2. CASE Push(t)
    <3> DEFINE e == [id |-> Current(t), text |-> sMsg[t]]
    <3>1. Current(t) \in Msgs /\ e \in Line
      BY <2>2, CurrentTyped DEF Push, Inside, Line
    <3>2. e.text = Whole(e.id) /\ qMsgs' = Append(qMsgs, e)
      BY <2>2 DEF Push, InCopy, Copied
    <3> HIDE DEF e
    <3> QED
      BY <3>1, <3>2, WholeAppended DEF InQueue
  <2> QED
    BY <2>1, <2>2 DEF Queue, LockToPush, ClearFlag
<1> QED
  BY <1>2, <1>3, <1>4, <1>5

LEMMA FlushIntact ==
  ASSUME TypeInv, Intact, Flush
  PROVE  Intact'
<1> USE DEF TypeInv, TypeOK, Goto, Intact
<1>1. UNCHANGED <<aszMsg, calls>> /\ XP \in Threads
  BY DEF Flush, TestFlag, LockToFlush, Drain, Drained, WriteOwn, Threads
<1>2. \A u \in Threads : Current(u)' = Current(u)
  BY <1>1 DEF Current
<1>3. Alone' /\ InBuffer'
  <2>1. \A u \in Threads : Formatting(u)' => pc'[u] = pc[u]
    BY DEF Flush, TestFlag, LockToFlush, Drain, Drained, WriteOwn, Flushed, Formatting
  <2> QED
    BY <1>1, <1>2, <2>1, BufferIntact
<1>4. InCopy'
  BY <1>1, <1>2 DEF Flush, TestFlag, LockToFlush, Drain, Drained, WriteOwn, Flushed, InCopy, Copied
<1>5. InQueue' /\ InLog'
  <2>1. CASE UNCHANGED <<qMsgs, Log>>
    BY <2>1 DEF InQueue, InLog
  <2>2. CASE Drain
    BY <2>2, WholeDrained, WholeAppended DEF Drain, InQueue, InLog
  <2>3. CASE WriteOwn
    <3> DEFINE e == [id |-> Current(XP), text |-> sMsg[XP]]
    <3>1. Current(XP) \in Msgs /\ e \in Line
      BY <1>1, <2>3, CurrentTyped DEF WriteOwn, Inside, Line
    <3>2. e.text = Whole(e.id) /\ Log' = Append(Log, e) /\ qMsgs' = qMsgs
      BY <1>1, <2>3 DEF WriteOwn, InCopy, Copied
    <3> HIDE DEF e
    <3> QED
      BY <3>1, <3>2, WholeAppended DEF InQueue, InLog
  <2> QED
    BY <2>1, <2>2, <2>3 DEF Flush, TestFlag, LockToFlush, Drained
<1> QED
  BY <1>3, <1>4, <1>5

LEMMA PrefixIntact ==
  ASSUME TypeInv, Intact, NEW t \in Threads, LogPrefix(t), ~raced'
  PROVE  Intact'
<1> USE DEF TypeInv, TypeOK, Goto, Intact
<1>1. UNCHANGED <<qMsgs, Log, sMsg>> /\ aszMsg' = <<Prefix>>
  BY DEF LogPrefix, shared
<1>2. InQueue' /\ InLog' /\ \A u \in Threads \ {t} : Current(u)' = Current(u)
  BY <1>1 DEF InQueue, InLog, LogPrefix, Current
<1>3. \A u \in Threads \ {t} : ~Formatting(u) /\ pc'[u] = pc[u]
  BY DEF LogPrefix
<1>4. pc'[t] = "body"
  BY DEF LogPrefix
<1>5. Alone' /\ InBuffer'
  BY <1>1, <1>3, <1>4 DEF Alone, InBuffer, Formatting
<1>6. InCopy'
  BY <1>1, <1>2, <1>3, <1>4 DEF InCopy, Copied
<1> QED
  BY <1>2, <1>5, <1>6

LEMMA NextIntact ==
  ASSUME TypeInv, IntactInv, [Next]_vars
  PROVE  IntactInv'
<1> SUFFICES ASSUME ~raced' PROVE Intact'
  BY DEF IntactInv
<1>0. XP \in Threads /\ \A w \in Workers : w \in Threads
  BY DEF Threads
<1>1. ~raced
  BY DEF Next, Format, LogBody, LogNewline, PushMsg, Queue, LockToPush, Push, ClearFlag,
     Flush, TestFlag, LockToFlush, Drain, Drained, WriteOwn, MarkXPlaneThread, XPLogs,
     Initialize, FrameFlush, Disable, Joined, WorkerLogs, WorkerEnds, LogPrefix,
     Terminated, vars
<1>2. Intact
  BY <1>1 DEF IntactInv
<1>3. ASSUME UNCHANGED <<aszMsg, qMsgs, Log, calls, sMsg>>,
             \A u \in Threads : Formatting(u)' => pc'[u] = pc[u],
             \A u \in Threads : Copied(u)' => Copied(u)
      PROVE  Intact'
  <2>1. \A u \in Threads : Current(u)' = Current(u)
    BY <1>3 DEF Current
  <2>2. Alone' /\ InBuffer'
    BY <1>2, <1>3, <2>1, BufferIntact
  <2>3. InCopy' /\ InQueue' /\ InLog'
    BY <1>2, <1>3, <2>1 DEF Intact, InCopy, InQueue, InLog
  <2> QED
    BY <2>2, <2>3 DEF Intact
<1>4. CASE MarkXPlaneThread \/ Disable \/ UNCHANGED vars
  BY <1>3, <1>4 DEF MarkXPlaneThread, Disable, vars, shared, Copied
<1>5. CASE Initialize
  <2>1. \A u \in Threads : pc'[u] = "idle"
    BY <1>5 DEF Initialize
  <2> QED
    BY <1>3, <1>5, <2>1 DEF Initialize, shared, Formatting, Copied
<1>6. CASE FrameFlush
  <2>1. sMsg[XP] = <<>> /\ sMsg' = sMsg
    BY <1>6 DEF FrameFlush, Goto, TypeInv, MarkedInv
  <2>2. pc' = [pc EXCEPT ![XP] = "test"] /\ pc \in [Threads -> PushPCs \cup FlushPCs \cup {"none", "done"}]
    BY <1>6 DEF FrameFlush, Goto, TypeInv, TypeOK
  <2> QED
    BY <1>0, <1>3, <1>6, <2>1, <2>2 DEF FrameFlush, shared, Formatting, Copied
<1>7. ASSUME NEW w \in Workers, WorkerEnds(w)
      PROVE  Intact'
  <2>1. pc' = [pc EXCEPT ![w] = "done"] /\ pc \in [Threads -> PushPCs \cup FlushPCs \cup {"none", "done"}]
    BY <1>7 DEF WorkerEnds, Goto, TypeInv, TypeOK
  <2> QED
    BY <1>0, <1>3, <1>7, <2>1 DEF WorkerEnds, shared, Formatting, Copied
<1> QED
  BY <1>0, <1>2, <1>4, <1>5, <1>6, <1>7, FormatIntact, QueueIntact, FlushIntact, PrefixIntact
  DEF Next, XPLogs, Joined, WorkerLogs, Terminated

(* Every line is the one message it is for, as long as no two threads have   *)
(* been in LogGetString at once.                                             *)
THEOREM LinesIntact == Spec => []IntactUnlessRaced
<1>1. Init => IntactInv
  BY DEF Init, IntactInv, Intact, Alone, InBuffer, InCopy, InQueue, InLog, AllWhole,
     Formatting, Copied
<1>2. TypeInv /\ IntactInv => IntactUnlessRaced
  <2> SUFFICES ASSUME TypeInv, InQueue, InLog, NEW i \in 1 .. Len(All)
               PROVE  All[i].text = <<Prefix, All[i].id, Newline>>
    BY DEF IntactInv, Intact, IntactUnlessRaced
  <2>1. qMsgs \in Seq(Line) /\ Log \in Seq(Line)
    BY DEF TypeInv, TypeOK
  <2>2. CASE i \in 1 .. Len(Log)
    BY <2>1, <2>2 DEF All, InLog, AllWhole, Whole
  <2>3. CASE i \notin 1 .. Len(Log)
    <3>1. i - Len(Log) \in 1 .. Len(qMsgs) /\ All[i] = qMsgs[i - Len(Log)]
      BY <2>1, <2>3 DEF All
    <3> QED
      BY <3>1 DEF InQueue, AllWhole, Whole
  <2> QED
    BY <2>2, <2>3
<1> QED
  BY <1>1, <1>2, InitTypeInv, NextTypeInv, NextIntact, PTL DEF Spec

-----------------------------------------------------------------------------
(* LogMsg as one step. *)

\* Whoever is at the queue holds the mutex, and a thread that has pushed its message
\* and not let go of the mutex finds it at the end.
MutexInv ==
  /\ \A t \in Threads : pc[t] \in {"push", "clear"} => mtxMsgs = t
  /\ pc[XP] = "drain" => mtxMsgs = XP
  /\ \A t \in Threads : pc[t] = "clear" =>
       qMsgs # <<>> /\ qMsgs[Len(qMsgs)].id = Current(t)

\* The steps that take no part in who is at the queue.
LEMMA MutexKept ==
  ASSUME MutexInv, UNCHANGED <<qMsgs, mtxMsgs>>, XP \in Threads,
         \A t \in Threads : pc'[t] \in {"push", "clear"} => pc'[t] = pc[t],
         pc'[XP] = "drain" => pc[XP] = "drain",
         \A t \in Threads : pc[t] = "clear" => calls'[t] = calls[t]
  PROVE  MutexInv'
  BY DEF MutexInv, Current

LEMMA NextMutex ==
  ASSUME TypeInv, MutexInv, [Next]_vars
  PROVE  MutexInv'
<1> USE DEF TypeInv, TypeOK, Goto
<1>0. /\ pc \in [Threads -> PushPCs \cup FlushPCs \cup {"none", "done"}] /\ XP \in Threads
      /\ Nobody \notin Threads /\ Workers \subseteq Threads
  BY DEF Threads
<1>1. ASSUME NEW t \in Threads, LogPrefix(t) \/ LogBody(t) \/ LogNewline(t) \/ PushMsg(t)
      PROVE  MutexInv'
  BY <1>0, <1>1, MutexKept DEF LogPrefix, LogBody, LogNewline, PushMsg, shared
<1>2. ASSUME NEW t \in Threads, LockToPush(t)
      PROVE  MutexInv'
  <2>1. /\ mtxMsgs' = t /\ pc'[t] = "push" /\ \A u \in Threads \ {t} : pc'[u] = pc[u]
        /\ mtxMsgs = Nobody
    BY <1>0, <1>2 DEF LockToPush, Lock
  <2>2. pc[XP] # "drain" /\ \A u \in Threads : pc[u] \notin {"push", "clear"}
    BY <1>0, <2>1 DEF MutexInv
  <2>3. \A u \in Threads : pc'[u] # "clear" /\ (pc'[u] = "push" => u = t)
    BY <2>1, <2>2
  <2>4. pc'[XP] # "drain"
    BY <1>0, <2>1, <2>2
  <2> QED
    BY <2>1, <2>3, <2>4 DEF MutexInv
<1>3. ASSUME NEW t \in Threads, Push(t)
      PROVE  MutexInv'
  <2> DEFINE e == [id |-> Current(t), text |-> sMsg[t]]
  <2>1. /\ mtxMsgs' = mtxMsgs /\ pc'[t] = "clear" /\ \A u \in Threads \ {t} : pc'[u] = pc[u]
        /\ mtxMsgs = t /\ calls' = calls /\ pc[t] = "push"
    BY <1>0, <1>3 DEF Push, MutexInv
  <2>2. \A u \in Threads \ {t} : pc'[u] \notin {"push", "clear"}
    BY <2>1 DEF MutexInv
  <2>3. qMsgs' # <<>> /\ qMsgs'[Len(qMsgs')].id = Current(t)
    <3>1. qMsgs' = Append(qMsgs, e) /\ qMsgs \in Seq(Line) /\ e.id = Current(t)
      BY <1>3 DEF Push
    <3> HIDE DEF e
    <3> QED
      BY <3>1
  <2>4. Current(t)' = Current(t)
    BY <2>1 DEF Current
  <2> QED
    BY <1>0, <2>1, <2>2, <2>3, <2>4 DEF MutexInv
<1>4. ASSUME NEW t \in Threads, ClearFlag(t)
      PROVE  MutexInv'
  <2>1. /\ pc[t] = "clear" /\ pc'[t] = "idle" /\ \A u \in Threads \ {t} : pc'[u] = pc[u]
    BY <1>0, <1>4 DEF ClearFlag
  <2>2. \A u \in Threads : pc'[u] \notin {"push", "clear"}
    BY <2>1 DEF MutexInv
  <2>3. pc'[XP] # "drain"
    BY <1>0, <2>1 DEF MutexInv
  <2> QED
    BY <2>2, <2>3 DEF MutexInv
<1>5. CASE TestFlag \/ WriteOwn
  BY <1>0, <1>5, MutexKept DEF TestFlag, WriteOwn, Flushed
<1>6. CASE LockToFlush
  <2>1. /\ mtxMsgs' = XP /\ pc'[XP] = "drain" /\ \A u \in Threads \ {XP} : pc'[u] = pc[u]
        /\ mtxMsgs = Nobody
    BY <1>0, <1>6 DEF LockToFlush, Lock
  <2>2. \A u \in Threads : pc'[u] \notin {"push", "clear"}
    BY <1>0, <2>1 DEF MutexInv
  <2> QED
    BY <2>1, <2>2 DEF MutexInv
<1>7. CASE Drain \/ Drained
  <2>1. /\ pc[XP] = "drain" /\ \A u \in Threads \ {XP} : pc'[u] = pc[u]
        /\ pc'[XP] \notin {"push", "clear"}
        /\ pc'[XP] = "drain" => mtxMsgs' = mtxMsgs
    BY <1>0, <1>7 DEF Drain, Drained, Flushed
  <2>2. mtxMsgs = XP /\ \A u \in Threads : pc'[u] \notin {"push", "clear"}
    BY <1>0, <2>1 DEF MutexInv
  <2> QED
    BY <2>1, <2>2 DEF MutexInv
<1>8. CASE MarkXPlaneThread \/ FrameFlush \/ Disable \/ UNCHANGED vars
  BY <1>0, <1>8, MutexKept DEF MarkXPlaneThread, FrameFlush, Disable, vars, shared
<1>9. CASE Initialize
  BY <1>0, <1>9, MutexKept DEF Initialize, StartedInv, shared
<1>10. ASSUME NEW w \in Workers, WorkerEnds(w)
       PROVE  MutexInv'
  BY <1>0, <1>10, MutexKept DEF WorkerEnds, shared
<1> QED
  BY <1>0, <1>1, <1>2, <1>3, <1>4, <1>5, <1>6, <1>7, <1>8, <1>9, <1>10
  DEF Next, Format, Queue, Flush, XPLogs, Joined, WorkerLogs, Terminated

LEMMA InitMutex == Init => MutexInv
<1> SUFFICES ASSUME Init PROVE MutexInv
  OBVIOUS
<1>1. XP \in Threads /\ \A t \in Threads : pc[t] \in {"idle", "none"}
  BY DEF Init, Threads
<1> QED
  BY <1>1 DEF MutexInv

LEMMA IdsTyped ==
  ASSUME NEW s \in Seq(Line)
  PROVE  /\ Ids(s) \in Seq(Msgs) /\ Len(Ids(s)) = Len(s)
         /\ \A i \in 1 .. Len(s) : Ids(s)[i] = s[i].id
<1>1. \A i \in 1 .. Len(s) : s[i].id \in Msgs
  <2>1. \A i \in 1 .. Len(s) : s[i] \in Line
    OBVIOUS
  <2> QED
    BY <2>1 DEF Line
<1>2. Len(s) \in Nat
  OBVIOUS
<1>3. Ids(s) \in [1 .. Len(s) -> Msgs]
  BY <1>1 DEF Ids
<1> QED
  BY <1>2, <1>3 DEF Ids

LEMMA IdsAppend ==
  ASSUME NEW s \in Seq(Line), NEW e \in Line
  PROVE  Ids(Append(s, e)) = Append(Ids(s), e.id)
<1> DEFINE z == Append(s, e)
           y == Append(Ids(s), e.id)
<1>1. e.id \in Msgs /\ Ids(s) \in Seq(Msgs) /\ Len(Ids(s)) = Len(s) /\ Len(s) \in Nat
      /\ \A i \in 1 .. Len(s) : Ids(s)[i] = s[i].id
  <2>1. e.id \in Msgs
    BY DEF Line
  <2> QED
    BY <2>1, IdsTyped
<1>2. /\ z \in Seq(Line) /\ Len(z) = Len(s) + 1 /\ z[Len(s) + 1] = e
      /\ \A i \in 1 .. Len(s) : z[i] = s[i]
  OBVIOUS
<1>3. /\ y \in Seq(Msgs) /\ Len(y) = Len(s) + 1 /\ y[Len(s) + 1] = e.id
      /\ \A i \in 1 .. Len(s) : y[i] = s[i].id
  BY <1>1
<1> HIDE DEF z, y
<1>4. Ids(z) \in Seq(Msgs) /\ Len(Ids(z)) = Len(z) /\ \A i \in 1 .. Len(z) : Ids(z)[i] = z[i].id
  BY <1>2, IdsTyped
<1>5. \A i \in 1 .. Len(s) + 1 : Ids(z)[i] = y[i]
  <2>1. \A i \in 1 .. Len(s) + 1 : i \in 1 .. Len(s) \/ i = Len(s) + 1
    BY <1>1
  <2> QED
    BY <1>2, <1>3, <1>4, <2>1
<1> QED
  BY <1>2, <1>3, <1>4, <1>5 DEF z, y

LEMMA ConcatOf ==
  ASSUME NEW S, NEW a \in Seq(S), NEW b \in Seq(S)
  PROVE  /\ a \o b \in Seq(S) /\ Len(a \o b) = Len(a) + Len(b)
         /\ Len(a) \in Nat /\ Len(b) \in Nat
         /\ \A i \in 1 .. Len(a) + Len(b) :
              (a \o b)[i] = IF i <= Len(a) THEN a[i] ELSE b[i - Len(a)]
  OBVIOUS

LEMMA IdsConcat ==
  ASSUME NEW s \in Seq(Line), NEW q \in Seq(Line)
  PROVE  Ids(s \o q) = Ids(s) \o Ids(q)
<1> DEFINE z == s \o q
           a == Ids(s)
           b == Ids(q)
           y == a \o b
<1>1. /\ z \in Seq(Line) /\ Len(z) = Len(s) + Len(q) /\ Len(s) \in Nat /\ Len(q) \in Nat
      /\ \A i \in 1 .. Len(z) : z[i] = IF i <= Len(s) THEN s[i] ELSE q[i - Len(s)]
  OBVIOUS
<1>2. /\ a \in Seq(Msgs) /\ Len(a) = Len(s) /\ \A i \in 1 .. Len(s) : a[i] = s[i].id
      /\ b \in Seq(Msgs) /\ Len(b) = Len(q) /\ \A i \in 1 .. Len(q) : b[i] = q[i].id
  BY IdsTyped
<1> HIDE DEF z, a, b
<1>3. /\ y \in Seq(Msgs) /\ Len(y) = Len(s) + Len(q)
      /\ \A i \in 1 .. Len(s) + Len(q) : y[i] = IF i <= Len(s) THEN a[i] ELSE b[i - Len(s)]
  <2>1. a \in Seq(Msgs) /\ b \in Seq(Msgs)
    BY <1>2
  <2>2. Len(a) = Len(s) /\ Len(b) = Len(q)
    BY <1>2
  <2>3. /\ y \in Seq(Msgs) /\ Len(y) = Len(a) + Len(b)
        /\ \A i \in 1 .. Len(a) + Len(b) :
             y[i] = IF i <= Len(a) THEN a[i] ELSE b[i - Len(a)]
    BY <2>1, ConcatOf
  <2> QED
    BY <2>2, <2>3
<1> HIDE DEF y
<1>4. Ids(z) \in Seq(Msgs) /\ Len(Ids(z)) = Len(z) /\ \A i \in 1 .. Len(z) : Ids(z)[i] = z[i].id
  BY <1>1, IdsTyped
<1>5. ASSUME NEW i \in 1 .. Len(s) + Len(q)
      PROVE  Ids(z)[i] = y[i]
  <2>1. CASE i <= Len(s)
    <3>1. i \in 1 .. Len(s) /\ i \in 1 .. Len(z)
      BY <1>1, <2>1
    <3>2. y[i] = a[i] /\ a[i] = s[i].id
      BY <1>2, <1>3, <2>1, <3>1
    <3>3. z[i] = s[i] /\ Ids(z)[i] = z[i].id
      BY <1>1, <1>4, <2>1, <3>1
    <3> QED
      BY <3>2, <3>3
  <2>2. CASE ~(i <= Len(s))
    <3>1. i - Len(s) \in 1 .. Len(q)
      BY <1>1, <2>2
    <3> QED
      BY <1>1, <1>2, <1>3, <1>4, <2>2, <3>1
  <2> QED
    BY <2>1, <2>2
<1> QED
  BY <1>1, <1>3, <1>4, <1>5 DEF z, y, a, b

LEMMA FrontOf ==
  ASSUME NEW S, NEW s \in Seq(S), s # <<>>
  PROVE  /\ Front(s) \in Seq(S) /\ s[Len(s)] \in S
         /\ s = Append(Front(s), s[Len(s)])
         /\ Len(Front(s)) = Len(s) - 1
         /\ \A i \in 1 .. Len(s) - 1 : Front(s)[i] = s[i]
<1>1. Len(s) \in Nat \ {0}
  OBVIOUS
<1>2. Len(s) - 1 \in Nat /\ Len(s) - 1 <= Len(s)
  BY <1>1
<1>3. Len(Front(s)) = Len(s) - 1
  <2>1. \A k \in Nat : k <= Len(s) => Len(SubSeq(s, 1, k)) = k
    OBVIOUS
  <2> QED
    BY <1>2, <2>1 DEF Front
<1>4. Front(s) \in Seq(S)
  BY <1>2 DEF Front
<1>5. ASSUME NEW i \in 1 .. Len(s) - 1 PROVE Front(s)[i] = s[i]
  BY <1>2, <1>5 DEF Front
<1> QED
  BY <1>1, <1>2, <1>3, <1>4, <1>5

LEMMA FrontOfAppend ==
  ASSUME NEW s \in Seq(Line), NEW e \in Line
  PROVE  Front(Append(s, e)) = s
  BY DEF Front

LEMMA AppendLast ==
  ASSUME NEW S, NEW a \in Seq(S), NEW b \in Seq(S), NEW c \in S
  PROVE  a \o Append(b, c) = Append(a \o b, c)
  OBVIOUS

LEMMA OrderTyped ==
  ASSUME TypeInv, MutexInv
  PROVE  /\ Ids(Log) \in Seq(Msgs) /\ Own \in Seq(Msgs) /\ Ids(Announced) \in Seq(Msgs)
         /\ Announced \in Seq(Line)
<1>1. XP \in Threads /\ Log \in Seq(Line) /\ qMsgs \in Seq(Line)
  BY DEF TypeInv, TypeOK, Threads
<1>2. Own \in Seq(Msgs)
  <2>1. CASE pc[XP] = "own"
    <3>1. Current(XP) \in Msgs
      BY <1>1, <2>1, CurrentTyped DEF Inside
    <3> QED
      BY <2>1, <3>1 DEF Own
  <2> QED
    BY <2>1 DEF Own
<1>3. Announced \in Seq(Line)
  <2>1. CASE \E t \in Threads : pc[t] = "clear"
    BY <1>1, <2>1, FrontOf DEF Announced, MutexInv
  <2> QED
    BY <1>1, <2>1 DEF Announced
<1> QED
  BY <1>1, <1>2, <1>3, IdsTyped

\* The steps of which the order knows nothing.
LEMMA OrderKept ==
  ASSUME UNCHANGED <<Log, qMsgs>>,
         (pc'[XP] = "own") = (pc[XP] = "own"), pc[XP] = "own" => calls'[XP] = calls[XP],
         \A t \in Threads : (pc'[t] = "clear") = (pc[t] = "clear")
  PROVE  Order' = Order
<1>1. Announced' = Announced
  BY DEF Announced
<1>2. Own' = Own
  BY DEF Own, Current
<1>3. Ids(Log)' = Ids(Log) /\ Ids(Announced)' = Ids(Announced)
  BY <1>1 DEF Ids
<1> QED
  BY <1>2, <1>3 DEF Order

\* A thread that lets go of the mutex.
LEMMA ClearTakesEffect ==
  ASSUME TypeInv, MutexInv, NEW t \in Threads, ClearFlag(t)
  PROVE  Order' = Append(Order, Current(t))
<1>1. /\ pc[t] = "clear" /\ pc' = [pc EXCEPT ![t] = "idle"] /\ XP \in Threads
      /\ UNCHANGED <<Log, qMsgs, calls>>
      /\ pc \in [Threads -> PushPCs \cup FlushPCs \cup {"none", "done"}]
  BY DEF ClearFlag, Goto, TypeInv, TypeOK, Threads
<1>2. qMsgs \in Seq(Line) /\ qMsgs # <<>> /\ qMsgs[Len(qMsgs)].id = Current(t)
  BY <1>1 DEF TypeInv, TypeOK, MutexInv
<1>3. Announced = Front(qMsgs) /\ Announced' = qMsgs
  <2>1. \A u \in Threads : pc[u] = "clear" => u = t
    BY <1>1 DEF MutexInv
  <2>2. \A u \in Threads : pc'[u] # "clear"
    BY <1>1, <2>1
  <2> QED
    BY <1>1, <2>2 DEF Announced
<1>4. Own' = Own
  BY <1>1 DEF Own, Current
<1>5. Ids(Announced)' = Append(Ids(Announced), Current(t))
  <2> DEFINE f == Front(qMsgs)
             e == qMsgs[Len(qMsgs)]
  <2>1. f \in Seq(Line) /\ e \in Line /\ qMsgs = Append(f, e) /\ e.id = Current(t)
    BY <1>2, FrontOf
  <2>2. Ids(Announced)' = Ids(qMsgs) /\ Ids(Announced) = Ids(f)
    BY <1>3 DEF Ids
  <2> HIDE DEF f, e
  <2> QED
    BY <2>1, <2>2, IdsAppend
<1>6. Ids(Log)' = Ids(Log) /\ Current(t) \in Msgs
  <2>1. calls[t] \in 1 .. MaxMsgs
    BY <1>1 DEF TypeInv, TypeOK, CalledInv
  <2> QED
    BY <1>1, <2>1 DEF Ids, Current, Msgs
<1>7. Ids(Log) \o Own \in Seq(Msgs)
  BY OrderTyped
<1> QED
  BY <1>4, <1>5, <1>6, <1>7, AppendLast, OrderTyped DEF Order

\* When FlushMsgs finds nothing more.
LEMMA NothingAnnounced ==
  ASSUME TypeInv, MutexInv, OrderInv, Drained \/ (TestFlag /\ fMsgsEmpty)
  PROVE  Announced = <<>> /\ Announced' = <<>>
<1>0. /\ qMsgs \in Seq(Line) /\ UNCHANGED qMsgs
      /\ \A t \in Threads : (pc'[t] = "clear") = (pc[t] = "clear")
  BY DEF Drained, TestFlag, Goto, Flushed, TypeInv, TypeOK
<1>1. Announced' = Announced
  BY <1>0 DEF Announced
<1>2. CASE Drained
  <2>1. qMsgs = <<>>
    BY <1>2 DEF Drained
  <2>2. \A t \in Threads : pc[t] # "clear"
    BY <2>1 DEF MutexInv
  <2> QED
    BY <1>1, <2>1, <2>2 DEF Announced
<1>3. CASE TestFlag /\ fMsgsEmpty
  <2>1. Waiting = {}
    BY <1>3 DEF TestFlag, Goto, OrderInv, NothingStranded
  <2>2. CASE \A t \in Threads : pc[t] # "clear"
    <3>1. Unsettled = {}
      BY <2>2 DEF Unsettled
    <3>2. \A i \in 1 .. Len(qMsgs) : FALSE
      BY <2>1, <3>1 DEF Waiting, Queued
    <3>3. qMsgs = <<>>
      BY <1>0, <3>2
    <3> QED
      BY <1>1, <2>2, <3>3 DEF Announced
  <2>3. ASSUME NEW t \in Threads, pc[t] = "clear"
        PROVE  Announced = <<>>
    <3>1. qMsgs # <<>> /\ qMsgs[Len(qMsgs)].id = Current(t)
      BY <2>3 DEF MutexInv
    <3>2. Unsettled = {Current(t)}
      BY <2>3 DEF Unsettled, MutexInv
    <3>3. qMsgs[1].id \in Queued
      BY <1>0, <3>1 DEF Queued
    <3>4. qMsgs[1].id = qMsgs[Len(qMsgs)].id
      BY <2>1, <3>1, <3>2, <3>3 DEF Waiting
    <3>5. Len(qMsgs) = 1
      <4>1. Len(qMsgs) \in Nat \ {0}
        BY <1>0, <3>1
      <4>2. Log \in Seq(Line) /\ Len(Log) \in Nat
        BY DEF TypeInv, TypeOK
      <4> DEFINE i == Len(Log) + 1
                 j == Len(Log) + Len(qMsgs)
      <4>3. /\ Len(All) = Len(Log) + Len(qMsgs) /\ i \in 1 .. Len(All) /\ j \in 1 .. Len(All)
            /\ All[i] = qMsgs[1] /\ All[j] = qMsgs[Len(qMsgs)]
        BY <1>0, <4>1, <4>2 DEF All
      <4>4. calls[t] \in Nat /\ All[i].id.n = calls[t] /\ All[j].id = All[i].id
        BY <2>3, <3>1, <3>4, <4>3 DEF Current, TypeInv, TypeOK
      <4>5. ~(i < j)
        BY <4>3, <4>4 DEF OrderInv, Delivered, Delivery
      <4>6. \A m, n \in Nat : n # 0 /\ ~(m + 1 < m + n) => n = 1
        OBVIOUS
      <4> QED
        BY <4>1, <4>2, <4>5, <4>6
    <3>6. Front(qMsgs) \in Seq(Line) /\ Len(Front(qMsgs)) = 0
      BY <1>0, <3>1, <3>5, FrontOf
    <3> QED
      BY <2>3, <3>6 DEF Announced
  <2> QED
    BY <1>1, <2>2, <2>3
<1> QED
  BY <1>2, <1>3

IsOpen(t) ==
  \/ pc[t] \in {"body", "newline", "copy", "lock", "push", "clear"}
  \/ pc[t] \in {"test", "flushLock", "drain"} /\ sMsg[t] # <<>>

LEMMA OpenKept ==
  ASSUME \A t \in Threads : IsOpen(t)' = IsOpen(t)
  PROVE  Open' = Open
<1>1. \A t \in Threads : t \in Open' <=> t \in Open
  BY DEF Open, IsOpen
<1>2. Open \subseteq Threads /\ Open' \subseteq Threads
  BY DEF Open
<1> QED
  BY <1>1, <1>2

LEMMA OpenLess ==
  ASSUME NEW t \in Threads, IsOpen(t), ~IsOpen(t)',
         \A u \in Threads \ {t} : IsOpen(u)' = IsOpen(u)
  PROVE  t \in Open /\ Open' = Open \ {t}
<1>1. \A u \in Threads : u \in Open' <=> u \in Open /\ u # t
  BY DEF Open, IsOpen
<1>2. Open \subseteq Threads /\ Open' \subseteq Threads
  BY DEF Open
<1>3. t \in Open
  BY DEF Open, IsOpen
<1> QED
  BY <1>1, <1>2, <1>3

LEMMA OpenMore ==
  ASSUME NEW t \in Threads, ~IsOpen(t), IsOpen(t)',
         \A u \in Threads \ {t} : IsOpen(u)' = IsOpen(u)
  PROVE  t \notin Open /\ Open' = Open \cup {t}
<1>1. \A u \in Threads : u \in Open' <=> u \in Open \/ u = t
  BY DEF Open, IsOpen
<1>2. Open \subseteq Threads /\ Open' \subseteq Threads
  BY DEF Open
<1>3. t \notin Open
  BY DEF Open, IsOpen
<1> QED
  BY <1>1, <1>2, <1>3

\* Steps of a thread on its way, of which the contract knows nothing.
LEMMA QuietStep ==
  ASSUME TypeInv,
         \/ \E t \in Threads : LogBody(t) \/ LogNewline(t) \/ PushMsg(t) \/ LockToPush(t)
         \/ LockToFlush \/ MarkXPlaneThread \/ Initialize \/ FrameFlush \/ Disable
         \/ (\E w \in Workers : WorkerEnds(w))
         \/ UNCHANGED vars
  PROVE  UNCHANGED <<calls, Open, Order, Log>>
<1> USE DEF TypeInv, TypeOK, Goto, shared, IsOpen
<1>0. /\ pc \in [Threads -> PushPCs \cup FlushPCs \cup {"none", "done"}] /\ XP \in Threads
      /\ Workers \subseteq Threads
  BY DEF Threads
<1>1. ASSUME NEW t \in Threads, LogBody(t) \/ LogNewline(t) \/ LockToPush(t)
      PROVE  UNCHANGED <<calls, Open, Order, Log>>
  BY <1>0, <1>1, OpenKept, OrderKept DEF LogBody, LogNewline, LockToPush
<1>2. ASSUME NEW t \in Threads, PushMsg(t)
      PROVE  UNCHANGED <<calls, Open, Order, Log>>
  BY <1>0, <1>2, OpenKept, OrderKept DEF PushMsg, BufferInv, Formatting
<1>3. CASE LockToFlush
  BY <1>0, <1>3, OpenKept, OrderKept DEF LockToFlush
<1>4. CASE MarkXPlaneThread \/ Disable \/ UNCHANGED vars
  BY <1>0, <1>4, OpenKept, OrderKept DEF MarkXPlaneThread, Disable, vars
<1>5. CASE FrameFlush
  BY <1>0, <1>5, OpenKept, OrderKept DEF FrameFlush, MarkedInv
<1>6. CASE Initialize
  <2>1. \A t \in Threads : pc[t] \in {"idle", "none"} /\ pc'[t] = "idle"
    BY <1>0, <1>6 DEF Initialize, StartedInv, Threads
  <2>2. UNCHANGED <<calls, Log, qMsgs>>
    BY <1>6 DEF Initialize
  <2>3. Open' = Open
    BY <2>1, OpenKept
  <2> QED
    BY <1>0, <2>1, <2>2, <2>3, OrderKept
<1>7. ASSUME NEW w \in Workers, WorkerEnds(w)
      PROVE  UNCHANGED <<calls, Open, Order, Log>>
  BY <1>0, <1>7, OpenKept, OrderKept DEF WorkerEnds
<1> QED
  BY <1>1, <1>2, <1>3, <1>4, <1>5, <1>6, <1>7

\* A pushed message has no effect before its thread lets go of the mutex.
LEMMA PushStep ==
  ASSUME TypeInv, MutexInv, NEW t \in Threads, Push(t)
  PROVE  UNCHANGED <<calls, Open, Order, Log>>
<1> DEFINE e == [id |-> Current(t), text |-> sMsg[t]]
<1>1. /\ pc[t] = "push" /\ pc' = [pc EXCEPT ![t] = "clear"] /\ XP \in Threads
      /\ UNCHANGED <<Log, calls, sMsg>> /\ qMsgs' = Append(qMsgs, e)
      /\ pc \in [Threads -> PushPCs \cup FlushPCs \cup {"none", "done"}]
      /\ qMsgs \in Seq(Line) /\ sMsg \in [Threads -> Text]
  BY DEF Push, Goto, TypeInv, TypeOK, Threads
<1>2. e \in Line
  BY <1>1, CurrentTyped DEF Line, Inside
<1> HIDE DEF e
<1>3. Open' = Open
  BY <1>1, OpenKept DEF IsOpen
<1>4. Announced' = Announced
  <2>1. \A u \in Threads : pc[u] # "clear"
    BY <1>1 DEF MutexInv
  <2>2. Announced = qMsgs /\ Announced' = Front(Append(qMsgs, e))
    BY <1>1, <2>1 DEF Announced
  <2> QED
    BY <1>1, <1>2, <2>2, FrontOfAppend
<1>5. Own' = Own
  BY <1>1 DEF Own, Current
<1>6. Order' = Order
  BY <1>1, <1>4, <1>5 DEF Order, Ids
<1> QED
  BY <1>1, <1>3, <1>6

LEMMA CallStep ==
  ASSUME TypeInv, NEW t \in Threads, LogPrefix(t)
  PROVE  Atomic!Call(t)
<1> USE DEF TypeInv, TypeOK, Goto, shared, LogPrefix
<1>1. /\ pc \in [Threads -> PushPCs \cup FlushPCs \cup {"none", "done"}] /\ XP \in Threads
  BY DEF Threads
<1>2. t \notin Open /\ Open' = Open \cup {t}
  BY <1>1, OpenMore DEF IsOpen
<1>3. Order' = Order
  BY <1>1, OrderKept
<1> QED
  BY <1>2, <1>3 DEF Atomic!Call

LEMMA ClearStep ==
  ASSUME TypeInv, MutexInv, NEW t \in Threads, ClearFlag(t)
  PROVE  Atomic!TakeEffect(t)
<1>1. /\ pc \in [Threads -> PushPCs \cup FlushPCs \cup {"none", "done"}]
      /\ pc[t] = "clear" /\ pc' = [pc EXCEPT ![t] = "idle"]
      /\ sMsg \in [Threads -> Text] /\ sMsg' = [sMsg EXCEPT ![t] = <<>>]
      /\ UNCHANGED <<calls, Log>>
  BY DEF ClearFlag, Goto, TypeInv, TypeOK
<1>2. t \in Open /\ Open' = Open \ {t}
  BY <1>1, OpenLess DEF IsOpen
<1>3. Order' = Append(Order, [by |-> t, n |-> calls[t]])
  BY ClearTakesEffect DEF Current
<1> QED
  BY <1>1, <1>2, <1>3 DEF Atomic!TakeEffect

\* FlushMsgs writes the next line of the queue.
LEMMA DrainStep ==
  ASSUME TypeInv, MutexInv, Drain
  PROVE  Atomic!Write
<1>1. /\ pc[XP] = "drain" /\ UNCHANGED <<pc, sMsg, calls>> /\ XP \in Threads
      /\ qMsgs \in Seq(Line) /\ Log \in Seq(Line) /\ qMsgs # <<>>
      /\ Log' = Append(Log, Head(qMsgs)) /\ qMsgs' = Tail(qMsgs)
  BY DEF Drain, TypeInv, TypeOK, Threads
<1>2. Log' \in Seq(Line) /\ qMsgs' \in Seq(Line) /\ Len(Log') = Len(Log) + 1
  BY <1>1
<1>3. Announced = qMsgs /\ Announced' = qMsgs'
  BY <1>1 DEF Announced, MutexInv
<1>4. Own = <<>> /\ Own' = <<>>
  BY <1>1 DEF Own
<1>5. Order = Ids(All) /\ Order' = Ids(All')
  <2>1. Order = Ids(Log) \o <<>> \o Ids(qMsgs) /\ Order' = Ids(Log') \o <<>> \o Ids(qMsgs')
    BY <1>3, <1>4 DEF Order, Ids
  <2>2. Ids(Log) \in Seq(Msgs) /\ Ids(Log') \in Seq(Msgs)
    BY <1>1, <1>2, IdsTyped
  <2>3. Ids(Log) \o <<>> = Ids(Log) /\ Ids(Log') \o <<>> = Ids(Log')
    BY <2>2
  <2> QED
    BY <1>1, <1>2, <2>1, <2>3, IdsConcat DEF All
<1>6. Len(Log) < Len(Order)
  <2>1. All \in Seq(Line) /\ Len(Log) < Len(All)
    BY <1>1 DEF All
  <2> QED
    BY <1>5, <2>1, IdsTyped
<1>7. Open' = Open
  BY <1>1, OpenKept DEF IsOpen
<1> QED
  BY <1>1, <1>2, <1>5, <1>6, <1>7, DrainAll DEF Atomic!Write

\* X-Plane's thread writes its own line, which has taken effect.
LEMMA OwnStep ==
  ASSUME TypeInv, MutexInv, WriteOwn
  PROVE  Atomic!Write
<1> DEFINE e == [id |-> Current(XP), text |-> sMsg[XP]]
           a == Ids(Announced)
<1>1. /\ pc[XP] = "own" /\ pc' = [pc EXCEPT ![XP] = "idle"]
      /\ pc \in [Threads -> PushPCs \cup FlushPCs \cup {"none", "done"}]
      /\ sMsg' = [sMsg EXCEPT ![XP] = <<>>] /\ sMsg \in [Threads -> Text]
      /\ UNCHANGED <<qMsgs, calls>> /\ XP \in Threads
      /\ Log \in Seq(Line) /\ Log' = Append(Log, e)
  BY DEF WriteOwn, Goto, TypeInv, TypeOK, Threads
<1>2. e \in Line /\ e.id = Current(XP) /\ Current(XP) \in Msgs
  BY <1>1, CurrentTyped DEF Line, Inside
<1>3. a' = a
  BY <1>1 DEF Announced, Ids
<1>4. Own = <<Current(XP)>> /\ Own' = <<>>
  BY <1>1 DEF Own
<1>5. a \in Seq(Msgs) /\ Ids(Log) \in Seq(Msgs) /\ Len(Ids(Log)) = Len(Log)
  BY <1>1, OrderTyped, IdsTyped
<1> HIDE DEF e, a
<1>6. Ids(Log') = Append(Ids(Log), Current(XP))
  BY <1>1, <1>2, IdsAppend
<1>7. /\ Order = Ids(Log) \o <<Current(XP)>> \o a
      /\ Order' = Ids(Log') \o <<>> \o a
  BY <1>3, <1>4 DEF Order, Ids, a
<1>8. Order' = Order
  BY <1>2, <1>5, <1>6, <1>7
<1>9. Len(Log) < Len(Order)
  BY <1>2, <1>5, <1>7
<1>10. Len(Log') = Len(Log) + 1
  BY <1>1, <1>2
<1>11. Open' = Open
  BY <1>1, OpenKept DEF IsOpen
<1> QED
  BY <1>1, <1>8, <1>9, <1>10, <1>11 DEF Atomic!Write

\* FlushMsgs is over: what X-Plane's thread came with, if anything, is next.
LEMMA FlushedStep ==
  ASSUME TypeInv, MutexInv, OrderInv, Drained \/ TestFlag
  PROVE  UNCHANGED <<calls, Open, Order, Log>> \/ Atomic!TakeEffect(XP)
<1>1. /\ pc \in [Threads -> PushPCs \cup FlushPCs \cup {"none", "done"}] /\ XP \in Threads
      /\ UNCHANGED <<qMsgs, Log, calls, sMsg>> /\ pc[XP] \in {"test", "drain"}
      /\ \A t \in Threads \ {XP} : pc'[t] = pc[t]
  BY DEF Drained, TestFlag, Goto, TypeInv, TypeOK, Threads
<1>2. CASE pc'[XP] = "own"
  <2>1. sMsg[XP] # <<>> /\ (Drained \/ (TestFlag /\ fMsgsEmpty))
    BY <1>1, <1>2 DEF Drained, TestFlag, Goto, Flushed
  <2>2. XP \in Open /\ Open' = Open \ {XP}
    BY <1>1, <1>2, <2>1, OpenLess DEF IsOpen
  <2>3. Own = <<>> /\ Own' = <<Current(XP)>>
    BY <1>1, <1>2 DEF Own, Current
  <2>4. Ids(Announced) = <<>> /\ Ids(Announced)' = <<>>
    BY <2>1, NothingAnnounced DEF Ids
  <2>5. Ids(Log)' = Ids(Log) /\ Ids(Log) \in Seq(Msgs)
    BY <1>1, OrderTyped DEF Ids
  <2>6. Current(XP) \in Msgs
    BY <1>1, <2>1, CurrentTyped DEF Inside
  <2>7. Order = Ids(Log) \o <<>> \o <<>> /\ Order' = Ids(Log) \o <<Current(XP)>> \o <<>>
    BY <2>3, <2>4, <2>5 DEF Order
  <2>8. Order' = Append(Order, Current(XP))
    BY <2>5, <2>6, <2>7
  <2> QED
    BY <1>1, <2>2, <2>8 DEF Atomic!TakeEffect, Current
<1>3. CASE pc'[XP] # "own"
  <2>1. IsOpen(XP)' = IsOpen(XP)
    BY <1>1, <1>3 DEF Drained, TestFlag, Goto, Flushed, IsOpen
  <2>2. Open' = Open
    BY <1>1, <2>1, OpenKept DEF IsOpen
  <2>3. pc'[XP] # "clear" /\ pc[XP] # "own" /\ pc[XP] # "clear"
    BY <1>1 DEF Drained, TestFlag, Goto, Flushed
  <2>4. Order' = Order
    BY <1>1, <1>3, <2>3, OrderKept
  <2> QED
    BY <1>1, <2>2, <2>4
<1> QED
  BY <1>2, <1>3

LEMMA AtomicInit == Init => Atomic!Init
<1> SUFFICES ASSUME Init PROVE Atomic!Init
  OBVIOUS
<1>1. /\ Log = <<>> /\ qMsgs = <<>> /\ calls = [t \in Threads |-> 0] /\ XP \in Threads
      /\ \A t \in Threads : pc[t] \in {"idle", "none"}
  BY DEF Init, Threads
<1>2. Open = {}
  BY <1>1 DEF Open
<1>3. Announced = <<>> /\ Own = <<>>
  BY <1>1 DEF Announced, Own
<1>4. Ids(<<>>) = <<>>
  BY DEF Ids
<1> QED
  BY <1>1, <1>2, <1>3, <1>4 DEF Atomic!Init, Order

LEMMA AtomicNext ==
  ASSUME TypeInv, OrderInv, MutexInv, [Next]_vars
  PROVE  [Atomic!Next]_(Atomic!vars)
<1>0. XP \in Threads /\ Workers \subseteq Threads
  BY DEF Threads
<1>1. ASSUME UNCHANGED <<calls, Open, Order, Log>>
      PROVE  UNCHANGED Atomic!vars
  BY <1>1 DEF Atomic!vars
<1>2. \/ \E t \in Threads : LogBody(t) \/ LogNewline(t) \/ PushMsg(t) \/ LockToPush(t)
      \/ LockToFlush \/ MarkXPlaneThread \/ Initialize \/ FrameFlush \/ Disable
      \/ (\E w \in Workers : WorkerEnds(w))
      \/ UNCHANGED vars
      \/ \E t \in Threads : Push(t) \/ LogPrefix(t) \/ ClearFlag(t)
      \/ Drain \/ WriteOwn \/ Drained \/ TestFlag
  BY <1>0 DEF Next, Format, Queue, Flush, XPLogs, Joined, WorkerLogs, Terminated
<1> QED
  BY <1>0, <1>1, <1>2, QuietStep, PushStep, CallStep, ClearStep, DrainStep, OwnStep, FlushedStep
  DEF Atomic!Next

(* LogMsg is atomic: for any number of threads and messages, Log.txt has the *)
(* messages in an order in which each took effect between the call of LogMsg *)
(* and its return.                                                           *)
THEOREM LogIsAtomic == Spec => ImplementsLog
<1>1. TypeInv /\ OrderInv /\ MutexInv /\ [Next]_vars => [Atomic!Next]_(Atomic!vars)
  BY AtomicNext
<1> QED
  BY <1>1, AtomicInit, InitTypeInv, NextTypeInv, InitOrder, NextOrder, InitMutex, NextMutex, PTL
  DEF Spec, ImplementsLog, Atomic!Spec
=============================================================================
