---------------------------- MODULE PluginProofs ----------------------------
(***************************************************************************)
(* Proofs about the plugin's life, menu and settings, for any number of    *)
(* enablings, any settings a client may send and any length of the queue.  *)
(***************************************************************************)
EXTENDS Plugin, FiniteSetTheorems, TLAPS

USE AddressesAssumption, SentAssumption, BoundsAssumption

-----------------------------------------------------------------------------
(* Types. *)

LEMMA Chosen ==
  ASSUME NEW c \in Settings
  PROVE  Names(c) \in Settings /\ Enacted(c) \in [on : BOOLEAN, miles : Nat, cutoff : BOOLEAN]
<1>1. /\ c.show \in BOOLEAN /\ c.cutoff \in BOOLEAN
      /\ c.type \in Nat /\ c.colour \in Nat /\ c.range \in Nat
  BY DEF Settings
<1>2. \A value \in Nat, values \in SUBSET Nat : Name(value, values) \in Nat
  BY DEF Name
<1>3. Names(c) \in Settings
  BY <1>1, <1>2 DEF Names, Settings, Name
<1>4. RangeValue(c.range) \in Nat
  BY DEF RangeValue
<1> QED
  BY <1>1, <1>3, <1>4 DEF Enacted

\* The settings each command makes of the present ones.
Choices ==
  {[config EXCEPT !.show = ~@], [config EXCEPT !.show = TypeNext(config.type) # 0],
   [config EXCEPT !.colour = ColourNext(@)], [config EXCEPT !.range = RangeNext(@)],
   [config EXCEPT !.cutoff = ~@]}

LEMMA ChoicesTyped == config \in Settings => Choices \subseteq Settings
<1> SUFFICES ASSUME config \in Settings PROVE Choices \subseteq Settings
  OBVIOUS
<1>1. ColourNext(config.colour) \in Nat /\ RangeNext(config.range) \in Nat
  BY DEF Settings, ColourNext, RangeNext
<1> QED
  BY <1>1 DEF Choices, Settings

LEMMA PressIsChoose ==
  ASSUME Press
  PROVE  \E u \in Addresses : \E c \in Choices : Pressed(u) /\ Choose(c, u)
  BY DEF Press, PressShow, PressType, PressColour, PressRange, PressCutoff, Choices

\* What happens to the session outside X-Plane's thread.
SocketStep ==
  \/ Publish \/ QueueOpen \/ \E packet \in Packets : Receive(packet)
  \/ Retire \/ QueueCleanup \/ Throw \/ WorkerEnds \/ ClientLeaves

LEMMA SocketStepKeeps ==
  ASSUME SocketStep
  PROVE  UNCHANGED <<life, chosen, batch, mapPlanes, menuEnabled, presses, dangling>>
  BY DEF SocketStep, Publish, QueueOpen, Receive, Retire, QueueCleanup, Throw,
     WorkerEnds, ClientLeaves, NotWorker

LEMMA InitTypeOK == Init => TypeOK
<1> SUFFICES ASSUME Init PROVE TypeOK
  OBVIOUS
<1>1. Default \in Settings
  BY DEF Default, Settings
<1>2. <<>> \in Seq(Notices \cup Packets)
  OBVIOUS
<1>3. /\ phase \in {"stopped", "disabled", "enabled"}
      /\ environment \in Addresses \cup {None}
      /\ serving \in {"ended", "accepting", "opening", "polling", "leaving"}
      /\ enables \in 0 .. MaxEnables /\ presses \in 0 .. MaxPresses
      /\ registered \subseteq [callback : Callbacks, refcon : Addresses]
      /\ dangling \subseteq Callbacks
  BY DEF Init
<1>4. /\ config \in Settings /\ told = None /\ menu = None /\ labels = None
      /\ queued = <<>> /\ batch = <<>>
  BY <1>1 DEF Init
<1>5. /\ mapPlanes \in BOOLEAN /\ menuEnabled \in BOOLEAN /\ connected \in BOOLEAN
      /\ started \in BOOLEAN /\ gone \in BOOLEAN /\ loaded \in BOOLEAN /\ lost \in BOOLEAN
  BY DEF Init
<1> QED
  BY <1>2, <1>3, <1>4, <1>5 DEF TypeOK

LEMMA NextTypeOK == TypeOK /\ [Next]_vars => TypeOK'
<1> SUFFICES ASSUME TypeOK, [Next]_vars PROVE TypeOK'
  OBVIOUS
<1> USE DEF TypeOK, life, chosen, session
<1>0. <<>> \in Seq(Notices \cup Packets)
  OBVIOUS
<1>1. CASE UNCHANGED vars
  BY <1>1 DEF vars
<1>2. ASSUME NEW u \in Addresses, NEW c \in Choices, Pressed(u), Choose(c, u)
      PROVE  TypeOK'
  <2>1. c \in Settings
    BY ChoicesTyped
  <2>2. menu' \in Settings /\ labels' \in [on : BOOLEAN, miles : Nat, cutoff : BOOLEAN]
    BY <1>2, <2>1, Chosen DEF Choose, SaveConfig
  <2>3. config' = c /\ told' \in Settings \cup {None} /\ loaded' = FALSE
    BY <1>2, <2>1 DEF Choose, SaveConfig
  <2>4. dangling' \subseteq Callbacks
    BY <1>2 DEF Choose, Use, Callbacks
  <2>5. presses' \in 0 .. MaxPresses
    BY <1>2 DEF Choose, Pressed
  <2> QED
    BY <1>2, <2>1, <2>2, <2>3, <2>4, <2>5 DEF Choose
<1>3. CASE MenuHandler
  <2>1. menu' \in Settings
    BY <1>3, Chosen DEF MenuHandler
  <2> QED
    BY <1>3, <2>1 DEF MenuHandler
<1>4. CASE XPluginStart \/ XPluginStop
  BY <1>4 DEF XPluginStart, XPluginStop
<1>5. CASE XPluginEnable
  <2>1. registered' \subseteq [callback : Callbacks, refcon : Addresses]
    BY <1>5 DEF XPluginEnable, Registered, Callbacks, Loops
  <2>2. environment' \in Addresses /\ enables' \in 0 .. MaxEnables
    BY <1>5 DEF XPluginEnable
  <2>3. phase' = "enabled" /\ started' = FALSE
    BY <1>5 DEF XPluginEnable
  <2>4. UNCHANGED <<chosen, session, mapPlanes, menuEnabled, presses, dangling>>
    BY <1>5 DEF XPluginEnable
  <2>5. /\ phase' \in {"stopped", "disabled", "enabled"} /\ environment' \in Addresses \cup {None}
        /\ started' \in BOOLEAN
    BY <2>2, <2>3
  <2> QED
    BY ZenonT(30), <2>1, <2>2, <2>4, <2>5
<1>6. CASE DeferredStartup
  <2>1. environment \in Addresses
    BY <1>6 DEF DeferredStartup
  <2>2. registered' \subseteq [callback : Callbacks, refcon : Addresses]
    BY <1>6, <2>1 DEF DeferredStartup, Registered, Callbacks, Loops
  <2> QED
    BY <1>6, <2>1, <2>2 DEF DeferredStartup
<1>7. ASSUME RemovePlanes \/ Notify
      PROVE  dangling' \subseteq Callbacks
  BY <1>7 DEF RemovePlanes, Notify, Callbacks
<1>8. CASE XPluginDisable
  <2>1. registered' \subseteq registered
    BY <1>8 DEF XPluginDisable, Unregister
  <2>2. mapPlanes' = FALSE
    BY <1>8 DEF XPluginDisable, RemovePlanes
  <2> QED
    BY <1>0, <1>7, <1>8, <2>1, <2>2 DEF XPluginDisable
<1>9. ASSUME NEW item \in Notices \cup Packets, Queue(item)
      PROVE  queued' \in Seq(Notices \cup Packets)
  BY <1>9 DEF Queue
<1>91. CASE SocketStep
  <2>1. queued' \in Seq(Notices \cup Packets)
    BY <1>9, <1>91 DEF SocketStep, Publish, QueueOpen, Receive, Retire, QueueCleanup, Throw,
       WorkerEnds, ClientLeaves, Notices
  <2>2. UNCHANGED NotWorker
    BY <1>91 DEF SocketStep, Publish, QueueOpen, Receive, Retire, QueueCleanup, Throw,
       WorkerEnds, ClientLeaves, NotWorker
  <2>3. serving' \in {"ended", "accepting", "opening", "polling", "leaving"}
    BY <1>91 DEF SocketStep, Publish, QueueOpen, Receive, Retire, QueueCleanup, Throw,
       WorkerEnds, ClientLeaves, Worker
  <2>4. /\ connected' \in BOOLEAN /\ gone' \in BOOLEAN /\ lost' \in BOOLEAN
        /\ told' \in Settings \cup {None}
    BY <1>91 DEF SocketStep, Publish, QueueOpen, Receive, Retire, QueueCleanup, Throw,
       WorkerEnds, ClientLeaves, Worker, Served
  <2> QED
    BY <2>1, <2>2, <2>3, <2>4 DEF NotWorker
<1>10. CASE MainFlightLoop
  BY <1>10 DEF MainFlightLoop
<1>11. ASSUME NEW kind, Run(kind)
       PROVE  /\ batch' \in Seq(Notices \cup Packets)
              /\ kind = "settings" => Head(batch).settings \in Settings
  <2>1. batch' \in Seq(Notices \cup Packets)
    BY <1>11 DEF Run
  <2>2. Head(batch) \in Notices \cup Packets
    BY <1>11 DEF Run
  <2>3. \A i \in Notices \cup Packets : i.kind = "settings" => i.settings \in Sent
    <3>1. \A i \in Notices : i.kind # "settings"
      BY DEF Notices, Item
    <3>2. \A i \in Packets : i.kind = "settings" => i.settings \in Sent
      BY DEF Packets, Item
    <3> QED
      BY <3>1, <3>2
  <2> QED
    BY <1>11, <2>1, <2>2, <2>3 DEF Run
<1>111. ASSUME NEW kind, Run(kind)
       PROVE  UNCHANGED <<life, serving, connected, gone, told, queued, lost, presses>>
  BY <1>111 DEF Run
<1>12. CASE RunOpen
  <2>1. batch' \in Seq(Notices \cup Packets) /\ menuEnabled' = TRUE
    BY <1>11, <1>12 DEF RunOpen
  <2>2. UNCHANGED <<life, serving, connected, gone, told, queued, lost, presses, chosen,
                    mapPlanes, dangling>>
    BY <1>111, <1>12 DEF RunOpen
  <2> QED
    BY <2>1, <2>2
<1>13. CASE RunCleanup
  <2>1. dangling' \subseteq Callbacks
    BY <1>7, <1>13 DEF RunCleanup
  <2>2. mapPlanes' \in BOOLEAN /\ menuEnabled' \in BOOLEAN
    BY <1>13 DEF RunCleanup, RemovePlanes
  <2>3. batch' \in Seq(Notices \cup Packets)
    BY <1>11, <1>13 DEF RunCleanup
  <2> QED
    BY <1>13, <2>1, <2>2, <2>3 DEF RunCleanup, Run
<1>14. CASE RunRemote
  <2>1. mapPlanes' \in BOOLEAN /\ dangling' \subseteq Callbacks
    BY <1>7, <1>14 DEF RunRemote
  <2>2. batch' \in Seq(Notices \cup Packets)
    BY <1>11, <1>14 DEF RunRemote
  <2> QED
    BY <1>14, <2>1, <2>2 DEF RunRemote, Run
<1>141. CASE SpawnRefused
  <2>1. lost' \in BOOLEAN
    BY <1>141 DEF SpawnRefused
  <2> QED
    BY <1>0, <1>141, <2>1 DEF SpawnRefused
<1>15. CASE RunSettings
  <2>1. batch' \in Seq(Notices \cup Packets) /\ Head(batch).settings \in Settings
    BY <1>11, <1>15 DEF RunSettings
  <2>2. config' \in Settings /\ menu' \in Settings /\ loaded' = TRUE /\ labels' = labels
    BY <1>15, <2>1, Chosen DEF RunSettings, LoadConfig
  <2> QED
    BY <1>15, <2>1, <2>2 DEF RunSettings, Run
<1>16. ASSUME NEW u \in Addresses, Maintenance(u)
       PROVE  TypeOK'
  BY <1>16 DEF Maintenance, Use, Callbacks
<1> QED
  BY <1>1, <1>2, <1>3, <1>4, <1>5, <1>6, <1>8, <1>91, <1>10, <1>12, <1>13, <1>14, <1>141,
     <1>15, <1>16, PressIsChoose DEF Next, Stopped, SocketStep

(* Every variable keeps its type.                                            *)
THEOREM PluginTypeCorrect == Spec => []TypeOK
  BY InitTypeOK, NextTypeOK, PTL DEF Spec

-----------------------------------------------------------------------------
(* The settings, the menu, the labels and the client. *)

\* The steps that leave the settings and what shows them alone.
LEMMA ChosenKept ==
  ASSUME [Next]_vars,
         ~Press, ~MenuHandler, ~DeferredStartup, ~RunSettings
  PROVE  UNCHANGED chosen
<1>1. CASE UNCHANGED vars
  BY <1>1 DEF vars
<1>2. CASE XPluginStart \/ XPluginEnable \/ XPluginDisable \/ XPluginStop
  BY <1>2 DEF XPluginStart, XPluginEnable, XPluginDisable, XPluginStop
<1>3. CASE SocketStep \/ MainFlightLoop
  BY <1>3, SocketStepKeeps DEF MainFlightLoop
<1>4. CASE RunOpen \/ RunCleanup \/ RunRemote \/ SpawnRefused
  BY <1>4 DEF RunOpen, RunCleanup, RunRemote, SpawnRefused
<1>5. CASE \E u \in Addresses : Maintenance(u)
  BY <1>5 DEF Maintenance
<1> QED
  BY <1>1, <1>2, <1>3, <1>4, <1>5 DEF Next, Stopped, SocketStep

ChosenInv == MenuAgrees /\ LabelsAgree /\ ClientTold

LEMMA NextChosen ==
  ASSUME TypeOK, ChosenInv, [Next]_vars
  PROVE  ChosenInv'
<1> USE DEF ChosenInv
<1>1. CASE Press
  <2>1. PICK u \in Addresses, c \in Choices : Pressed(u) /\ Choose(c, u)
    BY <1>1, PressIsChoose
  <2>2. MenuAgrees' /\ LabelsAgree'
    BY <2>1 DEF Choose, SaveConfig, MenuAgrees, LabelsAgree
  <2>3. ClientTold'
    <3> SUFFICES ASSUME Defined', connected', ~gone', told' # None PROVE told' = config'
      BY DEF ClientTold
    <3>1. u = environment
      BY <2>1 DEF Choose, Use, Defined
    <3>2. connected /\ ~gone
      BY <2>1 DEF Choose
    <3> QED
      BY <2>1, <3>1, <3>2 DEF Choose, SaveConfig
  <2> QED
    BY <2>2, <2>3
<1>2. CASE MenuHandler
  BY <1>2 DEF MenuHandler, MenuAgrees, LabelsAgree, ClientTold, session, Defined
<1>3. CASE DeferredStartup
  BY <1>3 DEF DeferredStartup, MenuAgrees, LabelsAgree, ClientTold
<1>4. CASE RunSettings
  BY <1>4 DEF RunSettings, LoadConfig, MenuAgrees, LabelsAgree, ClientTold
<1>5. CASE ~Press /\ ~MenuHandler /\ ~DeferredStartup /\ ~RunSettings
  <2>1. UNCHANGED chosen
    BY <1>5, ChosenKept
  <2>2. MenuAgrees' /\ LabelsAgree'
    BY <2>1 DEF chosen, MenuAgrees, LabelsAgree
  <2>3. \/ /\ UNCHANGED told /\ (connected' /\ ~gone' => connected /\ ~gone)
           /\ (Defined' => Defined)
        \/ told' = None
    <3>1. CASE UNCHANGED vars
      BY <3>1 DEF vars, session, Defined
    <3>2. CASE XPluginStart \/ XPluginEnable \/ XPluginStop
      BY <3>2 DEF XPluginStart, XPluginEnable, XPluginStop, session, Defined
    <3>3. CASE XPluginDisable
      BY <3>3 DEF XPluginDisable
    <3>4. CASE SocketStep
      BY <3>4 DEF SocketStep, Publish, QueueOpen, Receive, Retire, QueueCleanup, Throw,
         WorkerEnds, ClientLeaves, Worker, NotWorker, Defined
    <3>5. CASE MainFlightLoop \/ SpawnRefused
      BY <3>5 DEF MainFlightLoop, SpawnRefused, Idle, Defined
    <3>6. CASE RunOpen \/ RunCleanup \/ RunRemote
      BY <3>6 DEF RunOpen, RunCleanup, RunRemote, Run, Defined
    <3>7. CASE \E u \in Addresses : Maintenance(u)
      BY <3>7 DEF Maintenance, Idle, session, Defined
    <3> QED
      BY <1>5, <3>1, <3>2, <3>3, <3>4, <3>5, <3>6, <3>7 DEF Next, Stopped, SocketStep
  <2> QED
    BY <2>1, <2>2, <2>3 DEF chosen, ClientTold
<1> QED
  BY <1>1, <1>2, <1>3, <1>4, <1>5

LEMMA InitChosen == Init => ChosenInv
  BY DEF Init, ChosenInv, MenuAgrees, LabelsAgree, ClientTold

(* The menu shows the settings, whoever changed them and in whichever life.  *)
THEOREM MenuShowsSettings == Spec => []MenuAgrees
<1>1. ChosenInv => MenuAgrees
  BY DEF ChosenInv
<1> QED
  BY <1>1, InitTypeOK, NextTypeOK, InitChosen, NextChosen, PTL DEF Spec

(* What a command chose is what the aircraft's labels show.                  *)
THEOREM LabelsShowSettings == Spec => []LabelsAgree
<1>1. ChosenInv => LabelsAgree
  BY DEF ChosenInv
<1> QED
  BY <1>1, InitTypeOK, NextTypeOK, InitChosen, NextChosen, PTL DEF Spec

(* What a command chose is what the client has been told.                    *)
THEOREM ClientHearsSettings == Spec => []ClientTold
<1>1. ChosenInv => ClientTold
  BY DEF ChosenInv
<1> QED
  BY <1>1, InitTypeOK, NextTypeOK, InitChosen, NextChosen, PTL DEF Spec

-----------------------------------------------------------------------------
(* What is registered, and where the socket thread is. *)

\* There is a UniFly exactly while the plugin is enabled, and a socket thread
\* only then, once Initialize has run.
LifeInv ==
  /\ LoopsLive
  /\ phase = "enabled" <=> environment # None
  /\ serving # "ended" => phase = "enabled" /\ started

LEMMA NextLife ==
  ASSUME TypeOK, LifeInv, [Next]_vars
  PROVE  LifeInv'
<1> USE DEF LifeInv, LoopsLive
<1>1. ASSUME UNCHANGED <<phase, environment, started, registered>>, serving' = "ended" \/ serving # "ended"
      PROVE  LifeInv'
  BY <1>1
<1>2. CASE XPluginEnable
  <2>1. environment = None
    BY <1>2 DEF XPluginEnable
  <2>2. ASSUME NEW c \in registered
        PROVE  c.callback \notin Loops
    BY <2>1, <2>2 DEF TypeOK
  <2>3. environment' \in Addresses /\ phase' = "enabled" /\ UNCHANGED serving /\ serving = "ended"
    BY <1>2, <2>1 DEF XPluginEnable, session
  <2>4. registered' = registered \cup
          Registered({"DeferredStartup", "Maintenance", "Notifier"}, environment')
    BY <1>2 DEF XPluginEnable
  <2>5. LoopsLive'
    BY <2>2, <2>4 DEF Registered
  <2> QED
    BY <2>3, <2>5
<1>3. CASE DeferredStartup
  <2>1. phase = "enabled" /\ UNCHANGED <<phase, environment>> /\ started'
    BY <1>3 DEF DeferredStartup, Idle
  <2>2. registered' = registered \cup
          Registered({"MainFlightLoop", "Commands"}, environment)
    BY <1>3 DEF DeferredStartup
  <2>3. LoopsLive'
    BY <2>1, <2>2 DEF Registered
  <2> QED
    BY <2>1, <2>3
<1>4. CASE XPluginDisable
  <2>1. registered' \subseteq registered \ Registered(Loops, environment)
    BY <1>4 DEF XPluginDisable, Unregister, Unregistered
  <2>2. \A c \in registered' : c.callback \notin Loops
    <3> SUFFICES ASSUME NEW c \in registered', c.callback \in Loops PROVE FALSE
      OBVIOUS
    <3>1. c \in registered /\ c \notin Registered(Loops, environment)
      BY <2>1
    <3>2. c = [callback |-> c.callback, refcon |-> environment]
      BY <3>1 DEF TypeOK
    <3> QED
      BY <3>1, <3>2 DEF Registered
  <2>3. phase' = "disabled" /\ environment' = None /\ serving' = "ended"
    BY <1>4 DEF XPluginDisable
  <2> QED
    BY <2>2, <2>3
<1>5. CASE XPluginStart \/ XPluginStop
  <2>1. phase # "enabled" /\ phase' # "enabled" /\ UNCHANGED <<environment, registered, serving>>
    BY <1>5 DEF XPluginStart, XPluginStop, session
  <2> QED
    BY <2>1
<1>6. CASE ~XPluginEnable /\ ~DeferredStartup /\ ~XPluginDisable /\ ~XPluginStart /\ ~XPluginStop
  <2>1. CASE Press
    <3>1. PICK u \in Addresses, c \in Choices : Choose(c, u)
      BY <2>1, PressIsChoose
    <3> QED
      BY <1>1, <3>1 DEF Choose, life
  <2>2. CASE SocketStep
    <3>1. UNCHANGED life
      BY <2>2, SocketStepKeeps
    <3>2. serving' = "ended" \/ serving # "ended"
      BY <2>2 DEF SocketStep, Publish, QueueOpen, Receive, Retire, QueueCleanup, Throw,
         WorkerEnds, ClientLeaves, Worker
    <3> QED
      BY <1>1, <3>1, <3>2 DEF life
  <2>3. CASE UNCHANGED vars \/ MenuHandler \/ \E u \in Addresses : Maintenance(u)
    BY <1>1, <2>3 DEF vars, MenuHandler, Maintenance, life, session
  <2>4. CASE MainFlightLoop \/ SpawnRefused \/ RunOpen \/ RunCleanup \/ RunRemote \/ RunSettings
    BY <1>1, <2>4 DEF MainFlightLoop, SpawnRefused, RunOpen, RunCleanup, RunRemote,
       RunSettings, Run, life
  <2> QED
    BY <1>6, <2>1, <2>2, <2>3, <2>4 DEF Next, Stopped, SocketStep
<1> QED
  BY <1>2, <1>3, <1>4, <1>5, <1>6

LEMMA InitLife == Init => LifeInv
  BY DEF Init, LifeInv, LoopsLive

(* No flight loop of UniFly is called for one that is gone.                  *)
THEOREM LoopsUnregistered == Spec => []LoopsLive
<1>1. LifeInv => LoopsLive
  BY DEF LifeInv
<1> QED
  BY <1>1, InitTypeOK, NextTypeOK, InitLife, NextLife, PTL DEF Spec

-----------------------------------------------------------------------------
(* The menu follows the last notice of the client's coming or going that is  *)
(* still to be run, or the last that has been, unless one has been lost.     *)

Pending     == batch \o queued
Notice(i)   == i.kind \in {"open", "cleanup"}
NoNotice(s) == \A i \in 1 .. Len(s) : ~Notice(s[i])

\* The last notice of s says whether the client is there.
LastIs(s, there) ==
  \A i \in 1 .. Len(s) :
    (Notice(s[i]) /\ \A j \in 1 .. Len(s) : i < j => ~Notice(s[j]))
    => (s[i].kind = "open" <=> there)

MenuFits(s, there, on) == LastIs(s, there) /\ (NoNotice(s) => (on <=> there))

MenuInv ==
  /\ ~lost => MenuFits(Pending, Served, menuEnabled)
  /\ phase # "enabled" => batch = <<>> /\ queued = <<>>

Items == Notices \cup Packets

LEMMA NoticeQueued ==
  ASSUME NEW s \in Seq(Items), NEW e \in Items, Notice(e)
  PROVE  /\ LastIs(Append(s, e), e.kind = "open")
         /\ ~NoNotice(Append(s, e))
<1>1. /\ Len(s) \in Nat /\ Len(Append(s, e)) = Len(s) + 1
      /\ Append(s, e)[Len(s) + 1] = e
  OBVIOUS
<1>2. ASSUME NEW i \in 1 .. Len(s) + 1,
             \A j \in 1 .. Len(s) + 1 : i < j => ~Notice(Append(s, e)[j])
      PROVE  Append(s, e)[i].kind = "open" <=> e.kind = "open"
  <2>1. ~(i < Len(s) + 1)
    BY <1>1, <1>2
  <2>2. i = Len(s) + 1
    BY <1>1, <2>1
  <2> QED
    BY <1>1, <2>2
<1>3. Len(s) + 1 \in 1 .. Len(s) + 1
  BY <1>1
<1> QED
  BY <1>1, <1>2, <1>3 DEF LastIs, NoNotice

LEMMA PacketQueued ==
  ASSUME NEW s \in Seq(Items), NEW e \in Items, ~Notice(e), NEW there, LastIs(s, there)
  PROVE  /\ LastIs(Append(s, e), there)
         /\ NoNotice(Append(s, e)) => NoNotice(s)
<1>1. /\ Len(s) \in Nat /\ Len(Append(s, e)) = Len(s) + 1
      /\ Append(s, e)[Len(s) + 1] = e
      /\ \A i \in 1 .. Len(s) : Append(s, e)[i] = s[i]
      /\ \A i \in 1 .. Len(s) : i \in 1 .. Len(s) + 1
  OBVIOUS
<1>2. ASSUME NEW i \in 1 .. Len(s) + 1, Notice(Append(s, e)[i]),
             \A j \in 1 .. Len(s) + 1 : i < j => ~Notice(Append(s, e)[j])
      PROVE  Append(s, e)[i].kind = "open" <=> there
  <2>1. i # Len(s) + 1
    BY <1>1, <1>2
  <2>2. i \in 1 .. Len(s)
    BY <1>1, <2>1
  <2>3. Notice(s[i]) /\ \A j \in 1 .. Len(s) : i < j => ~Notice(s[j])
    BY <1>1, <1>2, <2>2
  <2>4. s[i].kind = "open" <=> there
    BY <2>2, <2>3 DEF LastIs
  <2> QED
    BY <1>1, <2>2, <2>4
<1>3. LastIs(Append(s, e), there)
  BY <1>1, <1>2 DEF LastIs
<1>4. NoNotice(Append(s, e)) => NoNotice(s)
  BY <1>1 DEF NoNotice
<1> QED
  BY <1>3, <1>4

LEMMA HeadRun ==
  ASSUME NEW s \in Seq(Items), s # <<>>, NEW there, LastIs(s, there)
  PROVE  /\ LastIs(Tail(s), there)
         /\ NoNotice(Tail(s)) /\ ~Notice(Head(s)) => NoNotice(s)
         /\ NoNotice(Tail(s)) /\ Notice(Head(s)) => (Head(s).kind = "open" <=> there)
<1>1. /\ Len(s) \in Nat /\ Len(s) >= 1 /\ Len(Tail(s)) = Len(s) - 1 /\ Head(s) = s[1]
      /\ \A i \in 1 .. Len(s) - 1 : Tail(s)[i] = s[i + 1]
  OBVIOUS
<1>2. ASSUME NEW i \in 1 .. Len(s), i # 1 PROVE i - 1 \in 1 .. Len(s) - 1 /\ s[i] = Tail(s)[i - 1]
  <2>1. i - 1 \in 1 .. Len(s) - 1 /\ (i - 1) + 1 = i
    BY <1>1, <1>2
  <2> QED
    BY <1>1, <2>1
<1>3. LastIs(Tail(s), there)
  <2> SUFFICES ASSUME NEW i \in 1 .. Len(s) - 1, Notice(Tail(s)[i]),
                      \A j \in 1 .. Len(s) - 1 : i < j => ~Notice(Tail(s)[j])
               PROVE  Tail(s)[i].kind = "open" <=> there
    BY <1>1 DEF LastIs
  <2>1. i + 1 \in 1 .. Len(s) /\ s[i + 1] = Tail(s)[i]
    BY <1>1
  <2>2. ASSUME NEW j \in 1 .. Len(s), i + 1 < j PROVE ~Notice(s[j])
    <3>1. j # 1 /\ i < j - 1
      BY <1>1, <2>2
    <3> QED
      BY <1>2, <3>1
  <2> QED
    BY <2>1, <2>2 DEF LastIs
<1>4. ASSUME NoNotice(Tail(s)), NEW i \in 1 .. Len(s), i # 1 PROVE ~Notice(s[i])
  BY <1>1, <1>2, <1>4 DEF NoNotice
<1>5. NoNotice(Tail(s)) /\ ~Notice(Head(s)) => NoNotice(s)
  BY <1>1, <1>4 DEF NoNotice
<1>6. NoNotice(Tail(s)) /\ Notice(Head(s)) => (Head(s).kind = "open" <=> there)
  <2> SUFFICES ASSUME NoNotice(Tail(s)), Notice(Head(s)) PROVE Head(s).kind = "open" <=> there
    OBVIOUS
  <2>1. 1 \in 1 .. Len(s) /\ \A j \in 1 .. Len(s) : 1 < j => ~Notice(s[j])
    BY <1>1, <1>4
  <2> QED
    BY <1>1, <2>1 DEF LastIs
<1> QED
  BY <1>3, <1>5, <1>6

LEMMA PendingQueued ==
  ASSUME TypeOK, NEW e \in Items, Queue(e), UNCHANGED batch
  PROVE  Pending' = Append(Pending, e) /\ Pending \in Seq(Items)
<1>1. batch \in Seq(Items) /\ queued \in Seq(Items) /\ queued' = Append(queued, e)
  BY DEF TypeOK, Items, Queue
<1> QED
  BY <1>1 DEF Pending

LEMMA PendingRun ==
  ASSUME TypeOK, NEW kind, Run(kind)
  PROVE  /\ Pending' = Tail(Pending) /\ Pending \in Seq(Items) /\ Pending # <<>>
         /\ Head(Pending).kind = kind
         /\ UNCHANGED <<phase, serving, lost, queued>> /\ batch # <<>>
<1>1. /\ batch \in Seq(Items) /\ queued \in Seq(Items) /\ batch # <<>>
      /\ batch' = Tail(batch) /\ queued' = queued /\ Head(batch).kind = kind
      /\ UNCHANGED <<phase, serving, lost>>
  BY DEF TypeOK, Items, Run, life
<1>2. Pending \in Seq(Items) /\ Pending # <<>> /\ Head(Pending) = Head(batch)
  BY <1>1 DEF Pending
<1>3. Tail(batch) \o queued = Tail(batch \o queued)
  BY <1>1
<1> QED
  BY <1>1, <1>2, <1>3 DEF Pending

LEMMA BatchDropped ==
  ASSUME NEW b \in Seq(Items), NEW q \in Seq(Items), NEW there, LastIs(b \o q, there)
  PROVE  /\ LastIs(q, there)
         /\ ~HasNotice(b) /\ NoNotice(q) => NoNotice(b \o q)
<1>1. /\ Len(b) \in Nat /\ Len(q) \in Nat /\ Len(b \o q) = Len(b) + Len(q)
      /\ \A i \in 1 .. Len(b \o q) : (b \o q)[i] = IF i <= Len(b) THEN b[i] ELSE q[i - Len(b)]
  OBVIOUS
<1>2. LastIs(q, there)
  <2> SUFFICES ASSUME NEW i \in 1 .. Len(q), Notice(q[i]),
                      \A j \in 1 .. Len(q) : i < j => ~Notice(q[j])
               PROVE  q[i].kind = "open" <=> there
    BY DEF LastIs
  <2>1. /\ Len(b) + i \in 1 .. Len(b \o q) /\ ~(Len(b) + i <= Len(b)) /\ Len(b) + i - Len(b) = i
    BY <1>1
  <2>2. (b \o q)[Len(b) + i] = q[i]
    BY <1>1, <2>1
  <2>3. ASSUME NEW j \in 1 .. Len(b \o q), Len(b) + i < j PROVE ~Notice((b \o q)[j])
    <3>1. j - Len(b) \in 1 .. Len(q) /\ i < j - Len(b) /\ ~(j <= Len(b))
      BY <1>1, <2>3
    <3>2. (b \o q)[j] = q[j - Len(b)]
      BY <1>1, <3>1
    <3> QED
      BY <3>1, <3>2
  <2> QED
    BY <2>1, <2>2, <2>3 DEF LastIs
<1>3. ASSUME ~HasNotice(b), NoNotice(q), NEW i \in 1 .. Len(b \o q) PROVE ~Notice((b \o q)[i])
  <2>1. CASE i <= Len(b)
    <3>1. i \in 1 .. Len(b) /\ (b \o q)[i] = b[i]
      BY <1>1, <2>1
    <3> QED
      BY <1>3, <3>1 DEF HasNotice, Notice
  <2>2. CASE ~(i <= Len(b))
    <3>1. i - Len(b) \in 1 .. Len(q) /\ (b \o q)[i] = q[i - Len(b)]
      BY <1>1, <2>2
    <3> QED
      BY <1>3, <3>1 DEF NoNotice
  <2> QED
    BY <2>1, <2>2
<1> QED
  BY <1>2, <1>3 DEF NoNotice

LEMMA NextMenu ==
  ASSUME TypeOK, LifeInv, MenuInv, [Next]_vars
  PROVE  MenuInv'
<1> USE DEF MenuInv
<1>1. ASSUME UNCHANGED <<phase, queued, batch, menuEnabled, lost>>, Served' = Served
      PROVE  MenuInv'
  BY <1>1 DEF Pending, LastIs, NoNotice, MenuFits, Notice
<1>2. CASE QueueOpen \/ QueueCleanup
  <2>1. PICK e \in Notices : /\ Queue(e) /\ (e.kind = "open" <=> Served')
                             /\ UNCHANGED <<batch, phase>> /\ phase = "enabled"
    BY <1>2 DEF QueueOpen, QueueCleanup, Worker, Served, LifeInv, Notices, Item, NotWorker, life
  <2>2. e \in Items /\ Notice(e)
    BY DEF Items, Notices, Item, Notice
  <2>3. Pending' = Append(Pending, e) /\ Pending \in Seq(Items)
    BY <2>1, <2>2, PendingQueued
  <2>4. LastIs(Append(Pending, e), e.kind = "open") /\ ~NoNotice(Append(Pending, e))
    BY <2>2, <2>3, NoticeQueued
  <2>5. LastIs(Pending', Served')
    BY <2>1, <2>3, <2>4 DEF LastIs
  <2>6. ~NoNotice(Pending')
    BY <2>3, <2>4
  <2> QED
    BY <2>1, <2>5, <2>6 DEF LastIs, NoNotice, MenuFits
<1>3. ASSUME NEW e \in Packets, Receive(e) PROVE MenuInv'
  <2>1. /\ Queue(e) /\ phase = "enabled" /\ Served' = Served
        /\ UNCHANGED <<batch, phase, menuEnabled, lost>>
    BY <1>3 DEF Receive, Worker, Served, LifeInv, NotWorker, life
  <2>2. e \in Items /\ ~Notice(e)
    BY DEF Items, Packets, Item, Notice
  <2>3. Pending' = Append(Pending, e) /\ Pending \in Seq(Items)
    BY <2>1, <2>2, PendingQueued
  <2>4. ASSUME ~lost'
        PROVE  MenuFits(Pending', Served', menuEnabled')
    <3>1. LastIs(Pending, Served) /\ (NoNotice(Pending) => (menuEnabled <=> Served))
      BY <2>1, <2>4 DEF MenuFits
    <3>2. /\ LastIs(Append(Pending, e), Served)
          /\ NoNotice(Append(Pending, e)) => NoNotice(Pending)
      BY <2>2, <2>3, <3>1, PacketQueued
    <3>3. LastIs(Pending', Served')
      BY <2>1, <2>3, <3>2
    <3>4. NoNotice(Pending') => (menuEnabled' <=> Served')
      BY <2>1, <2>3, <3>1, <3>2
    <3> QED
      BY <3>3, <3>4 DEF LastIs, NoNotice, MenuFits
  <2> QED
    BY <2>1, <2>4 DEF LastIs, NoNotice, MenuFits
<1>4. CASE MainFlightLoop
  <2>1. /\ batch = <<>> /\ batch' = queued /\ queued' = <<>> /\ phase = "enabled"
        /\ UNCHANGED <<phase, serving, menuEnabled, lost>>
    BY <1>4 DEF MainFlightLoop, Idle, life
  <2>2. Pending' = Pending
    BY <2>1 DEF Pending, TypeOK
  <2>3. ~lost' => MenuFits(Pending', Served', menuEnabled')
    BY <2>1, <2>2 DEF Served
  <2> QED
    BY <2>1, <2>3 DEF LastIs, NoNotice, MenuFits
<1>5. ASSUME NEW kind, Run(kind),
             \/ kind \in {"remote", "settings"} /\ UNCHANGED menuEnabled
             \/ kind = "open" /\ menuEnabled' = TRUE
             \/ kind = "cleanup" /\ menuEnabled' = FALSE
      PROVE  MenuInv'
  <2>1. /\ Pending' = Tail(Pending) /\ Pending \in Seq(Items) /\ Pending # <<>>
        /\ Head(Pending).kind = kind
        /\ UNCHANGED <<phase, serving, lost>> /\ phase = "enabled"
    BY <1>5, PendingRun
  <2>2. ASSUME ~lost
        PROVE  MenuFits(Pending', Served', menuEnabled')
    <3>1. LastIs(Pending, Served) /\ (NoNotice(Pending) => (menuEnabled <=> Served))
      BY <2>2 DEF MenuFits
    <3>2. /\ LastIs(Tail(Pending), Served)
          /\ NoNotice(Tail(Pending)) /\ ~Notice(Head(Pending)) => NoNotice(Pending)
          /\ NoNotice(Tail(Pending)) /\ Notice(Head(Pending)) => (kind = "open" <=> Served)
      BY <2>1, <3>1, HeadRun
    <3>3. Served' = Served
      BY <2>1 DEF Served
    <3>4. CASE kind \in {"remote", "settings"} /\ UNCHANGED menuEnabled
      BY <2>1, <3>1, <3>2, <3>3, <3>4 DEF MenuFits, Notice
    <3>5. CASE \/ kind = "open" /\ menuEnabled' = TRUE
               \/ kind = "cleanup" /\ menuEnabled' = FALSE
      BY <2>1, <3>2, <3>3, <3>5 DEF MenuFits, Notice
    <3> QED
      BY <1>5, <3>4, <3>5
  <2> QED
    BY <2>1, <2>2 DEF LastIs, NoNotice, MenuFits
<1>6. CASE RunOpen \/ RunCleanup \/ RunRemote \/ RunSettings
  BY <1>5, <1>6 DEF RunOpen, RunCleanup, RunRemote, RunSettings
<1>7. ASSUME batch' = <<>>, queued' = <<>>, ~Served', ~lost' => ~menuEnabled'
      PROVE  MenuInv'
  <2>1. Pending' = <<>> /\ Len(<<>>) = 0
    BY <1>7 DEF Pending
  <2>2. ~lost' => MenuFits(Pending', Served', menuEnabled')
    BY <1>7, <2>1 DEF LastIs, MenuFits
  <2> QED
    BY <1>7, <2>2 DEF LastIs, NoNotice, MenuFits
<1>8. phase # "enabled" => ~Served /\ (~lost => ~menuEnabled)
  <2> SUFFICES ASSUME phase # "enabled" PROVE ~Served /\ (~lost => ~menuEnabled)
    OBVIOUS
  <2>1. Pending = <<>> /\ Len(<<>>) = 0
    BY DEF Pending
  <2>2. ~Served
    BY DEF LifeInv, Served
  <2> QED
    BY <2>1, <2>2 DEF MenuFits, NoNotice
<1>9. CASE XPluginStart \/ XPluginStop
  BY <1>7, <1>8, <1>9 DEF XPluginStart, XPluginStop, session, Served
<1>10. CASE XPluginEnable
  BY <1>7, <1>8, <1>10 DEF XPluginEnable, session, Served
<1>11. CASE XPluginDisable
  BY <1>7, <1>11 DEF XPluginDisable, Served
<1>12. CASE Publish \/ Retire \/ WorkerEnds \/ ClientLeaves
  BY <1>1, <1>12 DEF Publish, Retire, WorkerEnds, ClientLeaves, Worker, Served, NotWorker, life
<1>13. CASE Press
  <2>1. PICK u \in Addresses, c \in Choices : Choose(c, u)
    BY <1>13, PressIsChoose
  <2> QED
    BY <1>1, <2>1 DEF Choose, life, Served
<1>14. CASE MenuHandler \/ UNCHANGED vars \/ \E u \in Addresses : Maintenance(u)
  BY <1>1, <1>14 DEF MenuHandler, vars, life, session, Maintenance, Served
<1>15. CASE DeferredStartup
  <2>1. /\ serving = "ended" /\ serving' = "accepting"
        /\ UNCHANGED <<phase, queued, batch, menuEnabled, lost>>
    BY <1>15 DEF DeferredStartup, LifeInv
  <2>2. Served' = Served
    BY <2>1 DEF Served
  <2> QED
    BY <1>1, <2>1, <2>2
<1>16. CASE Throw
  <2>1. /\ phase = "enabled" /\ lost' = (lost \/ Served) /\ ~Served'
        /\ UNCHANGED <<phase, queued, batch, menuEnabled>>
    BY <1>16 DEF Throw, Worker, Served, LifeInv, NotWorker, life
  <2>2. CASE Served
    BY <2>1, <2>2
  <2>3. CASE ~Served
    <3>1. lost' = lost
      BY <2>1, <2>3 DEF TypeOK
    <3>2. Served' = Served
      BY <2>1, <2>3 DEF Served
    <3> QED
      BY <1>1, <2>1, <3>1, <3>2
  <2> QED
    BY <2>2, <2>3
<1>17. CASE SpawnRefused
  <2>1. /\ batch # <<>> /\ batch' = <<>> /\ lost' = (lost \/ (HasNotice(batch) /\ ~HasNotice(queued)))
        /\ UNCHANGED <<phase, serving, queued, menuEnabled>> /\ phase = "enabled"
    BY <1>17 DEF SpawnRefused, life
  <2>2. batch \in Seq(Items) /\ queued \in Seq(Items) /\ Pending' = queued
    BY <2>1 DEF TypeOK, Items, Pending
  <2>3. ASSUME ~lost'
        PROVE  MenuFits(Pending', Served', menuEnabled')
    <3>1. ~lost /\ (HasNotice(batch) => HasNotice(queued)) /\ Served' = Served
      BY <2>1, <2>3 DEF Served
    <3>2. LastIs(batch \o queued, Served) /\ (NoNotice(batch \o queued) => (menuEnabled <=> Served))
      BY <3>1 DEF MenuFits, Pending
    <3>3. LastIs(queued, Served) /\ (~HasNotice(batch) /\ NoNotice(queued) => NoNotice(batch \o queued))
      BY <2>2, <3>2, BatchDropped
    <3>4. NoNotice(queued) => ~HasNotice(queued)
      BY DEF NoNotice, HasNotice, Notice
    <3>5. LastIs(Pending', Served')
      BY <2>2, <3>1, <3>3
    <3>6. NoNotice(Pending') => (menuEnabled' <=> Served')
      BY <2>1, <2>2, <3>1, <3>2, <3>3, <3>4
    <3> QED
      BY <3>5, <3>6 DEF LastIs, NoNotice, MenuFits
  <2> QED
    BY <2>1, <2>3 DEF LastIs, NoNotice, MenuFits
<1> QED
  BY <1>2, <1>3, <1>4, <1>6, <1>9, <1>10, <1>11, <1>12, <1>13, <1>14, <1>15, <1>16, <1>17
     DEF Next, Stopped

LEMMA InitMenu == Init => MenuInv
<1> SUFFICES ASSUME Init PROVE MenuInv
  OBVIOUS
<1>1. Pending = <<>> /\ Len(<<>>) = 0
  BY DEF Init, Pending
<1> QED
  BY <1>1 DEF Init, MenuInv, LastIs, MenuFits, Served

(* With all callbacks run, the menu is usable exactly while a client is      *)
(* served, unless the last open or cleanup is one that was never run.        *)
THEOREM MenuUsableWithClient == Spec => []MenuFollowsClient
<1>2. MenuInv => MenuFollowsClient
  <2> SUFFICES ASSUME MenuInv, queued = <<>>, batch = <<>>, ~lost PROVE menuEnabled <=> Served
    BY DEF MenuFollowsClient
  <2>1. Pending = <<>> /\ Len(<<>>) = 0
    BY DEF Pending
  <2> QED
    BY <2>1 DEF MenuInv, MenuFits, NoNotice
<1> QED
  BY <1>2, InitMenu, InitTypeOK, NextTypeOK, InitLife, NextLife, NextMenu, PTL DEF Spec

-----------------------------------------------------------------------------
(* What one life of the plugin leaves registered for the next. *)

\* The UniFly objects, gone or not, that X-Plane has callbacks of.
Owners == {c.refcon : c \in registered}

\* Each enabling brings one more at most.
Piled == IsFiniteSet(Owners) /\ Cardinality(Owners) <= enables

LeftoverInv ==
  /\ Piled
  /\ phase = "enabled" => [callback |-> "Maintenance", refcon |-> environment] \in registered

FirstLifeSound == enables <= 1 => dangling = {}

LEMMA NextLeftover ==
  ASSUME TypeOK, LeftoverInv, [Next]_vars
  PROVE  LeftoverInv'
<1> USE DEF LeftoverInv
<1>0. enables \in Nat
  BY DEF TypeOK
<1>1. ASSUME registered' \subseteq registered, enables' = enables
      PROVE  Piled'
  <2>1. Owners' \subseteq Owners
    BY <1>1 DEF Owners
  <2>2. /\ IsFiniteSet(Owners') /\ Cardinality(Owners') <= Cardinality(Owners)
        /\ Cardinality(Owners) \in Nat /\ Cardinality(Owners') \in Nat
    BY <2>1, FS_Subset, FS_CardinalityType DEF Piled
  <2> QED
    BY <1>0, <1>1, <2>2 DEF Piled
<1>2. CASE XPluginEnable
  <2>1. PICK u \in Addresses :
          /\ environment' = u
          /\ registered' = registered \cup Registered({"DeferredStartup", "Maintenance", "Notifier"}, u)
    BY <1>2 DEF XPluginEnable
  <2>2. Owners' = Owners \cup {u}
    <3>1. [callback |-> "Maintenance", refcon |-> u] \in registered'
      BY <2>1 DEF Registered
    <3>2. u \in Owners' /\ Owners \subseteq Owners'
      BY <2>1, <3>1 DEF Owners
    <3>3. \A c \in Registered({"DeferredStartup", "Maintenance", "Notifier"}, u) : c.refcon = u
      BY DEF Registered
    <3>4. Owners' \subseteq Owners \cup {u}
      BY <2>1, <3>3 DEF Owners
    <3> QED
      BY <3>2, <3>4
  <2>3. /\ IsFiniteSet(Owners \cup {u}) /\ Cardinality(Owners) \in Nat
        /\ Cardinality(Owners \cup {u}) \in {Cardinality(Owners), Cardinality(Owners) + 1}
    BY FS_AddElement, FS_CardinalityType DEF Piled
  <2>4. enables' = enables + 1
    BY <1>2 DEF XPluginEnable
  <2>5. Piled'
    BY <1>0, <2>2, <2>3, <2>4 DEF Piled
  <2>6. [callback |-> "Maintenance", refcon |-> environment'] \in registered'
    BY <2>1 DEF Registered
  <2> QED
    BY <2>5, <2>6
<1>3. CASE DeferredStartup
  <2>1. /\ registered' = registered \cup Registered({"MainFlightLoop", "Commands"}, environment)
        /\ UNCHANGED <<phase, environment, enables>> /\ phase = "enabled"
    BY <1>3 DEF DeferredStartup, Idle
  <2>2. environment \in Owners
    BY <2>1 DEF Owners
  <2>3. Owners' = Owners
    BY <2>1, <2>2 DEF Owners, Registered
  <2> QED
    BY <2>1, <2>3 DEF Piled
<1>4. CASE XPluginDisable
  <2>1. registered' \subseteq registered /\ enables' = enables /\ phase' = "disabled"
    BY <1>4 DEF XPluginDisable, Unregister
  <2> QED
    BY <1>1, <2>1
<1>5. ASSUME UNCHANGED <<environment, registered, enables>>, phase' = "enabled" => phase = "enabled"
      PROVE  LeftoverInv'
  BY <1>1, <1>5
<1>6. CASE XPluginStart \/ XPluginStop
  BY <1>5, <1>6 DEF XPluginStart, XPluginStop
<1>7. CASE Press
  <2>1. PICK u \in Addresses, c \in Choices : Choose(c, u)
    BY <1>7, PressIsChoose
  <2> QED
    BY <1>5, <2>1 DEF Choose, life
<1>8. CASE \/ UNCHANGED vars \/ MenuHandler \/ SocketStep \/ MainFlightLoop \/ SpawnRefused
           \/ RunOpen \/ RunCleanup \/ RunRemote \/ RunSettings
           \/ \E u \in Addresses : Maintenance(u)
  <2>1. UNCHANGED life
    BY <1>8, SocketStepKeeps DEF vars, MenuHandler, MainFlightLoop, SpawnRefused, Run,
       RunOpen, RunCleanup, RunRemote, RunSettings, Maintenance
  <2> QED
    BY <1>5, <2>1 DEF life
<1> QED
  BY <1>2, <1>3, <1>4, <1>6, <1>7, <1>8 DEF Next, Stopped, SocketStep

\* As long as there has been one enabling only, all that X-Plane has is for the UniFly
\* there is.
LEMMA OneOwner ==
  ASSUME TypeOK, LeftoverInv, enables <= 1, phase = "enabled", NEW c \in registered
  PROVE  c.refcon = environment
<1>1. environment \in Owners /\ c.refcon \in Owners
  BY DEF LeftoverInv, Owners
<1>2. IsFiniteSet(Owners) /\ Cardinality(Owners) \in Nat /\ Cardinality(Owners) <= 1
  BY FS_CardinalityType DEF LeftoverInv, Piled, TypeOK
<1>3. Cardinality(Owners) = 1
  BY <1>1, <1>2, FS_EmptySet
<1>4. \E x : Owners = {x}
  BY <1>2, <1>3, FS_Singleton
<1> QED
  BY <1>1, <1>4

LEMMA NextSound ==
  ASSUME TypeOK, LifeInv, LeftoverInv, MenuInv, FirstLifeSound, [Next]_vars
  PROVE  FirstLifeSound'
<1> SUFFICES ASSUME enables' <= 1 PROVE dangling' = {}
  BY DEF FirstLifeSound
<1>0. enables \in Nat /\ (XPluginEnable \/ enables' = enables)
  <2>1. CASE Press
    <3>1. PICK u \in Addresses, c \in Choices : Choose(c, u)
      BY <2>1, PressIsChoose
    <3> QED
      BY <3>1 DEF Choose, life, TypeOK
  <2>2. CASE XPluginStart \/ DeferredStartup \/ XPluginDisable \/ XPluginStop
    BY <2>2 DEF XPluginStart, DeferredStartup, XPluginDisable, XPluginStop, TypeOK
  <2>3. CASE RunOpen \/ RunCleanup \/ RunRemote \/ RunSettings \/ SpawnRefused
    BY <2>3 DEF Run, RunOpen, RunCleanup, RunRemote, RunSettings, SpawnRefused, life, TypeOK
  <2>5. ASSUME UNCHANGED vars \/ MenuHandler \/ SocketStep \/ MainFlightLoop
        PROVE  enables' = enables
    BY <2>5, SocketStepKeeps DEF vars, life, MenuHandler, MainFlightLoop
  <2>7. ASSUME NEW u \in Addresses, Maintenance(u) PROVE enables' = enables
    BY <2>7 DEF life, Maintenance
  <2> QED
    BY <2>1, <2>2, <2>3, <2>5, <2>7 DEF Next, Stopped, SocketStep, TypeOK
<1>1. CASE XPluginEnable
  BY <1>1 DEF XPluginEnable, Defined
<1>2. CASE ~XPluginEnable
  <2>1. enables <= 1 /\ dangling = {}
    BY <1>0, <1>2 DEF FirstLifeSound
  <2>2. ASSUME phase = "enabled", NEW cb, NEW u,
               [callback |-> cb, refcon |-> u] \in registered
        PROVE  u = environment
    <3>1. [callback |-> cb, refcon |-> u].refcon = environment
      BY <2>1, <2>2, OneOwner
    <3> QED
      BY <3>1
  <2>3. ASSUME phase = "enabled", Notify
        PROVE  dangling' = dangling
    BY <2>1, <2>3, OneOwner DEF Notify
  <2>4. ASSUME NEW kind, Run(kind)
        PROVE  phase = "enabled"
    BY <2>4 DEF Run, MenuInv
  <2>5. CASE Press
    <3>1. PICK u \in Addresses, c \in Choices : Pressed(u) /\ Choose(c, u)
      BY <2>5, PressIsChoose
    <3>2. u = environment
      BY <2>2, <3>1 DEF Pressed, Idle, Handlers
    <3> QED
      BY <2>1, <3>1, <3>2 DEF Choose, Use
  <2>6. CASE \E u \in Addresses : Maintenance(u)
    BY <2>1, <2>2, <2>6 DEF Maintenance, Use, Idle
  <2>7. CASE XPluginDisable
    BY <2>1, <2>3, <2>7 DEF XPluginDisable, RemovePlanes, Idle
  <2>8. CASE RunCleanup \/ RunRemote
    BY <2>1, <2>3, <2>4, <2>8 DEF RunCleanup, RunRemote, RemovePlanes
  <2>9. CASE \/ UNCHANGED vars \/ MenuHandler \/ SocketStep \/ MainFlightLoop \/ SpawnRefused
             \/ RunOpen \/ RunSettings
             \/ XPluginStart \/ XPluginStop \/ DeferredStartup
    BY <2>1, <2>9, SocketStepKeeps DEF vars, MenuHandler, MainFlightLoop, SpawnRefused, Run,
       RunOpen, RunSettings, XPluginStart, XPluginStop, DeferredStartup
  <2> QED
    BY <1>2, <2>5, <2>6, <2>7, <2>8, <2>9 DEF Next, Stopped, SocketStep
<1> QED
  BY <1>1, <1>2

LEMMA InitLeftover == Init => LeftoverInv /\ FirstLifeSound
<1> SUFFICES ASSUME Init PROVE LeftoverInv /\ FirstLifeSound
  OBVIOUS
<1>1. Owners = {} /\ enables = 0
  BY DEF Init, Owners
<1>2. Piled
  BY <1>1, FS_EmptySet DEF Piled
<1> QED
  BY <1>2 DEF Init, LeftoverInv, FirstLifeSound

(* What ~AircraftManager and the commands leave registered piles up by one   *)
(* UniFly per enabling at most.                                              *)
THEOREM LeftoversPile == Spec => []Piled
<1>2. LeftoverInv => Piled
  BY DEF LeftoverInv
<1> QED
  BY <1>2, InitLeftover, InitTypeOK, NextTypeOK, NextLeftover, PTL DEF Spec

(* A user who never disables the plugin, or disables it once and for good,   *)
(* never has a UniFly used that is gone: what MaintenanceEnds finds needs a  *)
(* second enabling.                                                          *)
THEOREM FirstLifeIsSound == Spec => []FirstLifeSound
BY InitLeftover, InitTypeOK, NextTypeOK, InitLife, NextLife, InitMenu, NextMenu, NextLeftover,
   NextSound, PTL DEF Spec
=============================================================================
