------------------------------- MODULE Plugin -------------------------------
(***************************************************************************)
(* The life of the plugin, its menu and its settings (src/src/plugin.cpp,  *)
(* src/src/config.cpp, and what the constructors, destructors and          *)
(* Initialize of UniFly and AircraftManager register with X-Plane).        *)
(*                                                                         *)
(* X-Plane enables and disables the plugin any number of times.  Each      *)
(* enabling makes a new UniFly, at an address the allocator is free to     *)
(* reuse; the settings, the menu and the table of aircraft live as long as *)
(* the plugin is loaded.  X-Plane hands back to every callback the pointer *)
(* it was registered with.                                                 *)
(*                                                                         *)
(* The session with the client is Connection's.  Here it is where the      *)
(* socket thread stands in it, m_socket and the queue of callbacks, with   *)
(* the exceptions that cut a session or a batch short.  A callback and its *)
(* messages are one step: Connection cuts them up, tells the socket tested *)
(* from the socket used, and has the X-Plane an exception brings down.     *)
(***************************************************************************)
EXTENDS Integers, Sequences

CONSTANTS
  Addresses,   \* where a UniFly can be
  None,        \* no pointer, no message
  Sent,        \* the settings the client may send
  MaxEnables,  \* bound: calls of XPluginEnable
  MaxQueue,    \* bound: callbacks queued at once
  MaxPresses   \* bound: commands executed

ASSUME AddressesAssumption == None \notin Addresses /\ Addresses # {}

\* The enumerations of settings.proto; the wire may carry other numbers too.
Types   == 1 .. 5
Colours == 1 .. 4
Ranges  == {1, 3, 4, 5, 6}
Settings == [show : BOOLEAN, type : Nat, colour : Nat, range : Nat, cutoff : BOOLEAN]

ASSUME SentAssumption == Sent \subseteq Settings
ASSUME BoundsAssumption == MaxEnables \in Nat /\ MaxQueue \in Nat /\ MaxPresses \in Nat

VARIABLES
  phase,      \* what X-Plane has last called of the plugin
  environment,
  started,    \* Initialize has run for environment
  registered, \* the callbacks X-Plane has, each with its pointer
  mapPlanes,  \* whether there are aircraft
  config, menu, menuEnabled,
  labels,     \* what XPMP draws
  serving,    \* where the socket thread is
  connected,  \* m_socket is not null
  gone,       \* the client of m_socket has closed its end
  told,       \* the last settings m_socket has carried
  queued, batch,     \* m_queuedCallbacks, and what InvokeQueuedCallbacks has taken
  \* history
  enables, presses,
  loaded,     \* the last word on the settings or labels was not a command's
  lost,       \* the last open or cleanup is one that will not be run
  dangling    \* the callbacks that have used a UniFly that is gone

life    == <<phase, environment, started, registered, enables>>
chosen  == <<config, menu, labels, loaded>>
session == <<serving, connected, gone, told, queued, batch, lost>>
vars == <<life, chosen, session, mapPlanes, menuEnabled, presses, dangling>>

Loops == {"DeferredStartup", "MainFlightLoop"}
Callbacks == Loops \cup {"Maintenance", "Notifier", "Commands"}
Item(kind, settings) == [kind |-> kind, settings |-> settings]
Notices == {Item("open", None), Item("cleanup", None)}
Packets == {Item("remote", None)} \cup {Item("settings", s) : s \in Sent}

Default == [show |-> TRUE, type |-> 5, colour |-> 1, range |-> 4, cutoff |-> TRUE]

Init ==
  /\ phase = "stopped" /\ environment = None /\ started = FALSE
  /\ registered = {} /\ mapPlanes = FALSE
  /\ config = Default /\ menu = None /\ menuEnabled = FALSE /\ labels = None
  /\ serving = "ended" /\ connected = FALSE /\ gone = FALSE /\ told = None
  /\ queued = <<>> /\ batch = <<>> /\ lost = FALSE
  /\ enables = 0 /\ presses = 0 /\ loaded = TRUE /\ dangling = {}

-----------------------------------------------------------------------------
(* config.cpp. *)

TypeNext(type) == IF type \in 1 .. 4 THEN type + 1 ELSE 1

ColourNext(colour) == IF colour \in 1 .. 3 THEN colour + 1 ELSE 1

RangeNext(range) ==
  IF range = 1 THEN 3 ELSE IF range \in 3 .. 5 THEN range + 1 ELSE 1

RangeValue(range) ==
  CASE range = 1 -> 1 [] range = 3 -> 3 [] range = 4 -> 5 [] range = 5 -> 10
    [] OTHER -> 20

\* Fault: a value without a name is looked up all the same.
NameMissing(value, values) == IF value \in values THEN value ELSE None

\* A name is the value it stands for; 0 names none of them.
Name(value, values) == IF value \in values THEN value ELSE 0

\* UpdateMenuItems, given the settings.
Names(c) ==
  [show |-> c.show, type |-> Name(c.type, Types), colour |-> Name(c.colour, Colours),
   range |-> Name(c.range, Ranges), cutoff |-> c.cutoff]

\* EnactMenuItems, given the settings.
Enacted(c) == [on |-> c.show, miles |-> RangeValue(c.range), cutoff |-> c.cutoff]

\* Fault: the menu is not updated.
LoadConfigSilently(c) ==
  /\ config' = c /\ loaded' = TRUE
  /\ UNCHANGED <<menu, labels>>

LoadConfig(c) ==
  /\ config' = c /\ loaded' = TRUE
  /\ menu' = Names(c)
  /\ UNCHANGED labels

\* Fault: the settings are saved before they are changed.
SaveConfigFirst(c, u) ==
  /\ config' = c /\ loaded' = FALSE
  /\ menu' = Names(c)
  /\ told' = IF u = environment /\ connected /\ ~gone THEN config ELSE told

\* send_msg to a client that is gone fails, or is not read.  Of a UniFly that
\* is gone it makes nothing, if it fails neatly.
SaveConfig(c, u) ==
  /\ config' = c /\ loaded' = FALSE
  /\ menu' = Names(c)
  /\ told' = IF u = environment /\ connected /\ ~gone THEN c ELSE told

-----------------------------------------------------------------------------
(* The commands.  X-Plane calls one handler: each returns 0, which ends the  *)
(* execution of the command, and which of several comes first is X-Plane's.  *)

Handlers == {c \in registered : c.callback = "Commands"}

\* A callback uses the pointer it is given.  What the program does after it
\* has used one that is gone is undefined, and not followed further.
Use(callback, u) ==
  dangling' = IF u = environment THEN dangling ELSE dangling \cup {callback}

Defined == dangling = {}

\* X-Plane's thread is not in the plugin.
Idle == phase = "enabled" /\ batch = <<>> /\ Defined

\* Fault: the new value is not put into effect.
ChooseUnenacted(c, u) ==
  /\ SaveConfig(c, u)
  /\ UNCHANGED labels
  /\ presses' = presses + 1
  /\ Use("Commands", u)
  /\ UNCHANGED <<life, serving, connected, gone, queued, batch, lost, mapPlanes, menuEnabled>>

\* The end of a command, handled with pointer u and new settings c.
Choose(c, u) ==
  /\ SaveConfig(c, u)
  /\ labels' = Enacted(c)
  /\ presses' = presses + 1
  /\ Use("Commands", u)
  /\ UNCHANGED <<life, serving, connected, gone, queued, batch, lost, mapPlanes, menuEnabled>>

Pressed(u) ==
  /\ Idle /\ presses < MaxPresses
  /\ [callback |-> "Commands", refcon |-> u] \in Handlers

PressShow(u) == Pressed(u) /\ Choose([config EXCEPT !.show = ~@], u)

\* The next type is not 0, which as a bool is true.
PressType(u) == Pressed(u) /\ Choose([config EXCEPT !.show = TypeNext(config.type) # 0], u)

PressColour(u) == Pressed(u) /\ Choose([config EXCEPT !.colour = ColourNext(@)], u)

PressRange(u) == Pressed(u) /\ Choose([config EXCEPT !.range = RangeNext(@)], u)

PressCutoff(u) == Pressed(u) /\ Choose([config EXCEPT !.cutoff = ~@], u)

\* A click on "Aircraft Labels" itself.
MenuHandler ==
  /\ Idle
  /\ menu' = Names(config)
  /\ UNCHANGED <<life, session, config, labels, loaded, mapPlanes, menuEnabled, presses, dangling>>

-----------------------------------------------------------------------------
(* The life of the plugin. *)

\* CreateMenuItems disables what it has created.
XPluginStart ==
  /\ phase = "stopped" /\ enables = 0
  /\ phase' = "disabled"
  /\ menuEnabled' = FALSE
  /\ UNCHANGED <<environment, started, registered, enables, chosen, session, mapPlanes,
                 presses, dangling>>

Registered(callbacks, u) == {[callback |-> cb, refcon |-> u] : cb \in callbacks}

XPluginEnable ==
  /\ phase = "disabled" /\ enables < MaxEnables /\ Defined
  /\ phase' = "enabled" /\ enables' = enables + 1 /\ started' = FALSE
  /\ \E u \in Addresses :
       /\ environment' = u
       /\ registered' = registered \cup Registered({"DeferredStartup", "Maintenance", "Notifier"}, u)
  /\ UNCHANGED <<chosen, session, mapPlanes, menuEnabled, presses, dangling>>

\* Initialize; it returns 0, so X-Plane calls it once.  Whether XPMP keeps
\* its settings when it is initialised again is XPMP's.
DeferredStartup ==
  /\ Idle /\ ~started
  /\ [callback |-> "DeferredStartup", refcon |-> environment] \in registered
  /\ started' = TRUE /\ serving' = "accepting"
  /\ registered' = registered \cup Registered({"MainFlightLoop", "Commands"}, environment)
  /\ labels' \in {labels, None} /\ loaded' = TRUE
  /\ UNCHANGED <<phase, environment, enables, config, menu, connected, gone, told, queued,
                 batch, lost, mapPlanes, menuEnabled, presses, dangling>>

\* Fault: ~UniFly leaves MainFlightLoop.
UnregisteredStartup(u) == Registered({"DeferredStartup"}, u)

\* ~UniFly and ~AircraftManager: the manager unregisters its two callbacks
\* with a pointer it did not register, and nobody unregisters the commands.
Unregistered(u) == Registered(Loops, u) \cup Registered({"Maintenance", "Notifier"}, None)

\* Whether XPMPMultiplayerCleanup forgets the notifiers is XPMP's.
Unregister(u) ==
  \E forgotten \in SUBSET {"Notifier"} :
    registered' = {c \in registered \ Unregistered(u) : c.callback \notin forgotten}

\* XPMP calls every notifier of each aircraft that comes or goes.
Notify ==
  dangling' = IF \E c \in registered : c.callback = "Notifier" /\ c.refcon # environment
              THEN dangling \cup {"Notifier"} ELSE dangling

RemovePlanes ==
  /\ mapPlanes' = FALSE
  /\ IF mapPlanes THEN Notify ELSE UNCHANGED dangling

\* DeleteAllAircraft, Shutdown, which joins the socket thread, and the
\* destructors; the queue goes with them, and the menu stays as it is.
XPluginDisable ==
  /\ Idle
  /\ phase' = "disabled" /\ environment' = None
  /\ Unregister(environment)
  /\ RemovePlanes
  /\ serving' = "ended" /\ connected' = FALSE /\ gone' = FALSE /\ told' = None
  /\ queued' = <<>> /\ batch' = <<>> /\ lost' = menuEnabled
  /\ UNCHANGED <<started, enables, chosen, menuEnabled, presses>>

XPluginStop ==
  /\ phase = "disabled" /\ enables > 0 /\ Defined
  /\ phase' = "stopped"
  /\ UNCHANGED <<environment, started, registered, enables, chosen, session, mapPlanes,
                 menuEnabled, presses, dangling>>
-----------------------------------------------------------------------------
(* The session: the socket thread queues, the flight loop runs.              *)

Queue(item) == Len(queued) < MaxQueue /\ queued' = Append(queued, item)

\* The socket thread goes from one place to another.
Worker(from, to) == Defined /\ serving = from /\ serving' = to

\* What the socket thread never writes.
NotWorker == <<life, chosen, batch, mapPlanes, menuEnabled, presses, dangling>>

\* Its queue is open from the open to the cleanup.
Served == serving \in {"polling", "leaving"}

Publish ==
  /\ Worker("accepting", "opening")
  /\ connected' = TRUE /\ gone' = FALSE /\ told' = None
  /\ UNCHANGED <<NotWorker, queued, lost>>

QueueOpen ==
  /\ Worker("opening", "polling")
  /\ Queue(Item("open", None)) /\ lost' = FALSE
  /\ UNCHANGED <<NotWorker, connected, gone, told>>

Receive(packet) ==
  /\ Worker("polling", "polling")
  /\ Queue(packet)
  /\ UNCHANGED <<NotWorker, connected, gone, told, lost>>

\* The client has gone, sent what is no message, or m_keepSocketAlive is down.
Retire ==
  /\ Worker("polling", "leaving")
  /\ connected' = FALSE /\ gone' = FALSE /\ told' = None
  /\ UNCHANGED <<NotWorker, queued, lost>>

\* Fault: the cleanup overtakes what is queued.
QueueCleanupFirst ==
  /\ Worker("leaving", "accepting")
  /\ Len(queued) < MaxQueue /\ queued' = <<Item("cleanup", None)>> \o queued
  /\ lost' = FALSE
  /\ UNCHANGED <<NotWorker, connected, gone, told>>

QueueCleanup ==
  /\ Worker("leaving", "accepting")
  /\ Queue(Item("cleanup", None)) /\ lost' = FALSE
  /\ UNCHANGED <<NotWorker, connected, gone, told>>

\* The inner catch: m_socket stays, and no cleanup is queued.
Throw ==
  /\ Worker(serving, "accepting") /\ serving \in {"opening", "polling", "leaving"}
  /\ lost' = (lost \/ Served)
  /\ UNCHANGED <<NotWorker, connected, gone, told, queued>>

\* m_keepSocketAlive is down, or the outer catch.
WorkerEnds ==
  /\ Worker("accepting", "ended")
  /\ UNCHANGED <<NotWorker, connected, gone, told, queued, lost>>

ClientLeaves ==
  /\ Defined /\ connected /\ ~gone
  /\ gone' = TRUE /\ told' = None
  /\ UNCHANGED <<NotWorker, serving, connected, queued, lost>>

MainFlightLoop ==
  /\ Idle /\ queued # <<>>
  /\ [callback |-> "MainFlightLoop", refcon |-> environment] \in registered
  /\ batch' = queued /\ queued' = <<>>
  /\ UNCHANGED <<life, chosen, serving, connected, gone, told, lost, mapPlanes, menuEnabled,
                 presses, dangling>>

Run(kind) ==
  /\ Defined /\ batch # <<>> /\ Head(batch).kind = kind
  /\ batch' = Tail(batch)
  /\ UNCHANGED <<life, serving, connected, gone, told, queued, lost, presses>>

RunOpen ==
  /\ Run("open")
  /\ menuEnabled' = TRUE
  /\ UNCHANGED <<chosen, mapPlanes, dangling>>

RunCleanup ==
  /\ Run("cleanup")
  /\ RemovePlanes
  /\ menuEnabled' = FALSE
  /\ UNCHANGED chosen

\* HandleSpawn or HandleDespawn: aircraft come, go, or neither.
RunRemote ==
  /\ Run("remote")
  /\ mapPlanes' \in BOOLEAN
  /\ \/ (mapPlanes \/ mapPlanes') /\ Notify
     \/ mapPlanes' = mapPlanes /\ UNCHANGED dangling
  /\ UNCHANGED <<chosen, menuEnabled>>

HasNotice(s) == \E i \in 1 .. Len(s) : s[i].kind \in {"open", "cleanup"}

\* HandleSpawn throws, before it has changed anything: the rest of the batch
\* is lost with the local deque.
SpawnRefused ==
  /\ Defined /\ batch # <<>> /\ Head(batch).kind = "remote"
  /\ batch' = <<>>
  /\ lost' = (lost \/ (HasNotice(batch) /\ ~HasNotice(queued)))
  /\ UNCHANGED <<life, chosen, serving, connected, gone, told, queued, mapPlanes, menuEnabled,
                 presses, dangling>>

RunSettings ==
  /\ Run("settings")
  /\ LoadConfig(Head(batch).settings)
  /\ UNCHANGED <<mapPlanes, menuEnabled, dangling>>

\* AircraftMaintenanceCallback, in a frame that reports the aircraft.
Maintenance(u) ==
  /\ Idle /\ mapPlanes
  /\ [callback |-> "Maintenance", refcon |-> u] \in registered
  /\ Use("Maintenance", u)
  /\ UNCHANGED <<life, chosen, session, mapPlanes, menuEnabled, presses>>

Press == \E u \in Addresses :
  PressShow(u) \/ PressType(u) \/ PressColour(u) \/ PressRange(u) \/ PressCutoff(u)

Unloaded == (phase = "stopped" /\ enables > 0) \/ ~Defined

Stopped == Unloaded /\ UNCHANGED vars

Next ==
  \/ XPluginStart \/ XPluginEnable \/ DeferredStartup \/ XPluginDisable \/ XPluginStop
  \/ Press \/ MenuHandler
  \/ Publish \/ QueueOpen \/ \E packet \in Packets : Receive(packet)
  \/ Retire \/ QueueCleanup \/ Throw \/ WorkerEnds \/ ClientLeaves
  \/ MainFlightLoop \/ RunOpen \/ RunCleanup \/ RunRemote \/ SpawnRefused \/ RunSettings
  \/ \E u \in Addresses : Maintenance(u)
  \/ Stopped

Spec == Init /\ [][Next]_vars
-----------------------------------------------------------------------------
TypeOK ==
  /\ phase \in {"stopped", "disabled", "enabled"}
  /\ environment \in Addresses \cup {None}
  /\ serving \in {"ended", "accepting", "opening", "polling", "leaving"}
  /\ started \in BOOLEAN /\ enables \in 0 .. MaxEnables /\ presses \in 0 .. MaxPresses
  /\ registered \subseteq [callback : Callbacks, refcon : Addresses]
  /\ config \in Settings /\ told \in Settings \cup {None}
  /\ menu \in Settings \cup {None}
  /\ labels \in [on : BOOLEAN, miles : Nat, cutoff : BOOLEAN] \cup {None}
  /\ queued \in Seq(Notices \cup Packets) /\ batch \in Seq(Notices \cup Packets)
  /\ mapPlanes \in BOOLEAN /\ menuEnabled \in BOOLEAN /\ connected \in BOOLEAN
  /\ gone \in BOOLEAN /\ loaded \in BOOLEAN /\ lost \in BOOLEAN
  /\ dangling \subseteq Callbacks

(* X-Plane never calls a flight loop of UniFly for one that is gone.         *)
LoopsLive == \A c \in registered : c.callback \in Loops => c.refcon = environment

(* Whoever changed the settings last, the menu shows them; also in another   *)
(* life of the plugin than the one that changed them.                        *)
MenuAgrees == menu # None => menu = Names(config)

(* After a command the aircraft are labelled as the settings say, until the  *)
(* client sends others: those are not put into effect before the next        *)
(* command.                                                                  *)
LabelsAgree == ~loaded => labels = Enacted(config)

(* What a client that is there was last told are the settings, unless it has *)
(* sent others since.  (A handler left over from an earlier life tells it    *)
(* nothing.)                                                                 *)
ClientTold ==
  Defined /\ connected /\ ~gone /\ ~loaded /\ told # None => told = config

(* Once the callbacks have run, the menu can be used exactly while a client  *)
(* is served, though clients come and go faster than frames.  Excepted are   *)
(* the three ways in which an open or a cleanup is not run: the plugin is    *)
(* disabled, an exception ends the session, or a refused spawn takes the     *)
(* rest of its batch along.  The next client puts the menu right, or, if the *)
(* session goes on, its own end does.                                        *)
MenuFollowsClient ==
  queued = <<>> /\ batch = <<>> /\ ~lost => (menuEnabled <=> Served)

(* "UniFly: Cycle Aircraft Labels type".                                     *)
TypeCommandCycles ==
  [][\A u \in Addresses : PressType(u) => config'.type = TypeNext(config.type)]_vars

(* "Once your flight loop callback is unregistered, it will not be called    *)
(* again", and ~AircraftManager unregisters its own.                         *)
MaintenanceEnds == "Maintenance" \notin dangling

=============================================================================
