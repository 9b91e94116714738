------------------------------ MODULE Traffic ------------------------------
(***************************************************************************)
(* What X-Plane's thread does with the aircraft of other pilots: the       *)
(* callbacks a frame carries out (aircraft_manager.cpp), the aircraft they *)
(* leave behind and how XPMP2 draws them (network_aircraft.cpp), the probe *)
(* each holds (terrain_probe.cpp), the reports that depend on X-Plane's    *)
(* frame counter, and control of the AI aircraft (unifly.cpp).             *)
(*                                                                         *)
(* Callbacks of the host do not interleave; in what order the callbacks of *)
(* a frame come is X-Plane's choice, and which commands are queued is the  *)
(* client's (Connection says in what order they arrive).  Coordinates and  *)
(* attitude are a place.                                                   *)
(***************************************************************************)
EXTENDS Integers, FiniteSets

CONSTANTS
  Peers,       \* the remote pilots
  Places,      \* where an aircraft can be reported to be
  None,        \* no aircraft, nothing said
  Elevation,   \* frames from one elevation report to the next (20)
  Infrequent,  \* frames from one LocalReadInfrequent to the next (90)
  Starts,      \* what X-Plane's counter may be when the plugin is enabled
  MaxCounter,  \* bound: X-Plane's counter
  MaxProbes    \* bound: probes made

\* An aircraft, and what the client has said of one.
Plane ==
  [probe : Nat, place : Places, engines : BOOLEAN, drawn : Places, turning : BOOLEAN]
Words == [place : Places, engines : BOOLEAN \cup {None}]

ASSUME PeersAssumption == IsFiniteSet(Peers)
ASSUME NoneAssumption == None \notin BOOLEAN /\ None \notin Plane /\ None \notin Words
ASSUME PeriodAssumption == Elevation \in Nat \ {0} /\ Infrequent \in Nat \ {0}
ASSUME StartAssumption == Starts \subseteq Nat /\ MaxCounter \in Nat /\ MaxProbes \in Nat

VARIABLES
  phase,       \* "enabled" until DeferredStartup, then "running", then "disabled"
  counter,     \* inCounter of this frame
  todo,        \* the callbacks this frame has still to make
  inMain,      \* MainFlightLoop is in InvokeQueuedCallbacks
  mapPlanes,   \* peer -> its NetworkAircraft, or None
  probes,      \* the probe handles X-Plane has given out and not got back
  made,        \* how many it has given out
  control,     \* who has the AI aircraft
  request,     \* our callback at XPLMAcquirePlanes: "none", "waiting", or "called"
  published,   \* the datarefs m_aiControlled and m_aircraftCount
  \* history
  said,        \* peer -> what the client has said of the aircraft there is
  lag,         \* the peers something was said of since they were last drawn
  pace,        \* report -> frames since the last one, and whether there was one
  dropped,     \* an exception has ended the last MainFlightLoop
  missed       \* and one has since the last LocalReadInfrequent that was due

fleet  == <<mapPlanes, probes, made, said, lag>>
frame  == <<counter, todo, inMain>>
tcas   == <<control, request>>
report == <<published, pace, dropped, missed>>
vars   == <<phase, fleet, frame, tcas, report>>

Reports == {"elevation", "infrequent"}
Period(r) == IF r = "elevation" THEN Elevation ELSE Infrequent

Present == {p \in Peers : mapPlanes[p] # None}

Init ==
  /\ phase = "enabled"
  /\ counter \in Starts /\ todo = {} /\ inMain = FALSE
  /\ mapPlanes = [p \in Peers |-> None] /\ probes = {} /\ made = 0
  /\ control \in {"none", "other"} /\ request = "none"
  /\ published = [ai |-> FALSE, count |-> 0]
  /\ said = [p \in Peers |-> None] /\ lag = {}
  /\ pace = [r \in Reports |-> [since |-> 0, begun |-> FALSE]]
  /\ dropped = FALSE /\ missed = FALSE

-----------------------------------------------------------------------------
(* The callbacks of the queue: aircraft_manager.cpp. *)

\* The constructor draws the aircraft at its place.  It leaves engines as the
\* memory is: engines is whatever was there.
NewAircraft(place, engines) ==
  [probe |-> made + 1, place |-> place, engines |-> engines,
   drawn |-> place, turning |-> FALSE]

HandleDespawn(p) ==
  /\ mapPlanes' = [mapPlanes EXCEPT ![p] = None]
  /\ probes' = IF p \in Present THEN probes \ {mapPlanes[p].probe} ELSE probes
  /\ said' = [said EXCEPT ![p] = None]
  /\ UNCHANGED <<made, lag>>

\* A spawn of an aircraft that is there removes it.
HandleSpawn(p, place, engines) ==
  \/ p \in Present /\ HandleDespawn(p)
  \/ /\ p \notin Present /\ made < MaxProbes
     /\ mapPlanes' = [mapPlanes EXCEPT ![p] = NewAircraft(place, engines)]
     /\ probes' = probes \cup {made + 1} /\ made' = made + 1
     /\ said' = [said EXCEPT ![p] = [place |-> place, engines |-> None]]
     /\ lag' = lag \ {p}

DespawnAll ==
  /\ mapPlanes' = [p \in Peers |-> None]
  /\ probes' = probes \ {mapPlanes[p].probe : p \in Present}
  /\ said' = [p \in Peers |-> None]
  /\ UNCHANGED <<made, lag>>

HandleReportPosition(p, place) ==
  IF p \in Present
  THEN /\ mapPlanes' = [mapPlanes EXCEPT ![p].place = place]
       /\ said' = [said EXCEPT ![p].place = place]
       /\ lag' = lag \cup {p}
       /\ UNCHANGED <<probes, made>>
  ELSE UNCHANGED fleet

HandleReportContext(p, engines) ==
  IF p \in Present
  THEN /\ mapPlanes' = [mapPlanes EXCEPT ![p].engines = engines]
       /\ said' = [said EXCEPT ![p].engines = engines]
       /\ lag' = lag \cup {p}
       /\ UNCHANGED <<probes, made>>
  ELSE UNCHANGED fleet

-----------------------------------------------------------------------------
(* A frame. *)

\* Fault: the counter is taken to count frames.
DueSingle(period) == counter % period = 0

\* "Counter counts in twos": the test holds for one frame in period, whether the
\* counter is odd or even.
Due(period) == counter % (2 * period) <= 1

\* The frame has come to report r, which is made or not.
Reported(r, yes) ==
  [pace EXCEPT ![r] = [since |-> IF yes THEN 1 ELSE @.since + 1, begun |-> yes \/ @.begun]]

NextFrame ==
  /\ phase # "disabled" /\ ~inMain /\ todo = {} /\ counter + 2 <= MaxCounter
  /\ counter' = counter + 2
  /\ todo' = {"maintenance"} \cup IF phase = "running" THEN {"main", "draw"} ELSE {}
  /\ UNCHANGED <<phase, inMain, fleet, tcas, report>>

\* XPMPMultiplayerEnable(callbackRequestTcasAgain).
XPMPMultiplayerEnable ==
  IF control = "none"
  THEN control' = "us" /\ request' = "none"
  ELSE request' = "waiting" /\ UNCHANGED control

\* DeferredStartup calls Initialize, which calls TryGetTcasControl.
DeferredStartup ==
  /\ phase = "enabled" /\ ~inMain
  /\ phase' = "running"
  /\ XPMPMultiplayerEnable
  /\ UNCHANGED <<fleet, frame, report>>

AircraftMaintenanceCallback ==
  /\ ~inMain /\ "maintenance" \in todo
  /\ todo' = todo \ {"maintenance"}
  /\ pace' = Reported("elevation", Due(Elevation))
  /\ UNCHANGED <<phase, counter, inMain, fleet, tcas, published, dropped, missed>>

EnterMain ==
  /\ ~inMain /\ "main" \in todo
  /\ inMain' = TRUE /\ todo' = todo \ {"main"}
  /\ UNCHANGED <<phase, counter, fleet, tcas, report>>

Callback ==
  /\ inMain
  /\ \E p \in Peers :
       \/ \E place \in Places, engines \in BOOLEAN : HandleSpawn(p, place, engines)
       \/ HandleDespawn(p)
       \/ \E place \in Places : HandleReportPosition(p, place)
       \/ \E engines \in BOOLEAN : HandleReportContext(p, engines)
       \/ DespawnAll
  /\ UNCHANGED <<phase, frame, tcas, report>>

\* Fault: the member is made before XPMP2 has accepted the aircraft.
SpawnRefusedLeaks(p) ==
  /\ inMain /\ p \notin Present /\ made < MaxProbes
  /\ inMain' = FALSE
  /\ probes' = probes \cup {made + 1} /\ made' = made + 1
  /\ pace' = Reported("infrequent", FALSE)
  /\ dropped' = TRUE /\ missed' = (missed \/ Due(Infrequent))
  /\ UNCHANGED <<phase, counter, todo, mapPlanes, said, lag, tcas, published>>

\* XPMP2 refuses the aircraft: the constructor of the base class throws, before
\* there is a probe.  The rest of the batch and of MainFlightLoop is skipped.
SpawnRefused(p) ==
  /\ inMain /\ p \notin Present
  /\ inMain' = FALSE
  /\ pace' = Reported("infrequent", FALSE)
  /\ dropped' = TRUE /\ missed' = (missed \/ Due(Infrequent))
  /\ UNCHANGED <<phase, counter, todo, fleet, tcas, published>>

\* Fault: the user's own aircraft is taken to be among those counted.
LeaveMainWithUser ==
  /\ inMain /\ inMain' = FALSE
  /\ published' = [ai |-> control = "us", count |-> Cardinality(Present) - 1]
  /\ pace' = Reported("infrequent", Due(Infrequent))
  /\ dropped' = FALSE /\ missed' = (missed /\ ~Due(Infrequent))
  /\ UNCHANGED <<phase, counter, todo, fleet, tcas>>

LeaveMain ==
  /\ inMain /\ inMain' = FALSE
  /\ published' = [ai |-> control = "us", count |-> Cardinality(Present)]
  /\ pace' = Reported("infrequent", Due(Infrequent))
  /\ dropped' = FALSE /\ missed' = (missed /\ ~Due(Infrequent))
  /\ UNCHANGED <<phase, counter, todo, fleet, tcas>>

\* Fault: a context report is taken to have been drawn.
UpdatePositionStill(plane) == [plane EXCEPT !.drawn = plane.place]

UpdatePosition(plane) == [plane EXCEPT !.drawn = plane.place, !.turning = plane.engines]

\* XPMP2 draws every aircraft it has, once a frame.
Draw ==
  /\ ~inMain /\ "draw" \in todo
  /\ todo' = todo \ {"draw"}
  /\ mapPlanes' = [p \in Peers |-> IF p \in Present THEN UpdatePosition(mapPlanes[p]) ELSE None]
  /\ lag' = {}
  /\ UNCHANGED <<phase, counter, inMain, probes, made, said, tcas, report>>

-----------------------------------------------------------------------------
(* Control of the AI aircraft; another plugin may have it. *)

OtherTakes ==
  /\ ~inMain /\ control = "none"
  /\ control' = "other"
  /\ UNCHANGED <<phase, fleet, frame, request, report>>

\* X-Plane owes a call to whoever has asked.
OtherReleases ==
  /\ ~inMain /\ control = "other"
  /\ control' = "none"
  /\ request' = IF request = "waiting" THEN "called" ELSE request
  /\ UNCHANGED <<phase, fleet, frame, report>>

\* Fault: the callback does not hand itself on.
CallbackRequestTcasOnce ==
  /\ phase # "disabled" /\ ~inMain /\ request = "called"
  /\ control' = (IF control = "none" THEN "us" ELSE control) /\ request' = "none"
  /\ UNCHANGED <<phase, fleet, frame, report>>

CallbackRequestTcasAgain ==
  /\ phase # "disabled" /\ ~inMain /\ request = "called"
  /\ XPMPMultiplayerEnable
  /\ UNCHANGED <<phase, fleet, frame, report>>

\* XPluginDisable gives the AI aircraft back and takes back no request; a disabled
\* plugin is called no more.
Disable ==
  /\ phase # "disabled" /\ ~inMain
  /\ phase' = "disabled" /\ todo' = {}
  /\ DespawnAll
  /\ control' = IF control = "us" THEN "none" ELSE control
  /\ UNCHANGED <<counter, inMain, request, report>>

Next ==
  \/ NextFrame \/ DeferredStartup \/ AircraftMaintenanceCallback
  \/ EnterMain \/ Callback \/ LeaveMain \/ Draw
  \/ \E p \in Peers : SpawnRefused(p)
  \/ OtherTakes \/ OtherReleases \/ CallbackRequestTcasAgain \/ Disable

Spec == Init /\ [][Next]_vars

-----------------------------------------------------------------------------
(* Properties. *)

\* Types.  What is said is said of the aircraft there are.
TypeOK ==
  /\ phase \in {"enabled", "running", "disabled"}
  /\ counter \in Nat /\ todo \subseteq {"maintenance", "main", "draw"} /\ inMain \in BOOLEAN
  /\ mapPlanes \in [Peers -> Plane \cup {None}]
  /\ probes \subseteq 1 .. made /\ made \in 0 .. MaxProbes
  /\ control \in {"none", "other", "us"} /\ request \in {"none", "waiting", "called"}
  /\ published \in [ai : BOOLEAN, count : Nat]
  /\ said \in [Peers -> Words \cup {None}] /\ lag \subseteq Peers
  /\ \A p \in Peers : mapPlanes[p] = None <=> said[p] = None
  /\ pace \in [Reports -> [since : Nat, begun : BOOLEAN]]
  /\ dropped \in BOOLEAN /\ missed \in BOOLEAN

\* What X-Plane has lent the plugin is in use, by one aircraft each, and all given
\* back when the plugin is disabled: however an aircraft goes (despawn, a second
\* spawn, the end of its session, disable) and whether or not XPMP2 has refused one.
GivesBack ==
  /\ probes = {mapPlanes[p].probe : p \in Present}
  /\ \A p, q \in Present : mapPlanes[p].probe = mapPlanes[q].probe => p = q
  /\ phase = "disabled" => probes = {} /\ control # "us"

\* Between frames everyone sees what the client has said last, of this aircraft and
\* not of one that had its place before: XPMP2 draws it there, with its engines as
\* reported once they have been (before, as the memory was), and the datarefs count
\* it.  An exception leaves the datarefs behind until the next frame.
ShownAsReported ==
  /\ \A p \in Present \ lag :
       /\ mapPlanes[p].drawn = said[p].place
       /\ said[p].engines # None => mapPlanes[p].turning = said[p].engines
  /\ phase = "running" /\ ~inMain /\ ~dropped => published.count = Cardinality(Present)
  /\ phase = "running" /\ published.ai => control = "us"

\* Reports that depend on the counter come every so many frames, odd or even
\* counter; only an exception in the very frame makes one fail.
ReportsPaced ==
  [][\A r \in Reports : pace'[r] # pace[r] =>
       /\ ~(missed' /\ r = "infrequent") => pace'[r].since <= Period(r)
       /\ pace[r].begun /\ pace'[r].since = 1 => pace[r].since % Period(r) = 0]_vars

\* While another plugin has the AI aircraft X-Plane has our request, and none is
\* left waiting for a release that has been.
NeverStopsAsking ==
  phase = "running" =>
    \/ control = "us" /\ request = "none"
    \/ control = "other" /\ request = "waiting"
    \/ control # "us" /\ request = "called"
=============================================================================
