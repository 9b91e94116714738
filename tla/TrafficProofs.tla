--------------------------- MODULE TrafficProofs ---------------------------
(***************************************************************************)
(* Proofs about the aircraft, their probes, the reports paced by X-Plane's *)
(* counter and the AI aircraft, for any number of peers and probes and any *)
(* periods.                                                                *)
(***************************************************************************)
EXTENDS Traffic, FiniteSetTheorems, TLAPS

USE PeersAssumption, NoneAssumption, PeriodAssumption, StartAssumption

-----------------------------------------------------------------------------
(* Types, probes and what is shown. *)

\* What the steps that concern the aircraft need of each other.
FleetInv ==
  /\ mapPlanes \in [Peers -> Plane \cup {None}]
  /\ said \in [Peers -> Words \cup {None}]
  /\ \A p \in Peers : mapPlanes[p] = None <=> said[p] = None
  /\ lag \subseteq Peers
  /\ probes \subseteq 1 .. made /\ made \in 0 .. MaxProbes
  /\ probes = {mapPlanes[p].probe : p \in Present}
  /\ \A p, q \in Present : mapPlanes[p].probe = mapPlanes[q].probe => p = q
  /\ \A p \in Present \ lag :
       /\ mapPlanes[p].drawn = said[p].place
       /\ said[p].engines # None => mapPlanes[p].turning = said[p].engines
  \* an aircraft is drawn from these
  /\ \A p \in Present :
       /\ mapPlanes[p].place = said[p].place
       /\ said[p].engines # None => mapPlanes[p].engines = said[p].engines

LEMMA DespawnFleet ==
  ASSUME FleetInv, NEW p \in Peers, HandleDespawn(p)
  PROVE  FleetInv'
<1>1. /\ mapPlanes' = [mapPlanes EXCEPT ![p] = None] /\ said' = [said EXCEPT ![p] = None]
      /\ UNCHANGED <<made, lag>>
      /\ probes' = IF p \in Present THEN probes \ {mapPlanes[p].probe} ELSE probes
  BY DEF HandleDespawn
<1>2. mapPlanes' \in [Peers -> Plane \cup {None}] /\ said' \in [Peers -> Words \cup {None}]
  BY <1>1 DEF FleetInv
<1>3. /\ mapPlanes'[p] = None /\ said'[p] = None
      /\ \A q \in Peers \ {p} : mapPlanes'[q] = mapPlanes[q] /\ said'[q] = said[q]
  BY <1>1 DEF FleetInv
<1>4. Present' = Present \ {p}
  BY <1>3 DEF Present
<1>5. probes' = {mapPlanes'[q].probe : q \in Present'}
  <2>1. {mapPlanes'[q].probe : q \in Present'} = {mapPlanes[q].probe : q \in Present \ {p}}
    BY <1>3, <1>4 DEF Present
  <2>2. CASE p \in Present
    <3>1. \A q \in Present \ {p} : mapPlanes[q].probe # mapPlanes[p].probe
      BY <2>2 DEF FleetInv
    <3> QED
      BY SMTT(60), <1>1, <2>1, <2>2, <3>1 DEF FleetInv
  <2>3. CASE p \notin Present
    BY <1>1, <2>1, <2>3 DEF FleetInv
  <2> QED
    BY <2>2, <2>3
<1>6. probes' \subseteq 1 .. made'
  BY <1>1 DEF FleetInv
<1>7. \A q \in Present' : q \in Present /\ q # p /\ mapPlanes'[q] = mapPlanes[q] /\ said'[q] = said[q]
  BY <1>3, <1>4 DEF Present
<1>8. \A q, r \in Present' : mapPlanes'[q].probe = mapPlanes'[r].probe => q = r
  BY <1>7 DEF FleetInv
<1>9. \A q \in Peers : mapPlanes'[q] = None <=> said'[q] = None
  BY <1>3 DEF FleetInv
<1>10. \A q \in Present' \ lag' :
         /\ mapPlanes'[q].drawn = said'[q].place
         /\ said'[q].engines # None => mapPlanes'[q].turning = said'[q].engines
  BY <1>1, <1>7 DEF FleetInv
<1>11. \A q \in Present' :
         /\ mapPlanes'[q].place = said'[q].place
         /\ said'[q].engines # None => mapPlanes'[q].engines = said'[q].engines
  BY <1>7 DEF FleetInv
<1>12. lag' \subseteq Peers /\ made' \in 0 .. MaxProbes
  BY <1>1 DEF FleetInv
<1> QED
  BY <1>2, <1>5, <1>6, <1>8, <1>9, <1>10, <1>11, <1>12 DEF FleetInv

LEMMA NewFleet ==
  ASSUME FleetInv, NEW p \in Peers, p \notin Present, made < MaxProbes,
         NEW place \in Places, NEW engines \in BOOLEAN,
         mapPlanes' = [mapPlanes EXCEPT ![p] = NewAircraft(place, engines)],
         probes' = probes \cup {made + 1}, made' = made + 1,
         said' = [said EXCEPT ![p] = [place |-> place, engines |-> None]],
         lag' = lag \ {p}
  PROVE  FleetInv'
<1> DEFINE plane == NewAircraft(place, engines)
           words == [place |-> place, engines |-> None]
<1>0. made \in Nat /\ MaxProbes \in Nat
  BY DEF FleetInv
<1>1. plane \in Plane /\ words \in Words
  BY <1>0 DEF NewAircraft, Plane, Words
<1>2. /\ plane.probe = made + 1 /\ plane.place = place /\ plane.drawn = place
      /\ words.place = place /\ words.engines = None
  BY DEF NewAircraft
<1> HIDE DEF plane, words
<1>3. mapPlanes' \in [Peers -> Plane \cup {None}] /\ said' \in [Peers -> Words \cup {None}]
  BY <1>1 DEF FleetInv, plane, words
<1>4. /\ mapPlanes'[p] = plane /\ said'[p] = words
      /\ \A q \in Peers \ {p} : mapPlanes'[q] = mapPlanes[q] /\ said'[q] = said[q]
  BY DEF FleetInv, plane, words
<1>5. plane # None /\ words # None
  BY <1>1
<1>6. Present' = Present \cup {p}
  BY <1>4, <1>5 DEF Present
<1>7. \A q \in Present : q # p /\ mapPlanes'[q] = mapPlanes[q] /\ said'[q] = said[q]
  BY <1>4 DEF Present
<1>8. probes' \subseteq 1 .. made' /\ made' \in 0 .. MaxProbes /\ lag' \subseteq Peers
  BY SMTT(60), <1>0 DEF FleetInv
<1>9. probes' = {mapPlanes'[q].probe : q \in Present'}
  <2>1. {mapPlanes'[q].probe : q \in Present'} = {mapPlanes[q].probe : q \in Present} \cup {plane.probe}
    BY <1>4, <1>6, <1>7
  <2> QED
    BY <1>2, <2>1 DEF FleetInv
<1>10. \A q \in Present : mapPlanes[q].probe \in 1 .. made
  BY DEF FleetInv
<1>11. \A q \in Present : mapPlanes'[q].probe # plane.probe
  BY <1>0, <1>2, <1>7, <1>10
<1>12. \A q, r \in Present' : mapPlanes'[q].probe = mapPlanes'[r].probe => q = r
  BY <1>4, <1>6, <1>7, <1>11 DEF FleetInv
<1>13. \A q \in Present' \ lag' :
         /\ mapPlanes'[q].drawn = said'[q].place
         /\ said'[q].engines # None => mapPlanes'[q].turning = said'[q].engines
  BY <1>2, <1>4, <1>6, <1>7 DEF FleetInv
<1>14. \A q \in Present' :
         /\ mapPlanes'[q].place = said'[q].place
         /\ said'[q].engines # None => mapPlanes'[q].engines = said'[q].engines
  BY <1>2, <1>4, <1>6, <1>7 DEF FleetInv
<1>15. \A q \in Peers : mapPlanes'[q] = None <=> said'[q] = None
  BY <1>4, <1>5 DEF FleetInv
<1> QED
  BY <1>3, <1>8, <1>9, <1>12, <1>13, <1>14, <1>15 DEF FleetInv

LEMMA DespawnAllFleet ==
  ASSUME FleetInv, DespawnAll
  PROVE  FleetInv' /\ probes' = {}
<1>1. /\ mapPlanes' = [p \in Peers |-> None] /\ said' = [p \in Peers |-> None]
      /\ UNCHANGED <<made, lag>>
      /\ probes' = probes \ {mapPlanes[p].probe : p \in Present}
  BY DEF DespawnAll
<1>2. Present' = {}
  BY <1>1 DEF Present
<1>3. probes' = {}
  BY <1>1 DEF FleetInv
<1> QED
  BY <1>1, <1>2, <1>3 DEF FleetInv

\* A report about an aircraft that is there: its plane and what is said of it
\* change, its probe does not.
LEMMA ReportFleet ==
  ASSUME FleetInv, NEW p \in Present, NEW plane \in Plane, NEW words \in Words,
         mapPlanes' = [mapPlanes EXCEPT ![p] = plane], said' = [said EXCEPT ![p] = words],
         plane.probe = mapPlanes[p].probe, plane.place = words.place,
         words.engines # None => plane.engines = words.engines,
         lag' = lag \cup {p}, UNCHANGED <<probes, made>>
  PROVE  FleetInv'
<1>0. p \in Peers
  BY DEF Present
<1>1. /\ mapPlanes'[p] = plane /\ said'[p] = words
      /\ \A q \in Peers \ {p} : mapPlanes'[q] = mapPlanes[q] /\ said'[q] = said[q]
  BY <1>0 DEF FleetInv
<1>2. plane # None /\ words # None
  OBVIOUS
<1>3. Present' = Present
  BY <1>0, <1>1, <1>2 DEF Present
<1>4. \A q \in Present : mapPlanes'[q].probe = mapPlanes[q].probe
  BY <1>1 DEF Present
<1>5. \A q \in Present \ {p} : mapPlanes'[q] = mapPlanes[q] /\ said'[q] = said[q]
  BY <1>1 DEF Present
<1>6. mapPlanes' \in [Peers -> Plane \cup {None}] /\ said' \in [Peers -> Words \cup {None}]
  BY <1>0 DEF FleetInv
<1>7. probes' = {mapPlanes'[q].probe : q \in Present'}
  BY <1>3, <1>4 DEF FleetInv
<1>8. \A q, r \in Present' : mapPlanes'[q].probe = mapPlanes'[r].probe => q = r
  BY <1>3, <1>4 DEF FleetInv
<1>9. \A q \in Peers : mapPlanes'[q] = None <=> said'[q] = None
  BY <1>1, <1>2 DEF FleetInv
<1>10. lag' \subseteq Peers /\ probes' \subseteq 1 .. made' /\ made' \in 0 .. MaxProbes
  BY <1>0 DEF FleetInv
<1>11. \A q \in Present' \ lag' :
         /\ mapPlanes'[q].drawn = said'[q].place
         /\ said'[q].engines # None => mapPlanes'[q].turning = said'[q].engines
  BY <1>3, <1>5 DEF FleetInv
<1>12. \A q \in Present' :
         /\ mapPlanes'[q].place = said'[q].place
         /\ said'[q].engines # None => mapPlanes'[q].engines = said'[q].engines
  BY <1>1, <1>3, <1>5 DEF FleetInv
<1> QED
  BY <1>6, <1>7, <1>8, <1>9, <1>10, <1>11, <1>12 DEF FleetInv

LEMMA CallbackFleet ==
  ASSUME FleetInv, Callback
  PROVE  FleetInv'
<1>1. ASSUME NEW p \in Peers, NEW place \in Places, NEW engines \in BOOLEAN, HandleSpawn(p, place, engines)
      PROVE  FleetInv'
  BY <1>1, DespawnFleet, NewFleet DEF HandleSpawn
<1>2. ASSUME NEW p \in Peers, NEW place \in Places, HandleReportPosition(p, place)
      PROVE  FleetInv'
  <2>1. CASE p \in Present
    <3> DEFINE plane == [mapPlanes[p] EXCEPT !.place = place]
               words == [said[p] EXCEPT !.place = place]
    <3>1. mapPlanes[p] \in Plane /\ said[p] \in Words
      BY <2>1 DEF FleetInv, Present
    <3>2. /\ plane \in Plane /\ words \in Words
          /\ plane.probe = mapPlanes[p].probe /\ plane.place = place /\ words.place = place
          /\ plane.engines = mapPlanes[p].engines /\ words.engines = said[p].engines
      BY <3>1 DEF Plane, Words
    <3>3. /\ mapPlanes' = [mapPlanes EXCEPT ![p] = plane] /\ said' = [said EXCEPT ![p] = words]
          /\ lag' = lag \cup {p} /\ UNCHANGED <<probes, made>>
      BY <1>2, <2>1 DEF HandleReportPosition
    <3>4. words.engines # None => plane.engines = words.engines
      BY <2>1, <3>2 DEF FleetInv
    <3> HIDE DEF plane, words
    <3> QED
      BY <2>1, <3>2, <3>3, <3>4, ReportFleet
  <2>2. CASE p \notin Present
    BY <1>2, <2>2 DEF HandleReportPosition, FleetInv, fleet, Present
  <2> QED
    BY <2>1, <2>2
<1>3. ASSUME NEW p \in Peers, NEW engines \in BOOLEAN, HandleReportContext(p, engines)
      PROVE  FleetInv'
  <2>1. CASE p \in Present
    <3> DEFINE plane == [mapPlanes[p] EXCEPT !.engines = engines]
               words == [said[p] EXCEPT !.engines = engines]
    <3>1. mapPlanes[p] \in Plane /\ said[p] \in Words
      BY <2>1 DEF FleetInv, Present
    <3>2. /\ plane \in Plane /\ words \in Words
          /\ plane.probe = mapPlanes[p].probe
          /\ plane.place = mapPlanes[p].place /\ words.place = said[p].place
          /\ plane.engines = engines /\ words.engines = engines
      BY <3>1 DEF Plane, Words
    <3>3. /\ mapPlanes' = [mapPlanes EXCEPT ![p] = plane] /\ said' = [said EXCEPT ![p] = words]
          /\ lag' = lag \cup {p} /\ UNCHANGED <<probes, made>>
      BY <1>3, <2>1 DEF HandleReportContext
    <3>4. plane.place = words.place
      BY <2>1, <3>2 DEF FleetInv
    <3> HIDE DEF plane, words
    <3> QED
      BY <2>1, <3>2, <3>3, <3>4, ReportFleet
  <2>2. CASE p \notin Present
    BY <1>3, <2>2 DEF HandleReportContext, FleetInv, fleet, Present
  <2> QED
    BY <2>1, <2>2
<1> QED
  BY <1>1, <1>2, <1>3, DespawnFleet, DespawnAllFleet DEF Callback

LEMMA DrawFleet ==
  ASSUME FleetInv, Draw
  PROVE  FleetInv' /\ Present' = Present
<1>1. /\ mapPlanes' = [p \in Peers |-> IF p \in Present THEN UpdatePosition(mapPlanes[p]) ELSE None]
      /\ lag' = {} /\ UNCHANGED <<probes, made, said>>
  BY DEF Draw
<1>2. ASSUME NEW p \in Present
      PROVE  /\ mapPlanes'[p] \in Plane /\ mapPlanes'[p] # None
             /\ mapPlanes'[p].probe = mapPlanes[p].probe
             /\ mapPlanes'[p].place = mapPlanes[p].place /\ mapPlanes'[p].drawn = mapPlanes[p].place
             /\ mapPlanes'[p].engines = mapPlanes[p].engines /\ mapPlanes'[p].turning = mapPlanes[p].engines
  <2>1. p \in Peers /\ mapPlanes[p] \in Plane
    BY DEF FleetInv, Present
  <2>2. mapPlanes'[p] = UpdatePosition(mapPlanes[p])
    BY <1>1, <2>1
  <2>3. mapPlanes'[p] \in Plane
    BY <2>1, <2>2 DEF UpdatePosition, Plane
  <2> QED
    BY <2>1, <2>2, <2>3 DEF UpdatePosition, Plane
<1>3. \A p \in Peers \ Present : mapPlanes'[p] = None
  BY <1>1
<1>4. Present' = Present
  BY <1>2, <1>3 DEF Present
<1>5. mapPlanes' \in [Peers -> Plane \cup {None}]
  BY <1>1, <1>2 DEF Present
<1>6. probes' = {mapPlanes'[q].probe : q \in Present'}
  <2>1. {mapPlanes'[q].probe : q \in Present'} = {mapPlanes[q].probe : q \in Present}
    BY <1>2, <1>4
  <2>2. probes' = probes /\ probes = {mapPlanes[q].probe : q \in Present}
    BY <1>1 DEF FleetInv
  <2> QED
    BY <2>1, <2>2
<1>7. \A p, q \in Present' : mapPlanes'[p].probe = mapPlanes'[q].probe => p = q
  BY <1>2, <1>4 DEF FleetInv
<1>8. \A p \in Peers : mapPlanes'[p] = None <=> said'[p] = None
  BY <1>1, <1>2, <1>3 DEF FleetInv, Present
<1>9. ASSUME NEW p \in Present'
      PROVE  /\ mapPlanes'[p].place = said'[p].place /\ mapPlanes'[p].drawn = said'[p].place
             /\ said'[p].engines # None => mapPlanes'[p].engines = said'[p].engines
             /\ said'[p].engines # None => mapPlanes'[p].turning = said'[p].engines
  <2>1. p \in Present /\ said'[p] = said[p]
    BY <1>1, <1>4, <1>9
  <2>2. /\ mapPlanes[p].place = said[p].place
        /\ said[p].engines # None => mapPlanes[p].engines = said[p].engines
    BY <2>1 DEF FleetInv
  <2> QED
    BY <1>2, <2>1, <2>2
<1> QED
  BY <1>1, <1>4, <1>5, <1>6, <1>7, <1>8, <1>9 DEF FleetInv

-----------------------------------------------------------------------------
(* The whole state, but for the pace of the reports. *)

RestInv ==
  /\ phase \in {"enabled", "running", "disabled"}
  /\ counter \in Nat /\ todo \subseteq {"maintenance", "main", "draw"} /\ inMain \in BOOLEAN
  /\ control \in {"none", "other", "us"} /\ request \in {"none", "waiting", "called"}
  /\ published \in [ai : BOOLEAN, count : Nat]
  /\ pace \in [Reports -> [since : Nat, begun : BOOLEAN]]
  /\ dropped \in BOOLEAN /\ missed \in BOOLEAN
  \* the host does not enter the plugin again before MainFlightLoop returns
  /\ inMain \/ todo # {} => phase # "disabled"
  /\ inMain \/ "main" \in todo => phase = "running"
  /\ inMain => "main" \notin todo
  /\ phase = "enabled" => request = "none"
  /\ phase = "enabled" => control # "us" /\ Present = {} /\ published.count = 0
  /\ phase = "disabled" => probes = {} /\ control # "us"
  /\ phase = "running" /\ ~inMain /\ ~dropped => published.count = Cardinality(Present)
  /\ phase \in {"enabled", "running"} /\ published.ai => control = "us"

IInv == FleetInv /\ RestInv /\ NeverStopsAsking

LEMMA PresentFinite == Cardinality(Present) \in Nat
<1>1. IsFiniteSet(Present)
  BY FS_Subset DEF Present
<1> QED
  BY <1>1, FS_CardinalityType

LEMMA ReportedType ==
  ASSUME pace \in [Reports -> [since : Nat, begun : BOOLEAN]], NEW r \in Reports, NEW yes \in BOOLEAN
  PROVE  Reported(r, yes) \in [Reports -> [since : Nat, begun : BOOLEAN]]
<1>1. pace[r].since \in Nat /\ pace[r].begun \in BOOLEAN
  OBVIOUS
<1>2. [since |-> IF yes THEN 1 ELSE pace[r].since + 1, begun |-> yes \/ pace[r].begun]
        \in [since : Nat, begun : BOOLEAN]
  BY <1>1
<1> QED
  BY <1>2 DEF Reported

LEMMA DueBoolean == ASSUME NEW period \in Nat PROVE Due(period) \in BOOLEAN
  BY DEF Due

LEMMA InvInit == Init => IInv
<1> SUFFICES ASSUME Init PROVE IInv
  OBVIOUS
<1>1. Present = {} /\ Cardinality({}) = 0
  BY FS_EmptySet DEF Init, Present
<1>2. FleetInv
  BY <1>1 DEF Init, FleetInv
<1>3. RestInv
  <2>1. pace \in [Reports -> [since : Nat, begun : BOOLEAN]]
    BY DEF Init
  <2> QED
    BY <1>1, <2>1 DEF Init, RestInv
<1> QED
  BY <1>2, <1>3 DEF Init, IInv, NeverStopsAsking

\* The steps that leave the aircraft alone.
LEMMA FleetUnchanged ==
  ASSUME FleetInv, UNCHANGED fleet
  PROVE  FleetInv' /\ Present' = Present /\ probes' = probes
  BY DEF fleet, FleetInv, Present

LEMMA InvNext == IInv /\ [Next]_vars => IInv'
<1> SUFFICES ASSUME IInv, [Next]_vars PROVE IInv'
  OBVIOUS
<1> USE DEF Reports
<1>1. CASE NextFrame
  <2>1. FleetInv' /\ Present' = Present /\ probes' = probes
    BY <1>1, FleetUnchanged DEF NextFrame, IInv
  <2> QED
    BY <1>1, <2>1 DEF NextFrame, IInv, RestInv, NeverStopsAsking, tcas, report
<1>2. CASE DeferredStartup
  <2>1. FleetInv' /\ Present' = Present /\ probes' = probes
    BY <1>2, FleetUnchanged DEF DeferredStartup, IInv
  <2>2. Cardinality({}) = 0
    BY FS_EmptySet
  <2> QED
    BY <1>2, <2>1, <2>2 DEF DeferredStartup, XPMPMultiplayerEnable, IInv, RestInv, NeverStopsAsking,
       frame, report
<1>3. CASE AircraftMaintenanceCallback
  <2>1. FleetInv' /\ Present' = Present /\ probes' = probes
    BY <1>3, FleetUnchanged DEF AircraftMaintenanceCallback, IInv
  <2>2. pace' \in [Reports -> [since : Nat, begun : BOOLEAN]]
    BY <1>3, ReportedType, DueBoolean DEF AircraftMaintenanceCallback, IInv, RestInv
  <2> QED
    BY <1>3, <2>1, <2>2 DEF AircraftMaintenanceCallback, IInv, RestInv, NeverStopsAsking, tcas
<1>4. CASE EnterMain
  <2>1. FleetInv' /\ Present' = Present /\ probes' = probes
    BY <1>4, FleetUnchanged DEF EnterMain, IInv
  <2> QED
    BY <1>4, <2>1 DEF EnterMain, IInv, RestInv, NeverStopsAsking, tcas, report
<1>5. CASE Callback
  <2>1. FleetInv'
    BY <1>5, CallbackFleet DEF IInv
  <2>2. inMain /\ UNCHANGED <<phase, frame, tcas, report>>
    BY <1>5 DEF Callback
  <2> QED
    BY <2>1, <2>2 DEF IInv, RestInv, NeverStopsAsking, frame, tcas, report
<1>6. CASE LeaveMain
  <2>1. FleetInv' /\ Present' = Present /\ probes' = probes
    BY <1>6, FleetUnchanged DEF LeaveMain, IInv
  <2>2. pace' \in [Reports -> [since : Nat, begun : BOOLEAN]]
    BY <1>6, ReportedType, DueBoolean DEF LeaveMain, IInv, RestInv
  <2>3. /\ published' \in [ai : BOOLEAN, count : Nat]
        /\ published'.count = Cardinality(Present)' /\ published'.ai <=> control = "us"
    BY <1>6, <2>1, PresentFinite DEF LeaveMain
  <2>4. missed' \in BOOLEAN /\ dropped' = FALSE
    BY <1>6 DEF LeaveMain, IInv, RestInv
  <2> QED
    BY <1>6, <2>1, <2>2, <2>3, <2>4 DEF LeaveMain, IInv, RestInv, NeverStopsAsking, tcas
<1>7. CASE Draw
  <2>1. FleetInv' /\ Present' = Present
    BY <1>7, DrawFleet DEF IInv
  <2> QED
    BY <1>7, <2>1 DEF Draw, IInv, RestInv, NeverStopsAsking, tcas, report
<1>8. ASSUME NEW p \in Peers, SpawnRefused(p)
      PROVE  IInv'
  <2>1. FleetInv' /\ Present' = Present /\ probes' = probes
    BY <1>8, FleetUnchanged DEF SpawnRefused, IInv
  <2>2. pace' \in [Reports -> [since : Nat, begun : BOOLEAN]]
    BY <1>8, ReportedType DEF SpawnRefused, IInv, RestInv
  <2>3. missed' \in BOOLEAN /\ dropped' = TRUE
    BY <1>8, DueBoolean DEF SpawnRefused, IInv, RestInv
  <2> QED
    BY <1>8, <2>1, <2>2, <2>3 DEF SpawnRefused, IInv, RestInv, NeverStopsAsking, tcas
<1>9. CASE OtherTakes
  <2>1. FleetInv' /\ Present' = Present /\ probes' = probes
    BY <1>9, FleetUnchanged DEF OtherTakes, IInv
  <2> QED
    BY <1>9, <2>1 DEF OtherTakes, IInv, RestInv, NeverStopsAsking, frame, report
<1>10. CASE OtherReleases
  <2>1. FleetInv' /\ Present' = Present /\ probes' = probes
    BY <1>10, FleetUnchanged DEF OtherReleases, IInv
  <2> QED
    BY <1>10, <2>1 DEF OtherReleases, IInv, RestInv, NeverStopsAsking, frame, report
<1>11. CASE CallbackRequestTcasAgain
  <2>1. FleetInv' /\ Present' = Present /\ probes' = probes
    BY <1>11, FleetUnchanged DEF CallbackRequestTcasAgain, IInv
  <2>2. phase = "running" /\ UNCHANGED <<phase, counter, todo, inMain, published, pace, dropped, missed>>
    BY <1>11 DEF CallbackRequestTcasAgain, IInv, RestInv, frame, report
  <2>3. \/ control' = "us" /\ request' = "none"
        \/ control' = control /\ control # "none" /\ request' = "waiting"
    BY <1>11 DEF CallbackRequestTcasAgain, XPMPMultiplayerEnable
  <2>4. control # "us"
    BY <1>11 DEF CallbackRequestTcasAgain, IInv, NeverStopsAsking, RestInv
  <2> QED
    BY <2>1, <2>2, <2>3, <2>4 DEF IInv, RestInv, NeverStopsAsking
<1>12. CASE Disable
  <2>1. FleetInv' /\ probes' = {}
    BY <1>12, DespawnAllFleet DEF Disable, IInv
  <2> QED
    BY <1>12, <2>1 DEF Disable, IInv, RestInv, NeverStopsAsking, report
<1>13. CASE UNCHANGED vars
  <2>1. FleetInv' /\ Present' = Present /\ probes' = probes
    BY <1>13, FleetUnchanged DEF vars, IInv
  <2> QED
    BY <1>13, <2>1 DEF vars, frame, tcas, report, IInv, RestInv, NeverStopsAsking
<1> QED
  BY <1>1, <1>2, <1>3, <1>4, <1>5, <1>6, <1>7, <1>8, <1>9, <1>10, <1>11, <1>12, <1>13 DEF Next

LEMMA TrafficInv == Spec => []IInv
  BY InvInit, InvNext, PTL DEF Spec

(* Every aircraft, probe, published value and report has its type. *)
THEOREM TrafficTypeCorrect == Spec => []TypeOK
<1>1. IInv => TypeOK
  BY DEF IInv, FleetInv, RestInv, TypeOK
<1> QED
  BY <1>1, TrafficInv, PTL

(* The probes X-Plane has lent are those of the aircraft there are, one each, *)
(* in spite of refused aircraft, and none is kept by a disabled plugin.       *)
THEOREM ProbesGivenBack == Spec => []GivesBack
<1>1. IInv => GivesBack
  BY DEF IInv, FleetInv, RestInv, GivesBack
<1> QED
  BY <1>1, TrafficInv, PTL

(* What is drawn and counted is what the client has said of the aircraft *)
(* there are.                                                            *)
THEOREM DrawnAndCounted == Spec => []ShownAsReported
<1>1. IInv => ShownAsReported
  BY DEF IInv, FleetInv, RestInv, ShownAsReported
<1> QED
  BY <1>1, TrafficInv, PTL

(* The request for the AI aircraft is never lost. *)
THEOREM AskingGoesOn == Spec => []NeverStopsAsking
<1>1. IInv => NeverStopsAsking
  BY DEF IInv
<1> QED
  BY <1>1, TrafficInv, PTL

-----------------------------------------------------------------------------
(* The pace of the reports.  Counted in twos from either parity, the counter *)
(* passes through the slots 0 .. period - 1 in turn, and a report is due in  *)
(* slot 0.                                                                   *)

SlotOf(c, period) == (c % (2 * period)) \div 2

LEMMA Quotient ==
  ASSUME NEW m \in Nat \ {0}, NEW c \in Nat
  PROVE  c = (m * (c \div m)) + (c % m) /\ c \div m \in Int /\ c % m \in 0 .. m - 1
  OBVIOUS

LEMMA Remainder ==
  ASSUME NEW m \in Nat \ {0}, NEW q \in Int, NEW r \in 0 .. m - 1
  PROVE  ((m * q) + r) % m = r
  OBVIOUS

\* Adding less than m to a number adds to its remainder, or wraps it.
LEMMA RemainderAdd ==
  ASSUME NEW m \in Nat \ {0}, NEW c \in Nat, NEW n \in 0 .. m
  PROVE  (c + n) % m = IF (c % m) + n < m THEN (c % m) + n ELSE (c % m) + n - m
<1> DEFINE q == c \div m
           r == c % m
<1>1. q \in Int /\ r \in 0 .. m - 1 /\ c = (m * q) + r
  BY Quotient
<1> HIDE DEF q, r
<1>2. CASE r + n < m
  <2>1. c + n = (m * q) + (r + n)
    BY <1>1
  <2>2. r + n \in 0 .. m - 1
    BY <1>1, <1>2
  <2>3. (c + n) % m = r + n
    BY <1>1, <2>1, <2>2, Remainder
  <2> QED
    BY <1>2, <2>3 DEF r
<1>3. CASE ~(r + n < m)
  <2>1. c + n = (m * (q + 1)) + (r + n - m) /\ q + 1 \in Int
    BY <1>1
  <2>2. r + n - m \in 0 .. m - 1
    BY <1>1, <1>3
  <2>3. (c + n) % m = r + n - m
    BY <2>1, <2>2, Remainder
  <2> QED
    BY <1>3, <2>3 DEF r
<1> QED
  BY <1>2, <1>3

LEMMA SlotNext ==
  ASSUME NEW period \in Nat \ {0}, NEW c \in Nat
  PROVE  /\ SlotOf(c, period) \in 0 .. period - 1
         /\ SlotOf(c + 2, period) =
              IF SlotOf(c, period) = period - 1 THEN 0 ELSE SlotOf(c, period) + 1
         /\ (c % (2 * period) <= 1) <=> SlotOf(c, period) = 0
<1> DEFINE m == 2 * period
           r == c % m
<1>1. m \in Nat \ {0} /\ 2 \in 0 .. m /\ m = 2 * period
  OBVIOUS
<1> HIDE DEF m
<1>2. r \in 0 .. m - 1
  BY <1>1, Quotient
<1>3. (c + 2) % m = IF r + 2 < m THEN r + 2 ELSE r + 2 - m
  BY <1>1, RemainderAdd
<1>4. SlotOf(c, period) = r \div 2 /\ SlotOf(c + 2, period) = ((c + 2) % m) \div 2
  BY DEF SlotOf, m
<1>5. (c % (2 * period) <= 1) <=> r <= 1
  BY DEF m
<1> HIDE DEF r
<1> QED
  BY <1>1, <1>2, <1>3, <1>4, <1>5

\* What the pace of a report is, whose last turn came in slot a.
Steady(period, a, since, begun, spoilt) ==
  /\ begun => since % period = (a + 1) % period
  /\ ~spoilt => IF begun THEN since = a + 1 ELSE since <= a

Before(s, period) == IF s = 0 THEN period - 1 ELSE s - 1

LEMMA SteadyTurn ==
  ASSUME NEW period \in Nat \ {0}, NEW s \in 0 .. period - 1,
         NEW since \in Nat, NEW begun \in BOOLEAN, NEW spoilt \in BOOLEAN,
         Steady(period, Before(s, period), since, begun, spoilt),
         NEW yes \in BOOLEAN, NEW after \in BOOLEAN, yes => s = 0,
         ~yes /\ ~after => s # 0 /\ ~spoilt,
         NEW next, next = IF yes THEN 1 ELSE since + 1
  PROVE  /\ Steady(period, s, next, yes \/ begun, after)
         /\ ~after => next <= period
         /\ begun /\ next = 1 => since % period = 0
<1>1. 0 % period = 0 /\ period % period = 0
  <2>1. 0 = (period * 0) + 0 /\ period = (period * 1) + 0 /\ 0 \in 0 .. period - 1
    OBVIOUS
  <2> QED
    BY <2>1, Remainder
<1>2. begun => since % period = s % period
  <2>1. CASE s = 0
    BY <1>1, <2>1 DEF Steady, Before
  <2>2. CASE s # 0
    <3>1. s - 1 + 1 = s
      OBVIOUS
    <3> QED
      BY <2>2, <3>1 DEF Steady, Before
  <2> QED
    BY <2>1, <2>2
<1>3. CASE yes
  <2>1. s = 0 /\ next = 1 /\ s + 1 = 1
    BY <1>3
  <2> QED
    BY <1>1, <1>2, <1>3, <2>1 DEF Steady
<1>4. CASE ~yes
  <2>1. next = since + 1
    BY <1>4
  <2>2. begun => (since + 1) % period = (s + 1) % period
    <3>1. 1 \in 0 .. period /\ s \in Nat
      OBVIOUS
    <3>2. (since + 1) % period =
            IF (since % period) + 1 < period THEN (since % period) + 1 ELSE (since % period) + 1 - period
      BY <3>1, RemainderAdd
    <3>3. (s + 1) % period =
            IF (s % period) + 1 < period THEN (s % period) + 1 ELSE (s % period) + 1 - period
      BY <3>1, RemainderAdd
    <3> QED
      BY <1>2, <3>2, <3>3
  <2>3. ~after => IF begun THEN since + 1 = s + 1 ELSE since + 1 <= s
    BY <1>4 DEF Steady, Before
  <2>4. ~after => since + 1 <= period
    BY <2>3
  <2>5. begun /\ since + 1 = 1 => since % period = 0
    BY <1>1
  <2> QED
    BY <1>4, <2>1, <2>2, <2>3, <2>4, <2>5 DEF Steady
<1> QED
  BY <1>3, <1>4

-----------------------------------------------------------------------------
(* In the model. *)

\* The turn of report r in this frame is still to come.
Pending(r) == IF r = "elevation" THEN "maintenance" \in todo ELSE "main" \in todo \/ inMain

\* The slot of the last turn of report r.
At(r) ==
  IF Pending(r) THEN Before(SlotOf(counter, Period(r)), Period(r)) ELSE SlotOf(counter, Period(r))

Spoilt(r) == r = "infrequent" /\ missed

Turns(r) == phase = "running" \/ (phase = "enabled" /\ r = "elevation")

PaceInv ==
  /\ \A r \in Reports : Turns(r) => Steady(Period(r), At(r), pace[r].since, pace[r].begun, Spoilt(r))
  /\ phase = "enabled" =>
       pace["infrequent"] = [since |-> 0, begun |-> FALSE] /\ missed = FALSE

PaceStep ==
  \A r \in Reports : pace'[r] # pace[r] =>
    /\ ~(missed' /\ r = "infrequent") => pace'[r].since <= Period(r)
    /\ pace[r].begun /\ pace'[r].since = 1 => pace[r].since % Period(r) = 0

LEMMA PeriodType == \A r \in Reports : Period(r) \in Nat \ {0}
  BY DEF Period

\* One report takes its turn; the other is as it was.
LEMMA PaceTurn ==
  ASSUME RestInv, PaceInv, NEW r \in Reports, NEW yes \in BOOLEAN,
         Turns(r), Pending(r), ~Pending(r)',
         pace' = Reported(r, yes), yes => Due(Period(r)),
         ~yes /\ ~Spoilt(r)' => ~Due(Period(r)) /\ ~Spoilt(r),
         UNCHANGED <<phase, counter>>, missed' \in BOOLEAN,
         \A q \in Reports \ {r} : Pending(q)' = Pending(q) /\ Spoilt(q)' = Spoilt(q),
         phase = "running" \/ missed' = missed
  PROVE  PaceInv' /\ PaceStep
<1> DEFINE period == Period(r)
           s == SlotOf(counter, period)
           since == pace[r].since
           begun == pace[r].begun
           next == IF yes THEN 1 ELSE since + 1
           after == Spoilt(r)'
<1>1. period \in Nat \ {0} /\ counter \in Nat
  BY PeriodType DEF RestInv
<1>2. s \in 0 .. period - 1 /\ (Due(period) <=> s = 0)
  BY <1>1, SlotNext DEF Due
<1>3. since \in Nat /\ begun \in BOOLEAN
  BY DEF RestInv
<1>4. Steady(period, Before(s, period), since, begun, Spoilt(r))
  BY DEF PaceInv, At
<1>5. Spoilt(r) \in BOOLEAN /\ after \in BOOLEAN
  BY DEF Spoilt, RestInv
<1>6. /\ yes => s = 0
      /\ ~yes /\ ~after => s # 0 /\ ~Spoilt(r)
  BY <1>2
<1>7. /\ pace'[r].since = next /\ pace'[r].begun = (yes \/ begun)
      /\ \A q \in Reports \ {r} : pace'[q] = pace[q]
  BY DEF Reported, RestInv
<1>8. At(r)' = s
  BY DEF At
<1> HIDE DEF s, since, begun, next, after
<1>9. /\ Steady(period, s, next, yes \/ begun, after)
      /\ ~after => next <= period
      /\ begun /\ next = 1 => since % period = 0
  <2>1. next = IF yes THEN 1 ELSE since + 1
    BY DEF next
  <2>2. \A was, is \in BOOLEAN :
          /\ Steady(period, Before(s, period), since, begun, was)
          /\ ~yes /\ ~is => s # 0 /\ ~was
          => /\ Steady(period, s, next, yes \/ begun, is)
             /\ ~is => next <= period
             /\ begun /\ next = 1 => since % period = 0
    <3> HIDE DEF period
    <3> TAKE was, is \in BOOLEAN
    <3> QED
      BY <1>1, <1>2, <1>3, <1>6, <2>1, SteadyTurn
  <2> HIDE DEF period
  <2> QED
    BY <1>4, <1>5, <1>6, <2>2
<1>10. Steady(Period(r), At(r), pace[r].since, pace[r].begun, Spoilt(r))'
  BY <1>7, <1>8, <1>9 DEF after, Period
<1>11. ASSUME NEW q \in Reports \ {r}, Turns(q)'
       PROVE  Steady(Period(q), At(q), pace[q].since, pace[q].begun, Spoilt(q))'
  <2>1. Turns(q) /\ At(q)' = At(q) /\ pace'[q] = pace[q] /\ Spoilt(q)' = Spoilt(q)
    BY <1>7, <1>11 DEF Turns, At
  <2>2. Steady(Period(q), At(q), pace[q].since, pace[q].begun, Spoilt(q))
    BY <2>1 DEF PaceInv
  <2> QED
    BY <2>1, <2>2 DEF Period
<1>12. phase' = "enabled" => pace'["infrequent"] = [since |-> 0, begun |-> FALSE] /\ missed' = FALSE
  BY <1>7 DEF PaceInv, Turns, Reports
<1>13. PaceInv'
  BY <1>10, <1>11, <1>12 DEF PaceInv
<1>14. PaceStep
  <2>1. ASSUME NEW q \in Reports, pace'[q] # pace[q]
        PROVE  /\ ~(missed' /\ q = "infrequent") => pace'[q].since <= Period(q)
               /\ pace[q].begun /\ pace'[q].since = 1 => pace[q].since % Period(q) = 0
    <3>1. q = r
      BY <1>7, <2>1
    <3>2. after = (r = "infrequent" /\ missed')
      BY DEF after, Spoilt
    <3> QED
      BY <1>7, <1>9, <3>1, <3>2 DEF since, begun
  <2> QED
    BY <2>1 DEF PaceStep
<1> QED
  BY <1>13, <1>14

\* No report takes its turn.
LEMMA PaceStays ==
  ASSUME PaceInv, UNCHANGED <<pace, missed>>,
         phase' = "enabled" => phase = "enabled",
         \A r \in Reports : Turns(r)' => Turns(r) /\ At(r)' = At(r)
  PROVE  PaceInv' /\ PaceStep
<1>1. ASSUME NEW r \in Reports, Turns(r)'
      PROVE  Steady(Period(r), At(r), pace[r].since, pace[r].begun, Spoilt(r))'
  <2>1. At(r)' = At(r) /\ Spoilt(r)' = Spoilt(r) /\ pace'[r] = pace[r]
    BY <1>1 DEF Spoilt
  <2>2. Steady(Period(r), At(r), pace[r].since, pace[r].begun, Spoilt(r))
    BY <1>1 DEF PaceInv
  <2> QED
    BY <2>1, <2>2 DEF Period
<1> QED
  BY <1>1 DEF PaceInv, PaceStep

LEMMA PaceInit == Init => PaceInv
<1> SUFFICES ASSUME Init, NEW r \in Reports
             PROVE  Steady(Period(r), At(r), pace[r].since, pace[r].begun, Spoilt(r))
  BY DEF Init, PaceInv, Reports
<1>1. Period(r) \in Nat \ {0} /\ counter \in Nat
  BY PeriodType DEF Init
<1>2. SlotOf(counter, Period(r)) \in 0 .. Period(r) - 1
  BY <1>1, SlotNext
<1>3. At(r) \in Nat
  BY <1>1, <1>2 DEF At, Before
<1>4. pace[r].since = 0 /\ pace[r].begun = FALSE
  BY DEF Init
<1> QED
  BY <1>3, <1>4 DEF Steady

LEMMA PaceNext == IInv /\ PaceInv /\ [Next]_vars => PaceInv' /\ PaceStep
<1> SUFFICES ASSUME IInv, PaceInv, [Next]_vars PROVE PaceInv' /\ PaceStep
  OBVIOUS
<1>0. RestInv
  BY DEF IInv
<1>1. CASE NextFrame
  <2>1. \A r \in Reports : Turns(r)' => Turns(r) /\ Pending(r)' /\ ~Pending(r)
    BY <1>1 DEF NextFrame, Turns, Pending, Reports
  <2>2. ASSUME NEW r \in Reports, Turns(r)'
        PROVE  At(r)' = At(r)
    <3> DEFINE s == SlotOf(counter, Period(r))
    <3>1. Period(r) \in Nat \ {0} /\ counter \in Nat /\ counter' = counter + 2
      BY <1>0, <1>1, PeriodType DEF NextFrame, RestInv
    <3>2. /\ s \in 0 .. Period(r) - 1
          /\ SlotOf(counter + 2, Period(r)) = IF s = Period(r) - 1 THEN 0 ELSE s + 1
      BY <3>1, SlotNext
    <3> HIDE DEF s
    <3>3. Before(IF s = Period(r) - 1 THEN 0 ELSE s + 1, Period(r)) = s
      BY <3>1, <3>2 DEF Before
    <3>4. At(r)' = Before(SlotOf(counter + 2, Period(r)), Period(r)) /\ At(r) = s
      BY <2>1, <2>2, <3>1 DEF At, Period, s
    <3> QED
      BY <3>2, <3>3, <3>4
  <2> QED
    BY <1>1, <2>1, <2>2, PaceStays DEF NextFrame, report
<1>2. CASE DeferredStartup
  <2>1. phase = "enabled" /\ phase' = "running" /\ UNCHANGED <<frame, report>>
    BY <1>2 DEF DeferredStartup
  <2>2. \A r \in Reports : At(r)' = At(r)
    BY <2>1 DEF At, Pending, frame, Period
  <2>3. Steady(Period("infrequent"), At("infrequent"), pace["infrequent"].since,
               pace["infrequent"].begun, Spoilt("infrequent"))
    <3>1. pace["infrequent"].since = 0 /\ pace["infrequent"].begun = FALSE
      BY <2>1 DEF PaceInv
    <3>2. Period("infrequent") \in Nat \ {0} /\ counter \in Nat
      BY <1>0, PeriodType DEF RestInv, Reports
    <3>3. SlotOf(counter, Period("infrequent")) \in 0 .. Period("infrequent") - 1
      BY <3>2, SlotNext
    <3>4. At("infrequent") \in Nat
      BY <3>2, <3>3 DEF At, Before
    <3> QED
      BY <3>1, <3>4 DEF Steady
  <2>4. ASSUME NEW r \in Reports
        PROVE  Steady(Period(r), At(r), pace[r].since, pace[r].begun, Spoilt(r))'
    <3>1. Steady(Period(r), At(r), pace[r].since, pace[r].begun, Spoilt(r))
      BY <2>1, <2>3 DEF PaceInv, Turns, Reports
    <3>2. At(r)' = At(r) /\ pace' = pace /\ Spoilt(r)' = Spoilt(r)
      BY <2>1, <2>2 DEF Spoilt, report
    <3> QED
      BY <3>1, <3>2 DEF Period
  <2> QED
    BY <2>1, <2>4 DEF PaceInv, PaceStep, report
<1>3. CASE AircraftMaintenanceCallback
  <2>1. /\ "maintenance" \in todo /\ ~inMain /\ todo' = todo \ {"maintenance"}
        /\ pace' = Reported("elevation", Due(Elevation))
        /\ UNCHANGED <<phase, counter, inMain, missed>>
    BY <1>3 DEF AircraftMaintenanceCallback
  <2>2. Turns("elevation")
    BY <1>0, <2>1 DEF Turns, RestInv
  <2>3. Pending("elevation") /\ ~Pending("elevation")'
    BY <2>1 DEF Pending
  <2>4. \A q \in Reports \ {"elevation"} : Pending(q)' = Pending(q) /\ Spoilt(q)' = Spoilt(q)
    BY <2>1 DEF Pending, Spoilt
  <2>5. Period("elevation") = Elevation /\ Due(Elevation) \in BOOLEAN /\ ~Spoilt("elevation")
    BY DueBoolean DEF Period, Spoilt
  <2>6. "elevation" \in Reports /\ missed' \in BOOLEAN
    BY <1>0, <2>1 DEF Reports, RestInv
  <2> QED
    BY <1>0, <2>1, <2>2, <2>3, <2>4, <2>5, <2>6, PaceTurn
<1>4. CASE EnterMain
  <2>1. "main" \in todo /\ inMain' = TRUE /\ todo' = todo \ {"main"}
        /\ UNCHANGED <<phase, counter, pace, missed>>
    BY <1>4 DEF EnterMain, report
  <2>2. \A r \in Reports : Pending(r)' = Pending(r)
    BY <2>1 DEF Pending, Reports
  <2>3. \A r \in Reports : At(r)' = At(r) /\ Turns(r)' = Turns(r)
    BY <2>1, <2>2 DEF At, Turns, Period
  <2> QED
    BY <2>1, <2>3, PaceStays
<1>5. CASE Callback \/ OtherTakes \/ OtherReleases \/ CallbackRequestTcasAgain \/ UNCHANGED vars
  <2>1. UNCHANGED <<phase, counter, todo, inMain, pace, missed>>
    BY <1>5 DEF Callback, OtherTakes, OtherReleases, CallbackRequestTcasAgain, vars, frame, report
  <2>2. \A r \in Reports : At(r)' = At(r) /\ Turns(r)' = Turns(r)
    BY <2>1 DEF At, Turns, Pending, Period
  <2> QED
    BY <2>1, <2>2, PaceStays
<1>6. CASE Draw
  <2>1. todo' = todo \ {"draw"} /\ UNCHANGED <<phase, counter, inMain, pace, missed>>
    BY <1>6 DEF Draw, report
  <2>2. \A r \in Reports : Pending(r)' = Pending(r)
    BY <2>1 DEF Pending, Reports
  <2>3. \A r \in Reports : At(r)' = At(r) /\ Turns(r)' = Turns(r)
    BY <2>1, <2>2 DEF At, Turns, Period
  <2> QED
    BY <2>1, <2>3, PaceStays
<1>7. CASE Disable
  <2>1. phase' = "disabled" /\ UNCHANGED <<pace, missed>>
    BY <1>7 DEF Disable, report
  <2>2. \A r \in Reports : ~Turns(r)'
    BY <2>1 DEF Turns
  <2> QED
    BY <2>1, <2>2, PaceStays
<1>8. ASSUME NEW yes \in BOOLEAN, inMain, inMain' = FALSE,
             pace' = Reported("infrequent", yes), yes => Due(Infrequent),
             ~yes /\ ~missed' => ~Due(Infrequent) /\ ~missed, missed' \in BOOLEAN,
             UNCHANGED <<phase, counter, todo>>, "main" \notin todo
      PROVE  PaceInv' /\ PaceStep
  <2>1. phase = "running" /\ Turns("infrequent")
    <3>1. inMain => phase = "running"
      BY <1>0 DEF RestInv
    <3> QED
      BY <1>8, <3>1 DEF Turns
  <2>2. Pending("infrequent") /\ ~Pending("infrequent")'
    BY <1>8 DEF Pending
  <2>3. \A q \in Reports \ {"infrequent"} : Pending(q)' = Pending(q) /\ Spoilt(q)' = Spoilt(q)
    BY <1>8 DEF Pending, Spoilt, Reports
  <2>4. Period("infrequent") = Infrequent /\ "infrequent" \in Reports
    BY DEF Period, Reports
  <2>5. ~yes /\ ~Spoilt("infrequent")' => ~Due(Infrequent) /\ ~Spoilt("infrequent")
    BY <1>8 DEF Spoilt
  <2> QED
    BY <1>0, <1>8, <2>1, <2>2, <2>3, <2>4, <2>5, PaceTurn
<1>9. inMain => "main" \notin todo
  BY <1>0 DEF RestInv
<1>10. CASE LeaveMain
  <2>1. /\ inMain /\ inMain' = FALSE /\ pace' = Reported("infrequent", Due(Infrequent))
        /\ missed' = (missed /\ ~Due(Infrequent)) /\ UNCHANGED <<phase, counter, todo>>
    BY <1>10 DEF LeaveMain
  <2>2. Due(Infrequent) \in BOOLEAN /\ missed' \in BOOLEAN
    BY <1>0, <2>1, DueBoolean DEF RestInv
  <2> QED
    BY <1>8, <1>9, <2>1, <2>2
<1>11. ASSUME NEW p \in Peers, SpawnRefused(p)
       PROVE  PaceInv' /\ PaceStep
  <2>1. /\ inMain /\ inMain' = FALSE /\ pace' = Reported("infrequent", FALSE)
        /\ missed' = (missed \/ Due(Infrequent)) /\ UNCHANGED <<phase, counter, todo>>
    BY <1>11 DEF SpawnRefused
  <2>2. missed' \in BOOLEAN
    BY <1>0, <2>1, DueBoolean DEF RestInv
  <2> QED
    BY <1>8, <1>9, <2>1, <2>2
<1> QED
  BY <1>1, <1>2, <1>3, <1>4, <1>5, <1>6, <1>7, <1>10, <1>11 DEF Next

(* Whatever the periods and whatever the parity of the counter, a report comes *)
(* once a period; the one an exception has cost comes a period later.          *)
THEOREM PacedByCounter == Spec => ReportsPaced
<1>1. Init => PaceInv
  BY PaceInit
<1>2. IInv /\ PaceInv /\ [Next]_vars => PaceInv'
  BY PaceNext
<1>3. IInv /\ PaceInv /\ [Next]_vars => [PaceStep]_vars
  BY PaceNext
<1>4. Spec => [][PaceStep]_vars
  BY <1>1, <1>2, <1>3, TrafficInv, PTL DEF Spec
<1> QED
  BY <1>4 DEF ReportsPaced, PaceStep
=============================================================================
