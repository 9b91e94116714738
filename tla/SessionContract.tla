--------------------------- MODULE SessionContract ---------------------------
(***************************************************************************)
(* What the plugin promises about the aircraft it shows, whatever its two  *)
(* threads do: clients take turns, in the order they connected; aircraft   *)
(* come and go one at a time, only while a client has its turn and only    *)
(* for that client; and when the turn ends they are all gone.  An          *)
(* exception suspends all this but the order of the turns.                 *)
(***************************************************************************)
EXTENDS Integers

CONSTANTS
  Peers,      \* the remote pilots that may be shown
  Clients,    \* positive numbers, in the order the clients connect
  Nobody      \* not a client

VARIABLES
  turn,       \* the client whose turn it is, or Nobody
  latest,     \* the last client that had a turn, or 0
  aircraft,   \* peer -> the client it is shown for, or Nobody
  broken      \* an exception has struck

vars == <<turn, latest, aircraft, broken>>

NoAircraft == [p \in Peers |-> Nobody]

Init == turn = Nobody /\ latest = 0 /\ aircraft = NoAircraft /\ broken = FALSE

Begin(c) ==
  /\ turn = Nobody /\ c > latest
  /\ turn' = c /\ latest' = c
  /\ UNCHANGED aircraft

Show(p) ==
  /\ turn # Nobody /\ aircraft[p] = Nobody
  /\ aircraft' = [aircraft EXCEPT ![p] = turn]
  /\ UNCHANGED <<turn, latest>>

Remove(p) ==
  /\ turn # Nobody /\ aircraft[p] = turn
  /\ aircraft' = [aircraft EXCEPT ![p] = Nobody]
  /\ UNCHANGED <<turn, latest>>

End ==
  /\ turn # Nobody
  /\ turn' = Nobody /\ aircraft' = NoAircraft
  /\ UNCHANGED latest

\* The plugin is disabled.
Withdraw == aircraft' = NoAircraft /\ UNCHANGED <<turn, latest>>

Regular ==
  \/ \E c \in Clients : Begin(c)
  \/ \E p \in Peers : Show(p) \/ Remove(p)
  \/ End \/ Withdraw

\* Nothing more is said of the aircraft.  A turn may be cut short or taken over
\* by a later client, but nobody gets a second one.
Exceptional ==
  \/ latest' = latest /\ turn' \in {turn, Nobody}
  \/ latest' > latest /\ turn' = latest'

Next ==
  \/ ~broken /\ ~broken' /\ Regular
  \/ broken' /\ Exceptional

Spec == Init /\ [][Next]_vars

=============================================================================
