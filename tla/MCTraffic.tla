----------------------------- MODULE MCTraffic -----------------------------
(* Instances of Traffic for TLC. *)
EXTENDS Traffic, TLC

DataSymmetry == Permutations(Peers) \cup Permutations(Places)
FirstCounters == {0, 1}
=============================================================================
