---------------------------- MODULE MCConnection ----------------------------
(* Instances of Connection for TLC. *)
EXTENDS Connection, TLC

PeerSymmetry == Permutations(Peers)
=============================================================================
