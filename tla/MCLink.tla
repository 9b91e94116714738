------------------------------- MODULE MCLink -------------------------------
(* Instances of Link for TLC. *)
EXTENDS Link, TLC

TwoPieces == [d \in Dirs |-> 2]
=============================================================================
