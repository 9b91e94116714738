------------------------------ MODULE MCPlugin ------------------------------
(* Settings as a client may send them: unspecified or unknown, and others.   *)
EXTENDS Plugin, TLC

MCSent ==
  {[show |-> FALSE, type |-> 0, colour |-> 0, range |-> 2, cutoff |-> FALSE],
   [show |-> TRUE, type |-> 2, colour |-> 4, range |-> 6, cutoff |-> TRUE]}

\* An address is only ever compared with another.
AddressSymmetry == Permutations(Addresses)
=============================================================================
