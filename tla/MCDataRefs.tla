----------------------------- MODULE MCDataRefs -----------------------------
(* Instances of DataRefs for TLC. *)
EXTENDS DataRefs
=============================================================================
