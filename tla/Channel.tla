------------------------------ MODULE Channel ------------------------------
(***************************************************************************)
(* What each end of a session relies on: messages come out whole, as they  *)
(* went in, in that order, each once.  The channel may stop at any point.  *)
(***************************************************************************)
EXTENDS Naturals, Sequences

CONSTANT Message

VARIABLES sent, received

vars == <<sent, received>>

Init == sent = <<>> /\ received = <<>>

Send(m) == sent' = Append(sent, m) /\ UNCHANGED received

Receive ==
  /\ Len(received) < Len(sent)
  /\ received' = Append(received, sent[Len(received) + 1])
  /\ UNCHANGED sent

Next == (\E m \in Message : Send(m)) \/ Receive

Spec == Init /\ [][Next]_vars

\* The promise at any moment: what has come out is the beginning of what went in.
InOrder ==
  /\ Len(received) <= Len(sent)
  /\ \A i \in 1 .. Len(received) : received[i] = sent[i]
=============================================================================
