---------------------------- MODULE LogContract ----------------------------
(***************************************************************************)
(* What LogMsg promises to the threads that call it: a call takes effect   *)
(* at one moment between its beginning and its return, and Log.txt holds   *)
(* the messages in the order in which their calls took effect.             *)
(***************************************************************************)
EXTENDS Naturals, Sequences

CONSTANT Threads

VARIABLES
  calls,     \* how many times each thread has called LogMsg
  open,      \* the threads in a call that has not taken effect
  order,     \* the messages whose calls have, in that order
  written    \* how many of them Log.txt holds

vars == <<calls, open, order, written>>

Init == calls = [t \in Threads |-> 0] /\ open = {} /\ order = <<>> /\ written = 0

Call(t) ==
  /\ t \notin open
  /\ calls' = [calls EXCEPT ![t] = @ + 1] /\ open' = open \cup {t}
  /\ UNCHANGED <<order, written>>

TakeEffect(t) ==
  /\ t \in open
  /\ open' = open \ {t} /\ order' = Append(order, [by |-> t, n |-> calls[t]])
  /\ UNCHANGED <<calls, written>>

Write ==
  /\ written < Len(order)
  /\ written' = written + 1
  /\ UNCHANGED <<calls, open, order>>

Next == Write \/ \E t \in Threads : Call(t) \/ TakeEffect(t)

Spec == Init /\ [][Next]_vars
=============================================================================
