------------------------------- MODULE Channel -------------------------------
(***************************************************************************)
(* What a connection promises the two programs at its ends: what arrives   *)
(* at one end is, message by message and in order, what the other end has  *)
(* sent, possibly cut short.  Session implements it.                       *)
(***************************************************************************)
EXTENDS Integers, Sequences

CONSTANTS Ends,     \* the two ends
          Messages  \* what may be sent

VARIABLES sent,     \* the messages each end has sent
          arrived   \* the messages of each end that have arrived at the other

vars == <<sent, arrived>>

Init ==
  /\ sent = [e \in Ends |-> <<>>]
  /\ arrived = [e \in Ends |-> <<>>]

Send(e) ==
  /\ \E m \in Messages : sent' = [sent EXCEPT ![e] = Append(@, m)]
  /\ UNCHANGED arrived

\* The next message of e arrives as it was sent.
Arrive(e) ==
  /\ Len(arrived[e]) < Len(sent[e])
  /\ arrived' = [arrived EXCEPT ![e] = Append(@, sent[e][Len(@) + 1])]
  /\ UNCHANGED sent

Next == \E e \in Ends : Send(e) \/ Arrive(e)

Spec == Init /\ [][Next]_vars
=============================================================================
