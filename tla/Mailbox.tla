------------------------------- MODULE Mailbox -------------------------------
(***************************************************************************)
(* What a thread-safe incoming queue promises the thread that handles      *)
(* messages: each message put into the box is handled once, in the order   *)
(* in which the messages were put.  TsQueue implements it.                 *)
(***************************************************************************)
EXTENDS Integers, Sequences

CONSTANT Producers  \* those who put messages into the box

VARIABLES sent,     \* how many messages each producer has put
          box,      \* the messages not yet handled, as <<producer, number>>
          handled   \* the messages handled so far

vars == <<sent, box, handled>>

Init == sent = [p \in Producers |-> 0] /\ box = <<>> /\ handled = <<>>

Put(p) ==
  /\ sent' = [sent EXCEPT ![p] = @ + 1]
  /\ box' = Append(box, <<p, sent[p] + 1>>)
  /\ UNCHANGED handled

Handle ==
  /\ box # <<>>
  /\ handled' = Append(handled, Head(box))
  /\ box' = Tail(box)
  /\ UNCHANGED sent

Next == Handle \/ \E p \in Producers : Put(p)

Spec == Init /\ [][Next]_vars
=============================================================================
