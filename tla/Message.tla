------------------------------ MODULE Message ------------------------------
(***************************************************************************)
(* The message container of net_message.h: a header (size, id, the lowest  *)
(* byte of the sender's cipher counter) and a body of bytes that << and >> *)
(* use as a stack.                                                         *)
(***************************************************************************)
EXTENDS Integers, Sequences

\* message{}
NewMessage(id) == [size |-> 0, id |-> id, low |-> 0, body |-> <<>>]

\* The body and the size that the header gives for it.
WithBody(msg, body) == [msg EXCEPT !.body = body, !.size = Len(body)]

\* msg << data
Push(msg, data) == WithBody(msg, msg.body \o data)

\* msg >> data: the n bytes at the end of the body.
Pulled(msg, n) == SubSeq(msg.body, Len(msg.body) - n + 1, Len(msg.body))

\* msg = s: the string with a 0 at the end.  The empty string sets the size of
\* the body it would have, and leaves the body alone.
FromString(msg, s) ==
  IF s = <<>> THEN [msg EXCEPT !.size = 1] ELSE WithBody(msg, Append(s, 0))

\* What the string that to_string points to says: the body up to its first 0,
\* which to_string adds when the last byte is not 0.
UpToZero(body) ==
  LET zeros == {i \in DOMAIN body : body[i] = 0} IN
  IF zeros = {} THEN body
  ELSE SubSeq(body, 1, (CHOOSE i \in zeros : \A j \in zeros : i <= j) - 1)
=============================================================================
