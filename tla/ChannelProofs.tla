---------------------------- MODULE ChannelProofs ----------------------------
(***************************************************************************)
(* Proofs about Session, for counters of any width, any seeds, any sizes.  *)
(* First the counters, for a user who waits for the end of the handshake:  *)
(* each message is enciphered with the counter that its receiver will have *)
(* when it gets there, so that it is deciphered right.  Then the order:    *)
(* for every user, what arrives is what was sent, in order and without     *)
(* gaps.  Together: Session implements Channel, for a user who waits.      *)
(***************************************************************************)
EXTENDS SessionProofs

-----------------------------------------------------------------------------
\* The blocks of a wire and of a queue.

\* What one unit adds.
BodyBlocks(u) == IF u.unit = "body" THEN u.size ELSE 0

\* The blocks of a wire, unit by unit.
LEMMA BodiesType ==
  ASSUME NEW W \in Seq(Units)
  PROVE  /\ Bodies(W) \in Seq(Nat) /\ Len(Bodies(W)) = Len(W)
         /\ \A i \in 1 .. Len(W) : Bodies(W)[i] = BodyBlocks(W[i])
<1>1. \A u \in Units : BodyBlocks(u) \in Nat
  BY SizesAssumption DEF Units, BodyBlocks
<1> HIDE DEF Units
<1>2. PICK n \in Nat : n = Len(W) /\ DOMAIN W = 1 .. n /\ \A i \in 1 .. n : W[i] \in Units
  OBVIOUS
<1>3. Bodies(W) = [i \in 1 .. n |-> BodyBlocks(W[i])]
  BY <1>2 DEF Bodies, BodyBlocks
<1>4. \A i \in 1 .. n : BodyBlocks(W[i]) \in Nat
  BY <1>1, <1>2
<1> QED
  BY <1>2, <1>3, <1>4

\* The blocks of a queue, message by message.
LEMMA BlocksType ==
  ASSUME NEW U \in Seq(Enciphereds)
  PROVE  /\ Blocks(U) \in Seq(Nat) /\ Len(Blocks(U)) = Len(U)
         /\ \A i \in 1 .. Len(U) : Blocks(U)[i] = U[i].size
<1>1. \A m \in Enciphereds : m.size \in Nat
  BY SizesAssumption DEF Enciphereds
<1> HIDE DEF Enciphereds
<1>2. PICK n \in Nat : n = Len(U) /\ DOMAIN U = 1 .. n /\ \A i \in 1 .. n : U[i] \in Enciphereds
  OBVIOUS
<1>3. Blocks(U) = [i \in 1 .. n |-> U[i].size]
  BY <1>2 DEF Blocks
<1>4. \A i \in 1 .. n : U[i].size \in Nat
  BY <1>1, <1>2
<1> QED
  BY <1>2, <1>3, <1>4

\* The units of W are enciphered one after the other, from c on.
Chained(c, W) ==
  \A i \in 1 .. Len(W) :
    /\ W[i].unit = "body" => W[i].key = "session" /\ W[i].cou = At(c, Bodies(W), i)
    /\ Pending(W[i]) => W[i].low = At(c, Bodies(W), i) % Byte

\* So are the messages of U.
Queued(c, U) ==
  \A i \in 1 .. Len(U) : U[i].size > 0 =>
    U[i].key = "session" /\ U[i].cou = At(c, Blocks(U), i)

\* May x come after units that end at the counter k?
Fits(k, x) ==
  /\ x.unit = "body" => x.key = "session" /\ x.cou = k
  /\ Pending(x) => x.low = k % Byte

\* A unit that fits is written.
LEMMA ChainedAppend ==
  ASSUME NEW c \in Counters, NEW W \in Seq(Units), NEW x \in Units,
         Chained(c, W), Fits(Past(c, Bodies(W)), x)
  PROVE  /\ Chained(c, Append(W, x))
         /\ Past(c, Bodies(Append(W, x))) = Plus(Past(c, Bodies(W)), BodyBlocks(x))
<1> HIDE DEF Units
<1>1. PICK V \in Seq(Units) : V = Append(W, x)
  <2>1. Append(W, x) \in Seq(Units)
    BY AppendProperties
  <2> QED
    BY <2>1
<1>2. PICK n \in Nat : n = Len(W)
  OBVIOUS
<1>3. Len(V) = n + 1 /\ V[n + 1] = x /\ \A i \in 1 .. n : V[i] = W[i]
  BY <1>1, <1>2
<1>4. Longer(Bodies(V), Bodies(W)) /\ Len(Bodies(W)) = n /\ Bodies(V)[n + 1] = BodyBlocks(x)
  BY <1>2, <1>3, BodiesType DEF Longer
<1>5. /\ \A i \in 1 .. n : At(c, Bodies(V), i) = At(c, Bodies(W), i)
      /\ At(c, Bodies(V), n + 1) = Past(c, Bodies(W))
      /\ Past(c, Bodies(V)) = Plus(Past(c, Bodies(W)), BodyBlocks(x))
  BY <1>4, LongerAt
<1>6. ASSUME NEW i \in 1 .. n + 1 PROVE Fits(At(c, Bodies(V), i), V[i])
  <2>1. CASE i = n + 1
    BY <1>3, <1>5, <2>1
  <2>2. CASE i # n + 1
    <3>1. i \in 1 .. n
      BY <2>2
    <3> QED
      BY <1>2, <1>3, <1>5, <3>1 DEF Chained, Fits
  <2> QED
    BY <2>1, <2>2
<1> QED
  BY <1>1, <1>3, <1>5, <1>6 DEF Chained, Fits

\* The first unit is read: it fits where the chain begins, and the others follow.
LEMMA ChainedTail ==
  ASSUME NEW c \in Counters, NEW W \in Seq(Units), W # <<>>, Chained(c, W)
  PROVE  /\ Fits(c, W[1])
         /\ Chained(Plus(c, BodyBlocks(W[1])), Tail(W))
         /\ Past(Plus(c, BodyBlocks(W[1])), Bodies(Tail(W))) = Past(c, Bodies(W))
<1> HIDE DEF Units
<1>1. PICK V \in Seq(Units) : V = Tail(W)
  <2>1. Tail(W) \in Seq(Units)
    BY HeadTailProperties
  <2> QED
    BY <2>1
<1>2. PICK n \in Nat : n = Len(V)
  OBVIOUS
<1>3. Len(W) = n + 1 /\ \A i \in 1 .. n : V[i] = W[i + 1]
  BY <1>1, <1>2
<1>4. Shorter(Bodies(V), Bodies(W)) /\ Len(Bodies(V)) = n /\ Bodies(W)[1] = BodyBlocks(W[1])
  <2>1. /\ Bodies(V) \in Seq(Nat) /\ Len(Bodies(V)) = n
        /\ \A i \in 1 .. n : Bodies(V)[i] = BodyBlocks(V[i])
    BY <1>2, BodiesType
  <2>2. /\ Bodies(W) \in Seq(Nat) /\ Len(Bodies(W)) = n + 1
        /\ \A i \in 1 .. n + 1 : Bodies(W)[i] = BodyBlocks(W[i])
    BY <1>3, BodiesType
  <2>3. 1 \in 1 .. n + 1 /\ \A i \in 1 .. n : i + 1 \in 1 .. n + 1
    OBVIOUS
  <2>4. \A i \in 1 .. n : Bodies(V)[i] = Bodies(W)[i + 1]
    BY <1>3, <2>1, <2>2, <2>3
  <2> QED
    BY <2>1, <2>2, <2>3, <2>4 DEF Shorter
<1> DEFINE d == Plus(c, BodyBlocks(W[1]))
<1>5. /\ At(c, Bodies(W), 1) = c
      /\ \A i \in 1 .. n : At(d, Bodies(V), i) = At(c, Bodies(W), i + 1)
      /\ Past(d, Bodies(V)) = Past(c, Bodies(W))
  <2>1. PICK v, w : v = Bodies(V) /\ w = Bodies(W)
    OBVIOUS
  <2>2. Shorter(v, w)
    BY <1>4, <2>1
  <2> HIDE DEF d
  <2>3. /\ At(c, w, 1) = c
        /\ \A i \in 1 .. Len(v) : At(Plus(c, w[1]), v, i) = At(c, w, i + 1)
        /\ Past(Plus(c, w[1]), v) = Past(c, w)
    BY <2>2, ShorterAt
  <2>4. Len(v) = n /\ d = Plus(c, w[1])
    BY <1>4, <2>1 DEF d
  <2> QED
    BY <2>1, <2>3, <2>4
<1> HIDE DEF d
<1>6. \A i \in 1 .. n + 1 : Fits(At(c, Bodies(W), i), W[i])
  BY <1>3 DEF Chained, Fits
<1>7. \A i \in 1 .. n : Fits(At(d, Bodies(V), i), V[i])
  <2>1. \A i \in 1 .. n : i + 1 \in 1 .. n + 1
    OBVIOUS
  <2> QED
    BY <1>3, <1>5, <1>6, <2>1
<1>8. Chained(d, V)
  BY <1>2, <1>7 DEF Chained, Fits
<1>9. Fits(c, W[1])
  <2>1. 1 \in 1 .. n + 1
    OBVIOUS
  <2> QED
    BY <1>5, <1>6, <2>1
<1> QED
  BY <1>1, <1>5, <1>8, <1>9 DEF d

\* One more message is sent.
LEMMA QueuedAppend ==
  ASSUME NEW c \in Counters, NEW U \in Seq(Enciphereds), NEW m \in Enciphereds,
         Queued(c, U), m.key = "session", m.cou = Past(c, Blocks(U))
  PROVE  /\ Queued(c, Append(U, m))
         /\ Past(c, Blocks(Append(U, m))) = Plus(Past(c, Blocks(U)), m.size)
<1> HIDE DEF Enciphereds
<1>1. PICK V \in Seq(Enciphereds) : V = Append(U, m)
  <2>1. Append(U, m) \in Seq(Enciphereds)
    BY AppendProperties
  <2> QED
    BY <2>1
<1>2. PICK n \in Nat : n = Len(U)
  OBVIOUS
<1>3. Len(V) = n + 1 /\ V[n + 1] = m /\ \A i \in 1 .. n : V[i] = U[i]
  BY <1>1, <1>2
<1>4. Longer(Blocks(V), Blocks(U)) /\ Len(Blocks(U)) = n /\ Blocks(V)[n + 1] = m.size
  BY <1>2, <1>3, BlocksType, SMTT(30) DEF Longer
<1>5. /\ \A i \in 1 .. n : At(c, Blocks(V), i) = At(c, Blocks(U), i)
      /\ At(c, Blocks(V), n + 1) = Past(c, Blocks(U))
      /\ Past(c, Blocks(V)) = Plus(Past(c, Blocks(U)), m.size)
  BY <1>4, LongerAt
<1>6. ASSUME NEW i \in 1 .. n + 1, V[i].size > 0
      PROVE  V[i].key = "session" /\ V[i].cou = At(c, Blocks(V), i)
  <2>1. CASE i = n + 1
    BY <1>3, <1>5, <2>1
  <2>2. CASE i # n + 1
    <3>1. i \in 1 .. n
      BY <2>2
    <3> QED
      BY <1>2, <1>3, <1>5, <1>6, <3>1 DEF Queued
  <2> QED
    BY <2>1, <2>2
<1> QED
  BY <1>1, <1>3, <1>5, <1>6 DEF Queued

\* The first message leaves the queue.
LEMMA QueuedTail ==
  ASSUME NEW c \in Counters, NEW U \in Seq(Enciphereds), U # <<>>, Queued(c, U)
  PROVE  /\ U[1].size > 0 => U[1].key = "session" /\ U[1].cou = c
         /\ Queued(Plus(c, U[1].size), Tail(U))
         /\ Past(Plus(c, U[1].size), Blocks(Tail(U))) = Past(c, Blocks(U))
<1> HIDE DEF Enciphereds
<1>1. PICK V \in Seq(Enciphereds) : V = Tail(U)
  <2>1. Tail(U) \in Seq(Enciphereds)
    BY HeadTailProperties
  <2> QED
    BY <2>1
<1>2. PICK n \in Nat : n = Len(V)
  OBVIOUS
<1>3. Len(U) = n + 1 /\ \A i \in 1 .. n : V[i] = U[i + 1]
  BY <1>1, <1>2
<1>4. Shorter(Blocks(V), Blocks(U)) /\ Len(Blocks(V)) = n /\ Blocks(U)[1] = U[1].size
  <2>1. /\ Blocks(V) \in Seq(Nat) /\ Len(Blocks(V)) = n
        /\ \A i \in 1 .. n : Blocks(V)[i] = V[i].size
    BY <1>2, BlocksType
  <2>2. /\ Blocks(U) \in Seq(Nat) /\ Len(Blocks(U)) = n + 1
        /\ \A i \in 1 .. n + 1 : Blocks(U)[i] = U[i].size
    BY <1>3, BlocksType
  <2>3. 1 \in 1 .. n + 1 /\ \A i \in 1 .. n : i + 1 \in 1 .. n + 1
    OBVIOUS
  <2>4. \A i \in 1 .. n : Blocks(V)[i] = Blocks(U)[i + 1]
    BY <1>3, <2>1, <2>2, <2>3, ZenonT(60)
  <2> QED
    BY <2>1, <2>2, <2>3, <2>4 DEF Shorter
<1> DEFINE d == Plus(c, U[1].size)
<1>5. /\ At(c, Blocks(U), 1) = c
      /\ \A i \in 1 .. n : At(d, Blocks(V), i) = At(c, Blocks(U), i + 1)
      /\ Past(d, Blocks(V)) = Past(c, Blocks(U))
  <2>1. PICK v, w : v = Blocks(V) /\ w = Blocks(U)
    OBVIOUS
  <2>2. Shorter(v, w)
    BY <1>4, <2>1
  <2> HIDE DEF d
  <2>3. /\ At(c, w, 1) = c
        /\ \A i \in 1 .. Len(v) : At(Plus(c, w[1]), v, i) = At(c, w, i + 1)
        /\ Past(Plus(c, w[1]), v) = Past(c, w)
    BY <2>2, ShorterAt
  <2>4. Len(v) = n /\ d = Plus(c, w[1])
    BY <1>4, <2>1 DEF d
  <2> QED
    BY <2>1, <2>3, <2>4
<1> HIDE DEF d
<1>6. Queued(d, V)
  <2> SUFFICES ASSUME NEW i \in 1 .. n, V[i].size > 0
               PROVE  V[i].key = "session" /\ V[i].cou = At(d, Blocks(V), i)
    BY <1>2 DEF Queued
  <2>1. i + 1 \in 1 .. n + 1
    OBVIOUS
  <2> QED
    BY <1>3, <1>5, <2>1 DEF Queued
<1>7. U[1].size > 0 => U[1].key = "session" /\ U[1].cou = c
  <2>1. 1 \in 1 .. n + 1
    OBVIOUS
  <2> QED
    BY <1>3, <1>5, <2>1 DEF Queued
<1> QED
  BY <1>1, <1>5, <1>6, <1>7 DEF d

-----------------------------------------------------------------------------
\* The inductive invariant.

\* The client has answered the keys, or has not yet.
Talking == {"answering", "header", "body"}
Before  == {"none", "keys", "copied"}

\* Who reads has the keys that the counters were drawn with.
Keyed ==
  /\ reading["client"] \in {"copied"} \cup Talking => key["client"] = "session"
  /\ reading["server"] # "none" => key["server"] = "session"
  /\ open["server"] => reading["server"] \in {"answer", "header", "body"}

\* While the server waits for the answer: the counter it expects is the one it
\* has put into the keys, and the one the client enciphers the answer with; and
\* the answer tells the counter the client expects.
Offered ==
  reading["server"] = "answer" =>
    /\ received["server"] = <<>>
    /\ \A i \in DOMAIN wire["server"] :
         wire["server"][i].unit = "keys" => wire["server"][i].server_cou = dec["server"]
    /\ open["client"] /\ reading["client"] = "copied" => enc["client"] = dec["server"]
    /\ \A i \in DOMAIN wire["client"] :
         wire["client"][i].unit = "answer" =>
           /\ wire["client"][i].cou = dec["server"]
           /\ reading["client"] \in Talking => wire["client"][i].client_cou = dec["client"]
    /\ wire["client"] # <<>> => wire["client"][1].unit = "answer"
    /\ wire["client"] = <<>> /\ open["client"] => reading["client"] \in Before

\* A user who waits has sent nothing before the answer.
Waits ==
  /\ key["server"] = "default" => wire["client"] = <<>>
  /\ open["client"] /\ reading["client"] \in Before =>
       /\ wire["client"] = <<>> /\ posted["client"] = <<>> /\ out["client"] = <<>>
       /\ received["server"] = <<>>

\* A server that has received nothing has sent nothing that has a body.
Quiet ==
  received["server"] = <<>> =>
    /\ writing["server"] # <<"body">>
    /\ \A i \in DOMAIN Unwritten("server") : Unwritten("server")[i].size = 0
    /\ \A i \in DOMAIN wire["server"] :
         wire["server"][i].unit # "body" /\ ~Pending(wire["server"][i])

\* The reader of p's wire has agreed on its counters; so has the writer.
Reads(p) ==
  IF p = "server" THEN reading["client"] \in Talking
  ELSE reading["server"] \in {"answer", "header", "body"}

Writes(p) ==
  /\ open[p]
  /\ IF p = "server" THEN reading["server"] \in {"header", "body"}
     ELSE reading["client"] \in Talking

\* The reader's counter after the answer, if that is still to be read.
Base(p) ==
  IF p = "client" /\ reading["server"] = "answer" THEN Plus(dec["server"], AnswerBlocks)
  ELSE dec[Peer(p)]

\* What is on the wire was enciphered from the reader's counter on, the messages
\* not yet written from there on, and the writer's counter comes next.
Counted(p) ==
  Reads(p) =>
    /\ Chained(Base(p), wire[p])
    /\ Writes(p) =>
         /\ Queued(Past(Base(p), Bodies(wire[p])), Unwritten(p))
         /\ enc[p] = Past(Past(Base(p), Bodies(wire[p])), Blocks(Unwritten(p)))

\* The header that announced the body told the counter it will be read with.
LowAgrees == \A e \in Ends : reading[e] = "body" => tmp[e].low = dec[e] % Byte

Agreed == Keyed /\ Offered /\ Waits /\ Quiet

CInv ==
  /\ IInv /\ Agreed
  /\ \A p \in Ends : Counted(p)
  /\ LowAgrees /\ Deciphered

-----------------------------------------------------------------------------
\* Writing.

\* The messages not yet written are messages.
LEMMA UnwrittenType ==
  ASSUME TypeOK, OneWriter, NEW p \in Ends
  PROVE  Unwritten(p) \in Seq(Enciphereds)
<1>1. out[p] \in Seq(Enciphereds) /\ posted[p] \in Seq(Enciphereds)
  BY DEF TypeOK
<1>2. writing[p] = <<"body">> => out[p] # <<>>
  BY DEF OneWriter
<1>3. CASE writing[p] = <<"body">>
  <2>1. Tail(out[p]) \in Seq(Enciphereds)
    BY <1>1, <1>2, <1>3, QueueParts
  <2> QED
    BY <1>1, <1>3, <2>1, ConcatProperties DEF Unwritten
<1>4. CASE writing[p] # <<"body">>
  BY <1>1, <1>4, ConcatProperties DEF Unwritten
<1> QED
  BY <1>3, <1>4

\* What a posted function or a write handler of p does: it may drop a message
\* whose header is written and that has no body, and it may write the header of
\* the message that is now the first; or it writes the body of the first.
Drops(p) == /\ Unwritten(p) # <<>> /\ Unwritten(p)[1].size = 0
            /\ Unwritten(p)' = Tail(Unwritten(p))

Heads(p) == /\ open[p] /\ Unwritten(p)' # <<>>
            /\ wire'[p] = Append(wire[p], HeaderOf(Unwritten(p)'[1]))

Passes(p) == /\ Unwritten(p)' = Unwritten(p) \/ Drops(p)
             /\ wire'[p] = wire[p] \/ Heads(p)
             /\ writing'[p] = <<"body">> => writing[p] = <<"body">>

Embodies(p) == /\ open[p] /\ Unwritten(p) # <<>> /\ Unwritten(p)[1].size > 0
               /\ Unwritten(p)' = Tail(Unwritten(p))
               /\ wire'[p] = Append(wire[p], BodyOf(Unwritten(p)[1]))

\* The writes that may be under way are told apart.
LEMMA Distinct ==
  /\ <<"header">> # <<"body">> /\ <<"header">> # <<"failing">> /\ <<"body">> # <<"failing">>
  /\ <<"header">> # <<>> /\ <<"body">> # <<>> /\ <<"failing">> # <<>>
<1>1. /\ <<"header">>[1] = "header" /\ <<"body">>[1] = "body" /\ <<"failing">>[1] = "failing"
      /\ <<"header">> # <<>> /\ <<"body">> # <<>> /\ <<"failing">> # <<>>
  BY Singleton
<1> QED
  BY <1>1

\* A write that ends was the only one, and its message is at the front.
LEMMA WrittenOne ==
  ASSUME TypeOK, OneWriter, NEW p \in Ends, HeaderWritten(p) \/ BodyWritten(p)
  PROVE  /\ writing[p] # <<>> /\ Tail(writing[p]) = <<>> /\ out[p] # <<>> /\ open[p]
         /\ HeaderWritten(p) => writing[p] = <<"header">>
         /\ BodyWritten(p) => writing[p] = <<"body">>
  BY OneUnderWay DEF HeaderWritten, BodyWritten, Written

\* Starting to write the header of the first message.
LEMMA HeaderStarts ==
  ASSUME TypeOK, NEW p \in Ends, NEW m \in Enciphereds, NEW U, WriteHeader(p, <<>>, m),
         U # <<>>, U[1] = m, Unwritten(p)' = U
  PROVE  /\ wire'[p] = wire[p] \/ Heads(p)
         /\ writing'[p] \in {<<"header">>, <<"failing">>}
<1>1. wire \in [Ends -> Seq(Units)] /\ writing \in [Ends -> Seq(Labels)]
  BY DEF TypeOK, Labels
<1>2. writing'[p] \in {<<"header">>, <<"failing">>}
  BY <1>1 DEF WriteHeader, Write
<1>3. CASE CanWrite(p)
  <2>1. wire'[p] = Append(wire[p], HeaderOf(m)) /\ open[p]
    BY <1>1, <1>3 DEF WriteHeader, Write, CanWrite
  <2> QED
    BY <1>2, <2>1 DEF Heads
<1>4. CASE ~CanWrite(p)
  BY <1>2, <1>4 DEF WriteHeader, Write
<1> QED
  BY <1>3, <1>4

\* The posted function passes its message on.
LEMMA RunPostedMoves ==
  ASSUME TypeOK, OneWriter, NEW p \in Ends, RunPosted(p)
  PROVE  Passes(p)
<1>1. /\ out \in [Ends -> Seq(Enciphereds)] /\ posted \in [Ends -> Seq(Enciphereds)]
      /\ posted[p] # <<>>
  BY DEF TypeOK, RunPosted
<1>2. PICK m \in Enciphereds : m = Head(posted[p])
  BY <1>1, QueueParts
<1>3. PICK r \in Seq(Enciphereds) : r = Tail(posted[p])
  BY <1>1, QueueParts
<1>4. /\ out'[p] = Append(out[p], m) /\ posted'[p] = r
  BY <1>1, <1>2, <1>3 DEF RunPosted
<1>5. Append(out[p], m) \o r = out[p] \o posted[p]
  BY <1>1, <1>2, <1>3, Glued
<1>6. CASE StartsWriting(p)
  <2>1. out[p] = <<>> /\ writing[p] = <<>>
    BY <1>6 DEF StartsWriting, OneWriter
  <2>2. Unwritten(p) = posted[p] /\ posted[p][1] = m
    BY <1>1, <1>2, <2>1, Glued DEF Unwritten
  <2>3. out'[p] = <<m>>
    BY <1>4, <2>1
  <2>4. WriteHeader(p, <<>>, m)
    <3>1. WriteHeader(p, <<>>, Head(out'[p]))
      BY <1>6, <2>1 DEF RunPosted
    <3> QED
      BY <2>3, <3>1
  <2>5. writing'[p] # <<"body">>
    BY <2>4 DEF WriteHeader, Write, TypeOK
  <2>6. Unwritten(p)' = posted[p]
    <3>1. Unwritten(p)' = out'[p] \o posted'[p]
      BY <2>5 DEF Unwritten
    <3>2. <<>> \o posted[p] = posted[p]
      BY <1>1, Glued
    <3> QED
      BY <1>4, <1>5, <2>1, <3>1, <3>2
  <2>7. wire'[p] = wire[p] \/ Heads(p)
    BY <1>1, <2>2, <2>4, <2>6, HeaderStarts
  <2> QED
    BY <2>2, <2>5, <2>6, <2>7 DEF Passes
<1>7. CASE ~StartsWriting(p)
  <2>1. UNCHANGED <<writing, wire>> /\ out[p] # <<>>
    BY <1>7 DEF RunPosted, StartsWriting
  <2>2. Tail(out[p]) \in Seq(Enciphereds)
    BY <1>1, <2>1, QueueParts
  <2>3. Tail(Append(out[p], m)) = Append(Tail(out[p]), m)
    BY <1>1, <2>1, HeadTailAppend
  <2>4. Append(Tail(out[p]), m) \o r = Tail(out[p]) \o posted[p]
    BY <1>1, <1>2, <1>3, <2>2, Glued
  <2>5. Unwritten(p)' = Unwritten(p)
    BY <1>4, <1>5, <2>1, <2>3, <2>4 DEF Unwritten
  <2> QED
    BY <2>1, <2>5 DEF Passes
<1> QED
  BY <1>6, <1>7

\* So does a handler that pops the message before it.
LEMMA PopWrittenMoves ==
  ASSUME TypeOK, OneWriter, NEW p \in Ends, PopWritten(p), out[p] # <<>>,
         writing[p] # <<>>, posted' = posted, NEW U, U = Tail(out[p]) \o posted[p]
  PROVE  /\ Unwritten(p)' = U /\ writing'[p] # <<"body">>
         /\ wire'[p] = wire[p] \/ Heads(p)
<1>1. /\ out \in [Ends -> Seq(Enciphereds)] /\ posted \in [Ends -> Seq(Enciphereds)]
      /\ writing \in [Ends -> Seq(Labels)]
  BY DEF TypeOK, Labels
<1>2. out'[p] = Tail(out[p]) /\ Tail(out[p]) \in Seq(Enciphereds)
  BY <1>1, QueueParts DEF PopWritten
<1>3. CASE out'[p] = <<>>
  <2>1. wire' = wire /\ writing'[p] = <<>>
    BY <1>1, <1>3, OneUnderWay DEF PopWritten
  <2> QED
    BY <1>2, <2>1 DEF Unwritten
<1>4. CASE out'[p] # <<>>
  <2>1. PICK m \in Enciphereds : m = Head(out'[p])
    BY <1>2, <1>4, QueueParts
  <2>2. WriteHeader(p, <<>>, m)
    BY <1>4, <2>1, OneUnderWay DEF PopWritten
  <2>3. writing'[p] # <<"body">>
    BY <1>1, <2>2 DEF WriteHeader, Write
  <2>4. Unwritten(p)' = U
    BY <1>2, <2>3 DEF Unwritten
  <2>5. U # <<>> /\ U[1] = m
    BY <1>1, <1>2, <1>4, <2>1, Glued
  <2> QED
    BY <2>2, <2>3, <2>4, <2>5, HeaderStarts
<1> QED
  BY <1>3, <1>4

\* The handler of a written header goes on with the body or the next message.
LEMMA HeaderWrittenMoves ==
  ASSUME TypeOK, OneWriter, NEW p \in Ends, HeaderWritten(p)
  PROVE  Passes(p) \/ Embodies(p)
<1>1. /\ out \in [Ends -> Seq(Enciphereds)] /\ posted \in [Ends -> Seq(Enciphereds)]
      /\ writing \in [Ends -> Seq(Labels)] /\ wire \in [Ends -> Seq(Units)]
      /\ writing[p] = <<"header">> /\ open[p] /\ posted' = posted /\ out[p] # <<>>
      /\ writing[p] # <<>> /\ Tail(writing[p]) = <<>>
  BY WrittenOne DEF TypeOK, Labels, HeaderWritten
<1>2. PICK U \in Seq(Enciphereds) : U = out[p] \o posted[p]
  BY <1>1, ConcatProperties
<1>3. Unwritten(p) = U
  BY <1>1, <1>2 DEF Unwritten
<1>4. U # <<>> /\ U[1] = Head(out[p]) /\ Tail(out[p]) \o posted[p] = Tail(U)
  BY <1>1, <1>2, Glued
<1>5. Head(out[p]) \in Enciphereds
  BY <1>1, QueueParts
<1>6. CASE Head(out[p]).size > 0
  <2>1. WriteBody(p, <<>>, U[1]) /\ out' = out
    BY <1>1, <1>4, <1>6 DEF HeaderWritten
  <2>2. CASE CanWrite(p)
    <3>1. writing'[p] = <<"body">> /\ wire'[p] = Append(wire[p], BodyOf(U[1]))
      BY <1>1, <2>1, <2>2 DEF WriteBody, Write
    <3>2. Unwritten(p)' = Tail(U)
      BY <1>1, <1>4, <2>1, <3>1 DEF Unwritten
    <3> QED
      BY <1>1, <1>3, <1>4, <1>6, <3>1, <3>2 DEF Embodies
  <2>3. CASE ~CanWrite(p)
    <3>1. writing'[p] = <<"failing">> /\ wire' = wire
      BY <1>1, <2>1, <2>3 DEF WriteBody, Write
    <3>2. Unwritten(p)' = U
      BY <1>1, <1>2, <2>1, <3>1 DEF Unwritten
    <3> QED
      BY <1>3, <3>1, <3>2 DEF Passes
  <2> QED
    BY <2>2, <2>3
<1>7. CASE ~(Head(out[p]).size > 0)
  <2>1. PopWritten(p)
    BY <1>7 DEF HeaderWritten
  <2>2. /\ Unwritten(p)' = Tail(U) /\ writing'[p] # <<"body">>
        /\ wire'[p] = wire[p] \/ Heads(p)
    BY <1>1, <1>4, <2>1, PopWrittenMoves
  <2>3. U[1].size = 0
    <3>1. Head(out[p]).size \in Nat
      BY <1>5, SizesAssumption DEF Enciphereds
    <3> QED
      BY <1>4, <1>7, <3>1
  <2> QED
    BY <1>3, <1>4, <2>2, <2>3 DEF Passes, Drops
<1> QED
  BY <1>6, <1>7

\* The handler of a written body goes on with the next message.
LEMMA BodyWrittenMoves ==
  ASSUME TypeOK, OneWriter, NEW p \in Ends, BodyWritten(p)
  PROVE  Passes(p)
<1>1. /\ PopWritten(p) /\ out[p] # <<>> /\ posted' = posted /\ writing[p] = <<"body">>
      /\ writing[p] # <<>>
  BY WrittenOne DEF BodyWritten
<1>2. Unwritten(p) = Tail(out[p]) \o posted[p]
  BY <1>1 DEF Unwritten
<1> QED
  BY <1>1, <1>2, PopWrittenMoves DEF Passes

\* A posted function or a write handler of p has something to write, and touches
\* nothing but p's messages and p's wire.
Works(p) ==
  /\ posted[p] # <<>> \/ out[p] # <<>>
  /\ Passes(p) \/ Embodies(p)
  /\ UNCHANGED <<open, key, enc, dec, reading, tmp, received>>
  /\ \A f \in Ends : f # p =>
       /\ wire'[f] = wire[f] /\ out'[f] = out[f] /\ posted'[f] = posted[f]
       /\ writing'[f] = writing[f]

\* Popping touches nothing else.
LEMMA PopWrittenWorks ==
  ASSUME TypeOK, NEW p \in Ends, PopWritten(p), Tail(writing[p]) = <<>>
  PROVE  \A f \in Ends : f # p =>
           wire'[f] = wire[f] /\ out'[f] = out[f] /\ writing'[f] = writing[f]
<1>1. CASE out'[p] = <<>>
  BY <1>1 DEF PopWritten, TypeOK
<1>2. CASE out'[p] # <<>>
  <2>1. WriteHeader(p, <<>>, Head(out'[p]))
    BY <1>2 DEF PopWritten
  <2>2. \A f \in Ends : f # p => wire'[f] = wire[f] /\ writing'[f] = writing[f]
    BY <2>1, WriteOwn DEF WriteHeader
  <2> QED
    BY <2>2 DEF PopWritten, TypeOK
<1> QED
  BY <1>1, <1>2

\* Each of the three does so.
LEMMA WritersWork ==
  ASSUME TypeOK, OneWriter, NEW p \in Ends,
         RunPosted(p) \/ HeaderWritten(p) \/ BodyWritten(p)
  PROVE  Works(p)
<1>1. CASE RunPosted(p)
  <2>1. \A f \in Ends : f # p => wire'[f] = wire[f] /\ writing'[f] = writing[f]
    <3>1. StartsWriting(p) => writing[p] = <<>>
      BY DEF StartsWriting, OneWriter
    <3> QED
      BY <1>1, <3>1, WriteOwn DEF RunPosted, WriteHeader
  <2>2. \A f \in Ends : f # p => out'[f] = out[f] /\ posted'[f] = posted[f]
    BY <1>1 DEF RunPosted, TypeOK
  <2>3. /\ posted[p] # <<>> /\ UNCHANGED <<open, key, enc, dec, reading, tmp, received>>
    BY <1>1 DEF RunPosted, linkVars, cipherVars, readVars
  <2> QED
    BY <1>1, <2>1, <2>2, <2>3, RunPostedMoves DEF Works
<1>2. CASE HeaderWritten(p) \/ BodyWritten(p)
  <2>1. /\ out[p] # <<>> /\ posted' = posted /\ Tail(writing[p]) = <<>>
        /\ UNCHANGED <<open, key, enc, dec, reading, tmp, received>>
    BY <1>2, WrittenOne DEF HeaderWritten, BodyWritten, linkVars, cipherVars, readVars
  <2>2. \A f \in Ends : f # p =>
           wire'[f] = wire[f] /\ out'[f] = out[f] /\ writing'[f] = writing[f]
    <3>1. CASE PopWritten(p)
      BY <2>1, <3>1, PopWrittenWorks
    <3>2. CASE ~PopWritten(p)
      <4>1. WriteBody(p, <<>>, Head(out[p])) /\ out' = out
        BY <1>2, <2>1, <3>2 DEF HeaderWritten, BodyWritten
      <4> QED
        BY <4>1, WriteOwn DEF WriteBody
    <3> QED
      BY <3>1, <3>2
  <2> QED
    BY <1>2, <2>1, <2>2, HeaderWrittenMoves, BodyWrittenMoves DEF Works
<1> QED
  BY <1>1, <1>2

\* The counters the invariant speaks of are counters.
LEMMA BaseType ==
  ASSUME TypeOK, NEW p \in Ends
  PROVE  /\ Base(p) \in Counters /\ wire[p] \in Seq(Units)
         /\ Past(Base(p), Bodies(wire[p])) \in Counters
         /\ dec[Peer(p)] \in Counters
<1>1. wire[p] \in Seq(Units) /\ dec \in [Ends -> Counters] /\ "server" \in Ends
      /\ Peer(p) \in Ends
  BY Peers DEF TypeOK, Ends
<1>2. Base(p) \in Counters
  <2>1. dec["server"] \in Int /\ AnswerBlocks \in Int
    BY <1>1, WidthType DEF Counters, AnswerBlocks
  <2>2. Plus(dec["server"], AnswerBlocks) \in Counters
    BY <2>1, PlusType
  <2> QED
    BY <1>1, <2>2 DEF Base
<1>3. Past(Base(p), Bodies(wire[p])) \in Counters
  BY <1>1, <1>2, BodiesType, PastType
<1> QED
  BY <1>1, <1>2, <1>3

\* A client that has not answered has nothing to write.
LEMMA IdleClient ==
  ASSUME CInv, NEW p \in Ends, p = "client", Works(p), open[p]
  PROVE  reading["client"] \in Talking
<1>1. reading["client"] \in {"none", "keys", "copied", "answering", "header", "body"}
  BY DEF CInv, IInv, TypeOK, Aligned, Handshaking, Unanswered, Ends
<1>2. reading["client"] \notin Before
  BY DEF CInv, Agreed, Waits, Works
<1> QED
  BY <1>1, <1>2 DEF Talking, Before

\* A server that waits for the answer has nothing to write that has a body.
LEMMA QuietServer ==
  ASSUME CInv, received["server"] = <<>>, Works("server")
  PROVE  /\ Passes("server")
         /\ \A i \in DOMAIN Unwritten("server")' : Unwritten("server")'[i].size = 0
<1>1. PICK U \in Seq(Enciphereds) : U = Unwritten("server")
  BY UnwrittenType DEF CInv, IInv, Ends
<1>2. \A i \in 1 .. Len(U) : U[i].size = 0
  BY <1>1 DEF CInv, Agreed, Quiet
<1>3. ~Embodies("server")
  <2> SUFFICES ASSUME U # <<>> PROVE ~(U[1].size > 0)
    BY <1>1 DEF Embodies
  <2>1. 1 \in 1 .. Len(U)
    BY <1>1, EmptySeq
  <2> QED
    BY <1>2, <2>1
<1>4. Passes("server")
  BY <1>3 DEF Works
<1>5. ASSUME U # <<>> PROVE \A i \in DOMAIN Tail(U) : Tail(U)[i].size = 0
  <2>1. PICK V \in Seq(Enciphereds) : V = Tail(U)
    BY <1>5, HeadTailProperties
  <2>2. Len(U) = Len(V) + 1 /\ \A i \in 1 .. Len(V) : V[i] = U[i + 1]
    BY <1>5, <2>1
  <2>3. \A i \in 1 .. Len(V) : V[i].size = 0
    <3>1. \A i \in 1 .. Len(V) : i + 1 \in 1 .. Len(U)
      BY <2>2
    <3> QED
      BY <1>2, <2>2, <3>1
  <2> QED
    BY <2>1, <2>3
<1>6. Unwritten("server")' = U \/ (U # <<>> /\ Unwritten("server")' = Tail(U))
  BY <1>1, <1>4 DEF Passes, Drops
<1> QED
  BY <1>2, <1>4, <1>5, <1>6

\* Who may write and knows its counter keeps counting right.
LEMMA WritersCount ==
  ASSUME NEW c \in Counters, NEW W \in Seq(Units), NEW p \in Ends, NEW V, NEW k,
         NEW U \in Seq(Enciphereds), U = Unwritten(p), W = wire[p], V = wire'[p],
         Passes(p) \/ Embodies(p),
         Chained(c, W), Queued(Past(c, Bodies(W)), U),
         k = Past(Past(c, Bodies(W)), Blocks(U))
  PROVE  /\ Chained(c, V) /\ Queued(Past(c, Bodies(V)), Unwritten(p)')
         /\ k = Past(Past(c, Bodies(V)), Blocks(Unwritten(p)'))
<1>1. PICK d \in Counters : d = Past(c, Bodies(W))
  BY BodiesType, PastType
<1>2. Plus(d, 0) = d
  BY PlusPlus
<1>3. ASSUME Embodies(p)
      PROVE  /\ Chained(c, V) /\ Queued(Past(c, Bodies(V)), Unwritten(p)')
             /\ k = Past(Past(c, Bodies(V)), Blocks(Unwritten(p)'))
  <2>1. PICK m \in Enciphereds : m = U[1]
    <3>1. U # <<>>
      BY <1>3 DEF Embodies
    <3>2. U[1] \in Enciphereds
      BY <3>1
    <3> QED
      BY <3>2
  <2>2. U # <<>> /\ m.size > 0 /\ Unwritten(p)' = Tail(U) /\ V = Append(W, BodyOf(m))
    BY <1>3, <2>1 DEF Embodies
  <2>3. /\ m.key = "session" /\ m.cou = d
        /\ Queued(Plus(d, m.size), Tail(U))
        /\ Past(Plus(d, m.size), Blocks(Tail(U))) = k
    BY <1>1, <2>1, <2>2, QueuedTail
  <2>4. BodyOf(m) \in Units /\ Fits(d, BodyOf(m)) /\ BodyBlocks(BodyOf(m)) = m.size
    <3>1. BodyOf(m) \in Units
      BY HeaderTells
    <3> QED
      BY <2>3, <3>1 DEF Fits, BodyOf, BodyBlocks, Pending
  <2>5. Chained(c, V) /\ Past(c, Bodies(V)) = Plus(d, m.size)
    BY <1>1, <2>2, <2>4, ChainedAppend
  <2> QED
    BY <2>2, <2>3, <2>5
<1>4. ASSUME Passes(p)
      PROVE  /\ Chained(c, V) /\ Queued(Past(c, Bodies(V)), Unwritten(p)')
             /\ k = Past(Past(c, Bodies(V)), Blocks(Unwritten(p)'))
  <2>1. PICK T : T = Unwritten(p)'
    OBVIOUS
  <2>2. T \in Seq(Enciphereds) /\ Queued(d, T) /\ k = Past(d, Blocks(T))
    <3>1. CASE T = U
      BY <1>1, <3>1
    <3>2. CASE T # U
      <4>1. U # <<>> /\ U[1].size = 0 /\ T = Tail(U)
        BY <1>4, <2>1, <3>2 DEF Passes, Drops
      <4>2. T \in Seq(Enciphereds)
        BY <4>1, HeadTailProperties
      <4>3. Queued(Plus(d, U[1].size), Tail(U))
            /\ Past(Plus(d, U[1].size), Blocks(Tail(U))) = Past(d, Blocks(U))
        BY <1>1, <4>1, QueuedTail
      <4> QED
        BY <1>1, <1>2, <4>1, <4>2, <4>3
    <3> QED
      BY <3>1, <3>2
  <2>3. CASE V = W
    BY <1>1, <2>1, <2>2, <2>3
  <2>4. CASE V # W
    <3>1. T # <<>> /\ V = Append(W, HeaderOf(T[1]))
      BY <1>4, <2>1, <2>4 DEF Passes, Heads
    <3>2. PICK m \in Enciphereds : m = T[1]
      <4>1. T[1] \in Enciphereds
        BY <2>2, <3>1
      <4> QED
        BY <4>1
    <3>3. m.size > 0 => m.cou = d
      BY <2>2, <3>1, <3>2, QueuedTail
    <3>4. HeaderOf(m) \in Units /\ Fits(d, HeaderOf(m)) /\ BodyBlocks(HeaderOf(m)) = 0
      <4>1. HeaderOf(m) \in Units
        BY HeaderTells
      <4> QED
        BY <3>3, <4>1 DEF Fits, HeaderOf, BodyBlocks, Pending
    <3>5. Chained(c, V) /\ Past(c, Bodies(V)) = Plus(d, 0)
      BY <1>1, <3>1, <3>2, <3>4, ChainedAppend
    <3> QED
      BY <1>2, <2>1, <2>2, <3>5
  <2> QED
    BY <2>3, <2>4
<1> QED
  BY <1>3, <1>4

\* A direction nobody touches is still counted.
LEMMA SameCount ==
  ASSUME NEW p \in Ends, Counted(p), wire'[p] = wire[p],
         Reads(p)' => Reads(p) /\ Base(p)' = Base(p),
         Reads(p)' /\ Writes(p)' =>
           Writes(p) /\ Unwritten(p)' = Unwritten(p) /\ enc'[p] = enc[p]
  PROVE  Counted(p)'
  BY DEF Counted

\* Writing keeps the counters in step in both directions.
LEMMA WritersCounted ==
  ASSUME CInv, NEW p \in Ends, Works(p)
  PROVE  \A f \in Ends : Counted(f)'
<1>1. /\ TypeOK /\ OneWriter /\ Counted(p) /\ "server" \in Ends
      /\ \A f \in Ends : Counted(f)
  BY DEF CInv, IInv, Ends
<1>2. UNCHANGED <<open, enc, dec, reading, received>>
  BY DEF Works
<1>3. ASSUME NEW f \in Ends, f # p PROVE Counted(f)'
  <2>1. wire'[f] = wire[f] /\ Unwritten(f)' = Unwritten(f)
    BY <1>3 DEF Works, Unwritten
  <2>2. /\ Reads(f)' <=> Reads(f)
        /\ Writes(f)' <=> Writes(f)
        /\ Base(f)' = Base(f) /\ enc'[f] = enc[f]
    BY <1>2 DEF Reads, Writes, Base
  <2> QED
    BY <1>1, <2>1, <2>2, SameCount
<1>4. Counted(p)'
  <2>1. /\ Reads(p)' <=> Reads(p)
        /\ Writes(p)' <=> Writes(p)
        /\ Base(p)' = Base(p) /\ enc'[p] = enc[p]
    BY <1>2 DEF Reads, Writes, Base
  <2> SUFFICES ASSUME Reads(p)
               PROVE  /\ Chained(Base(p), wire'[p])
                      /\ Writes(p) =>
                           /\ Queued(Past(Base(p), Bodies(wire'[p])), Unwritten(p)')
                           /\ enc[p] = Past(Past(Base(p), Bodies(wire'[p])),
                                            Blocks(Unwritten(p)'))
    BY <2>1 DEF Counted
  <2>2. PICK c \in Counters : c = Base(p)
    BY <1>1, BaseType
  <2>3. PICK W \in Seq(Units) : W = wire[p]
    BY <1>1, BaseType
  <2>4. PICK U \in Seq(Enciphereds) : U = Unwritten(p)
    BY <1>1, UnwrittenType
  <2>5. Chained(c, W)
    BY <1>1, <2>2, <2>3 DEF Counted
  <2>6. Passes(p) \/ Embodies(p)
    BY DEF Works
  <2>7. CASE Writes(p)
    <3>1. Queued(Past(c, Bodies(W)), U) /\ enc[p] = Past(Past(c, Bodies(W)), Blocks(U))
      BY <1>1, <2>2, <2>3, <2>4, <2>7 DEF Counted
    <3> QED
      BY <2>2, <2>3, <2>4, <2>5, <2>6, <3>1, WritersCount
  <2>8. CASE ~Writes(p)
    <3> SUFFICES Chained(c, wire'[p])
      BY <2>2, <2>8
    <3>1. CASE ~open[p]
      BY <2>3, <2>5, <2>6, <3>1 DEF Passes, Heads, Embodies
    <3>2. CASE open[p] /\ p = "client"
      BY <2>8, <3>2, IdleClient DEF Writes
    <3>3. CASE open[p] /\ p = "server"
      <4>1. reading["server"] = "answer"
        BY <2>8, <3>3 DEF Writes, CInv, Agreed, Keyed
      <4>2. received["server"] = <<>>
        BY <4>1 DEF CInv, Agreed, Offered
      <4>3. Passes(p) /\ \A i \in DOMAIN Unwritten(p)' : Unwritten(p)'[i].size = 0
        BY <3>3, <4>2, QuietServer
      <4>4. CASE wire'[p] = wire[p]
        BY <2>3, <2>5, <4>4
      <4>5. CASE wire'[p] # wire[p]
        <5>1. PICK T : T = Unwritten(p)'
          OBVIOUS
        <5>2. T # <<>> /\ wire'[p] = Append(W, HeaderOf(T[1]))
          BY <2>3, <4>3, <4>5, <5>1 DEF Passes, Heads
        <5>3. T = U \/ (U # <<>> /\ T = Tail(U))
          BY <2>4, <4>3, <5>1 DEF Passes, Drops
        <5>4. T \in Seq(Enciphereds)
          BY <5>3, HeadTailProperties
        <5>5. 1 \in DOMAIN T /\ T[1] \in Enciphereds
          BY <5>2, <5>4, EmptySeq
        <5>6. PICK m \in Enciphereds : m = T[1]
          BY <5>5
        <5>7. m.size = 0
          BY <4>3, <5>1, <5>5, <5>6
        <5>8. HeaderOf(m) \in Units
          BY HeaderTells
        <5>9. \A k : Fits(k, HeaderOf(m))
          BY <5>7 DEF Fits, HeaderOf, Pending
        <5> QED
          BY <2>5, <5>2, <5>6, <5>8, <5>9, ChainedAppend
      <4> QED
        BY <4>4, <4>5
    <3> QED
      BY <3>1, <3>2, <3>3 DEF Ends
  <2> QED
    BY <2>7, <2>8
<1> QED
  BY <1>3, <1>4

\* What is written is a header or a body, and it comes last.
LEMMA WritersUnit ==
  ASSUME TypeOK, OneWriter, NEW p \in Ends, Works(p), wire'[p] # wire[p]
  PROVE  /\ open[p]
         /\ \E x \in Units : x.unit \in {"header", "body"} /\ wire'[p] = Append(wire[p], x)
<1>1. PICK U \in Seq(Enciphereds) : U = Unwritten(p)
  BY UnwrittenType
<1>2. CASE Embodies(p)
  <2>1. U # <<>> /\ open[p] /\ wire'[p] = Append(wire[p], BodyOf(U[1]))
    BY <1>1, <1>2 DEF Embodies
  <2>2. U[1] \in Enciphereds
    BY <2>1
  <2> QED
    BY <2>1, <2>2, HeaderTells
<1>3. CASE Passes(p)
  <2>1. PICK T : T = Unwritten(p)'
    OBVIOUS
  <2>2. open[p] /\ T # <<>> /\ wire'[p] = Append(wire[p], HeaderOf(T[1]))
    BY <1>3, <2>1 DEF Passes, Heads
  <2>3. T = U \/ (U # <<>> /\ T = Tail(U))
    BY <1>1, <1>3, <2>1 DEF Passes, Drops
  <2>4. T \in Seq(Enciphereds)
    BY <2>3, HeadTailProperties
  <2>5. T[1] \in Enciphereds
    BY <2>2, <2>4
  <2> QED
    BY <2>2, <2>5, HeaderTells
<1> QED
  BY <1>2, <1>3 DEF Works

\* Writing keeps what the two ends agree on.
LEMMA WritersAgree ==
  ASSUME CInv, NEW p \in Ends, Works(p)
  PROVE  (Agreed /\ LowAgrees /\ Deciphered)'
<1>1. /\ TypeOK /\ OneWriter /\ wire \in [Ends -> Seq(Units)]
      /\ "server" \in Ends /\ "client" \in Ends
  BY DEF CInv, IInv, TypeOK, Ends
<1>2. UNCHANGED <<open, key, enc, dec, reading, tmp, received>>
  BY DEF Works
<1>3. \A f \in Ends : f # p =>
        /\ wire'[f] = wire[f] /\ out'[f] = out[f] /\ posted'[f] = posted[f]
        /\ writing'[f] = writing[f]
  BY DEF Works
<1>4. Keyed' /\ LowAgrees' /\ Deciphered'
  BY <1>2 DEF CInv, Agreed, Keyed, LowAgrees, Deciphered
<1>5. ASSUME wire'[p] # wire[p]
      PROVE  /\ open[p] /\ p = "client" =>
                  /\ reading["client"] \in Talking
                  /\ reading["server"] = "answer" => wire[p] # <<>>
             /\ \A u \in {"keys", "answer"} : \A i \in DOMAIN wire'[p] :
                  wire'[p][i].unit = u => i \in DOMAIN wire[p] /\ wire'[p][i] = wire[p][i]
             /\ wire[p] # <<>> => wire'[p][1] = wire[p][1]
             /\ wire'[p] # <<>>
  <2>1. PICK x \in Units : x.unit \in {"header", "body"} /\ wire'[p] = Append(wire[p], x)
    BY <1>1, <1>5, WritersUnit
  <2>2. PICK W \in Seq(Units) : W = wire[p]
    BY <1>1
  <2>3. PICK V \in Seq(Units) : V = wire'[p]
    BY <2>1, <2>2, AppendProperties
  <2>4. /\ V # <<>> /\ Len(V) = Len(W) + 1 /\ V[Len(W) + 1] = x
        /\ \A i \in 1 .. Len(W) : V[i] = W[i]
    BY <2>1, <2>2, <2>3, AppendProperties
  <2>5. \A i \in DOMAIN V : V[i].unit \in {"keys", "answer"} => i \in DOMAIN W /\ V[i] = W[i]
    <3> SUFFICES ASSUME NEW i \in DOMAIN V, V[i].unit \in {"keys", "answer"}
                 PROVE  i \in DOMAIN W /\ V[i] = W[i]
      OBVIOUS
    <3>1. i # Len(W) + 1
      BY <2>1, <2>4
    <3>2. i \in 1 .. Len(W)
      BY <2>4, <3>1
    <3> QED
      BY <2>4, <3>2
  <2>6. W # <<>> => V[1] = W[1]
    BY <2>4, EmptySeq
  <2>7. open[p] /\ p = "client" => reading["client"] \in Talking
    BY IdleClient
  <2>8. open[p] /\ p = "client" /\ reading["server"] = "answer" => wire[p] # <<>>
    BY <2>7 DEF CInv, Agreed, Offered, Talking, Before
  <2> QED
    BY <2>2, <2>3, <2>4, <2>5, <2>6, <2>7, <2>8
<1>6. Offered'
  <2> SUFFICES ASSUME reading["server"] = "answer"
      PROVE  /\ received["server"] = <<>>
             /\ \A i \in DOMAIN wire'["server"] :
                  wire'["server"][i].unit = "keys" => wire'["server"][i].server_cou = dec["server"]
             /\ open["client"] /\ reading["client"] = "copied" => enc["client"] = dec["server"]
             /\ \A i \in DOMAIN wire'["client"] :
                  wire'["client"][i].unit = "answer" =>
                    /\ wire'["client"][i].cou = dec["server"]
                    /\ reading["client"] \in Talking =>
                         wire'["client"][i].client_cou = dec["client"]
             /\ wire'["client"] # <<>> => wire'["client"][1].unit = "answer"
             /\ wire'["client"] = <<>> /\ open["client"] => reading["client"] \in Before
    BY <1>2 DEF Offered
  <2>1. Offered
    BY DEF CInv, Agreed
  <2>2. wire'["server"] # wire["server"] => p = "server"
    BY <1>1, <1>3
  <2>3. wire'["client"] # wire["client"] => p = "client"
    BY <1>1, <1>3
  <2>4. wire'["client"] # wire["client"] => open["client"]
    BY <1>1, <2>3, WritersUnit
  <2> QED
    BY <1>5, <2>1, <2>2, <2>3, <2>4 DEF Offered
<1>7. Waits'
  <2> SUFFICES
        /\ key["server"] = "default" => wire'["client"] = <<>>
        /\ open["client"] /\ reading["client"] \in Before =>
             /\ wire'["client"] = <<>> /\ posted'["client"] = <<>> /\ out'["client"] = <<>>
             /\ received["server"] = <<>>
    BY <1>2 DEF Waits
  <2>1. Waits
    BY DEF CInv, Agreed
  <2>2. CASE p # "client"
    BY <1>1, <1>3, <2>1, <2>2 DEF Waits
  <2>3. CASE p = "client"
    <3>1. ~(open["client"] /\ reading["client"] \in Before)
      BY <2>1, <2>3 DEF Waits, Works
    <3>2. key["server"] = "default" => reading["client"] \in Before
      BY DEF CInv, IInv, Aligned, Handshaking, Unaccepted, Before
    <3>3. key["server"] = "default" => wire'["client"] = wire["client"]
      BY <1>1, <2>3, <3>1, <3>2, WritersUnit
    <3> QED
      BY <2>1, <3>1, <3>3 DEF Waits
  <2> QED
    BY <2>2, <2>3
<1>8. Quiet'
  <2> SUFFICES ASSUME received["server"] = <<>>
      PROVE  /\ writing'["server"] # <<"body">>
             /\ \A i \in DOMAIN Unwritten("server")' : Unwritten("server")'[i].size = 0
             /\ \A i \in DOMAIN wire'["server"] :
                  wire'["server"][i].unit # "body" /\ ~Pending(wire'["server"][i])
    BY <1>2 DEF Quiet
  <2>1. Quiet
    BY DEF CInv, Agreed
  <2>2. CASE p # "server"
    <3>1. /\ wire'["server"] = wire["server"] /\ out'["server"] = out["server"]
          /\ posted'["server"] = posted["server"] /\ writing'["server"] = writing["server"]
      BY <1>1, <1>3, <2>2
    <3> QED
      BY <2>1, <3>1 DEF Quiet, Unwritten
  <2>3. CASE p = "server"
    <3>1. /\ Passes("server")
          /\ \A i \in DOMAIN Unwritten("server")' : Unwritten("server")'[i].size = 0
      BY <2>3, QuietServer
    <3>2. writing'["server"] # <<"body">>
      BY <2>1, <3>1 DEF Passes, Quiet
    <3>3. CASE wire'["server"] = wire["server"]
      BY <2>1, <3>1, <3>2, <3>3 DEF Quiet
    <3>4. CASE wire'["server"] # wire["server"]
      <4>1. PICK T : T = Unwritten("server")'
        OBVIOUS
      <4>2. T # <<>> /\ wire'["server"] = Append(wire["server"], HeaderOf(T[1]))
        BY <3>1, <3>4, <4>1 DEF Passes, Heads
      <4>3. PICK U \in Seq(Enciphereds) : U = Unwritten("server")
        BY <1>1, UnwrittenType
      <4>4. T = U \/ (U # <<>> /\ T = Tail(U))
        BY <3>1, <4>1, <4>3 DEF Passes, Drops
      <4>5. T \in Seq(Enciphereds)
        BY <4>4, HeadTailProperties
      <4>6. 1 \in DOMAIN T /\ T[1] \in Enciphereds
        BY <4>2, <4>5, EmptySeq
      <4>7. PICK x \in Units : x = HeaderOf(T[1])
        BY <4>6, HeaderTells
      <4>8. x.unit # "body" /\ ~Pending(x)
        <5>1. T[1].size = 0
          BY <3>1, <4>1, <4>6
        <5> QED
          BY <4>7, <5>1 DEF HeaderOf, Pending
      <4>9. PICK W \in Seq(Units) : W = wire["server"]
        BY <1>1
      <4>10. PICK V \in Seq(Units) : V = wire'["server"]
        BY <4>2, <4>7, <4>9, AppendProperties
      <4>11. /\ Len(V) = Len(W) + 1 /\ V[Len(W) + 1] = x
             /\ \A i \in 1 .. Len(W) : V[i] = W[i]
        BY <4>2, <4>7, <4>9, <4>10, AppendProperties
      <4>12. \A i \in 1 .. Len(W) : W[i].unit # "body" /\ ~Pending(W[i])
        BY <2>1, <4>9 DEF Quiet
      <4>13. \A i \in 1 .. Len(W) + 1 : V[i].unit # "body" /\ ~Pending(V[i])
        <5> SUFFICES ASSUME NEW i \in 1 .. Len(W) + 1
                     PROVE  V[i].unit # "body" /\ ~Pending(V[i])
          OBVIOUS
        <5>1. CASE i = Len(W) + 1
          BY <4>8, <4>11, <5>1
        <5>2. CASE i # Len(W) + 1
          <6>1. i \in 1 .. Len(W)
            BY <5>2
          <6> QED
            BY <4>11, <4>12, <6>1
        <5> QED
          BY <5>1, <5>2
      <4> QED
        BY <3>1, <3>2, <4>10, <4>11, <4>13
    <3> QED
      BY <3>1, <3>2, <3>3, <3>4
  <2> QED
    BY <2>2, <2>3
<1> QED
  BY <1>4, <1>6, <1>7, <1>8 DEF Agreed

-----------------------------------------------------------------------------
\* Sending.

\* Send enciphers with the counter that comes after everything not yet written.
LEMMA SendCounted ==
  ASSUME CInv, NEW p \in Ends, NEW size \in Sizes, Send(p, size)
  PROVE  \A f \in Ends : Counted(f)'
<1>1. /\ TypeOK /\ OneWriter /\ \A f \in Ends : Counted(f)
      /\ posted \in [Ends -> Seq(Enciphereds)] /\ out \in [Ends -> Seq(Enciphereds)]
      /\ enc \in [Ends -> Counters]
  BY DEF CInv, IInv, TypeOK
<1>2. UNCHANGED <<open, key, dec, out, writing, wire, reading, tmp, received>>
  BY DEF Send, linkVars, readVars
<1>3. /\ \A f \in Ends : f # p => posted'[f] = posted[f] /\ enc'[f] = enc[f]
      /\ posted'[p] = Append(posted[p], Enciphered(p, size))
      /\ enc'[p] = Plus(enc[p], size)
  BY <1>1 DEF Send
<1>4. ASSUME NEW f \in Ends
      PROVE  /\ Reads(f)' <=> Reads(f)
             /\ Writes(f)' <=> Writes(f)
             /\ Base(f)' = Base(f) /\ wire'[f] = wire[f]
  BY <1>2 DEF Reads, Writes, Base
<1>5. ASSUME NEW f \in Ends, f # p PROVE Counted(f)'
  <2>1. Unwritten(f)' = Unwritten(f)
    BY <1>2, <1>3, <1>5 DEF Unwritten
  <2> QED
    BY <1>1, <1>3, <1>4, <1>5, <2>1, SameCount
<1>6. Counted(p)'
  <2>1. CASE ~(Reads(p) /\ Writes(p))
    BY <1>1, <1>4, <2>1, SameCount
  <2>2. CASE Reads(p) /\ Writes(p)
    <3>1. PICK U \in Seq(Enciphereds) : U = Unwritten(p)
      BY <1>1, UnwrittenType
    <3>2. PICK d \in Counters : d = Past(Base(p), Bodies(wire[p]))
      BY <1>1, BaseType
    <3>3. Queued(d, U) /\ enc[p] = Past(d, Blocks(U)) /\ Chained(Base(p), wire[p])
      BY <1>1, <2>2, <3>1, <3>2 DEF Counted
    <3>4. PICK m \in Enciphereds : m = Enciphered(p, size)
      BY <1>1, MessageTypes
    <3>5. m.key = "session" /\ m.cou = Past(d, Blocks(U)) /\ m.size = size
      <4>1. key[p] = "session"
        BY <2>2 DEF Writes, CInv, Agreed, Keyed, Ends
      <4> QED
        BY <3>3, <3>4, <4>1 DEF Enciphered
    <3>6. Queued(d, Append(U, m)) /\ Past(d, Blocks(Append(U, m))) = enc'[p]
      BY <1>3, <3>3, <3>5, QueuedAppend
    <3>7. Unwritten(p)' = Append(U, m)
      <4>1. writing[p] = <<"body">> => Tail(out[p]) \in Seq(Enciphereds)
        BY <1>1, QueueParts DEF OneWriter
      <4>2. \A t \in Seq(Enciphereds) : t \o Append(posted[p], m) = Append(t \o posted[p], m)
        BY <1>1, Glued
      <4>3. posted'[p] = Append(posted[p], m) /\ out'[p] = out[p] /\ out[p] \in Seq(Enciphereds)
        BY <1>1, <1>2, <1>3, <3>4
      <4>4. CASE writing[p] = <<"body">>
        BY <1>2, <3>1, <4>1, <4>2, <4>3, <4>4 DEF Unwritten
      <4>5. CASE writing[p] # <<"body">>
        BY <1>2, <3>1, <4>2, <4>3, <4>5 DEF Unwritten
      <4> QED
        BY <4>4, <4>5
    <3> QED
      BY <1>4, <3>2, <3>3, <3>6, <3>7 DEF Counted
  <2> QED
    BY <2>1, <2>2
<1> QED
  BY <1>5, <1>6

\* A client that waits and a server that answers keep what they agree on.
LEMMA SendAgrees ==
  ASSUME CInv, NEW p \in Ends, NEW size \in Sizes, Send(p, size),
         p = "client" => reading["client"] \in Talking,
         p = "server" => received["server"] # <<>>
  PROVE  (Agreed /\ LowAgrees /\ Deciphered)'
<1>1. /\ posted \in [Ends -> Seq(Enciphereds)] /\ enc \in [Ends -> Counters]
      /\ "client" \in Ends /\ "server" \in Ends
  BY DEF CInv, IInv, TypeOK, Ends
<1>2. UNCHANGED <<open, key, dec, out, writing, wire, reading, tmp, received>>
  BY DEF Send, linkVars, readVars
<1>3. \A f \in Ends : f # p => posted'[f] = posted[f] /\ enc'[f] = enc[f]
  BY <1>1 DEF Send
<1>4. Keyed' /\ LowAgrees' /\ Deciphered'
  BY <1>2 DEF CInv, Agreed, Keyed, LowAgrees, Deciphered
<1>5. Offered'
  <2>1. reading["client"] = "copied" => enc'["client"] = enc["client"]
    BY <1>1, <1>3 DEF Talking
  <2> QED
    BY <1>2, <2>1 DEF CInv, Agreed, Offered
<1>6. Waits'
  <2>1. reading["client"] \in Before => posted'["client"] = posted["client"]
    BY <1>1, <1>3 DEF Talking, Before
  <2> QED
    BY <1>2, <2>1 DEF CInv, Agreed, Waits
<1>7. Quiet'
  <2>1. received["server"] = <<>> => Unwritten("server")' = Unwritten("server")
    BY <1>1, <1>2, <1>3 DEF Unwritten
  <2> QED
    BY <1>2, <2>1 DEF CInv, Agreed, Quiet
<1> QED
  BY <1>4, <1>5, <1>6, <1>7 DEF Agreed

-----------------------------------------------------------------------------
\* Steps that read nothing and write nothing; some close a socket.

Calm ==
  /\ UNCHANGED <<wire, enc, dec, key, received, posted, out, tmp>>
  /\ \A e \in Ends :
       /\ open'[e] => open[e]
       /\ \/ writing'[e] = writing[e]
          \/ ~open'[e] /\ writing'[e] = <<>> /\ out[e] # <<>>
       /\ \/ reading'[e] = reading[e]
          \/ ~open'[e] /\ reading'[e] = "none"
          \/ e = "client" /\ reading[e] = "none" /\ reading'[e] = "keys"
          \/ e = "client" /\ reading[e] = "answering" /\ reading'[e] = "header"

\* These are the steps.
LEMMA CalmSteps ==
  ASSUME TypeOK, OneWriter,
         \/ TcpUp \/ ConnectFails \/ KeysWritten \/ Connected \/ AnswerWritten \/ Exit
         \/ UNCHANGED vars
         \/ \E e \in Ends : WriteFails(e) \/ ReadFails(e)
  PROVE  Calm
<1>1. /\ open \in [Ends -> BOOLEAN] /\ writing \in [Ends -> Seq(Labels)]
      /\ reading \in [Ends -> Readings]
  BY DEF TypeOK, Labels, Readings
<1>2. CASE TcpUp \/ ConnectFails \/ UNCHANGED vars
  BY <1>2 DEF Calm, TcpUp, ConnectFails, vars, linkVars, cipherVars, writeVars, readVars
<1>3. CASE KeysWritten \/ Connected \/ AnswerWritten
  BY <1>1, <1>3
  DEF Calm, KeysWritten, Connected, AnswerWritten, linkVars, cipherVars, writeVars, readVars
<1>4. CASE Exit
  BY <1>1, <1>4 DEF Calm, Exit, cipherVars, writeVars, readVars
<1>5. ASSUME NEW e \in Ends, WriteFails(e) \/ ReadFails(e) PROVE Calm
  <2>1. CASE WriteFails(e)
    <3>1. writing'[e] = <<>> /\ out[e] # <<>>
      BY <1>1, <2>1, OneUnderWay DEF WriteFails
    <3> QED
      BY <1>1, <2>1, <3>1 DEF Calm, WriteFails, cipherVars, readVars
  <2>2. CASE ReadFails(e)
    BY <1>1, <2>2 DEF Calm, ReadFails, cipherVars, writeVars
  <2> QED
    BY <1>5, <2>1, <2>2
<1> QED
  BY <1>2, <1>3, <1>4, <1>5

\* They disturb nothing.
LEMMA CalmKeeps ==
  ASSUME CInv, Calm
  PROVE  (Agreed /\ (\A p \in Ends : Counted(p)) /\ LowAgrees /\ Deciphered)'
<1>1. "client" \in Ends /\ "server" \in Ends
  BY DEF Ends
<1>2. UNCHANGED <<wire, enc, dec, key, received, posted, out, tmp>>
  BY DEF Calm
<1>3. ASSUME NEW p \in Ends PROVE Counted(p)'
  <2>1. Reads(p)' => Reads(p) /\ Base(p)' = Base(p)
    BY <1>1, <1>2 DEF Calm, Reads, Base, Talking, Ends
  <2>2. Writes(p)' => Writes(p) /\ Unwritten(p)' = Unwritten(p) /\ enc'[p] = enc[p]
    BY <1>1, <1>2 DEF Calm, Writes, Unwritten, Talking, Ends
  <2>3. Counted(p) /\ wire'[p] = wire[p]
    BY <1>2 DEF CInv
  <2> QED
    BY <2>1, <2>2, <2>3, SameCount
<1>4. Keyed'
  BY <1>1, <1>2 DEF CInv, Agreed, Keyed, Calm, Talking
<1>5. Offered'
  BY <1>1, <1>2 DEF CInv, Agreed, Offered, Calm, Talking, Before
<1>6. Waits'
  BY <1>1, <1>2 DEF CInv, Agreed, Waits, Calm, Before
<1>7. Quiet'
  <2> SUFFICES ASSUME received["server"] = <<>>
      PROVE  /\ writing'["server"] # <<"body">>
             /\ \A i \in DOMAIN Unwritten("server")' : Unwritten("server")'[i].size = 0
             /\ \A i \in DOMAIN wire["server"] :
                  wire["server"][i].unit # "body" /\ ~Pending(wire["server"][i])
    BY <1>2 DEF Quiet
  <2>1. Quiet /\ writing["server"] # <<"body">>
    BY DEF CInv, Agreed, Quiet
  <2>2. writing'["server"] # <<"body">>
    BY <1>1, <2>1 DEF Calm
  <2>3. Unwritten("server")' = Unwritten("server")
    BY <1>2, <2>1, <2>2 DEF Unwritten
  <2> QED
    BY <2>1, <2>2, <2>3 DEF Quiet
<1>8. LowAgrees'
  BY <1>2 DEF CInv, LowAgrees, Calm
<1>9. Deciphered'
  BY <1>2 DEF CInv, Deciphered
<1> QED
  BY <1>3, <1>4, <1>5, <1>6, <1>7, <1>8, <1>9 DEF Agreed

-----------------------------------------------------------------------------
\* Reading.

\* Reading a unit from p's wire keeps p's direction counted, if the reader's
\* counter moves past the unit.
LEMMA TakenCounted ==
  ASSUME CInv, NEW p \in Ends, wire[p] # <<>>, wire'[p] = Tail(wire[p]), Reads(p),
         Base(p)' = Plus(Base(p), BodyBlocks(wire[p][1])),
         Writes(p)' => Writes(p) /\ Unwritten(p)' = Unwritten(p) /\ enc'[p] = enc[p]
  PROVE  Counted(p)'
<1>1. PICK c \in Counters : c = Base(p)
  BY BaseType DEF CInv, IInv
<1>2. PICK W \in Seq(Units) : W = wire[p]
  BY BaseType DEF CInv, IInv
<1>3. Chained(c, W) /\ W # <<>>
  BY <1>1, <1>2 DEF CInv, Counted
<1>4. /\ Chained(Base(p)', wire'[p])
      /\ Past(Base(p)', Bodies(wire'[p])) = Past(c, Bodies(W))
  BY <1>1, <1>2, <1>3, ChainedTail
<1>5. Writes(p) => /\ Queued(Past(c, Bodies(W)), Unwritten(p))
                   /\ enc[p] = Past(Past(c, Bodies(W)), Blocks(Unwritten(p)))
  BY <1>1, <1>2 DEF CInv, Counted
<1> QED
  BY <1>4, <1>5 DEF Counted

\* The first unit of a counted wire tells the counter it is deciphered with.
LEMMA FirstFits ==
  ASSUME CInv, NEW p \in Ends, wire[p] # <<>>, Reads(p)
  PROVE  Fits(Base(p), wire[p][1])
<1>1. PICK c \in Counters : c = Base(p)
  BY BaseType DEF CInv, IInv
<1>2. PICK W \in Seq(Units) : W = wire[p]
  BY BaseType DEF CInv, IInv
<1>3. Chained(c, W) /\ W # <<>>
  BY <1>1, <1>2 DEF CInv, Counted
<1> QED
  BY <1>1, <1>2, <1>3, ChainedTail

\* What all units of a wire have, the units of its tail have.
LEMMA TailUnits ==
  ASSUME NEW S, NEW W \in Seq(S), W # <<>>, NEW i \in DOMAIN Tail(W)
  PROVE  \E j \in DOMAIN W : Tail(W)[i] = W[j]
<1>1. PICK V \in Seq(S) : V = Tail(W)
  BY HeadTailProperties
<1>2. Len(W) = Len(V) + 1 /\ \A k \in 1 .. Len(V) : V[k] = W[k + 1]
  BY <1>1
<1>3. i \in 1 .. Len(V)
  BY <1>1
<1>4. i + 1 \in DOMAIN W /\ V[i] = W[i + 1]
  BY <1>2, <1>3
<1> QED
  BY <1>1, <1>4

\* A reader that waits for a header or a body has agreed on its counter.
LEMMA ReaderKnows ==
  ASSUME CInv, NEW e \in Ends, reading[e] \in {"header", "body"}, open[e], Incoming(e) # <<>>
  PROVE  LET p == Peer(e) u == wire[p][1] IN
         /\ p \in Ends /\ p # e /\ Peer(p) = e /\ Reads(p)
         /\ Base(p) = dec[e] /\ dec[e] \in Counters
         /\ Fits(dec[e], u) /\ u \in Units /\ Head(Incoming(e)) = u
         /\ wire[p] \in Seq(Units) /\ wire[p] # <<>>
         /\ reading[e] = "header" => u.unit = "header"
         /\ reading[e] = "body" => u.unit = "body" /\ u.n = tmp[e].n /\ u.size = tmp[e].size
         /\ key[e] = "session"
         /\ e = "client" => reading[e] \in Talking
<1>1. TypeOK /\ Aligned /\ BodyHasSize
  BY DEF CInv, IInv
<1>2. Peer(e) \in Ends /\ Peer(e) # e /\ Peer(Peer(e)) = e
  BY Peers
<1>3. Reads(Peer(e)) /\ Base(Peer(e)) = dec[e]
  BY <1>2 DEF Reads, Base, Peer, Ends, Talking
<1>4. Fits(dec[e], wire[Peer(e)][1]) /\ wire[Peer(e)] # <<>>
  BY <1>2, <1>3, FirstFits DEF Incoming
<1>5. /\ Head(Incoming(e)) = wire[Peer(e)][1] /\ wire[Peer(e)][1] \in Units
      /\ wire[Peer(e)] \in Seq(Units)
      /\ reading[e] = "header" => wire[Peer(e)][1].unit = "header"
      /\ reading[e] = "body" =>
           /\ wire[Peer(e)][1].unit = "body"
           /\ wire[Peer(e)][1].n = tmp[e].n /\ wire[Peer(e)][1].size = tmp[e].size
  <2>1. Head(Incoming(e)) = wire[Peer(e)][1] /\ Head(Incoming(e)) \in Units
        /\ wire[Peer(e)] \in Seq(Units)
    BY <1>1, FirstUnit DEF Incoming
  <2>2. reading[e] = "header" => wire[Peer(e)][1].unit = "header"
    BY <1>1, FirstUnit DEF Incoming
  <2>3. reading[e] = "body" => tmp[e].size > 0
    BY <1>1 DEF BodyHasSize
  <2>4. reading[e] = "body" =>
           /\ wire[Peer(e)][1].unit = "body"
           /\ wire[Peer(e)][1].n = tmp[e].n /\ wire[Peer(e)][1].size = tmp[e].size
    BY <1>1, <2>3, FirstUnit DEF Incoming
  <2> QED
    BY <2>1, <2>2, <2>4
<1>6. dec[e] \in Counters
  BY <1>1 DEF TypeOK
<1>7. key[e] = "session" /\ (e = "client" => reading[e] \in Talking)
  BY DEF CInv, Agreed, Keyed, Talking, Ends
<1> QED
  BY <1>2, <1>3, <1>4, <1>5, <1>6, <1>7

\* Reading a unit in the conversation, wherever the reader goes from there, keeps
\* what the two ends agree on.
LEMMA ReadAgrees ==
  ASSUME CInv, NEW e \in Ends, reading[e] \in {"header", "body"}, open[e], Incoming(e) # <<>>,
         wire' = [wire EXCEPT ![Peer(e)] = Tail(@)],
         \A f \in Ends : f # e => /\ reading'[f] = reading[f] /\ received'[f] = received[f]
                                  /\ open'[f] = open[f] /\ dec'[f] = dec[f],
         reading'[e] \in {"header", "body"} \/ (reading'[e] = "none" /\ ~open'[e]),
         open'[e] => open[e],
         received'["server"] = <<>> => received["server"] = <<>>,
         dec'[e] # dec[e] => wire[Peer(e)][1].unit = "body",
         UNCHANGED <<key, enc, posted, out, writing>>
  PROVE  Agreed'
<1>1. "client" \in Ends /\ "server" \in Ends /\ Peer("client") = "server"
      /\ Peer("server") = "client" /\ wire \in [Ends -> Seq(Units)]
  BY DEF Ends, Peer, CInv, IInv, TypeOK
<1>2. /\ Peer(e) \in Ends /\ Peer(e) # e /\ wire[Peer(e)] \in Seq(Units) /\ wire[Peer(e)] # <<>>
      /\ key[e] = "session" /\ wire[Peer(e)][1].unit \in {"header", "body"}
  BY ReaderKnows
<1>3. wire'[Peer(e)] = Tail(wire[Peer(e)]) /\ wire'[e] = wire[e]
  BY <1>1, <1>2
<1>4. \A i \in DOMAIN wire'[Peer(e)] : \E j \in DOMAIN wire[Peer(e)] :
        wire'[Peer(e)][i] = wire[Peer(e)][j]
  BY <1>2, <1>3, TailUnits
<1>5. Keyed'
  BY <1>1, <1>2 DEF CInv, Agreed, Keyed, Ends, Talking
<1>6. Quiet /\ Offered /\ Waits /\ Keyed
  BY DEF CInv, Agreed
<1>7. Offered'
  <2>1. CASE e = "server"
    BY <2>1 DEF Offered
  <2>2. CASE e = "client" /\ reading["server"] # "answer"
    BY <1>1, <2>2 DEF Offered
  <2>3. CASE e = "client" /\ reading["server"] = "answer"
    <3>1. received["server"] = <<>> /\ 1 \in DOMAIN wire["server"]
      BY <1>1, <1>2, <1>6, <2>3, EmptySeq DEF Offered
    <3>2. wire["server"][1].unit # "body"
      BY <1>6, <3>1 DEF Quiet
    <3>3. dec'["client"] = dec["client"] /\ dec'["server"] = dec["server"]
      BY <1>1, <2>3, <3>2
    <3>4. /\ reading'["client"] \notin {"copied"}
          /\ reading["client"] \in Talking /\ reading["client"] \notin Before
          /\ open'["client"] => reading'["client"] \in Talking
          /\ reading'["server"] = "answer" /\ received'["server"] = received["server"]
      BY <1>1, <2>3 DEF Talking, Before
    <3>5. wire'["client"] = wire["client"]
      BY <1>3, <2>3
    <3>6. \A i \in DOMAIN wire'["server"] : wire'["server"][i].unit = "keys" =>
            wire'["server"][i].server_cou = dec["server"]
      BY <1>1, <1>4, <1>6, <2>3 DEF Offered
    <3>7. wire["client"] # <<>> /\ wire["client"][1].unit = "answer"
      BY <1>6, <2>3, <3>4 DEF Offered
    <3>8. \A i \in DOMAIN wire["client"] : wire["client"][i].unit = "answer" =>
            wire["client"][i].cou = dec["server"] /\ wire["client"][i].client_cou = dec["client"]
      BY <1>6, <2>3, <3>4 DEF Offered
    <3>9. ~(reading'["client"] = "copied")
      BY <3>4
    <3> QED
      BY <3>1, <3>3, <3>4, <3>5, <3>6, <3>7, <3>8, <3>9, ZenonT(60) DEF Offered
  <2> QED
    BY <2>1, <2>2, <2>3 DEF Ends
<1>8. Waits'
  <2>1. CASE e = "server"
    <3>1. key["server"] # "default" /\ wire["client"] # <<>>
      BY <1>1, <1>2, <2>1
    <3>2. ~(open["client"] /\ reading["client"] \in Before)
      BY <1>6, <3>1 DEF Waits
    <3> QED
      BY <1>1, <2>1, <3>1, <3>2 DEF Waits
  <2>2. CASE e = "client"
    <3>1. ~(open'["client"] /\ reading'["client"] \in Before)
      BY <2>2 DEF Before
    <3> QED
      BY <1>3, <1>6, <2>2, <3>1 DEF Waits
  <2> QED
    BY <2>1, <2>2 DEF Ends
<1>9. Quiet'
  <2> SUFFICES ASSUME received["server"] = <<>>
      PROVE  \A i \in DOMAIN wire'["server"] :
               wire'["server"][i].unit # "body" /\ ~Pending(wire'["server"][i])
    BY <1>6 DEF Quiet, Unwritten
  <2>1. CASE e = "server"
    <3>1. wire'["server"] = wire["server"]
      BY <1>3, <2>1
    <3> QED
      BY <1>6, <3>1 DEF Quiet
  <2>2. CASE e = "client"
    BY <1>1, <1>4, <1>6, <2>2 DEF Quiet
  <2> QED
    BY <2>1, <2>2 DEF Ends
<1> QED
  BY <1>5, <1>7, <1>8, <1>9 DEF Agreed

\* The handler of ReadHeader ...
LEMMA HeaderReadKeeps ==
  ASSUME CInv, NEW e \in Ends, HeaderRead(e)
  PROVE  (Agreed /\ (\A p \in Ends : Counted(p)) /\ LowAgrees /\ Deciphered)'
<1>1. /\ reading \in [Ends -> Readings] /\ open \in [Ends -> BOOLEAN]
      /\ tmp \in [Ends -> Temporary] /\ received \in [Ends -> Seq(Receiveds)]
      /\ wire \in [Ends -> Seq(Units)] /\ "server" \in Ends
  BY DEF CInv, IInv, TypeOK, Readings, Temporary, Receiveds, Ends
<1>2. /\ reading[e] = "header" /\ open[e] /\ Incoming(e) # <<>>
      /\ wire' = [wire EXCEPT ![Peer(e)] = Tail(@)]
      /\ UNCHANGED <<key, enc, dec, posted, out, writing>>
  BY DEF HeaderRead, CanRead, cipherVars, writeVars
<1>3. PICK p \in Ends : p = Peer(e)
  BY Peers
<1>4. PICK u \in Units : u = wire[p][1]
  BY <1>2, <1>3, ReaderKnows
<1>5. /\ p # e /\ Peer(p) = e /\ Reads(p) /\ Base(p) = dec[e] /\ dec[e] \in Counters
      /\ Fits(dec[e], u) /\ Head(Incoming(e)) = u /\ wire[p] # <<>>
      /\ u.unit = "header" /\ key[e] = "session"
      /\ e = "client" => reading[e] \in Talking
  BY <1>2, <1>3, <1>4, ReaderKnows
<1>6. u.n \in Nat /\ u.size \in Sizes /\ u.size \in Nat /\ u.low \in 0 .. Byte - 1
  BY <1>5, SizesAssumption DEF Units
<1>7. \A f \in Ends : f # e => /\ reading'[f] = reading[f] /\ received'[f] = received[f]
                               /\ open'[f] = open[f] /\ tmp'[f] = tmp[f]
  BY <1>1, <1>3, <1>5 DEF HeaderRead, AddToIncoming
<1>8. /\ tmp'[e].low = u.low
      /\ \/ /\ reading'[e] = "none" /\ ~open'[e] /\ received'[e] = received[e]
         \/ /\ reading'[e] = "body" /\ open'[e] /\ u.size > 0 /\ received'[e] = received[e]
         \/ /\ reading'[e] = "header" /\ open'[e] /\ u.size = 0
            /\ received'[e] = Append(received[e], [n |-> u.n, size |-> u.size,
                                                   body |-> tmp[e].body])
  <2>1. tmp'[e].low = u.low
    BY <1>1, <1>5 DEF HeaderRead, Temporary
  <2>2. CASE u.size > MaxPayload
    BY <1>1, <1>5, <2>1, <2>2 DEF HeaderRead
  <2>3. CASE ~(u.size > MaxPayload) /\ u.size > 0
    BY <1>1, <1>2, <1>5, <2>1, <2>3 DEF HeaderRead
  <2>4. CASE ~(u.size > MaxPayload) /\ ~(u.size > 0)
    <3>1. u.size = 0
      BY <1>6, <2>4
    <3>2. AddToIncoming(e, u, tmp[e].body) /\ open' = open
      BY <1>5, <2>4 DEF HeaderRead
    <3> QED
      BY <1>1, <1>2, <2>1, <3>1, <3>2 DEF AddToIncoming
  <2> QED
    BY <2>2, <2>3, <2>4
<1> HIDE DEF Units
<1>9. Agreed'
  <2>1. received'["server"] = <<>> => received["server"] = <<>>
    <3>1. CASE e = "server"
      <4>1. PICK q \in Seq(Receiveds) : q = received["server"]
        BY <1>1
      <4>2. \A x : Append(q, x) # <<>>
        BY <4>1
      <4> QED
        BY <1>8, <3>1, <4>1, <4>2
    <3>2. CASE e # "server"
      BY <1>1, <1>7, <3>2
    <3> QED
      BY <3>1, <3>2
  <2> QED
    BY <1>2, <1>7, <1>8, <2>1, ReadAgrees
<1>10. wire'[p] = Tail(wire[p]) /\ wire'[e] = wire[e]
  BY <1>1, <1>2, <1>3, <1>5
<1>11. Counted(p)'
  <2>1. CASE reading'[e] = "none"
    <3>1. ~Reads(p)'
      BY <1>3, <1>5, <2>1 DEF Reads, Peer, Ends, Talking
    <3> QED
      BY <3>1 DEF Counted
  <2>2. CASE reading'[e] # "none"
    <3>1. Base(p)' = dec[e]
      BY <1>2, <1>5, <1>8, <2>2 DEF Base, Peer, Ends
    <3>2. BodyBlocks(u) = 0 /\ Plus(dec[e], 0) = dec[e]
      BY <1>5, PlusPlus DEF BodyBlocks
    <3>3. Writes(p)' => Writes(p) /\ Unwritten(p)' = Unwritten(p) /\ enc'[p] = enc[p]
      BY <1>1, <1>2, <1>5, <1>7 DEF Writes, Unwritten, Ends
    <3> QED
      BY <1>4, <1>5, <1>10, <3>1, <3>2, <3>3, TakenCounted
  <2> QED
    BY <2>1, <2>2
<1>12. Counted(e)'
  <2>1. Reads(e)' => Reads(e) /\ Base(e)' = Base(e)
    BY <1>2, <1>3, <1>5, <1>7 DEF Reads, Base, Peer, Ends
  <2>2. Writes(e)' => Writes(e) /\ Unwritten(e)' = Unwritten(e) /\ enc'[e] = enc[e]
    BY <1>2, <1>5, <1>8 DEF Writes, Unwritten, Ends
  <2> QED
    BY <1>10, <2>1, <2>2, SameCount DEF CInv
<1>13. LowAgrees'
  <2>1. reading'[e] = "body" => u.low = dec[e] % Byte
    BY <1>5, <1>8 DEF Fits, Pending
  <2>2. \A f \in Ends : f # e => (reading'[f] = "body" => tmp'[f].low = dec[f] % Byte)
    BY <1>7 DEF CInv, LowAgrees
  <2> QED
    BY <1>2, <1>8, <2>1, <2>2 DEF LowAgrees
<1>14. Deciphered'
  <2>1. \A f \in Ends : \A i \in DOMAIN received[f] :
          received[f][i].size > 0 => received[f][i].body = "right"
    BY DEF CInv, Deciphered
  <2>2. \A i \in DOMAIN received'[e] :
          received'[e][i].size > 0 => received'[e][i].body = "right"
    <3>1. CASE received'[e] = received[e]
      BY <2>1, <3>1
    <3>2. CASE received'[e] # received[e]
      <4>1. PICK q \in Seq(Receiveds) : q = received[e]
        BY <1>1
      <4>2. PICK x : x = [n |-> u.n, size |-> u.size, body |-> tmp[e].body]
        OBVIOUS
      <4>3. received'[e] = Append(q, x) /\ ~(x.size > 0)
        BY <1>8, <3>2, <4>1, <4>2
      <4>4. \A i \in DOMAIN Append(q, x) : (i \in DOMAIN q /\ Append(q, x)[i] = q[i])
                                           \/ Append(q, x)[i] = x
        BY <4>1
      <4> QED
        BY <2>1, <4>1, <4>3, <4>4
    <3> QED
      BY <3>1, <3>2
  <2> QED
    BY <1>7, <2>1, <2>2 DEF Deciphered
<1> QED
  <2>1. \A f \in Ends : f = e \/ f = p
    BY <1>3 DEF Peer, Ends
  <2> QED
    BY <1>9, <1>11, <1>12, <1>13, <1>14, <2>1

\* ... and the handler of ReadBody: msg_from_in has nothing to guess.
LEMMA BodyReadKeeps ==
  ASSUME CInv, NEW e \in Ends, BodyRead(e)
  PROVE  (Agreed /\ (\A p \in Ends : Counted(p)) /\ LowAgrees /\ Deciphered)'
<1>1. /\ reading \in [Ends -> Readings] /\ dec \in [Ends -> Counters]
      /\ tmp \in [Ends -> Temporary] /\ received \in [Ends -> Seq(Receiveds)]
      /\ wire \in [Ends -> Seq(Units)] /\ "server" \in Ends
  BY DEF CInv, IInv, TypeOK, Readings, Temporary, Receiveds, Ends
<1>2. /\ reading[e] = "body" /\ open[e] /\ Incoming(e) # <<>>
      /\ wire' = [wire EXCEPT ![Peer(e)] = Tail(@)]
      /\ UNCHANGED <<open, key, enc, posted, out, writing>>
  BY DEF BodyRead, CanRead, linkVars, writeVars
<1>3. PICK p \in Ends : p = Peer(e)
  BY Peers
<1>4. PICK u \in Units : u = wire[p][1]
  BY <1>2, <1>3, ReaderKnows
<1>5. /\ p # e /\ Peer(p) = e /\ Reads(p) /\ Base(p) = dec[e] /\ dec[e] \in Counters
      /\ Fits(dec[e], u) /\ Head(Incoming(e)) = u /\ wire[p] # <<>>
      /\ u.unit = "body" /\ u.n = tmp[e].n /\ u.size = tmp[e].size /\ key[e] = "session"
      /\ e = "client" => reading[e] \in Talking
  BY <1>2, <1>3, <1>4, ReaderKnows
<1>6. Resync(dec[e], tmp[e].low) = dec[e]
  <2>1. tmp[e].low = dec[e] % Byte
    BY <1>2 DEF CInv, LowAgrees
  <2>2. PICK x \in 0 .. Byte - 1 : x = dec[e] % Byte
    BY <1>5, LowType
  <2>3. x \in Int /\ ~(x > x) /\ ~(x < x)
    BY <2>2, ByteAssumption
  <2> QED
    BY <2>1, <2>2, <2>3 DEF Resync
<1>7. u.key = "session" /\ u.cou = dec[e]
  BY <1>5 DEF Fits
<1>8. /\ dec' = [dec EXCEPT ![e] = Plus(dec[e], tmp[e].size)]
      /\ tmp' = [tmp EXCEPT ![e].body = "right"]
      /\ AddToIncoming(e, tmp[e], "right")
  BY <1>5, <1>6, <1>7 DEF BodyRead
<1>9. /\ reading'[e] = "header" /\ dec'[e] = Plus(dec[e], tmp[e].size)
      /\ received'[e] = Append(received[e], [n |-> tmp[e].n, size |-> tmp[e].size,
                                             body |-> "right"])
  BY <1>1, <1>8 DEF AddToIncoming
<1>10. \A f \in Ends : f # e => /\ reading'[f] = reading[f] /\ received'[f] = received[f]
                                /\ open'[f] = open[f] /\ tmp'[f] = tmp[f]
                                /\ dec'[f] = dec[f]
  BY <1>1, <1>2, <1>8 DEF AddToIncoming
<1> HIDE DEF Units
<1>11. Agreed'
  <2>1. received'["server"] = <<>> => received["server"] = <<>>
    <3>1. CASE e = "server"
      <4>1. PICK q \in Seq(Receiveds) : q = received["server"]
        BY <1>1
      <4>2. \A x : Append(q, x) # <<>>
        BY <4>1
      <4> QED
        BY <1>9, <3>1, <4>1, <4>2
    <3>2. CASE e # "server"
      BY <1>1, <1>10, <3>2
    <3> QED
      BY <3>1, <3>2
  <2>2. wire[Peer(e)][1].unit = "body" /\ open'[e] = open[e]
    BY <1>2, <1>3, <1>4, <1>5
  <2> QED
    BY <1>2, <1>9, <1>10, <2>1, <2>2, ReadAgrees
<1>12. wire'[p] = Tail(wire[p]) /\ wire'[e] = wire[e]
  BY <1>1, <1>2, <1>3, <1>5
<1>13. Counted(p)'
  <2>1. Base(p)' = Plus(dec[e], tmp[e].size)
    BY <1>5, <1>9 DEF Base, Peer, Ends
  <2>2. BodyBlocks(u) = tmp[e].size
    BY <1>5 DEF BodyBlocks
  <2>3. Writes(p)' => Writes(p) /\ Unwritten(p)' = Unwritten(p) /\ enc'[p] = enc[p]
    BY <1>1, <1>2, <1>5, <1>10 DEF Writes, Unwritten, Ends
  <2> QED
    BY <1>4, <1>5, <1>12, <2>1, <2>2, <2>3, TakenCounted
<1>14. Counted(e)'
  <2>1. Reads(e)' => Reads(e) /\ Base(e)' = Base(e)
    BY <1>2, <1>3, <1>5, <1>10 DEF Reads, Base, Peer, Ends
  <2>2. Writes(e)' => Writes(e) /\ Unwritten(e)' = Unwritten(e) /\ enc'[e] = enc[e]
    BY <1>2, <1>5, <1>9 DEF Writes, Unwritten, Ends
  <2> QED
    BY <1>12, <2>1, <2>2, SameCount DEF CInv
<1>15. LowAgrees'
  <2>1. \A f \in Ends : f # e => (reading'[f] = "body" => tmp'[f].low = dec'[f] % Byte)
    BY <1>10 DEF CInv, LowAgrees
  <2>2. reading'[e] # "body"
    BY <1>9
  <2> QED
    BY <2>1, <2>2 DEF LowAgrees
<1>16. Deciphered'
  <2>1. \A f \in Ends : \A i \in DOMAIN received[f] :
          received[f][i].size > 0 => received[f][i].body = "right"
    BY DEF CInv, Deciphered
  <2>2. \A i \in DOMAIN received'[e] :
          received'[e][i].size > 0 => received'[e][i].body = "right"
    <3>1. PICK q \in Seq(Receiveds) : q = received[e]
      BY <1>1
    <3>2. PICK x : x = [n |-> tmp[e].n, size |-> tmp[e].size, body |-> "right"]
      OBVIOUS
    <3>3. received'[e] = Append(q, x) /\ x.body = "right"
      BY <1>9, <3>1, <3>2
    <3>4. \A i \in DOMAIN Append(q, x) : (i \in DOMAIN q /\ Append(q, x)[i] = q[i])
                                         \/ Append(q, x)[i] = x
      BY <3>1
    <3> QED
      BY <2>1, <3>1, <3>3, <3>4
  <2> QED
    BY <1>10, <2>1, <2>2 DEF Deciphered
<1> QED
  <2>1. \A f \in Ends : f = e \/ f = p
    BY <1>3 DEF Peer, Ends
  <2> QED
    BY <1>11, <1>13, <1>14, <1>15, <1>16, <2>1

-----------------------------------------------------------------------------
\* The handshake.

\* Accepting: the server's counter goes into the keys.
LEMMA AcceptKeeps ==
  ASSUME CInv, Accept
  PROVE  (Agreed /\ (\A p \in Ends : Counted(p)) /\ LowAgrees /\ Deciphered)'
<1>1. /\ "client" \in Ends /\ "server" \in Ends
      /\ reading \in [Ends -> Readings] /\ dec \in [Ends -> Counters]
      /\ enc \in [Ends -> Counters] /\ key \in [Ends -> Keys] /\ open \in [Ends -> BOOLEAN]
      /\ wire \in [Ends -> Seq(Units)] /\ posted \in [Ends -> Seq(Enciphereds)]
  BY DEF CInv, IInv, TypeOK, Readings, Ends
<1>2. /\ key["server"] = "default" /\ wire["client"] = <<>>
      /\ wire["server"] = <<>> /\ posted["server"] = <<>> /\ out["server"] = <<>>
      /\ received["server"] = <<>> /\ writing["server"] = <<>>
      /\ reading["client"] \in {"none", "keys"}
  BY <1>1 DEF Accept, CInv, IInv, Aligned, Handshaking, Unaccepted, OneWriter, Agreed, Waits
<1>3. PICK m : m = Enciphered("server", 0)
  OBVIOUS
<1>4. PICK c \in Seeds, s \in Seeds :
        /\ wire' = [wire EXCEPT !["server"] =
                      Append(@, [unit |-> "keys", client_cou |-> c, server_cou |-> s])]
        /\ dec' = [dec EXCEPT !["server"] = s]
        /\ enc' = [enc EXCEPT !["server"] = Plus(c, KeysBlocks)]
  BY DEF Accept
<1>5. /\ wire'["client"] = <<>> /\ posted'["server"] = <<m>> /\ posted'["client"] = posted["client"]
      /\ wire'["server"] = <<[unit |-> "keys", client_cou |-> c, server_cou |-> s]>>
      /\ dec'["server"] = s /\ dec'["client"] = dec["client"] /\ enc'["client"] = enc["client"]
      /\ key'["server"] = "session" /\ key'["client"] = key["client"]
      /\ reading'["server"] = "answer" /\ reading'["client"] = reading["client"]
      /\ open'["client"] = open["client"]
      /\ UNCHANGED <<out, writing, tmp, received>>
  BY <1>1, <1>2, <1>3, <1>4 DEF Accept
<1>6. m.size = 0
  BY <1>3 DEF Enciphered
<1>7. Unwritten("server")' = <<m>>
  <2>1. <<>> \o <<m>> = <<m>>
    OBVIOUS
  <2> QED
    BY <1>2, <1>5, <2>1, Distinct DEF Unwritten
<1>8. Keyed'
  BY <1>2, <1>5 DEF Keyed, Talking
<1>9. Offered'
  BY <1>2, <1>5 DEF Offered, Before, Talking
<1>10. Waits'
  BY <1>2, <1>5 DEF CInv, Agreed, Waits, Before
<1>11. Quiet'
  <2>1. \A i \in DOMAIN Unwritten("server")' : Unwritten("server")'[i].size = 0
    BY <1>6, <1>7
  <2>2. \A i \in DOMAIN wire'["server"] :
          wire'["server"][i].unit # "body" /\ ~Pending(wire'["server"][i])
    BY <1>5 DEF Pending
  <2> QED
    BY <1>2, <1>5, <2>1, <2>2, Distinct DEF Quiet
<1>12. Counted("server")'
  BY <1>2, <1>5 DEF Counted, Reads, Talking
<1>13. Counted("client")'
  <2>1. ~Writes("client")'
    BY <1>2, <1>5 DEF Writes, Talking
  <2>2. Chained(Base("client")', wire'["client"])
    BY <1>5 DEF Chained
  <2> QED
    BY <2>1, <2>2 DEF Counted
<1>14. LowAgrees' /\ Deciphered'
  BY <1>5 DEF CInv, LowAgrees, Deciphered, Ends
<1> QED
  BY <1>8, <1>9, <1>10, <1>11, <1>12, <1>13, <1>14 DEF Agreed, Ends

\* The client takes the keys: its counter is the one the server expects.
LEMMA KeysCopiedKeeps ==
  ASSUME CInv, KeysCopied
  PROVE  (Agreed /\ (\A p \in Ends : Counted(p)) /\ LowAgrees /\ Deciphered)'
<1>1. /\ "client" \in Ends /\ "server" \in Ends /\ Peer("client") = "server"
      /\ reading \in [Ends -> Readings] /\ dec \in [Ends -> Counters]
      /\ enc \in [Ends -> Counters] /\ key \in [Ends -> Keys]
      /\ wire \in [Ends -> Seq(Units)]
  BY DEF CInv, IInv, TypeOK, Readings, Ends, Peer
<1>2. /\ open["client"] /\ reading["client"] = "keys" /\ wire["server"] # <<>>
  BY <1>1 DEF KeysCopied, CanRead, Incoming
<1>3. PICK k \in Units : k = wire["server"][1]
  BY <1>1, <1>2
<1>4. k.unit = "keys" /\ Head(Incoming("client")) = k /\ 1 \in DOMAIN wire["server"]
  BY <1>1, <1>2, <1>3, FirstUnit, EmptySeq DEF CInv, IInv, Incoming
<1>5. /\ wire'["server"] = Tail(wire["server"]) /\ wire'["client"] = wire["client"]
      /\ enc'["client"] = k.server_cou /\ enc'["server"] = enc["server"]
      /\ dec'["server"] = dec["server"]
      /\ key'["client"] = "session" /\ key'["server"] = key["server"]
      /\ reading'["client"] = "copied" /\ reading'["server"] = reading["server"]
      /\ UNCHANGED <<open, posted, out, writing, tmp, received>>
  BY <1>1, <1>4 DEF KeysCopied, linkVars, writeVars
<1>6. \A i \in DOMAIN wire'["server"] : \E j \in DOMAIN wire["server"] :
        wire'["server"][i] = wire["server"][j]
  BY <1>1, <1>2, <1>5, TailUnits
<1>7. Keyed'
  BY <1>5 DEF CInv, Agreed, Keyed
<1>8. Offered'
  <2> SUFFICES ASSUME reading["server"] = "answer" PROVE Offered'
    BY <1>5 DEF Offered
  <2>1. enc'["client"] = dec["server"]
    BY <1>3, <1>4, <1>5 DEF CInv, Agreed, Offered
  <2>2. \A i \in DOMAIN wire'["server"] : wire'["server"][i].unit = "keys" =>
          wire'["server"][i].server_cou = dec["server"]
    BY <1>6 DEF CInv, Agreed, Offered
  <2> QED
    BY <1>5, <2>1, <2>2 DEF CInv, Agreed, Offered, Talking, Before
<1>9. Waits'
  BY <1>2, <1>5 DEF CInv, Agreed, Waits, Before
<1>10. Quiet'
  BY <1>5, <1>6 DEF CInv, Agreed, Quiet, Unwritten
<1>11. Counted("server")'
  BY <1>5 DEF Counted, Reads, Talking
<1>12. Counted("client")'
  <2>1. Reads("client")' => Reads("client") /\ Base("client")' = Base("client")
    BY <1>5 DEF Reads, Base, Peer
  <2>2. ~Writes("client")'
    BY <1>5 DEF Writes, Talking
  <2> QED
    BY <1>1, <1>5, <2>1, <2>2, SameCount DEF CInv
<1>13. LowAgrees' /\ Deciphered'
  BY <1>5 DEF CInv, LowAgrees, Deciphered, Ends
<1> QED
  BY <1>7, <1>8, <1>9, <1>10, <1>11, <1>12, <1>13 DEF Agreed, Ends

\* Where nothing has a body, the counter stays where it is.
LEMMA NothingCounted ==
  ASSUME NEW c \in Counters, NEW W \in Seq(Units), NEW U \in Seq(Enciphereds),
         \A i \in DOMAIN W : W[i].unit # "body" /\ ~Pending(W[i]),
         \A i \in DOMAIN U : U[i].size = 0
  PROVE  /\ Chained(c, W) /\ Past(c, Bodies(W)) = c
         /\ Queued(c, U) /\ Past(c, Blocks(U)) = c
<1> HIDE DEF Units, Enciphereds
<1>1. ASSUME NEW i \in 1 .. Len(W)
      PROVE  Bodies(W)[i] = 0
  <2>1. Bodies(W)[i] = BodyBlocks(W[i])
    BY BodiesType
  <2>2. i \in DOMAIN W
    OBVIOUS
  <2>3. W[i].unit # "body"
    BY <2>2
  <2> QED
    BY <2>1, <2>3 DEF BodyBlocks
<1>2. \A i \in 1 .. Len(U) : Blocks(U)[i] = 0
  BY BlocksType
<1>3. Chained(c, W) /\ Queued(c, U)
  BY DEF Chained, Queued
<1>4. Bodies(W) \in Seq(Nat) /\ Len(Bodies(W)) = Len(W)
      /\ Blocks(U) \in Seq(Nat) /\ Len(Blocks(U)) = Len(U)
  BY BodiesType, BlocksType
<1> QED
  BY <1>1, <1>2, <1>3, <1>4, NothingPast

\* The client answers, and draws its own decipher counter.
LEMMA KeysAnsweredKeeps ==
  ASSUME CInv, KeysAnswered
  PROVE  (Agreed /\ (\A p \in Ends : Counted(p)) /\ LowAgrees /\ Deciphered)'
<1>1. /\ "client" \in Ends /\ "server" \in Ends /\ Peer("client") = "server"
      /\ Peer("server") = "client"
      /\ reading \in [Ends -> Readings] /\ dec \in [Ends -> Counters]
      /\ enc \in [Ends -> Counters] /\ tmp \in [Ends -> Temporary]
      /\ wire \in [Ends -> Seq(Units)] /\ Aligned /\ OneWriter
  BY DEF CInv, IInv, TypeOK, Readings, Temporary, Ends, Peer
<1>2. /\ open["client"] /\ reading["client"] = "copied" /\ key["client"] = "session"
      /\ wire["client"] = <<>> /\ posted["client"] = <<>> /\ out["client"] = <<>>
      /\ received["server"] = <<>> /\ writing["client"] = <<>>
  BY <1>1 DEF KeysAnswered, CInv, Agreed, Keyed, Waits, Before, OneWriter
<1>3. reading["server"] \notin {"header", "body"} /\ key["server"] # "default"
  BY <1>1, <1>2 DEF Aligned, Handshaking, Unanswered, Unaccepted
<1>4. PICK c \in Seeds :
        /\ dec' = [dec EXCEPT !["client"] = c]
        /\ wire' = [wire EXCEPT !["client"] =
                      Append(@, [unit |-> "answer", client_cou |-> c, cou |-> enc["client"]])]
  BY DEF KeysAnswered
<1>5. PICK a : a = [unit |-> "answer", client_cou |-> c, cou |-> enc["client"]]
  OBVIOUS
<1>6. /\ wire'["client"] = <<a>> /\ wire'["server"] = wire["server"]
      /\ dec'["client"] = c /\ dec'["server"] = dec["server"]
      /\ enc'["client"] = Plus(enc["client"], AnswerBlocks) /\ enc'["server"] = enc["server"]
      /\ reading'["client"] = "answering" /\ reading'["server"] = reading["server"]
      /\ tmp'["server"] = tmp["server"]
      /\ UNCHANGED <<open, key, posted, out, writing, received>>
  BY <1>1, <1>2, <1>4, <1>5 DEF KeysAnswered, AnswerCounter, linkVars, writeVars
<1>7. a \in Units /\ a.unit = "answer" /\ a.client_cou = c /\ a.cou = enc["client"]
      /\ c \in Counters
  BY <1>1, <1>5, AnswerType, SeedsAssumption DEF Counters
<1>8. reading["server"] = "answer" => enc["client"] = dec["server"]
  BY <1>2 DEF CInv, Agreed, Offered
<1>9. Keyed'
  BY <1>2, <1>6 DEF CInv, Agreed, Keyed
<1>10. Offered'
  <2> SUFFICES ASSUME reading["server"] = "answer" PROVE Offered'
    BY <1>6 DEF Offered
  <2>1. \A i \in DOMAIN wire'["client"] : wire'["client"][i] = a
    BY <1>6
  <2>2. wire'["client"] # <<>> /\ wire'["client"][1] = a
    BY <1>6
  <2>3. \A i \in DOMAIN wire["server"] :
          wire["server"][i].unit = "keys" => wire["server"][i].server_cou = dec["server"]
    BY DEF CInv, Agreed, Offered
  <2> QED
    BY <1>2, <1>6, <1>7, <1>8, <2>1, <2>2, <2>3 DEF Offered
<1>11. Waits'
  BY <1>3, <1>6 DEF Waits, Before
<1>12. Quiet'
  BY <1>6 DEF CInv, Agreed, Quiet, Unwritten
<1>13. Counted("server")'
  <2>1. ~Writes("server")'
    BY <1>3, <1>6 DEF Writes
  <2>2. \A i \in DOMAIN wire["server"] :
          wire["server"][i].unit # "body" /\ ~Pending(wire["server"][i])
    BY <1>2 DEF CInv, Agreed, Quiet
  <2>3. Base("server")' = c
    BY <1>1, <1>6 DEF Base
  <2>4. Chained(c, wire["server"])
    BY <1>1, <2>2 DEF Chained
  <2> QED
    BY <1>6, <2>1, <2>3, <2>4 DEF Counted
<1>14. Counted("client")'
  <2>1. CASE reading["server"] # "answer"
    BY <1>3, <1>6, <2>1 DEF Counted, Reads
  <2>2. CASE reading["server"] = "answer"
    <3>1. PICK d \in Counters : d = Plus(dec["server"], AnswerBlocks)
      <4>1. dec["server"] \in Int /\ AnswerBlocks \in Int
        BY <1>1, WidthType DEF Counters, AnswerBlocks
      <4> QED
        BY <4>1, PlusType
    <3>2. Base("client")' = d /\ enc'["client"] = d
      BY <1>6, <1>8, <2>2, <3>1 DEF Base
    <3>3. PICK V \in Seq(Units) : V = <<a>>
      <4>1. <<a>> \in Seq(Units)
        BY <1>7
      <4> QED
        BY <4>1
    <3>4. PICK U \in Seq(Enciphereds) : U = <<>>
      <4>1. <<>> \in Seq(Enciphereds)
        BY EmptySeq
      <4> QED
        BY <4>1
    <3>5. Unwritten("client")' = U
      <4>1. <<>> \o <<>> = <<>>
        OBVIOUS
      <4> QED
        BY <1>2, <1>6, <3>4, <4>1 DEF Unwritten
    <3>6. /\ \A i \in DOMAIN V : V[i].unit # "body" /\ ~Pending(V[i])
          /\ \A i \in DOMAIN U : U[i].size = 0
      <4>1. \A i \in DOMAIN V : V[i] = a
        BY <3>3
      <4>2. a.unit # "body" /\ ~Pending(a)
        BY <1>7 DEF Pending
      <4> QED
        BY <3>4, <4>1, <4>2
    <3>7. /\ Chained(d, V) /\ Past(d, Bodies(V)) = d
          /\ Queued(d, U) /\ Past(d, Blocks(U)) = d
      BY <3>6, NothingCounted
    <3> QED
      BY <1>6, <3>2, <3>3, <3>5, <3>7 DEF Counted
  <2> QED
    BY <2>1, <2>2
<1>15. LowAgrees' /\ Deciphered'
  BY <1>6 DEF CInv, LowAgrees, Deciphered, Ends
<1> QED
  BY <1>9, <1>10, <1>11, <1>12, <1>13, <1>14, <1>15 DEF Agreed, Ends

\* The server takes the answer, whose checksum always holds; from here on it
\* enciphers with the counter that the client has drawn.
LEMMA KeysFinalKeeps ==
  ASSUME CInv, KeysFinal
  PROVE  (Agreed /\ (\A p \in Ends : Counted(p)) /\ LowAgrees /\ Deciphered)'
<1>1. /\ "client" \in Ends /\ "server" \in Ends /\ Peer("client") = "server"
      /\ Peer("server") = "client"
      /\ reading \in [Ends -> Readings] /\ dec \in [Ends -> Counters]
      /\ enc \in [Ends -> Counters] /\ tmp \in [Ends -> Temporary]
      /\ wire \in [Ends -> Seq(Units)] /\ TypeOK /\ OneWriter
  BY DEF CInv, IInv, TypeOK, Readings, Temporary, Ends, Peer
<1>2. reading["server"] = "answer" /\ open["server"] /\ wire["client"] # <<>>
  BY <1>1 DEF KeysFinal, CanRead, Incoming
<1>3. PICK a \in Units : a = wire["client"][1]
  BY <1>1, <1>2
<1>4. /\ a.unit = "answer" /\ a.cou = dec["server"] /\ received["server"] = <<>>
      /\ reading["client"] \in Talking => a.client_cou = dec["client"]
  <2>1. 1 \in DOMAIN wire["client"]
    BY <1>1, <1>2, EmptySeq
  <2> QED
    BY <1>2, <1>3, <2>1 DEF CInv, Agreed, Offered
<1>5. Head(Incoming("server")) = a
  BY <1>1, <1>2, <1>3 DEF Incoming
<1>6. /\ wire'["client"] = Tail(wire["client"]) /\ wire'["server"] = wire["server"]
      /\ dec'["server"] = Plus(dec["server"], AnswerBlocks) /\ dec'["client"] = dec["client"]
      /\ enc'["server"] = a.client_cou /\ enc'["client"] = enc["client"]
      /\ reading'["server"] = "header" /\ reading'["client"] = reading["client"]
      /\ tmp'["client"] = tmp["client"]
      /\ UNCHANGED <<open, key, posted, out, writing, received>>
  BY <1>1, <1>4, <1>5 DEF KeysFinal, writeVars
<1>7. key["server"] = "session"
  BY <1>2 DEF CInv, Agreed, Keyed
<1>8. ~(open["client"] /\ reading["client"] \in Before)
  BY <1>2 DEF CInv, Agreed, Waits
<1>9. Keyed' /\ Offered' /\ Waits' /\ Quiet'
  BY <1>6, <1>7, <1>8 DEF CInv, Agreed, Keyed, Offered, Waits, Quiet, Unwritten
<1>10. Counted("client")'
  <2>1. Reads("client") /\ Base("client") = Plus(dec["server"], AnswerBlocks)
    BY <1>2 DEF Reads, Base
  <2>2. Base("client")' = Base("client") /\ BodyBlocks(a) = 0
    BY <1>1, <1>4, <1>6, <2>1 DEF Base, BodyBlocks
  <2>3. Plus(Base("client"), 0) = Base("client")
    <3>1. Base("client") \in Counters
      BY <1>1, BaseType
    <3> QED
      BY <3>1, PlusPlus
  <2>4. Writes("client")' =>
          Writes("client") /\ Unwritten("client")' = Unwritten("client")
          /\ enc'["client"] = enc["client"]
    BY <1>6 DEF Writes, Unwritten
  <2> QED
    BY <1>1, <1>2, <1>3, <1>6, <2>1, <2>2, <2>3, <2>4, TakenCounted
<1>11. Counted("server")'
  <2> SUFFICES ASSUME reading["client"] \in Talking PROVE Counted("server")'
    BY <1>6 DEF Counted, Reads
  <2>1. PICK c \in Counters : c = dec["client"]
    BY <1>1
  <2>2. PICK U \in Seq(Enciphereds) : U = Unwritten("server")
    BY <1>1, UnwrittenType
  <2>3. PICK W \in Seq(Units) : W = wire["server"]
    BY <1>1
  <2>4. /\ \A i \in DOMAIN W : W[i].unit # "body" /\ ~Pending(W[i])
        /\ \A i \in DOMAIN U : U[i].size = 0
    BY <1>4, <2>2, <2>3 DEF CInv, Agreed, Quiet
  <2>5. /\ Chained(c, W) /\ Past(c, Bodies(W)) = c
        /\ Queued(c, U) /\ Past(c, Blocks(U)) = c
    BY <2>4, NothingCounted
  <2>6. Base("server")' = c /\ enc'["server"] = c /\ Unwritten("server")' = U
        /\ wire'["server"] = W
    BY <1>1, <1>4, <1>6, <2>1, <2>2, <2>3 DEF Base, Unwritten
  <2> QED
    BY <2>5, <2>6 DEF Counted
<1>12. LowAgrees' /\ Deciphered'
  BY <1>6 DEF CInv, LowAgrees, Deciphered, Ends
<1> QED
  BY <1>9, <1>10, <1>11, <1>12 DEF Agreed, Ends

-----------------------------------------------------------------------------
\* The invariant.

\* The initial state has it.
LEMMA CountersInit == Init => CInv
<1> SUFFICES ASSUME Init PROVE CInv
  OBVIOUS
<1>1. IInv
  BY InvInit
<1>2. /\ "client" \in Ends /\ "server" \in Ends
      /\ \A e \in Ends : /\ reading[e] = "none" /\ wire[e] = <<>> /\ posted[e] = <<>>
                         /\ out[e] = <<>> /\ received[e] = <<>> /\ writing[e] = <<>>
      /\ ~open["server"]
  BY DEF Init, Ends
<1>3. Keyed /\ Offered /\ Waits
  BY <1>2 DEF Keyed, Offered, Waits, Talking
<1>4. Quiet
  <2>1. <<>> \o <<>> = <<>>
    OBVIOUS
  <2>2. Unwritten("server") = <<>>
    BY <1>2, <2>1 DEF Unwritten
  <2> QED
    BY <1>2, <2>2 DEF Quiet
<1>5. \A p \in Ends : Counted(p)
  BY <1>2 DEF Counted, Reads, Talking, Ends
<1>6. LowAgrees /\ Deciphered
  BY <1>2 DEF LowAgrees, Deciphered
<1> QED
  BY <1>1, <1>3, <1>4, <1>5, <1>6 DEF CInv, Agreed

\* Every step keeps it, if the user waits for the end of the handshake.
LEMMA CountersNext ==
  ASSUME ~EarlySend, CInv, [Next]_vars
  PROVE  CInv'
<1>1. IInv'
  BY TypeNext, OneWriterNext, BodyHasSizeNext, AlignedNext DEF CInv, IInv
<1>2. TypeOK /\ OneWriter /\ "client" \in Ends /\ "server" \in Ends
  BY DEF CInv, IInv, Ends
<1> SUFFICES (Agreed /\ (\A p \in Ends : Counted(p)) /\ LowAgrees /\ Deciphered)'
  BY <1>1 DEF CInv
<1>3. CASE \/ TcpUp \/ ConnectFails \/ KeysWritten \/ Connected \/ AnswerWritten \/ Exit
           \/ UNCHANGED vars
           \/ \E e \in Ends : WriteFails(e) \/ ReadFails(e)
  BY <1>2, <1>3, CalmSteps, CalmKeeps
<1>4. CASE Accept \/ KeysCopied \/ KeysAnswered \/ KeysFinal
  BY <1>4, AcceptKeeps, KeysCopiedKeeps, KeysAnsweredKeeps, KeysFinalKeeps
<1>5. ASSUME NEW e \in Ends, RunPosted(e) \/ HeaderWritten(e) \/ BodyWritten(e)
      PROVE  (Agreed /\ (\A p \in Ends : Counted(p)) /\ LowAgrees /\ Deciphered)'
  <2>1. Works(e)
    BY <1>2, <1>5, WritersWork
  <2> QED
    BY <2>1, WritersCounted, WritersAgree
<1>6. ASSUME NEW e \in Ends, HeaderRead(e) \/ BodyRead(e)
      PROVE  (Agreed /\ (\A p \in Ends : Counted(p)) /\ LowAgrees /\ Deciphered)'
  BY <1>6, HeaderReadKeeps, BodyReadKeeps
<1>7. CASE PressKey
  <2>1. PICK size \in Sizes : Send("client", size)
    BY <1>7 DEF PressKey
  <2>2. reading["client"] \in Talking
    BY <1>7 DEF PressKey, HandshakeOver, Talking
  <2> QED
    BY <1>2, <2>1, <2>2, SendCounted, SendAgrees
<1>8. CASE Serve
  <2>1. PICK size \in Sizes : Send("server", size)
    BY <1>8 DEF Serve
  <2>2. received["server"] # <<>>
    BY <1>8 DEF Serve
  <2> QED
    BY <1>2, <2>1, <2>2, SendCounted, SendAgrees
<1> QED
  BY <1>3, <1>4, <1>5, <1>6, <1>7, <1>8 DEF Next, Handshake, Handler

\* The invariant holds in every reachable state.
THEOREM CountersInvariant ==
  ASSUME ~EarlySend
  PROVE  Spec => []CInv
<1>1. CInv /\ [Next]_vars => CInv'
  BY CountersNext
<1> QED
  BY <1>1, CountersInit, PTL DEF Spec

\* Deciphered: every body that is handed to a program is deciphered with the key
\* and the counter that its sender enciphered it with.
THEOREM RightText ==
  ASSUME ~EarlySend
  PROVE  Spec => []Deciphered
<1>1. CInv => Deciphered
  BY DEF CInv
<1> QED
  BY <1>1, CountersInvariant, PTL

\* CountersInStep: between open ends the sender's counter is ahead of the
\* receiver's by exactly the blocks on the wire and in the sender's queues.
THEOREM NoDrift ==
  ASSUME ~EarlySend
  PROVE  Spec => []CountersInStep
<1>1. CInv => CountersInStep
  <2> SUFFICES ASSUME CInv, \A e \in Ends : open[e],
                      reading["server"] \in {"header", "body"}, HandshakeOver, NEW p \in Ends
               PROVE  enc[p] = Plus(dec[Peer(p)],
                                    Total(Bodies(wire[p])) + Total(Blocks(Unwritten(p))))
    BY DEF CountersInStep
  <2>1. TypeOK /\ OneWriter
    BY DEF CInv, IInv
  <2>2. Reads(p) /\ Writes(p) /\ Base(p) = dec[Peer(p)]
    BY DEF Reads, Writes, Base, HandshakeOver, Talking, Ends
  <2>3. PICK c \in Counters : c = dec[Peer(p)]
    BY <2>1, BaseType
  <2>4. PICK v \in Seq(Nat) : v = Bodies(wire[p])
    BY <2>1, BaseType, BodiesType
  <2>5. PICK w \in Seq(Nat) : w = Blocks(Unwritten(p))
    BY <2>1, UnwrittenType, BlocksType
  <2>6. enc[p] = Past(Past(c, v), w)
    BY <2>2, <2>3, <2>4, <2>5 DEF CInv, Counted
  <2>7. PICK a \in Nat, b \in Nat : a = Total(v) /\ b = Total(w)
    <3>1. \A u \in Seq(Nat) : Totals(u) \in [0 .. Len(u) -> Nat] /\ Len(u) \in 0 .. Len(u)
      BY TotalsEquation
    <3>2. Total(v) \in Nat /\ Total(w) \in Nat
      BY <3>1 DEF Total
    <3> QED
      BY <3>2
  <2>8. Plus(Plus(c, a), b) = Plus(c, a + b)
    BY PlusPlus
  <2> QED
    BY <2>3, <2>4, <2>5, <2>6, <2>7, <2>8 DEF Past
<1> QED
  BY <1>1, CountersInvariant, PTL


-----------------------------------------------------------------------------
\* Numbers of messages.

\* m, which has a number and a size, tells of the n-th of the sizes in s.
Nth(s, m, n) == m.n = n /\ n \in DOMAIN s /\ m.size = s[n]

\* The messages in q are the last of s.
Last(s, q) == \A i \in DOMAIN q : Nth(s, q[i], Len(s) - Len(q) + i)

\* Does a unit count as a header?
One(u) == IF u.unit = "header" THEN 1 ELSE 0

\* The headers of a wire, unit by unit.
Headers(W) == [i \in DOMAIN W |-> One(W[i])]

\* The headers of W are those that follow the first r messages of s, one by one.
Continues(s, W, r) ==
  \A i \in DOMAIN W : W[i].unit = "header" => Nth(s, W[i], r + Totals(Headers(W))[i])

\* Totals are natural numbers.
LEMMA TotalType ==
  ASSUME NEW w \in Seq(Nat)
  PROVE  Total(w) \in Nat /\ \A i \in 0 .. Len(w) : Totals(w)[i] \in Nat
<1>1. Totals(w) \in [0 .. Len(w) -> Nat] /\ Len(w) \in 0 .. Len(w)
  BY TotalsEquation
<1> QED
  BY <1>1 DEF Total

\* What was sent before stays what it was when more is sent.
LEMMA NthLonger ==
  ASSUME NEW s \in Seq(Sizes), NEW x \in Sizes, NEW m, NEW n, Nth(s, m, n)
  PROVE  Nth(Append(s, x), m, n)
<1>1. PICK t \in Seq(Sizes) : t = Append(s, x)
  <2>1. Append(s, x) \in Seq(Sizes)
    BY AppendProperties
  <2> QED
    BY <2>1
<1>2. Len(t) = Len(s) + 1 /\ \A i \in 1 .. Len(s) : t[i] = s[i]
  BY <1>1
<1>3. n \in 1 .. Len(s) /\ DOMAIN t = 1 .. Len(t)
  BY DEF Nth
<1>4. n \in DOMAIN t /\ t[n] = s[n]
  BY <1>2, <1>3
<1> QED
  BY <1>1, <1>4 DEF Nth

\* One message more is sent, and waits behind the others.
LEMMA LastAppend ==
  ASSUME NEW s \in Seq(Sizes), NEW x \in Sizes, NEW q \in Seq(Enciphereds),
         NEW m \in Enciphereds, Last(s, q), m.n = Len(s) + 1, m.size = x
  PROVE  /\ Last(Append(s, x), Append(q, m))
         /\ Len(Append(s, x)) - Len(Append(q, m)) = Len(s) - Len(q)
<1> HIDE DEF Enciphereds
<1>1. PICK t \in Seq(Sizes) : t = Append(s, x)
  <2>1. Append(s, x) \in Seq(Sizes)
    BY AppendProperties
  <2> QED
    BY <2>1
<1>2. PICK r \in Seq(Enciphereds) : r = Append(q, m)
  <2>1. Append(q, m) \in Seq(Enciphereds)
    BY AppendProperties
  <2> QED
    BY <2>1
<1>3. Len(t) = Len(s) + 1 /\ t[Len(s) + 1] = x
  BY <1>1
<1>4. Len(r) = Len(q) + 1 /\ r[Len(q) + 1] = m /\ \A i \in 1 .. Len(q) : r[i] = q[i]
  BY <1>2
<1>5. ASSUME NEW i \in 1 .. Len(q) PROVE Nth(t, r[i], Len(t) - Len(r) + i)
  <2>1. Nth(s, q[i], Len(s) - Len(q) + i)
    BY DEF Last
  <2>2. Nth(t, q[i], Len(s) - Len(q) + i)
    BY <1>1, <2>1, NthLonger
  <2>3. Len(t) - Len(r) + i = Len(s) - Len(q) + i
    BY <1>3, <1>4
  <2> QED
    BY <1>4, <2>2, <2>3
<1>6. Nth(t, r[Len(q) + 1], Len(t) - Len(r) + (Len(q) + 1))
  <2>1. Len(t) - Len(r) + (Len(q) + 1) = Len(s) + 1 /\ Len(s) + 1 \in DOMAIN t
    BY <1>3, <1>4
  <2> QED
    BY <1>3, <1>4, <2>1 DEF Nth
<1>7. \A i \in 1 .. Len(q) + 1 : Nth(t, r[i], Len(t) - Len(r) + i)
  <2> SUFFICES ASSUME NEW i \in 1 .. Len(q) + 1 PROVE Nth(t, r[i], Len(t) - Len(r) + i)
    OBVIOUS
  <2>1. CASE i = Len(q) + 1
    BY <1>6, <2>1
  <2>2. CASE i # Len(q) + 1
    <3>1. i \in 1 .. Len(q)
      BY <2>2
    <3> QED
      BY <1>5, <3>1
  <2> QED
    BY <2>1, <2>2
<1>8. Last(t, r)
  <2>1. DOMAIN r = 1 .. Len(q) + 1
    BY <1>4
  <2> QED
    BY <1>7, <2>1 DEF Last
<1>9. Len(t) - Len(r) = Len(s) - Len(q)
  BY <1>3, <1>4
<1> QED
  BY <1>1, <1>2, <1>8, <1>9

\* The first of the messages in hand leaves.
LEMMA LastTail ==
  ASSUME NEW s \in Seq(Sizes), NEW q \in Seq(Enciphereds), q # <<>>, Last(s, q)
  PROVE  /\ Nth(s, q[1], Len(s) - Len(q) + 1)
         /\ Last(s, Tail(q)) /\ Len(Tail(q)) = Len(q) - 1
<1> HIDE DEF Enciphereds
<1>1. PICK r \in Seq(Enciphereds) : r = Tail(q)
  <2>1. Tail(q) \in Seq(Enciphereds)
    BY HeadTailProperties
  <2> QED
    BY <2>1
<1>2. Len(q) = Len(r) + 1 /\ \A i \in 1 .. Len(r) : r[i] = q[i + 1]
  BY <1>1
<1>3. 1 \in DOMAIN q /\ \A i \in 1 .. Len(r) : i + 1 \in DOMAIN q
  BY <1>2
<1>4. \A i \in 1 .. Len(r) : Nth(s, r[i], Len(s) - Len(r) + i)
  <2> SUFFICES ASSUME NEW i \in 1 .. Len(r) PROVE Nth(s, r[i], Len(s) - Len(r) + i)
    OBVIOUS
  <2>1. Nth(s, q[i + 1], Len(s) - Len(q) + (i + 1))
    BY <1>3 DEF Last
  <2>2. Len(s) - Len(q) + (i + 1) = Len(s) - Len(r) + i
    BY <1>2
  <2> QED
    BY <1>2, <2>1, <2>2
<1>5. Last(s, r)
  <2>1. DOMAIN r = 1 .. Len(r)
    OBVIOUS
  <2> QED
    BY <1>4, <2>1 DEF Last
<1>6. Nth(s, q[1], Len(s) - Len(q) + 1)
  BY <1>3 DEF Last
<1>7. Len(r) = Len(q) - 1
  BY <1>2
<1> QED
  BY <1>1, <1>5, <1>6, <1>7

\* The headers of a wire are numbers.
LEMMA HeadersType ==
  ASSUME NEW W \in Seq(Units)
  PROVE  /\ Headers(W) \in Seq(Nat) /\ Len(Headers(W)) = Len(W)
         /\ \A i \in 1 .. Len(W) : Headers(W)[i] = One(W[i])
<1>1. \A u : One(u) \in Nat
  BY DEF One
<1>2. PICK n \in Nat : n = Len(W) /\ DOMAIN W = 1 .. n
  OBVIOUS
<1>3. Headers(W) = [i \in 1 .. n |-> One(W[i])]
  BY <1>2 DEF Headers
<1> QED
  BY <1>1, <1>2, <1>3

\* One unit more on the wire.
LEMMA HeadersAppend ==
  ASSUME NEW s, NEW r \in Int, NEW W \in Seq(Units), NEW x \in Units, Continues(s, W, r),
         x.unit = "header" => Nth(s, x, r + Total(Headers(W)) + 1)
  PROVE  /\ Continues(s, Append(W, x), r)
         /\ Total(Headers(Append(W, x))) = Total(Headers(W)) + One(x)
<1> HIDE DEF Units
<1>1. PICK V \in Seq(Units) : V = Append(W, x)
  <2>1. Append(W, x) \in Seq(Units)
    BY AppendProperties
  <2> QED
    BY <2>1
<1>2. PICK n \in Nat : n = Len(W)
  OBVIOUS
<1>3. Len(V) = n + 1 /\ V[n + 1] = x /\ \A i \in 1 .. n : V[i] = W[i]
  BY <1>1, <1>2
<1>4. PICK w \in Seq(Nat) : w = Headers(W)
  BY HeadersType
<1>5. PICK v \in Seq(Nat) : v = Headers(V)
  BY HeadersType
<1>6. Len(w) = n /\ \A i \in 1 .. n : w[i] = One(W[i])
  BY <1>2, <1>4, HeadersType
<1>7. Len(v) = n + 1 /\ \A i \in 1 .. n + 1 : v[i] = One(V[i])
  BY <1>3, <1>5, HeadersType
<1>8. PICK o \in Nat : o = One(x)
  BY DEF One
<1>9. v = Append(w, o)
  <2>1. PICK a \in Seq(Nat) : a = Append(w, o)
    <3>1. Append(w, o) \in Seq(Nat)
      BY AppendProperties
    <3> QED
      BY <3>1
  <2>2. Len(a) = n + 1 /\ a[n + 1] = o /\ \A i \in 1 .. n : a[i] = w[i]
    BY <1>6, <2>1
  <2>3. \A i \in 1 .. n + 1 : v[i] = a[i]
    <3> SUFFICES ASSUME NEW i \in 1 .. n + 1 PROVE v[i] = a[i]
      OBVIOUS
    <3>1. CASE i = n + 1
      BY <1>3, <1>7, <1>8, <2>2, <3>1
    <3>2. CASE i # n + 1
      <4>1. i \in 1 .. n
        BY <3>2
      <4> QED
        BY <1>3, <1>6, <1>7, <2>2, <4>1
    <3> QED
      BY <3>1, <3>2
  <2>4. v = a
    BY <1>7, <2>2, <2>3, SeqEqual
  <2> QED
    BY <2>1, <2>4
<1>10. /\ \A i \in 0 .. n : Totals(v)[i] = Totals(w)[i]
       /\ Total(v) = Total(w) + o
  BY <1>6, <1>9, TotalOfAppend
<1>11. Totals(v)[n + 1] = Total(v)
  BY <1>7 DEF Total
<1>12. PICK t \in Nat : t = Total(w)
  BY TotalType
<1>13. ASSUME NEW i \in 1 .. n + 1, V[i].unit = "header" PROVE Nth(s, V[i], r + Totals(v)[i])
  <2>1. CASE i = n + 1
    <3>1. o = 1
      BY <1>3, <1>8, <1>13, <2>1 DEF One
    <3>2. r + t + 1 = r + (t + o)
      BY <3>1
    <3>3. Nth(s, x, r + t + 1)
      BY <1>3, <1>4, <1>12, <1>13, <2>1
    <3> QED
      BY <1>3, <1>10, <1>11, <1>12, <2>1, <3>2, <3>3
  <2>2. CASE i # n + 1
    <3>1. i \in 1 .. n /\ i \in 0 .. n /\ i \in DOMAIN W
      BY <1>2, <2>2
    <3>2. Nth(s, W[i], r + Totals(w)[i])
      BY <1>3, <1>4, <1>13, <3>1 DEF Continues
    <3> QED
      BY <1>3, <1>10, <3>1, <3>2
  <2> QED
    BY <2>1, <2>2
<1>14. Continues(s, V, r)
  <2>1. DOMAIN V = 1 .. n + 1
    BY <1>3
  <2> QED
    BY <1>5, <1>13, <2>1 DEF Continues
<1> QED
  BY <1>1, <1>4, <1>5, <1>8, <1>10, <1>14

\* The first unit is taken from the wire.
LEMMA HeadersTail ==
  ASSUME NEW s, NEW r \in Int, NEW W \in Seq(Units), W # <<>>, Continues(s, W, r)
  PROVE  /\ W[1].unit = "header" => Nth(s, W[1], r + 1)
         /\ Continues(s, Tail(W), r + One(W[1]))
         /\ Total(Headers(W)) = One(W[1]) + Total(Headers(Tail(W)))
<1> HIDE DEF Units
<1>1. PICK V \in Seq(Units) : V = Tail(W)
  <2>1. Tail(W) \in Seq(Units)
    BY HeadTailProperties
  <2> QED
    BY <2>1
<1>2. PICK n \in Nat : n = Len(V)
  OBVIOUS
<1>3. Len(W) = n + 1 /\ \A i \in 1 .. n : V[i] = W[i + 1]
  BY <1>1, <1>2
<1>4. PICK w \in Seq(Nat) : w = Headers(W)
  BY HeadersType
<1>5. PICK v \in Seq(Nat) : v = Headers(V)
  BY HeadersType
<1>6. Len(w) = n + 1 /\ \A i \in 1 .. n + 1 : w[i] = One(W[i])
  BY <1>3, <1>4, HeadersType
<1>7. Len(v) = n /\ \A i \in 1 .. n : v[i] = One(V[i])
  BY <1>2, <1>5, HeadersType
<1>8. PICK o \in Nat : o = One(W[1])
  BY DEF One
<1>9. w # <<>> /\ w[1] = o
  BY <1>6, <1>8
<1>10. v = Tail(w)
  <2>1. PICK a \in Seq(Nat) : a = Tail(w)
    <3>1. Tail(w) \in Seq(Nat)
      BY <1>9, HeadTailProperties
    <3> QED
      BY <3>1
  <2>2. Len(a) = n /\ \A i \in 1 .. n : a[i] = w[i + 1]
    BY <1>6, <1>9, <2>1
  <2>3. \A i \in 1 .. n : v[i] = a[i]
    <3>1. \A i \in 1 .. n : i + 1 \in 1 .. n + 1
      OBVIOUS
    <3> QED
      BY <1>3, <1>6, <1>7, <2>2, <3>1
  <2>4. v = a
    BY <1>7, <2>2, <2>3, SeqEqual
  <2> QED
    BY <2>1, <2>4
<1>11. /\ \A i \in 0 .. n : Totals(w)[i + 1] = o + Totals(v)[i]
       /\ Total(w) = o + Total(v)
  <2>1. Len(w) - 1 = n
    BY <1>6
  <2> QED
    BY <1>9, <1>10, <2>1, TotalOfTail
<1>12. \A i \in 0 .. n : Totals(v)[i] \in Nat
  BY <1>7, TotalType
<1>13. ASSUME W[1].unit = "header" PROVE Nth(s, W[1], r + 1)
  <2>1. Totals(v)[0] = 0 /\ 0 + 1 = 1 /\ 0 \in 0 .. n
    BY TotalsEquation
  <2>2. Totals(w)[1] = o
    BY <1>8, <1>11, <2>1
  <2>3. o = 1 /\ 1 \in DOMAIN W
    BY <1>3, <1>8, <1>13 DEF One
  <2> QED
    BY <1>4, <1>13, <2>2, <2>3 DEF Continues
<1>14. ASSUME NEW i \in 1 .. n, V[i].unit = "header"
       PROVE  Nth(s, V[i], (r + o) + Totals(v)[i])
  <2>1. i + 1 \in DOMAIN W /\ i \in 0 .. n
    BY <1>3
  <2>2. PICK t \in Nat : t = Totals(v)[i]
    BY <1>12, <2>1
  <2>3. Nth(s, W[i + 1], r + (o + t))
    BY <1>3, <1>4, <1>11, <1>14, <2>1, <2>2 DEF Continues
  <2>4. r + (o + t) = (r + o) + t
    OBVIOUS
  <2> QED
    BY <1>3, <2>2, <2>3, <2>4
<1>15. Continues(s, V, r + o)
  <2>1. DOMAIN V = 1 .. n
    BY <1>2
  <2> QED
    BY <1>5, <1>14, <2>1 DEF Continues
<1> QED
  BY <1>1, <1>4, <1>5, <1>8, <1>11, <1>13, <1>15

-----------------------------------------------------------------------------
\* Which message is where.

\* Messages whose header e has read.
Reached(e) == Len(received[e]) + (IF reading[e] = "body" THEN 1 ELSE 0)

\* Messages that are still in p's hands, the one being written included.
Queue(p) == out[p] \o posted[p]

\* Messages whose header p has started to write.
Started(p) ==
  Len(sent[p]) - Len(Queue(p)) + (IF writing[p] \in {<<"header">>, <<"body">>} THEN 1 ELSE 0)

\* e may still read: its socket is open, or it is the server's and not accepted.
Live(e) == open[e] \/ (e = "server" /\ key["server"] = "default")

\* The messages in the hands of e's peer are the last it has sent; those that
\* have arrived at e are the first; and the one that e reads and those on the
\* wire follow one by one, up to the one that is being written.
Direction(e) ==
  /\ Last(sent[Peer(e)], Queue(Peer(e)))
  /\ \A i \in DOMAIN received[e] : Nth(sent[Peer(e)], received[e][i], i)
  /\ Live(e) =>
       /\ reading[e] = "body" => Nth(sent[Peer(e)], tmp[e], Reached(e))
       /\ Continues(sent[Peer(e)], wire[Peer(e)], Reached(e))
       /\ ~Stuck(Peer(e)) =>
            Started(Peer(e)) = Reached(e) + Total(Headers(wire[Peer(e)]))

\* No end sends more than it may, and the server nothing before it accepts.
Bounded ==
  /\ Len(sent["client"]) <= MaxSends
  /\ Len(sent["server"]) <= MaxSends + 1
  /\ key["server"] = "default" => sent["server"] = <<>>

Numbered == (\A e \in Ends : Direction(e)) /\ Bounded

\* The types of all this.
LEMMA NumberTypes ==
  ASSUME TypeOK, NEW p \in Ends
  PROVE  /\ out[p] \in Seq(Enciphereds) /\ posted[p] \in Seq(Enciphereds)
         /\ Queue(p) \in Seq(Enciphereds)
         /\ sent[p] \in Seq(Sizes) /\ wire[p] \in Seq(Units) /\ received[p] \in Seq(Receiveds)
         /\ Reached(p) \in Nat /\ Started(p) \in Int /\ Total(Headers(wire[p])) \in Nat
<1>1. /\ out[p] \in Seq(Enciphereds) /\ posted[p] \in Seq(Enciphereds)
      /\ sent[p] \in Seq(Sizes) /\ wire[p] \in Seq(Units) /\ received[p] \in Seq(Receiveds)
  BY DEF TypeOK, Receiveds
<1> HIDE DEF Units, Enciphereds, Receiveds
<1>2. Queue(p) \in Seq(Enciphereds)
  BY <1>1, ConcatProperties DEF Queue
<1>3. Len(sent[p]) \in Nat /\ Len(Queue(p)) \in Nat /\ Len(received[p]) \in Nat
  BY <1>1, <1>2, LenProperties
<1>4. Reached(p) \in Nat
  <2>1. PICK n \in Nat : n = Len(received[p])
    BY <1>3
  <2>2. Reached(p) = n + 1 \/ Reached(p) = n + 0
    BY <2>1 DEF Reached
  <2> QED
    BY <2>2
<1>5. Started(p) \in Int
  BY <1>3 DEF Started
<1>6. Total(Headers(wire[p])) \in Nat
  BY <1>1, HeadersType, TotalType
<1> QED
  BY <1>1, <1>2, <1>4, <1>5, <1>6

\* A direction nobody touches keeps its numbers; so does one whose reader stops
\* or whose writer fails.
LEMMA SameDirection ==
  ASSUME NEW e \in Ends, Direction(e), NEW p, p = Peer(e),
         sent'[p] = sent[p], received'[e] = received[e], wire'[p] = wire[p],
         out'[p] = out[p], posted'[p] = posted[p],
         writing'[p] = writing[p] \/ Stuck(p)',
         Live(e)' => /\ Live(e) /\ (reading'[e] = "body" <=> reading[e] = "body")
                     /\ tmp'[e] = tmp[e]
  PROVE  Direction(e)'
<1>1. Queue(p)' = Queue(p)
  BY DEF Queue
<1>2. Live(e)' => Reached(e)' = Reached(e)
  BY DEF Reached
<1>3. ~Stuck(p)' => ~Stuck(p) /\ Started(p)' = Started(p)
  BY <1>1 DEF Started, Stuck
<1> QED
  BY <1>1, <1>2, <1>3 DEF Direction

-----------------------------------------------------------------------------
\* Writing.

\* What a posted function or a write handler of p does to p's numbers: it stops
\* writing; or it starts no header; or it writes the header of the next message.
Advances(p) ==
  /\ Last(sent[p], Queue(p)')
  /\ \/ Stuck(p)' /\ wire'[p] = wire[p]
     \/ /\ ~Stuck(p) /\ Started(p)' = Started(p)
        /\ \/ wire'[p] = wire[p]
           \/ \E x \in Units : x.unit = "body" /\ wire'[p] = Append(wire[p], x)
     \/ /\ ~Stuck(p) /\ Started(p)' = Started(p) + 1
        /\ \E x \in Units : /\ x.unit = "header" /\ Nth(sent[p], x, Started(p) + 1)
                            /\ wire'[p] = Append(wire[p], x)

\* Starting to write the header of the first message in hand.
LEMMA HeaderAdvances ==
  ASSUME TypeOK, NEW p \in Ends, NEW m \in Enciphereds, NEW q \in Seq(Enciphereds),
         WriteHeader(p, <<>>, m), q # <<>>, q[1] = m, Queue(p)' = q, Last(sent[p], q),
         Started(p) = Len(sent[p]) - Len(q), ~Stuck(p), sent' = sent
  PROVE  Advances(p)
<1>1. wire \in [Ends -> Seq(Units)] /\ writing \in [Ends -> Seq(Labels)]
      /\ sent[p] \in Seq(Sizes)
  BY DEF TypeOK, Labels
<1>2. CASE CanWrite(p)
  <2>1. wire'[p] = Append(wire[p], HeaderOf(m)) /\ writing'[p] = <<"header">>
    BY <1>1, <1>2 DEF WriteHeader, Write
  <2>2. Nth(sent[p], m, Len(sent[p]) - Len(q) + 1)
    BY <1>1, LastTail
  <2>3. HeaderOf(m) \in Units /\ HeaderOf(m).unit = "header"
        /\ HeaderOf(m).n = m.n /\ HeaderOf(m).size = m.size
    BY HeaderTells
  <2>4. Nth(sent[p], HeaderOf(m), Started(p) + 1)
    BY <2>2, <2>3 DEF Nth
  <2>5. Started(p)' = Started(p) + 1
    BY <2>1 DEF Started
  <2> QED
    BY <2>1, <2>3, <2>4, <2>5 DEF Advances
<1>3. CASE ~CanWrite(p)
  BY <1>1, <1>3, WriteOne DEF WriteHeader, Advances, Stuck
<1> QED
  BY <1>2, <1>3

\* The posted function.
LEMMA RunPostedAdvances ==
  ASSUME TypeOK, OneWriter, NEW p \in Ends, Last(sent[p], Queue(p)), RunPosted(p)
  PROVE  Advances(p)
<1>1. /\ out \in [Ends -> Seq(Enciphereds)] /\ posted \in [Ends -> Seq(Enciphereds)]
      /\ writing \in [Ends -> Seq(Labels)]
      /\ posted[p] # <<>> /\ sent' = sent
  BY DEF TypeOK, RunPosted, Labels
<1>2. PICK m \in Enciphereds : m = Head(posted[p])
  BY <1>1, QueueParts
<1>3. PICK r \in Seq(Enciphereds) : r = Tail(posted[p])
  BY <1>1, QueueParts
<1>4. out'[p] = Append(out[p], m) /\ posted'[p] = r
  BY <1>1, <1>2, <1>3 DEF RunPosted
<1>5. PICK q \in Seq(Enciphereds) : q = Queue(p)
  BY NumberTypes
<1>6. Queue(p)' = q
  <2>1. Append(out[p], m) \o r = out[p] \o posted[p]
    BY <1>1, <1>2, <1>3, Glued
  <2> QED
    BY <1>4, <1>5, <2>1 DEF Queue
<1>7. CASE StartsWriting(p)
  <2>1. out[p] = <<>> /\ writing[p] = <<>>
    BY <1>7 DEF StartsWriting, OneWriter
  <2>2. q = posted[p] /\ posted[p][1] = m
    BY <1>1, <1>2, <1>5, <2>1, Glued DEF Queue
  <2>3. out'[p] = <<m>>
    BY <1>4, <2>1
  <2>4. WriteHeader(p, <<>>, m)
    <3>1. WriteHeader(p, <<>>, Head(out'[p]))
      BY <1>7, <2>1 DEF RunPosted
    <3> QED
      BY <2>3, <3>1
  <2>5. Started(p) = Len(sent[p]) - Len(q)
    <3>1. Len(sent[p]) \in Nat /\ Len(q) \in Nat
      BY NumberTypes, LenProperties
    <3> QED
      BY <1>5, <2>1, <3>1 DEF Started
  <2> QED
    BY <1>1, <1>5, <1>6, <2>1, <2>2, <2>4, <2>5, HeaderAdvances, Distinct DEF Stuck
<1>8. CASE ~StartsWriting(p)
  <2>1. UNCHANGED <<writing, wire>> /\ out[p] # <<>>
    BY <1>8 DEF RunPosted, StartsWriting
  <2>2. Started(p)' = Started(p)
    BY <1>1, <1>5, <1>6, <2>1 DEF Started
  <2>3. Stuck(p) => Stuck(p)'
    <3>1. Append(out[p], m) # <<>>
      <4>1. PICK o \in Seq(Enciphereds), x \in Enciphereds : o = out[p] /\ x = m
        BY <1>1, <1>2
      <4> HIDE DEF Enciphereds
      <4> QED
        BY <4>1, AppendProperties
    <3> QED
      BY <1>4, <2>1, <3>1 DEF Stuck
  <2> QED
    BY <1>5, <1>6, <2>1, <2>2, <2>3 DEF Advances
<1> QED
  BY <1>7, <1>8

\* Popping the message that is written.
LEMMA PopWrittenAdvances ==
  ASSUME TypeOK, NEW p \in Ends, Last(sent[p], Queue(p)), PopWritten(p), out[p] # <<>>,
         writing[p] \in {<<"header">>, <<"body">>}, Tail(writing[p]) = <<>>,
         posted' = posted, sent' = sent
  PROVE  Advances(p)
<1>1. /\ out \in [Ends -> Seq(Enciphereds)] /\ posted \in [Ends -> Seq(Enciphereds)]
      /\ writing \in [Ends -> Seq(Labels)] /\ sent[p] \in Seq(Sizes)
  BY DEF TypeOK, Labels
<1>2. out'[p] = Tail(out[p]) /\ Tail(out[p]) \in Seq(Enciphereds)
  BY <1>1, QueueParts DEF PopWritten
<1>3. PICK q \in Seq(Enciphereds) : q = Queue(p)
  BY NumberTypes
<1>4. q # <<>> /\ Tail(out[p]) \o posted[p] = Tail(q)
  BY <1>1, <1>3, Glued DEF Queue
<1>5. PICK r \in Seq(Enciphereds) : r = Tail(q)
  BY <1>4, QueueParts
<1>6. Queue(p)' = r
  BY <1>2, <1>4, <1>5 DEF Queue
<1>7. Last(sent[p], r) /\ Len(r) = Len(q) - 1
  BY <1>1, <1>3, <1>4, <1>5, LastTail
<1>8. Started(p) = Len(sent[p]) - Len(r)
  <2>1. Len(sent[p]) \in Nat /\ Len(q) \in Nat
    BY <1>1, LenProperties
  <2> QED
    BY <1>3, <1>7, <2>1 DEF Started
<1>9. CASE out'[p] = <<>>
  <2>1. wire' = wire /\ writing'[p] = <<>>
    BY <1>1, <1>9 DEF PopWritten
  <2>2. Started(p)' = Len(sent[p]) - Len(r)
    <3>1. Len(sent[p]) \in Nat /\ Len(r) \in Nat
      BY <1>1, LenProperties
    <3> QED
      BY <1>6, <2>1, <3>1, Distinct DEF Started
  <2>3. ~Stuck(p)
    BY Distinct DEF Stuck
  <2> QED
    BY <1>6, <1>7, <1>8, <2>1, <2>2, <2>3 DEF Advances
<1>10. CASE out'[p] # <<>>
  <2>0. ~Stuck(p)
    BY Distinct DEF Stuck
  <2>1. PICK m \in Enciphereds : m = Head(out'[p])
    BY <1>2, <1>10, QueueParts
  <2>2. WriteHeader(p, <<>>, m)
    BY <1>10, <2>1 DEF PopWritten
  <2>3. r # <<>> /\ r[1] = m
    <3>1. PICK a \in Seq(Enciphereds) : a = Tail(out[p])
      BY <1>2
    <3>2. a # <<>> /\ m = Head(a) /\ r = a \o posted[p]
      BY <1>2, <1>4, <1>5, <1>10, <2>1, <3>1
    <3> QED
      BY <1>1, <3>2, Glued
  <2> QED
    BY <1>6, <1>7, <1>8, <2>0, <2>2, <2>3, HeaderAdvances
<1> QED
  BY <1>9, <1>10

\* The two handlers.
LEMMA WrittenAdvances ==
  ASSUME TypeOK, OneWriter, NEW p \in Ends, Last(sent[p], Queue(p)),
         HeaderWritten(p) \/ BodyWritten(p)
  PROVE  Advances(p)
<1>1. /\ writing \in [Ends -> Seq(Labels)] /\ wire \in [Ends -> Seq(Units)]
      /\ out[p] \in Seq(Enciphereds)
      /\ writing[p] \in {<<"header">>, <<"body">>} /\ Tail(writing[p]) = <<>>
      /\ posted' = posted /\ out[p] # <<>> /\ sent' = sent
  BY WrittenOne DEF TypeOK, Labels, HeaderWritten, BodyWritten
<1>2. CASE PopWritten(p)
  BY <1>1, <1>2, PopWrittenAdvances
<1>3. CASE ~PopWritten(p)
  <2>0. ~Stuck(p)
    BY <1>1, Distinct DEF Stuck
  <2>1. WriteBody(p, <<>>, Head(out[p])) /\ out' = out
    BY <1>1, <1>3 DEF HeaderWritten, BodyWritten
  <2>2. PICK m \in Enciphereds : m = Head(out[p])
    BY <1>1, QueueParts
  <2>3. BodyOf(m) \in Units /\ BodyOf(m).unit = "body"
    BY HeaderTells
  <2>4. Queue(p)' = Queue(p)
    BY <1>1, <2>1 DEF Queue
  <2>5. CASE CanWrite(p)
    <3>1. wire'[p] = Append(wire[p], BodyOf(m)) /\ writing'[p] = <<"body">>
      BY <1>1, <2>1, <2>2, <2>5 DEF WriteBody, Write
    <3>2. Started(p)' = Started(p)
      BY <1>1, <2>4, <3>1 DEF Started
    <3> QED
      BY <1>1, <2>0, <2>3, <2>4, <3>1, <3>2 DEF Advances
  <2>6. CASE ~CanWrite(p)
    BY <1>1, <2>1, <2>4, <2>6, WriteOne DEF WriteBody, Advances, Stuck
  <2> QED
    BY <2>5, <2>6
<1> QED
  BY <1>2, <1>3

\* The numbers towards the peer are kept ...
LEMMA AdvancesDirection ==
  ASSUME TypeOK, NEW e \in Ends, NEW p \in Ends, p = Peer(e), Direction(e), Advances(p),
         UNCHANGED <<open, key, reading, tmp, received, sent>>
  PROVE  Direction(e)'
<1>1. PICK r \in Nat : r = Reached(e)
  BY NumberTypes
<1>2. PICK W \in Seq(Units) : W = wire[p]
  BY NumberTypes
<1>3. PICK s : s = sent[p]
  OBVIOUS
<1>4. /\ Reached(e)' = r /\ sent'[p] = s
      /\ Live(e)' <=> Live(e)
  BY <1>1, <1>3 DEF Reached, Live
<1>5. Last(s, Queue(p)')
  BY <1>3 DEF Advances
<1>6. PICK t \in Nat : t = Total(Headers(W))
  BY <1>2, NumberTypes
<1>7. PICK k \in Int : k = Started(p)
  BY NumberTypes
<1>8. Live(e) => Continues(s, W, r) /\ (~Stuck(p) => k = r + t)
  BY <1>1, <1>2, <1>3, <1>6, <1>7 DEF Direction
<1>9. ASSUME Live(e)
      PROVE  /\ Continues(s, wire'[p], r)
             /\ ~Stuck(p)' => Started(p)' = r + Total(Headers(wire'[p]))
  <2>1. CASE Stuck(p)' /\ wire'[p] = wire[p]
    BY <1>2, <1>8, <1>9, <2>1
  <2>2. CASE ~Stuck(p) /\ Started(p)' = Started(p) /\ wire'[p] = wire[p]
    BY <1>2, <1>6, <1>7, <1>8, <1>9, <2>2
  <2>3. ASSUME ~Stuck(p), Started(p)' = Started(p),
               NEW x \in Units, x.unit = "body", wire'[p] = Append(W, x)
        PROVE  /\ Continues(s, wire'[p], r)
               /\ Started(p)' = r + Total(Headers(wire'[p]))
    <3>1. /\ Continues(s, Append(W, x), r)
          /\ Total(Headers(Append(W, x))) = t + One(x)
      BY <1>6, <1>8, <1>9, <2>3, HeadersAppend
    <3>2. One(x) = 0 /\ t + 0 = t
      BY <2>3 DEF One
    <3> QED
      BY <1>7, <1>8, <1>9, <2>3, <3>1, <3>2
  <2>4. ASSUME ~Stuck(p), Started(p)' = Started(p) + 1,
               NEW x \in Units, x.unit = "header", Nth(s, x, k + 1), wire'[p] = Append(W, x)
        PROVE  /\ Continues(s, wire'[p], r)
               /\ Started(p)' = r + Total(Headers(wire'[p]))
    <3>1. k = r + t
      BY <1>8, <1>9, <2>4
    <3>2. Nth(s, x, r + t + 1)
      BY <2>4, <3>1
    <3>3. /\ Continues(s, Append(W, x), r)
          /\ Total(Headers(Append(W, x))) = t + One(x)
      BY <1>6, <1>8, <1>9, <3>2, HeadersAppend
    <3>4. One(x) = 1 /\ k + 1 = r + (t + 1)
      BY <2>4, <3>1 DEF One
    <3> QED
      BY <1>7, <2>4, <3>3, <3>4
  <2> QED
    BY <1>2, <1>3, <1>7, <2>1, <2>2, <2>3, <2>4 DEF Advances
<1>10. Live(e) /\ reading[e] = "body" => Nth(s, tmp[e], r)
  BY <1>1, <1>3 DEF Direction
<1>11. \A i \in DOMAIN received[e] : Nth(s, received[e][i], i)
  BY <1>3 DEF Direction
<1> QED
  BY <1>4, <1>5, <1>9, <1>10, <1>11 DEF Direction

\* ... and those of the other direction.
LEMMA WritersNumbered ==
  ASSUME TypeOK, OneWriter, Numbered, NEW p \in Ends,
         RunPosted(p) \/ HeaderWritten(p) \/ BodyWritten(p)
  PROVE  Numbered'
<1>1. PICK e \in Ends : e = Peer(p)
  BY Peers
<1>2. e # p /\ Peer(e) = p /\ Direction(e) /\ Direction(p)
  BY <1>1, Peers DEF Numbered
<1>3. UNCHANGED <<open, key, reading, tmp, received, sent>>
  BY DEF RunPosted, HeaderWritten, BodyWritten, linkVars, cipherVars, readVars
<1>4. Advances(p)
  <2>1. Last(sent[p], Queue(p))
    BY <1>2 DEF Direction
  <2> QED
    BY <2>1, RunPostedAdvances, WrittenAdvances
<1>5. Direction(e)'
  BY <1>2, <1>3, <1>4, AdvancesDirection
<1>6. Direction(p)'
  <2>1. wire'[e] = wire[e] /\ out'[e] = out[e] /\ posted'[e] = posted[e]
        /\ writing'[e] = writing[e]
    BY <1>2, WritersWork DEF Works
  <2>2. Live(p)' <=> Live(p)
    BY <1>3 DEF Live
  <2> QED
    BY <1>1, <1>2, <1>3, <2>1, <2>2, SameDirection
<1>7. Bounded'
  BY <1>3 DEF Numbered, Bounded
<1> QED
  <2>1. \A f \in Ends : f = e \/ f = p
    BY <1>1 DEF Peer, Ends
  <2> QED
    BY <1>5, <1>6, <1>7, <2>1 DEF Numbered

-----------------------------------------------------------------------------
\* The other steps.

\* A step that moves no message.
LEMMA CalmNumbered ==
  ASSUME TypeOK, Aligned, Numbered, Calm, sent' = sent
  PROVE  Numbered'
<1>1. ASSUME NEW e \in Ends, NEW p \in Ends, p = Peer(e) PROVE Direction(e)'
  <2>1. /\ sent'[p] = sent[p] /\ received'[e] = received[e] /\ wire'[p] = wire[p]
        /\ out'[p] = out[p] /\ posted'[p] = posted[p] /\ tmp'[e] = tmp[e]
    BY DEF Calm
  <2>2. writing'[p] = writing[p] \/ Stuck(p)'
    BY DEF Calm, Stuck
  <2>3. open'[e] => open[e] /\ (reading'[e] = "body" <=> reading[e] = "body")
    BY DEF Calm
  <2>4. ASSUME e = "server", key["server"] = "default"
        PROVE  reading'[e] = "body" <=> reading[e] = "body"
    <3>1. reading[e] = "none"
      BY <2>4 DEF Aligned, Handshaking, Unaccepted
    <3>2. reading'[e] # "body"
      BY <2>4, <3>1 DEF Calm
    <3> QED
      BY <3>1, <3>2
  <2>5. Live(e)' => Live(e) /\ (reading'[e] = "body" <=> reading[e] = "body")
    BY <2>3, <2>4 DEF Live, Calm
  <2>6. Direction(e)
    BY DEF Numbered
  <2> QED
    BY <1>1, <2>1, <2>2, <2>5, <2>6, SameDirection
<1>2. Bounded'
  BY DEF Calm, Numbered, Bounded
<1> QED
  BY <1>1, <1>2, Peers DEF Numbered

\* A message is given to Send.
LEMMA SendNumbered ==
  ASSUME TypeOK, Numbered, NEW p \in Ends, NEW size \in Sizes, Send(p, size)
  PROVE  \A f \in Ends : Direction(f)'
<1>1. PICK e \in Ends : e = Peer(p) /\ e # p /\ Peer(e) = p
  BY Peers
<1>2. PICK s \in Seq(Sizes) : s = sent[p]
  BY NumberTypes
<1>3. PICK t \in Seq(Sizes) : t = Append(s, size)
  <2>1. Append(s, size) \in Seq(Sizes)
    BY AppendProperties
  <2> QED
    BY <2>1
<1>4. PICK m \in Enciphereds : m = Enciphered(p, size)
  BY MessageTypes
<1>5. m.n = Len(s) + 1 /\ m.size = size
  BY <1>2, <1>4 DEF Enciphered
<1>6. PICK q \in Seq(Enciphereds) : q = Queue(p)
  BY NumberTypes
<1>7. PICK r \in Seq(Enciphereds) : r = Append(q, m)
  <2> HIDE DEF Enciphereds
  <2>1. Append(q, m) \in Seq(Enciphereds)
    BY AppendProperties
  <2> QED
    BY <2>1
<1>8. /\ sent'[p] = t /\ sent'[e] = sent[e]
      /\ posted'[p] = Append(posted[p], m) /\ posted'[e] = posted[e]
      /\ UNCHANGED <<open, key, out, writing, wire, reading, tmp, received>>
  BY <1>1, <1>2, <1>3, <1>4 DEF Send, TypeOK, linkVars, readVars
<1>9. Queue(p)' = r
  <2>1. out[p] \in Seq(Enciphereds) /\ posted[p] \in Seq(Enciphereds)
    BY NumberTypes
  <2>2. out[p] \o Append(posted[p], m) = Append(q, m)
    <3>1. PICK a \in Seq(Enciphereds), b \in Seq(Enciphereds) : a = out[p] /\ b = posted[p]
      BY <2>1
    <3>2. q = a \o b
      BY <1>6, <3>1 DEF Queue
    <3>3. a \o Append(b, m) = Append(a \o b, m)
      BY Glued
    <3> QED
      BY <3>1, <3>2, <3>3
  <2> QED
    BY <1>7, <1>8, <2>2 DEF Queue
<1>10. Last(t, r) /\ Len(t) - Len(r) = Len(s) - Len(q)
  <2>1. Last(s, q)
    BY <1>1, <1>2, <1>6 DEF Numbered, Direction
  <2> QED
    BY <1>3, <1>5, <1>7, <2>1, LastAppend
<1>11. Started(p)' = Started(p)
  BY <1>2, <1>6, <1>8, <1>9, <1>10 DEF Started
<1>12. Reached(e)' = Reached(e) /\ (Live(e)' <=> Live(e)) /\ (Live(p)' <=> Live(p))
  BY <1>8 DEF Reached, Live
<1>13. \A x, n : Nth(s, x, n) => Nth(t, x, n)
  BY <1>3, NthLonger
<1>14. Direction(e)'
  <2>1. /\ \A i \in DOMAIN received[e] : Nth(s, received[e][i], i)
        /\ Live(e) =>
             /\ reading[e] = "body" => Nth(s, tmp[e], Reached(e))
             /\ Continues(s, wire[p], Reached(e))
             /\ ~Stuck(p) => Started(p) = Reached(e) + Total(Headers(wire[p]))
    BY <1>1, <1>2 DEF Numbered, Direction
  <2>2. \A i \in DOMAIN received[e] : Nth(t, received[e][i], i)
    BY <1>13, <2>1
  <2>3. Live(e) /\ reading[e] = "body" => Nth(t, tmp[e], Reached(e))
    BY <1>13, <2>1
  <2>4. Live(e) => Continues(t, wire[p], Reached(e))
    BY <1>13, <2>1 DEF Continues
  <2> QED
    BY <1>1, <1>8, <1>9, <1>10, <1>11, <1>12, <2>1, <2>2, <2>3, <2>4 DEF Direction, Stuck
<1>15. Direction(p)'
  <2>1. Direction(p)
    BY DEF Numbered
  <2> QED
    BY <1>1, <1>8, <1>12, <2>1, SameDirection
<1> QED
  <2>1. \A f \in Ends : f = e \/ f = p
    BY <1>1 DEF Peer, Ends
  <2> QED
    BY <1>14, <1>15, <2>1

\* A key is pressed.
LEMMA PressKeyNumbered ==
  ASSUME TypeOK, Numbered, PressKey
  PROVE  Numbered'
<1>1. PICK size \in Sizes : Send("client", size)
  BY DEF PressKey
<1>2. "client" \in Ends /\ "server" \in Ends
  BY DEF Ends
<1>3. \A e \in Ends : Direction(e)'
  BY <1>1, <1>2, SendNumbered
<1>4. sent' = [sent EXCEPT !["client"] = Append(@, size)] /\ sent["client"] \in Seq(Sizes)
      /\ UNCHANGED <<key, received>>
  BY <1>1, <1>2 DEF Send, TypeOK, PressKey, linkVars, readVars
<1>5. Len(sent'["client"]) <= MaxSends /\ sent'["server"] = sent["server"]
  <2>1. sent'["client"] = Append(sent["client"], size) /\ sent'["server"] = sent["server"]
    BY <1>2, <1>4 DEF TypeOK
  <2>2. Len(Append(sent["client"], size)) = Len(sent["client"]) + 1
    BY <1>4
  <2>3. Len(sent["client"]) < MaxSends /\ Len(sent["client"]) \in Nat /\ MaxSends \in Nat
    BY <1>4, SendsAssumption DEF PressKey
  <2> QED
    BY <2>1, <2>2, <2>3
<1> QED
  BY <1>3, <1>4, <1>5 DEF Numbered, Bounded

\* The server handles a message.
LEMMA ServeNumbered ==
  ASSUME TypeOK, Aligned, Numbered, Serve
  PROVE  Numbered'
<1>1. "client" \in Ends /\ "server" \in Ends
  BY DEF Ends
<1>2. received["server"] # <<>> /\ key["server"] # "default"
  BY DEF Serve, Aligned, Handshaking, Unaccepted
<1>3. PICK size \in Sizes : Send("server", size)
  BY DEF Serve
<1>4. \A e \in Ends : Direction(e)'
  BY <1>1, <1>3, SendNumbered
<1>5. /\ sent'["server"] = Append(sent["server"], size) /\ sent'["client"] = sent["client"]
      /\ UNCHANGED key
  BY <1>1, <1>3 DEF Send, TypeOK
<1>6. Len(sent'["server"]) <= MaxSends + 1
  <2>1. sent["server"] \in Seq(Sizes)
    BY <1>1 DEF TypeOK
  <2>2. Len(sent'["server"]) = Len(sent["server"]) + 1
    BY <1>5, <2>1
  <2>3. Len(sent["server"]) \in Nat /\ Len(sent["server"]) <= MaxSends /\ MaxSends \in Nat
    BY <2>1, LenProperties, SendsAssumption DEF Serve
  <2> QED
    BY <2>2, <2>3
<1> QED
  BY <1>2, <1>4, <1>5, <1>6 DEF Numbered, Bounded

\* The first unit is taken: the numbers of the others follow.
LEMMA TakenDirection ==
  ASSUME TypeOK, Aligned, Numbered, NEW e \in Ends, NEW p \in Ends, p = Peer(e), wire[p] # <<>>,
         wire'[p] = Tail(wire[p]), UNCHANGED <<out, posted, writing, sent>>,
         key'["server"] = key["server"], open'[e] => open[e],
         \A i \in DOMAIN received'[e] : Nth(sent[p], received'[e][i], i),
         Live(e)' => /\ Reached(e)' = Reached(e) + One(wire[p][1])
                     /\ reading'[e] = "body" => Nth(sent[p], tmp'[e], Reached(e)')
  PROVE  Direction(e)'
<1>1. PICK r \in Nat : r = Reached(e)
  BY NumberTypes
<1>2. PICK W \in Seq(Units) : W = wire[p]
  BY NumberTypes
<1>3. PICK s : s = sent[p] /\ sent'[p] = s
  OBVIOUS
<1>4. Queue(p)' = Queue(p) /\ Started(p)' = Started(p)
  BY DEF Queue, Started
<1>5. Live(e)' => Live(e)
  BY DEF Live
<1>6. Direction(e)
  BY DEF Numbered
<1>7. PICK V \in Seq(Units) : V = Tail(W)
  BY <1>2, QueueParts
<1>8. PICK t \in Nat, o \in Nat : t = Total(Headers(V)) /\ o = One(W[1])
  <2>1. Total(Headers(V)) \in Nat
    BY HeadersType, TotalType
  <2>2. One(W[1]) \in Nat
    BY DEF One
  <2> QED
    BY <2>1, <2>2
<1>9. ASSUME Live(e)'
      PROVE  /\ Continues(s, V, Reached(e)')
             /\ ~Stuck(p) => Started(p) = Reached(e)' + Total(Headers(V))
  <2>1. Continues(s, W, r)
    BY <1>1, <1>2, <1>3, <1>5, <1>6, <1>9 DEF Direction
  <2>2. Continues(s, V, r + o) /\ Total(Headers(W)) = o + t
    BY <1>2, <1>7, <1>8, <2>1, HeadersTail
  <2>3. Reached(e)' = r + o
    BY <1>1, <1>2, <1>8, <1>9
  <2>4. ~Stuck(p) => Started(p) = r + (o + t)
    BY <1>1, <1>2, <1>5, <1>6, <1>9, <2>2 DEF Direction
  <2>5. r + (o + t) = (r + o) + t
    OBVIOUS
  <2> QED
    BY <1>8, <2>2, <2>3, <2>4, <2>5
<1>10. wire'[p] = V
  BY <1>2, <1>7
<1>11. Last(s, Queue(p)')
  BY <1>3, <1>4, <1>6 DEF Direction
<1> QED
  BY <1>3, <1>4, <1>9, <1>10, <1>11 DEF Direction, Stuck

\* One message more has arrived.
LEMMA ReceivedNumbers ==
  ASSUME NEW s, NEW R \in Seq(Receiveds), NEW m \in Receiveds,
         \A i \in DOMAIN R : Nth(s, R[i], i), Nth(s, m, Len(R) + 1)
  PROVE  /\ \A i \in DOMAIN Append(R, m) : Nth(s, Append(R, m)[i], i)
         /\ Len(Append(R, m)) = Len(R) + 1
<1> HIDE DEF Receiveds
<1>1. PICK T \in Seq(Receiveds) : T = Append(R, m)
  <2>1. Append(R, m) \in Seq(Receiveds)
    BY AppendProperties
  <2> QED
    BY <2>1
<1>2. PICK n \in Nat : n = Len(R)
  OBVIOUS
<1>3. Len(T) = n + 1 /\ T[n + 1] = m /\ \A i \in 1 .. n : T[i] = R[i]
  BY <1>1, <1>2
<1>4. ASSUME NEW i \in DOMAIN T PROVE Nth(s, T[i], i)
  <2>1. i \in 1 .. n + 1
    BY <1>3
  <2>2. CASE i = n + 1
    BY <1>2, <1>3, <2>2
  <2>3. CASE i # n + 1
    <3>1. i \in 1 .. n /\ i \in DOMAIN R
      BY <1>2, <2>1, <2>3
    <3> QED
      BY <1>3, <3>1
  <2> QED
    BY <2>2, <2>3
<1> QED
  BY <1>1, <1>2, <1>3, <1>4

\* What a read handler of e leaves alone: the numbers of the other direction,
\* and the bounds.
LEMMA ReadKeepsOther ==
  ASSUME TypeOK, Numbered, NEW e \in Ends, NEW p \in Ends, p = Peer(e),
         wire' = [wire EXCEPT ![p] = Tail(@)],
         received'[p] = received[p], reading'[p] = reading[p], tmp'[p] = tmp[p],
         open'[p] = open[p], UNCHANGED <<out, posted, writing, sent, key>>
  PROVE  Direction(p)' /\ Bounded'
<1>1. Peer(p) = e /\ e # p
  BY Peers
<1>2. wire'[e] = wire[e]
  BY <1>1 DEF TypeOK
<1>3. Direction(p) /\ Bounded
  BY DEF Numbered
<1>4. Live(p)' <=> Live(p)
  BY DEF Live
<1>5. Direction(p)'
  BY <1>1, <1>2, <1>3, <1>4, SameDirection
<1>6. Bounded'
  BY <1>3 DEF Bounded
<1> QED
  BY <1>5, <1>6

\* The handler of ReadHeader.
LEMMA HeaderReadNumbered ==
  ASSUME IInv, Numbered, NEW e \in Ends, HeaderRead(e)
  PROVE  Numbered'
<1>1. PICK p \in Ends : p = Peer(e) /\ p # e
  BY Peers
<1>2. open[e] /\ reading[e] = "header" /\ Incoming(e) # <<>> /\ wire[p] # <<>>
  BY <1>1 DEF HeaderRead, CanRead, Incoming
<1>3. PICK h \in Units : h = Head(Incoming(e)) /\ h = wire[p][1] /\ h.unit = "header"
  BY <1>1, <1>2, FirstUnit DEF Incoming, IInv
<1>4. /\ wire' = [wire EXCEPT ![p] = Tail(@)]
      /\ tmp' = [tmp EXCEPT ![e].n = h.n, ![e].size = h.size, ![e].low = h.low]
      /\ UNCHANGED <<key, out, posted, writing, sent>>
  BY <1>1, <1>3 DEF HeaderRead, cipherVars, writeVars
<1>5. PICK r \in Nat : r = Reached(e) /\ r = Len(received[e])
  <2>1. Len(received[e]) \in Nat
    BY NumberTypes, LenProperties DEF IInv
  <2>2. Reached(e) = Len(received[e])
    BY <1>2, <2>1 DEF Reached
  <2> QED
    BY <2>1, <2>2
<1>6. PICK s : s = sent[p]
  OBVIOUS
<1>7. Live(e) /\ Direction(e)
  BY <1>2 DEF Live, Numbered
<1>8. wire[p] \in Seq(Units) /\ Continues(s, wire[p], r)
  BY <1>1, <1>5, <1>6, <1>7, NumberTypes DEF Direction, IInv
<1>9. Nth(s, h, r + 1)
  BY <1>2, <1>3, <1>8, HeadersTail
<1>10. \A i \in DOMAIN received[e] : Nth(s, received[e][i], i)
  BY <1>1, <1>6, <1>7 DEF Direction
<1>11. wire'[p] = Tail(wire[p]) /\ tmp'[p] = tmp[p] /\ tmp'[e].n = h.n /\ tmp'[e].size = h.size
  BY <1>1, <1>4 DEF TypeOK, IInv
<1>12. One(wire[p][1]) = 1
  BY <1>3 DEF One
<1>13. ~(e = "server" /\ key["server"] = "default")
  BY <1>2 DEF IInv, Aligned, Handshaking, Unaccepted
<1>14. CASE h.size > MaxPayload
  <2>1. open' = [open EXCEPT ![e] = FALSE] /\ reading' = [reading EXCEPT ![e] = "none"]
        /\ received' = received
    BY <1>3, <1>14 DEF HeaderRead
  <2>2. open'[e] = FALSE /\ open'[p] = open[p] /\ reading'[p] = reading[p]
    BY <1>1, <2>1 DEF TypeOK, IInv
  <2>3. ~Live(e)'
    BY <1>4, <1>13, <2>2 DEF Live
  <2>4. Direction(e)'
    BY <1>1, <1>2, <1>4, <1>6, <1>10, <1>11, <2>1, <2>2, <2>3, TakenDirection DEF IInv
  <2>5. Direction(p)' /\ Bounded'
    BY <1>1, <1>4, <1>11, <2>1, <2>2, ReadKeepsOther DEF IInv
  <2> QED
    BY <1>1, <2>4, <2>5 DEF Numbered, Ends
<1>15. CASE ~(h.size > MaxPayload) /\ h.size > 0
  <2>1. open' = open /\ reading' = [reading EXCEPT ![e] = "body"] /\ received' = received
    BY <1>3, <1>15 DEF HeaderRead
  <2>2. reading'[e] = "body" /\ reading'[p] = reading[p]
    BY <1>1, <2>1 DEF TypeOK, IInv
  <2>3. Reached(e)' = r + 1
    BY <1>5, <2>1, <2>2 DEF Reached
  <2>4. Nth(s, tmp'[e], r + 1)
    BY <1>9, <1>11 DEF Nth
  <2>5. Direction(e)'
    BY <1>1, <1>2, <1>4, <1>5, <1>6, <1>10, <1>11, <1>12, <2>1, <2>3, <2>4, TakenDirection DEF IInv
  <2>6. Direction(p)' /\ Bounded'
    BY <1>1, <1>4, <1>11, <2>1, <2>2, ReadKeepsOther DEF IInv
  <2> QED
    BY <1>1, <2>5, <2>6 DEF Numbered, Ends
<1>16. CASE ~(h.size > MaxPayload) /\ ~(h.size > 0)
  <2>1. open' = open /\ AddToIncoming(e, h, tmp[e].body)
    BY <1>3, <1>16 DEF HeaderRead
  <2>2. PICK m \in Receiveds : m = [n |-> h.n, size |-> h.size, body |-> tmp[e].body]
    <3>1. h.n \in Nat /\ h.size \in Sizes
      BY <1>3 DEF Units
    <3>2. tmp[e].body \in Contents
      BY DEF TypeOK, IInv
    <3> QED
      BY <3>1, <3>2 DEF Receiveds
  <2>3. received' = [received EXCEPT ![e] = Append(@, m)]
        /\ reading' = [reading EXCEPT ![e] = "header"]
    BY <2>1, <2>2 DEF AddToIncoming
  <2>4. received'[e] = Append(received[e], m) /\ received'[p] = received[p]
        /\ reading'[e] = "header" /\ reading'[p] = reading[p]
    BY <1>1, <2>3 DEF TypeOK, IInv
  <2>5. Nth(s, m, r + 1)
    BY <1>9, <2>2 DEF Nth
  <2>6. received[e] \in Seq(Receiveds)
    BY NumberTypes DEF IInv
  <2>7. Len(received'[e]) = r + 1 /\ \A i \in DOMAIN received'[e] : Nth(s, received'[e][i], i)
    BY <1>5, <1>10, <2>4, <2>5, <2>6, ReceivedNumbers
  <2>8. Reached(e)' = r + 1
    BY <2>4, <2>7 DEF Reached
  <2>9. Direction(e)'
    BY <1>1, <1>2, <1>4, <1>5, <1>6, <1>11, <1>12, <2>1, <2>4, <2>7, <2>8, TakenDirection DEF IInv
  <2>10. Direction(p)' /\ Bounded'
    BY <1>1, <1>4, <1>11, <2>1, <2>4, ReadKeepsOther DEF IInv
  <2> QED
    BY <1>1, <2>9, <2>10 DEF Numbered, Ends
<1> QED
  BY <1>14, <1>15, <1>16

\* The handler of ReadBody.
LEMMA BodyReadNumbered ==
  ASSUME IInv, Numbered, NEW e \in Ends, BodyRead(e)
  PROVE  Numbered'
<1>1. PICK p \in Ends : p = Peer(e) /\ p # e
  BY Peers
<1>2. open[e] /\ reading[e] = "body" /\ Incoming(e) # <<>> /\ wire[p] # <<>>
  BY <1>1 DEF BodyRead, CanRead, Incoming
<1>3. PICK b \in Units : b = Head(Incoming(e)) /\ b = wire[p][1] /\ b.unit = "body"
  BY <1>1, <1>2, FirstUnit DEF Incoming, IInv, BodyHasSize
<1>4. PICK text \in Contents :
        /\ tmp' = [tmp EXCEPT ![e].body = text]
        /\ AddToIncoming(e, tmp[e], text)
  <2>1. PICK x : x = IF b.key = key[e] /\ b.cou = Resync(dec[e], tmp[e].low)
                     THEN "right" ELSE "garbled"
    OBVIOUS
  <2>2. x \in Contents
    BY <2>1 DEF Contents
  <2>3. tmp' = [tmp EXCEPT ![e].body = x] /\ AddToIncoming(e, tmp[e], x)
    BY <1>3, <2>1 DEF BodyRead
  <2> QED
    BY <2>2, <2>3
<1>5. /\ wire' = [wire EXCEPT ![p] = Tail(@)]
      /\ UNCHANGED <<open, key, out, posted, writing, sent>>
  BY <1>1 DEF BodyRead, linkVars, writeVars
<1>6. PICK n \in Nat : n = Len(received[e])
  BY NumberTypes, LenProperties DEF IInv
<1>7. Reached(e) = n + 1
  BY <1>2, <1>6 DEF Reached
<1>8. PICK s : s = sent[p]
  OBVIOUS
<1>9. Live(e) /\ Direction(e)
  BY <1>2 DEF Live, Numbered
<1>10. Nth(s, tmp[e], n + 1) /\ \A i \in DOMAIN received[e] : Nth(s, received[e][i], i)
  BY <1>1, <1>2, <1>7, <1>8, <1>9 DEF Direction
<1>11. wire'[p] = Tail(wire[p]) /\ tmp'[p] = tmp[p]
  BY <1>1, <1>4, <1>5 DEF TypeOK, IInv
<1>12. One(wire[p][1]) = 0
  BY <1>3 DEF One
<1>13. PICK m \in Receiveds : m = [n |-> tmp[e].n, size |-> tmp[e].size, body |-> text]
  <2>1. tmp[e].n \in Nat /\ tmp[e].size \in Sizes
    BY DEF TypeOK, IInv
  <2> QED
    BY <2>1 DEF Receiveds
<1>14. received' = [received EXCEPT ![e] = Append(@, m)]
       /\ reading' = [reading EXCEPT ![e] = "header"]
  BY <1>4, <1>13 DEF AddToIncoming
<1>15. received'[e] = Append(received[e], m) /\ received'[p] = received[p]
       /\ reading'[e] = "header" /\ reading'[p] = reading[p]
  BY <1>1, <1>14 DEF TypeOK, IInv
<1>16. Nth(s, m, n + 1)
  BY <1>10, <1>13 DEF Nth
<1>17. received[e] \in Seq(Receiveds)
  BY NumberTypes DEF IInv
<1>18. Len(received'[e]) = n + 1 /\ \A i \in DOMAIN received'[e] : Nth(s, received'[e][i], i)
  BY <1>6, <1>10, <1>15, <1>16, <1>17, ReceivedNumbers
<1>19. Reached(e)' = (n + 1) + 0
  BY <1>15, <1>18 DEF Reached
<1>20. Direction(e)'
  BY <1>1, <1>2, <1>5, <1>7, <1>8, <1>11, <1>12, <1>15, <1>18, <1>19, TakenDirection DEF IInv
<1>21. Direction(p)' /\ Bounded'
  BY <1>1, <1>5, <1>11, <1>15, ReadKeepsOther DEF IInv
<1> QED
  BY <1>1, <1>20, <1>21 DEF Numbered, Ends

-----------------------------------------------------------------------------
\* The handshake.

\* A unit that is not a header is written: no number changes.
LEMMA ExtraDirection ==
  ASSUME TypeOK, Numbered, NEW e \in Ends, NEW p \in Ends, p = Peer(e), NEW x \in Units,
         x.unit # "header", wire'[p] = Append(wire[p], x),
         UNCHANGED <<out, posted, writing, sent, received>>,
         Live(e)' => Live(e), reading'[e] = reading[e], tmp'[e] = tmp[e]
  PROVE  Direction(e)'
<1>1. PICK r \in Nat : r = Reached(e)
  BY NumberTypes
<1>2. PICK W \in Seq(Units) : W = wire[p]
  BY NumberTypes
<1>3. PICK s : s = sent[p] /\ sent'[p] = s
  OBVIOUS
<1>4. Queue(p)' = Queue(p) /\ Started(p)' = Started(p) /\ Reached(e)' = Reached(e)
  BY DEF Queue, Started, Reached
<1>5. Direction(e)
  BY DEF Numbered
<1>6. PICK t \in Nat : t = Total(Headers(W))
  BY <1>2, NumberTypes
<1>7. ASSUME Live(e)
      PROVE  /\ Continues(s, Append(W, x), r)
             /\ Total(Headers(Append(W, x))) = t
  <2>1. Continues(s, W, r)
    BY <1>1, <1>2, <1>3, <1>5, <1>7 DEF Direction
  <2>2. Continues(s, Append(W, x), r) /\ Total(Headers(Append(W, x))) = t + One(x)
    BY <1>6, <2>1, HeadersAppend
  <2>3. t + One(x) = t
    BY DEF One
  <2> QED
    BY <2>2, <2>3
<1>8. Live(e) /\ ~Stuck(p) => Started(p) = r + t
  BY <1>1, <1>2, <1>5, <1>6 DEF Direction
<1>9. Live(e)' =>
        /\ Continues(s, wire'[p], Reached(e)')
        /\ ~Stuck(p)' => Started(p)' = Reached(e)' + Total(Headers(wire'[p]))
  <2>1. Stuck(p)' <=> Stuck(p)
    BY DEF Stuck
  <2> QED
    BY <1>1, <1>2, <1>4, <1>6, <1>7, <1>8, <2>1
<1>10. Live(e)' /\ reading'[e] = "body" => Nth(s, tmp'[e], Reached(e)')
  BY <1>3, <1>4, <1>5 DEF Direction
<1>11. Last(s, Queue(p)') /\ \A i \in DOMAIN received'[e] : Nth(s, received'[e][i], i)
  BY <1>3, <1>4, <1>5 DEF Direction
<1> QED
  BY <1>3, <1>9, <1>10, <1>11 DEF Direction

\* keys_receive, first half.
LEMMA KeysCopiedNumbered ==
  ASSUME IInv, Numbered, KeysCopied, TypeOK'
  PROVE  Numbered'
<1>1. "client" \in Ends /\ "server" \in Ends /\ Peer("client") = "server"
      /\ Peer("server") = "client"
  BY DEF Ends, Peer
<1>2. open["client"] /\ reading["client"] = "keys" /\ wire["server"] # <<>>
  BY <1>1 DEF KeysCopied, CanRead, Incoming
<1>3. wire["server"][1].unit = "keys"
  BY <1>1, <1>2, FirstUnit DEF Incoming, IInv
<1>4. /\ wire' = [wire EXCEPT !["server"] = Tail(@)]
      /\ key' = [key EXCEPT !["client"] = "session"]
      /\ reading' = [reading EXCEPT !["client"] = "copied"]
      /\ UNCHANGED <<open, out, posted, writing, sent, received, tmp>>
  BY DEF KeysCopied, linkVars, writeVars
<1>5. /\ wire'["server"] = Tail(wire["server"]) /\ wire'["client"] = wire["client"]
      /\ key'["server"] = key["server"] /\ reading'["client"] = "copied"
      /\ reading'["server"] = reading["server"]
  BY <1>1, <1>4 DEF TypeOK, IInv
<1>6. Direction("server") /\ Direction("client") /\ Bounded
  BY <1>1 DEF Numbered
<1>7. Live("server")' <=> Live("server")
  BY <1>4, <1>5 DEF Live
<1>8. Direction("server")'
  BY <1>1, <1>4, <1>5, <1>6, <1>7, SameDirection
<1>9. Bounded'
  BY <1>4, <1>5, <1>6 DEF Bounded
<1>10. Direction("client")'
  <2>1. Reached("client")' = Reached("client") + One(wire["server"][1])
    <3>1. Reached("client") \in Nat /\ Reached("client")' = Reached("client")
      BY <1>1, <1>2, <1>4, <1>5, NumberTypes DEF Reached, IInv
    <3>2. One(wire["server"][1]) = 0
      BY <1>3 DEF One
    <3> QED
      BY <3>1, <3>2
  <2>2. \A i \in DOMAIN received'["client"] : Nth(sent["server"], received'["client"][i], i)
    BY <1>1, <1>4, <1>6 DEF Direction
  <2> QED
    BY <1>1, <1>2, <1>4, <1>5, <2>1, <2>2, TakenDirection DEF IInv
<1> QED
  BY <1>8, <1>9, <1>10 DEF Numbered, Ends

\* keys_receive, second half.
LEMMA KeysAnsweredNumbered ==
  ASSUME IInv, Numbered, KeysAnswered
  PROVE  Numbered'
<1>1. "client" \in Ends /\ "server" \in Ends /\ Peer("client") = "server"
      /\ Peer("server") = "client"
  BY DEF Ends, Peer
<1>2. PICK c \in Seeds : wire' = [wire EXCEPT !["client"] =
                     Append(@, [unit |-> "answer", client_cou |-> c,
                                cou |-> enc["client"]])]
  BY DEF KeysAnswered
<1>3. PICK x \in Units : x = [unit |-> "answer", client_cou |-> c, cou |-> enc["client"]]
  <2>1. enc["client"] \in Counters
    BY <1>1 DEF TypeOK, IInv
  <2> QED
    BY <2>1, AnswerType
<1>4. /\ reading["client"] = "copied"
      /\ reading' = [reading EXCEPT !["client"] = "answering"]
      /\ tmp' = [tmp EXCEPT !["client"].body = "keys"]
      /\ UNCHANGED <<open, key, out, posted, writing, sent, received>>
  BY DEF KeysAnswered, linkVars, writeVars
<1>5. /\ wire'["server"] = wire["server"] /\ wire'["client"] = Append(wire["client"], x)
      /\ reading'["client"] = "answering"
      /\ reading'["server"] = reading["server"] /\ tmp'["server"] = tmp["server"]
  BY <1>1, <1>2, <1>3, <1>4 DEF TypeOK, IInv
<1>6. Direction("server") /\ Direction("client") /\ Bounded
  BY <1>1 DEF Numbered
<1>7. (Live("server")' <=> Live("server")) /\ (Live("client")' <=> Live("client"))
  BY <1>4 DEF Live
<1>8. Direction("server")'
  <2>1. x.unit # "header"
    BY <1>3
  <2> QED
    BY <1>1, <1>4, <1>5, <1>7, <2>1, ExtraDirection DEF IInv
<1>9. Bounded'
  BY <1>4, <1>6 DEF Bounded
<1>10. Direction("client")'
  <2>1. Reached("client")' = Reached("client")
    BY <1>4, <1>5 DEF Reached
  <2>2. Queue("server")' = Queue("server") /\ Started("server")' = Started("server")
    BY <1>4 DEF Queue, Started
  <2> QED
    BY <1>1, <1>4, <1>5, <1>6, <1>7, <2>1, <2>2 DEF Direction, Stuck
<1> QED
  BY <1>8, <1>9, <1>10 DEF Numbered, Ends

\* keys_final.
LEMMA KeysFinalNumbered ==
  ASSUME IInv, Numbered, KeysFinal
  PROVE  Numbered'
<1>1. "client" \in Ends /\ "server" \in Ends /\ Peer("client") = "server"
      /\ Peer("server") = "client"
  BY DEF Ends, Peer
<1>2. open["server"] /\ reading["server"] = "answer" /\ wire["client"] # <<>>
  BY <1>1 DEF KeysFinal, CanRead, Incoming
<1>3. key["server"] # "default"
  BY <1>2 DEF IInv, Aligned, Handshaking, Unaccepted
<1>4. /\ wire' = [wire EXCEPT !["client"] = Tail(@)]
      /\ tmp' = [tmp EXCEPT !["server"].body = "keys"]
      /\ UNCHANGED <<key, out, posted, writing, sent, received>>
  BY DEF KeysFinal, writeVars
<1>5. /\ wire'["client"] = Tail(wire["client"]) /\ wire'["server"] = wire["server"]
      /\ tmp'["client"] = tmp["client"]
  BY <1>1, <1>4 DEF TypeOK, IInv
<1>6. Direction("server") /\ Direction("client") /\ Bounded
  BY <1>1 DEF Numbered
<1>7. Bounded'
  BY <1>4, <1>6 DEF Bounded
<1>8. /\ reading'["client"] = reading["client"] /\ open'["client"] = open["client"]
      /\ \/ open'["server"] = FALSE
         \/ /\ open' = open /\ reading'["server"] = "header"
            /\ wire["client"][1].unit = "answer"
  <2>1. Head(Incoming("server")) = wire["client"][1]
    <3>1. wire["client"] \in Seq(Units)
      BY <1>1, NumberTypes DEF IInv
    <3> QED
      BY <1>1, <1>2, <3>1 DEF Incoming
  <2>2. CASE wire["client"][1].unit = "answer" /\ wire["client"][1].cou = dec["server"]
    <3>1. reading' = [reading EXCEPT !["server"] = "header"] /\ open' = open
      BY <2>1, <2>2 DEF KeysFinal
    <3> QED
      BY <1>1, <2>2, <3>1 DEF TypeOK, IInv
  <2>3. CASE ~(wire["client"][1].unit = "answer" /\ wire["client"][1].cou = dec["server"])
    <3>1. /\ reading' = [reading EXCEPT !["server"] = "none"]
          /\ open' = [open EXCEPT !["server"] = FALSE]
      BY <2>1, <2>3 DEF KeysFinal
    <3> QED
      BY <1>1, <3>1 DEF TypeOK, IInv
  <2> QED
    BY <2>2, <2>3
<1>9. Direction("client")'
  <2>1. Live("client")' <=> Live("client")
    BY <1>8 DEF Live
  <2> QED
    BY <1>1, <1>4, <1>5, <1>6, <1>8, <2>1, SameDirection
<1>10. Direction("server")'
  <2>1. ASSUME Live("server")'
        PROVE  /\ Reached("server")' = Reached("server") + One(wire["client"][1])
               /\ reading'["server"] # "body"
    <3>1. open'["server"]
      BY <1>3, <1>4, <2>1 DEF Live
    <3>2. reading'["server"] = "header" /\ wire["client"][1].unit = "answer"
      BY <1>8, <3>1
    <3>3. Reached("server") \in Nat /\ Reached("server")' = Reached("server")
      BY <1>1, <1>2, <1>4, <3>2, NumberTypes DEF Reached, IInv
    <3>4. One(wire["client"][1]) = 0
      BY <3>2 DEF One
    <3> QED
      BY <3>2, <3>3, <3>4
  <2>2. \A i \in DOMAIN received'["server"] : Nth(sent["client"], received'["server"][i], i)
    BY <1>1, <1>4, <1>6 DEF Direction
  <2> QED
    BY <1>1, <1>2, <1>4, <1>5, <1>8, <2>1, <2>2, TakenDirection DEF IInv
<1> QED
  BY <1>7, <1>9, <1>10 DEF Numbered, Ends

\* The accept handler.
LEMMA AcceptNumbered ==
  ASSUME IInv, Numbered, Accept
  PROVE  Numbered'
<1>1. "client" \in Ends /\ "server" \in Ends /\ Peer("client") = "server"
      /\ Peer("server") = "client"
  BY DEF Ends, Peer
<1>2. /\ key["server"] = "default" /\ wire["server"] = <<>> /\ posted["server"] = <<>>
      /\ out["server"] = <<>> /\ reading["server"] = "none" /\ sent["server"] = <<>>
  BY DEF Accept, IInv, Aligned, Handshaking, Unaccepted, Numbered, Bounded
<1>3. writing["server"] = <<>>
  BY <1>1, <1>2 DEF IInv, OneWriter
<1>4. PICK m \in Enciphereds : m = Enciphered("server", 0)
  <2>1. Enciphered("server", 0) \in Enciphereds
    BY <1>1, SizesAssumption, MessageTypes DEF IInv
  <2> QED
    BY <2>1
<1>5. m.n = 1 /\ m.size = 0
  BY <1>2, <1>4 DEF Enciphered
<1>6. PICK c \in Seeds, d \in Seeds : wire' = [wire EXCEPT !["server"] =
                     Append(@, [unit |-> "keys", client_cou |-> c, server_cou |-> d])]
  BY DEF Accept
<1>7. PICK x \in Units : x = [unit |-> "keys", client_cou |-> c, server_cou |-> d]
  <2>1. c \in Counters /\ d \in Counters
    BY SeedsAssumption DEF Counters
  <2> QED
    BY <2>1 DEF Units
<1>8. /\ open' = [open EXCEPT !["server"] = TRUE]
      /\ posted' = [posted EXCEPT !["server"] = Append(@, m)]
      /\ sent' = [sent EXCEPT !["server"] = Append(@, 0)]
      /\ key' = [key EXCEPT !["server"] = "session"]
      /\ reading' = [reading EXCEPT !["server"] = "answer"]
      /\ UNCHANGED <<out, writing, tmp, received>>
  BY <1>4 DEF Accept
<1>9. /\ posted'["server"] = <<m>> /\ posted'["client"] = posted["client"]
      /\ sent'["server"] = <<0>> /\ sent'["client"] = sent["client"]
      /\ wire'["server"] = <<x>> /\ wire'["client"] = wire["client"]
      /\ key'["server"] = "session" /\ reading'["server"] = "answer"
      /\ reading'["client"] = reading["client"] /\ open'["client"] = open["client"]
  BY <1>1, <1>2, <1>6, <1>7, <1>8 DEF TypeOK, IInv
<1>10. Direction("server") /\ Direction("client") /\ Bounded
  BY <1>1 DEF Numbered
<1>11. Direction("server")'
  <2>1. Live("server")
    BY <1>2 DEF Live
  <2> QED
    BY <1>1, <1>2, <1>8, <1>9, <1>10, <2>1, SameDirection
<1>12. received["client"] = <<>> /\ (Live("client") => reading["client"] # "body")
  <2>1. \A i \in DOMAIN received["client"] : Nth(<<>>, received["client"][i], i)
    BY <1>1, <1>2, <1>10 DEF Direction
  <2>2. \A i \in DOMAIN received["client"] : FALSE
    BY <2>1 DEF Nth
  <2>3. received["client"] \in Seq(Receiveds)
    BY <1>1, NumberTypes DEF IInv
  <2>4. received["client"] = <<>>
    <3>1. PICK n \in Nat : n = Len(received["client"]) /\ DOMAIN received["client"] = 1 .. n
      BY <2>3
    <3>2. n = 0
      <4>1. n # 0 => 1 \in 1 .. n
        OBVIOUS
      <4> QED
        BY <2>2, <3>1, <4>1
    <3> QED
      BY <2>3, <3>1, <3>2, EmptySeq
  <2>5. Live("client") /\ reading["client"] = "body" => Nth(<<>>, tmp["client"], Reached("client"))
    BY <1>1, <1>2, <1>10 DEF Direction
  <2>6. ~Nth(<<>>, tmp["client"], Reached("client"))
    BY DEF Nth
  <2> QED
    BY <2>4, <2>5, <2>6
<1>13. Queue("server")' = <<m>> /\ Last(<<0>>, <<m>>)
  <2>1. Queue("server")' = <<m>>
    <3>1. <<m>> \in Seq(Enciphereds)
      BY <1>4
    <3>2. <<>> \in Seq(Enciphereds)
      OBVIOUS
    <3>3. <<>> \o <<m>> = <<m>>
      BY <3>1, <3>2, Glued
    <3> QED
      BY <1>2, <1>8, <1>9, <3>3 DEF Queue
  <2>2. Nth(<<0>>, m, 1)
    BY <1>5 DEF Nth
  <2>3. \A i \in DOMAIN <<m>> : i = 1 /\ Len(<<0>>) - Len(<<m>>) + i = 1
    OBVIOUS
  <2> QED
    BY <2>1, <2>2, <2>3 DEF Last
<1>14. Total(Headers(<<x>>)) = 0 /\ \A s, r : Continues(s, <<x>>, r)
  <2>1. <<x>> \in Seq(Units) /\ <<x>>[1] = x /\ x.unit = "keys"
    BY <1>7
  <2>2. Headers(<<x>>) = <<0>>
    BY <2>1 DEF Headers, One
  <2>3. Total(<<0>>) = 0
    <3>1. PICK w \in Seq(Nat) : w = <<0>>
      <4>1. <<0>> \in Seq(Nat)
        OBVIOUS
      <4> QED
        BY <4>1
    <3>2. Len(w) = 1 /\ w[1] = 0
      BY <3>1
    <3>3. Totals(w)[0] = 0 /\ Totals(w)[1] = Totals(w)[1 - 1] + w[1]
      <4>1. 1 \in 1 .. Len(w)
        BY <3>2
      <4> QED
        BY <4>1, TotalsEquation
    <3>4. Totals(w)[1] = 0
      BY <3>2, <3>3
    <3> QED
      BY <3>1, <3>2, <3>4 DEF Total
  <2>4. \A s, r : Continues(s, <<x>>, r)
    BY <2>1 DEF Continues
  <2> QED
    BY <2>2, <2>3, <2>4
<1>15. Live("client")' => Live("client") /\ Reached("client")' = 0 /\ reading'["client"] # "body"
  <2>1. Live("client")' => Live("client")
    BY <1>9 DEF Live
  <2>2. Live("client") => Reached("client")' = 0 + 0
    BY <1>8, <1>9, <1>12 DEF Reached
  <2> QED
    BY <1>9, <1>12, <2>1, <2>2
<1>16. Started("server")' = 0
  <2>1. Started("server")' = (Len(<<0>>) - Len(<<m>>)) + 0
    <3>1. writing'["server"] \notin {<<"header">>, <<"body">>}
      BY <1>3, <1>8, Distinct
    <3>2. sent'["server"] = <<0>> /\ Queue("server")' = <<m>>
      BY <1>3, <1>8, <1>9, <1>13
    <3> QED
      BY <3>1, <3>2 DEF Started
  <2>2. Len(<<0>>) = 1 /\ Len(<<m>>) = 1
    OBVIOUS
  <2> QED
    BY <2>1, <2>2
<1>17. Direction("client")'
  <2>1. \A i \in DOMAIN received'["client"] : FALSE
    BY <1>8, <1>12
  <2> QED
    BY <1>1, <1>9, <1>13, <1>14, <1>15, <1>16, <2>1 DEF Direction
<1>18. Bounded'
  <2>1. Len(sent'["server"]) = 1 /\ 1 <= MaxSends + 1
    BY <1>9, SendsAssumption
  <2> QED
    BY <1>8, <1>9, <1>10, <2>1 DEF Bounded
<1> QED
  BY <1>11, <1>17, <1>18 DEF Numbered, Ends

-----------------------------------------------------------------------------
\* Numbers in every reachable state.

\* They are right at the start ...
LEMMA NumberedInit == Init => Numbered
<1> SUFFICES ASSUME Init PROVE Numbered
  OBVIOUS
<1>1. ASSUME NEW e \in Ends PROVE Direction(e)
  <2>1. PICK p \in Ends : p = Peer(e)
    BY Peers
  <2>2. /\ out[p] = <<>> /\ posted[p] = <<>> /\ sent[p] = <<>> /\ wire[p] = <<>>
        /\ writing[p] = <<>> /\ received[e] = <<>> /\ reading[e] = "none"
    BY DEF Init
  <2>3. Queue(p) = <<>> /\ Len(<<>>) = 0
    BY <2>2 DEF Queue
  <2>4. Started(p) = 0 /\ Reached(e) = 0
    BY <2>2, <2>3 DEF Started, Reached
  <2>5. Headers(<<>>) = <<>>
    BY DEF Headers
  <2>6. Total(<<>>) = 0
    <3>1. <<>> \in Seq(Nat)
      OBVIOUS
    <3>2. Totals(<<>>)[0] = 0
      BY <3>1, TotalsEquation
    <3> QED
      BY <2>3, <3>2 DEF Total
  <2>7. \A i \in DOMAIN <<>> : FALSE
    OBVIOUS
  <2>8. Last(sent[p], Queue(p))
    BY <2>3, <2>7 DEF Last
  <2>9. Continues(sent[p], wire[p], Reached(e))
    BY <2>2, <2>7 DEF Continues
  <2>10. Started(p) = Reached(e) + Total(Headers(wire[p]))
    BY <2>2, <2>4, <2>5, <2>6
  <2> QED
    BY <2>1, <2>2, <2>7, <2>8, <2>9, <2>10 DEF Direction
<1>2. Bounded
  <2>1. Len(<<>>) = 0
    OBVIOUS
  <2> QED
    BY <2>1, SendsAssumption DEF Init, Bounded, Ends
<1> QED
  BY <1>1, <1>2 DEF Numbered

\* ... and every step keeps them right.
LEMMA NumberedNext ==
  ASSUME IInv, Numbered, [Next]_vars
  PROVE  Numbered'
<1>1. TypeOK' /\ TypeOK /\ OneWriter /\ Aligned
  BY TypeNext DEF IInv
<1>2. CASE \/ TcpUp \/ ConnectFails \/ KeysWritten \/ Connected \/ AnswerWritten \/ Exit
           \/ UNCHANGED vars
           \/ \E e \in Ends : WriteFails(e) \/ ReadFails(e)
  <2>1. sent' = sent
    BY <1>2 DEF TcpUp, ConnectFails, KeysWritten, Connected, AnswerWritten, Exit, vars,
                WriteFails, ReadFails
  <2>2. Calm
    BY <1>1, <1>2, CalmSteps
  <2> QED
    BY <1>1, <2>1, <2>2, CalmNumbered
<1>3. CASE Accept \/ KeysCopied \/ KeysAnswered \/ KeysFinal
  BY <1>1, <1>3, AcceptNumbered, KeysCopiedNumbered, KeysAnsweredNumbered, KeysFinalNumbered
<1>4. ASSUME NEW e \in Ends, RunPosted(e) \/ HeaderWritten(e) \/ BodyWritten(e)
      PROVE  Numbered'
  BY <1>1, <1>4, WritersNumbered
<1>5. ASSUME NEW e \in Ends, HeaderRead(e) \/ BodyRead(e)
      PROVE  Numbered'
  BY <1>1, <1>5, HeaderReadNumbered, BodyReadNumbered
<1>6. CASE PressKey \/ Serve
  BY <1>1, <1>6, PressKeyNumbered, ServeNumbered
<1> QED
  BY <1>2, <1>3, <1>4, <1>5, <1>6 DEF Next, Handshake, Handler

\* However fast the user is, the i-th message that arrives has the number and the
\* size of the i-th that was sent: nothing is lost in the middle, duplicated or
\* reordered between Send at one end and AddToIncomingMessageQueue at the other.
THEOREM InOrder ==
  Spec => [](\A e \in Ends : \A i \in DOMAIN received[e] :
               Nth(sent[Peer(e)], received[e][i], i))
<1>1. Init => IInv /\ Numbered
  BY InvInit, NumberedInit
<1>2. IInv /\ Numbered /\ [Next]_vars => IInv' /\ Numbered'
  BY TypeNext, OneWriterNext, BodyHasSizeNext, AlignedNext, NumberedNext DEF IInv
<1>3. Numbered => \A e \in Ends : \A i \in DOMAIN received[e] :
                    Nth(sent[Peer(e)], received[e][i], i)
  BY DEF Numbered, Direction
<1> QED
  BY <1>1, <1>2, <1>3, PTL DEF Spec

-----------------------------------------------------------------------------
\* The channel.

\* What a sequence of sizes looks like to the channel, ...
Tagged(s) == [i \in DOMAIN s |-> <<i, s[i]>>]

\* ... and what a message that has arrived does, ...
Tell(m) == <<m.n, IF m.size > 0 /\ m.body # "right" THEN -1 ELSE m.size>>

\* ... and all of them.
Seen(R) == [i \in DOMAIN R |-> Tell(R[i])]

\* More is sent.
LEMMA TaggedAppend ==
  ASSUME NEW s \in Seq(Sizes), NEW x \in Sizes
  PROVE  /\ Tagged(Append(s, x)) = Append(Tagged(s), <<Len(s) + 1, x>>)
         /\ Len(Tagged(s)) = Len(s)
         /\ \A i \in 1 .. Len(s) : Tagged(s)[i] = <<i, s[i]>>
<1>1. PICK t \in Seq(Sizes) : t = Append(s, x)
  <2>1. Append(s, x) \in Seq(Sizes)
    BY AppendProperties
  <2> QED
    BY <2>1
<1>2. PICK n \in Nat : n = Len(s) /\ DOMAIN s = 1 .. n
  OBVIOUS
<1>3. Len(t) = n + 1 /\ DOMAIN t = 1 .. n + 1 /\ t[n + 1] = x /\ \A i \in 1 .. n : t[i] = s[i]
  BY <1>1, <1>2
<1> DEFINE M == Nat \X Sizes
<1>4. Tagged(s) = [i \in 1 .. n |-> <<i, s[i]>>] /\ Tagged(t) = [i \in 1 .. n + 1 |-> <<i, t[i]>>]
  BY <1>2, <1>3 DEF Tagged
<1>5. (\A i \in 1 .. n : <<i, s[i]>> \in M) /\ (\A i \in 1 .. n + 1 : <<i, t[i]>> \in M)
  <2>1. (\A i \in 1 .. n : s[i] \in Sizes) /\ (\A i \in 1 .. n + 1 : t[i] \in Sizes)
    BY <1>2, <1>3
  <2> QED
    BY <2>1
<1>6. <<n + 1, x>> \in M
  OBVIOUS
<1> HIDE DEF M
<1>7. PICK a \in Seq(M) : a = Tagged(s) /\ Len(a) = n /\ \A i \in 1 .. n : a[i] = <<i, s[i]>>
  <2>1. Tagged(s) \in Seq(M) /\ Len(Tagged(s)) = n
    BY <1>4, <1>5
  <2>2. \A i \in 1 .. n : Tagged(s)[i] = <<i, s[i]>>
    BY <1>4
  <2> QED
    BY <2>1, <2>2
<1>8. PICK b \in Seq(M) : b = Tagged(t) /\ Len(b) = n + 1 /\ \A i \in 1 .. n + 1 : b[i] = <<i, t[i]>>
  <2>1. Tagged(t) \in Seq(M) /\ Len(Tagged(t)) = n + 1
    BY <1>4, <1>5
  <2>2. \A i \in 1 .. n + 1 : Tagged(t)[i] = <<i, t[i]>>
    BY <1>4
  <2> QED
    BY <2>1, <2>2
<1>9. PICK y \in M : y = <<n + 1, x>>
  BY <1>6
<1>10. PICK c \in Seq(M) : c = Append(a, y)
  <2>1. Append(a, y) \in Seq(M)
    BY AppendProperties
  <2> QED
    BY <2>1
<1>11. Len(c) = n + 1 /\ c[n + 1] = y /\ \A i \in 1 .. n : c[i] = a[i]
  BY <1>7, <1>10
<1>12. \A i \in 1 .. n + 1 : b[i] = c[i]
  <2> SUFFICES ASSUME NEW i \in 1 .. n + 1 PROVE b[i] = c[i]
    OBVIOUS
  <2>1. CASE i = n + 1
    BY <1>3, <1>8, <1>9, <1>11, <2>1
  <2>2. CASE i # n + 1
    <3>1. i \in 1 .. n
      BY <2>2
    <3> QED
      BY <1>3, <1>7, <1>8, <1>11, <3>1
  <2> QED
    BY <2>1, <2>2
<1>13. b = c
  BY <1>8, <1>11, <1>12, SeqEqual
<1> QED
  BY <1>1, <1>2, <1>7, <1>8, <1>9, <1>10, <1>13

\* More arrives.
LEMMA SeenAppend ==
  ASSUME NEW R \in Seq(Receiveds), NEW m \in Receiveds
  PROVE  /\ Seen(Append(R, m)) = Append(Seen(R), Tell(m))
         /\ Len(Seen(R)) = Len(R)
<1>1. \A r \in Receiveds : Tell(r) \in Nat \X Int
  <2> SUFFICES ASSUME NEW r \in Receiveds PROVE Tell(r) \in Nat \X Int
    OBVIOUS
  <2>1. r.n \in Nat /\ r.size \in Int
    <3>1. r.n \in Nat /\ r.size \in Sizes
      BY DEF Receiveds
    <3>2. r.size \in Nat
      BY <3>1, SizesAssumption
    <3> QED
      BY <3>1, <3>2
  <2>2. PICK z \in Int : z = IF r.size > 0 /\ r.body # "right" THEN -1 ELSE r.size
    BY <2>1
  <2> QED
    BY <2>1, <2>2 DEF Tell
<1> HIDE DEF Receiveds
<1> DEFINE M == Nat \X Int
<1>2. \A r \in Receiveds : Tell(r) \in M
  BY <1>1
<1> HIDE DEF M
<1>3. PICK T \in Seq(Receiveds) : T = Append(R, m)
  <2>1. Append(R, m) \in Seq(Receiveds)
    BY AppendProperties
  <2> QED
    BY <2>1
<1>4. PICK n \in Nat : n = Len(R) /\ DOMAIN R = 1 .. n
  OBVIOUS
<1>5. Len(T) = n + 1 /\ DOMAIN T = 1 .. n + 1 /\ T[n + 1] = m /\ \A i \in 1 .. n : T[i] = R[i]
  BY <1>3, <1>4
<1>6. Seen(R) = [i \in 1 .. n |-> Tell(R[i])] /\ Seen(T) = [i \in 1 .. n + 1 |-> Tell(T[i])]
  BY <1>4, <1>5 DEF Seen
<1>7. (\A i \in 1 .. n : Tell(R[i]) \in M) /\ (\A i \in 1 .. n + 1 : Tell(T[i]) \in M)
  BY <1>2, <1>4, <1>5
<1>8. PICK a \in Seq(M) : a = Seen(R) /\ Len(a) = n /\ \A i \in 1 .. n : a[i] = Tell(R[i])
  <2>1. Seen(R) \in Seq(M) /\ Len(Seen(R)) = n
    BY <1>6, <1>7
  <2>2. \A i \in 1 .. n : Seen(R)[i] = Tell(R[i])
    BY <1>6
  <2> QED
    BY <2>1, <2>2
<1>9. PICK b \in Seq(M) : b = Seen(T) /\ Len(b) = n + 1 /\ \A i \in 1 .. n + 1 : b[i] = Tell(T[i])
  <2>1. Seen(T) \in Seq(M) /\ Len(Seen(T)) = n + 1
    BY <1>6, <1>7
  <2>2. \A i \in 1 .. n + 1 : Seen(T)[i] = Tell(T[i])
    BY <1>6
  <2> QED
    BY <2>1, <2>2
<1>10. PICK y \in M : y = Tell(m)
  BY <1>2
<1>11. PICK c \in Seq(M) : c = Append(a, y)
  <2>1. Append(a, y) \in Seq(M)
    BY AppendProperties
  <2> QED
    BY <2>1
<1>12. Len(c) = n + 1 /\ c[n + 1] = y /\ \A i \in 1 .. n : c[i] = a[i]
  BY <1>8, <1>11
<1>13. \A i \in 1 .. n + 1 : b[i] = c[i]
  <2> SUFFICES ASSUME NEW i \in 1 .. n + 1 PROVE b[i] = c[i]
    OBVIOUS
  <2>1. CASE i = n + 1
    BY <1>5, <1>9, <1>10, <1>12, <2>1
  <2>2. CASE i # n + 1
    <3>1. i \in 1 .. n
      BY <2>2
    <3> QED
      BY <1>5, <1>8, <1>9, <1>12, <3>1
  <2> QED
    BY <2>1, <2>2
<1>14. b = c
  BY <1>9, <1>12, <1>13, SeqEqual
<1> QED
  BY <1>3, <1>4, <1>8, <1>9, <1>10, <1>11, <1>14

\* What the channel has been given, and what has come out of it.
Given == [e \in Ends |-> Tagged(sent[e])]

Delivers == [e \in Ends |-> Seen(received[Peer(e)])]

\* It is empty at the start.
LEMMA ChannelInit == Init => C!Init
<1> SUFFICES ASSUME Init PROVE C!Init
  OBVIOUS
<1>1. \A e \in Ends : sent[e] = <<>> /\ received[Peer(e)] = <<>>
  BY Peers DEF Init
<1>2. \A e \in Ends : [i \in DOMAIN sent[e] |-> <<i, sent[e][i]>>] = <<>>
  BY <1>1
<1>3. \A e \in Ends : Arrived(e) = <<>>
  BY <1>1 DEF Arrived
<1> QED
  BY <1>2, <1>3 DEF C!Init

\* Send puts a message into the channel.
LEMMA SendChannel ==
  ASSUME TypeOK, NEW p \in Ends, NEW x \in Sizes, Len(sent[p]) <= MaxSends,
         sent' = [sent EXCEPT ![p] = Append(@, x)], received' = received
  PROVE  C!Send(p)
<1>1. PICK s \in Seq(Sizes) : s = sent[p] /\ sent'[p] = Append(s, x)
  BY DEF TypeOK
<1>2. PICK m : m = <<Len(s) + 1, x>>
  OBVIOUS
<1>3. m \in (1 .. MaxSends + 1) \X Sizes
  <2>1. Len(s) + 1 \in 1 .. MaxSends + 1
    BY <1>1, SendsAssumption
  <2> QED
    BY <1>2, <2>1
<1>4. Tagged(sent'[p]) = Append(Tagged(sent[p]), m)
  BY <1>1, <1>2, TaggedAppend
<1>5. \A e \in Ends : e # p => Tagged(sent'[e]) = Tagged(sent[e])
  BY DEF TypeOK
<1>6. Given' = [Given EXCEPT ![p] = Append(@, m)]
  BY <1>4, <1>5 DEF Given
<1>7. Delivers' = Delivers
  BY DEF Delivers
<1>8. [e \in Ends |-> [i \in DOMAIN sent[e] |-> <<i, sent[e][i]>>]] = Given
  BY DEF Given, Tagged
<1>9. ([e \in Ends |-> [i \in DOMAIN sent[e] |-> <<i, sent[e][i]>>]])' = Given'
  BY DEF Given, Tagged
<1>10. ([e \in Ends |-> Arrived(e)])' = [e \in Ends |-> Arrived(e)]
  BY DEF Arrived
<1> QED
  BY <1>3, <1>6, <1>8, <1>9, <1>10 DEF C!Send

\* AddToIncomingMessageQueue takes the next message out of it.
LEMMA ArriveChannel ==
  ASSUME TypeOK, NEW e \in Ends, NEW p \in Ends, p = Peer(e), NEW m \in Receiveds,
         received' = [received EXCEPT ![e] = Append(@, m)], sent' = sent,
         Direction(e)', Deciphered'
  PROVE  C!Arrive(p)
<1>1. PICK R \in Seq(Receiveds) : R = received[e] /\ received'[e] = Append(R, m)
  BY DEF TypeOK, Receiveds
<1>2. PICK s \in Seq(Sizes) : s = sent[p] /\ sent'[p] = s
  BY NumberTypes
<1>3. PICK k \in Nat : k = Len(R)
  BY <1>1, LenProperties
<1>4. k + 1 \in DOMAIN received'[e] /\ received'[e][k + 1] = m
  <2> HIDE DEF Receiveds
  <2> QED
    BY <1>1, <1>3
<1>5. Nth(s, m, k + 1)
  BY <1>2, <1>4 DEF Direction
<1>6. m.size > 0 => m.body = "right"
  BY <1>4 DEF Deciphered
<1>7. Tell(m) = <<k + 1, s[k + 1]>> /\ k + 1 \in DOMAIN s
  BY <1>5, <1>6 DEF Nth, Tell
<1>8. k < Len(s) /\ k + 1 \in 1 .. Len(s)
  BY <1>7
<1>9. Len(Seen(R)) = k /\ Seen(received'[e]) = Append(Seen(R), Tell(m))
  BY <1>1, <1>3, SeenAppend
<1>10. Len(Tagged(s)) = Len(s) /\ Tagged(s)[k + 1] = Tell(m)
  <2>1. 0 \in Sizes
    BY SizesAssumption
  <2> QED
    BY <1>7, <1>8, <2>1, TaggedAppend
<1>11. Given[p] = Tagged(s) /\ Delivers[p] = Seen(R)
  BY <1>1, <1>2, Peers DEF Given, Delivers
<1>12. Delivers' = [Delivers EXCEPT ![p] = Append(@, Tell(m))]
  <2>1. \A f \in Ends : f # p => Peer(f) # e /\ Peer(f) \in Ends
    BY Peers
  <2>2. \A f \in Ends : f # p => received'[Peer(f)] = received[Peer(f)]
    BY <2>1 DEF TypeOK
  <2>3. Peer(p) = e
    BY Peers
  <2>4. Seen(received'[Peer(p)]) = Append(Seen(received[Peer(p)]), Tell(m))
    BY <1>1, <1>9, <2>3
  <2>5. Delivers[p] = Seen(received[Peer(p)])
    BY DEF Delivers
  <2>6. \A f \in Ends : Seen(received'[Peer(f)]) =
                        IF f = p THEN Append(Delivers[p], Tell(m)) ELSE Seen(received[Peer(f)])
    <3> SUFFICES ASSUME NEW f \in Ends
                 PROVE  Seen(received'[Peer(f)]) =
                          IF f = p THEN Append(Delivers[p], Tell(m)) ELSE Seen(received[Peer(f)])
      OBVIOUS
    <3>1. CASE f = p
      BY <2>4, <2>5, <3>1
    <3>2. CASE f # p
      BY <2>2, <3>2
    <3> QED
      BY <3>1, <3>2
  <2>7. Delivers' = [f \in Ends |-> Seen(received'[Peer(f)])]
    BY DEF Delivers
  <2>8. Delivers = [f \in Ends |-> Seen(received[Peer(f)])]
    BY DEF Delivers
  <2> QED
    BY <2>6, <2>7, <2>8
<1>13. [f \in Ends |-> [i \in DOMAIN sent[f] |-> <<i, sent[f][i]>>]] = Given
  BY DEF Given, Tagged
<1>14. [f \in Ends |-> Arrived(f)] = Delivers /\ ([f \in Ends |-> Arrived(f)])' = Delivers'
  BY DEF Delivers, Arrived, Seen, Tell
<1>15. ([f \in Ends |-> [i \in DOMAIN sent[f] |-> <<i, sent[f][i]>>]])' = Given
  BY <1>13
<1>16. Len(Delivers[p]) < Len(Given[p])
  BY <1>8, <1>9, <1>10, <1>11
<1>17. Given[p][Len(Delivers[p]) + 1] = Tell(m)
  BY <1>9, <1>10, <1>11
<1>18. Delivers' = [Delivers EXCEPT ![p] = Append(@, Given[p][Len(@) + 1])]
  BY <1>12, <1>17
<1> QED
  BY <1>13, <1>14, <1>15, <1>16, <1>18 DEF C!Arrive

\* Every step is a step of the channel, or leaves it alone.
LEMMA ChannelNext ==
  ASSUME CInv, Numbered, CInv', Numbered', [Next]_vars
  PROVE  [C!Next]_(C!vars)
<1>1. TypeOK /\ TypeOK' /\ Deciphered' /\ Aligned
  BY DEF CInv, IInv
<1>2. "client" \in Ends /\ "server" \in Ends
  BY DEF Ends
<1>3. ASSUME sent' = sent, received' = received
      PROVE  UNCHANGED C!vars
  BY <1>3 DEF C!vars, Arrived
<1>4. ASSUME NEW p \in Ends, C!Send(p) \/ C!Arrive(p)
      PROVE  C!Next
  BY <1>4 DEF C!Next
<1>5. CASE \/ TcpUp \/ ConnectFails \/ KeysWritten \/ Connected \/ AnswerWritten \/ Exit
           \/ UNCHANGED vars \/ KeysCopied \/ KeysAnswered \/ KeysFinal
           \/ \E e \in Ends : \/ RunPosted(e) \/ HeaderWritten(e) \/ BodyWritten(e)
                              \/ WriteFails(e) \/ ReadFails(e)
  <2>1. sent' = sent /\ received' = received
    BY <1>5 DEF TcpUp, ConnectFails, KeysWritten, Connected, AnswerWritten, Exit, vars,
                readVars, KeysCopied, KeysAnswered, KeysFinal,
                RunPosted, HeaderWritten, BodyWritten, WriteFails, ReadFails
  <2> QED
    BY <1>3, <2>1
<1>6. CASE Accept
  <2>1. sent["server"] = <<>> /\ Len(<<>>) = 0
    BY <1>6 DEF Accept, Numbered, Bounded
  <2>2. 0 \in Sizes /\ MaxSends \in Nat
    BY SizesAssumption, SendsAssumption
  <2>3. sent' = [sent EXCEPT !["server"] = Append(@, 0)] /\ received' = received
    BY <1>6 DEF Accept
  <2>4. Len(sent["server"]) <= MaxSends
    BY <2>1, <2>2
  <2> QED
    BY <1>1, <1>2, <1>4, <2>2, <2>3, <2>4, SendChannel
<1>7. CASE PressKey
  <2>1. PICK x \in Sizes : Send("client", x)
    BY <1>7 DEF PressKey
  <2>2. sent' = [sent EXCEPT !["client"] = Append(@, x)] /\ received' = received
    BY <2>1 DEF Send, readVars
  <2>3. Len(sent["client"]) <= MaxSends
    BY DEF Numbered, Bounded
  <2> QED
    BY <1>1, <1>2, <1>4, <2>2, <2>3, SendChannel
<1>8. CASE Serve
  <2>1. PICK x \in Sizes : Send("server", x)
    BY <1>8 DEF Serve
  <2>2. sent' = [sent EXCEPT !["server"] = Append(@, x)] /\ received' = received
    BY <2>1 DEF Send, readVars
  <2>3. Len(sent["server"]) <= MaxSends
    BY <1>8 DEF Serve
  <2> QED
    BY <1>1, <1>2, <1>4, <2>2, <2>3, SendChannel
<1>9. ASSUME NEW e \in Ends, HeaderRead(e)
       PROVE  [C!Next]_(C!vars)
  <2>1. PICK p \in Ends : p = Peer(e)
    BY Peers
  <2>2. open[e] /\ reading[e] = "header" /\ Incoming(e) # <<>> /\ sent' = sent
    BY <1>9 DEF HeaderRead, CanRead
  <2>3. PICK h \in Units : h = Head(Incoming(e)) /\ h.unit = "header"
    BY <1>1, <2>2, FirstUnit
  <2>4. CASE received' = received
    BY <1>3, <2>2, <2>4
  <2>5. CASE AddToIncoming(e, h, tmp[e].body)
    <3>1. PICK m \in Receiveds : m = [n |-> h.n, size |-> h.size, body |-> tmp[e].body]
      <4>1. h.n \in Nat /\ h.size \in Sizes
        BY <2>3 DEF Units
      <4>2. tmp[e].body \in Contents
        BY <1>1 DEF TypeOK
      <4> QED
        BY <4>1, <4>2 DEF Receiveds
    <3>2. received' = [received EXCEPT ![e] = Append(@, m)]
      BY <2>5, <3>1 DEF AddToIncoming
    <3>3. Direction(e)'
      BY DEF Numbered
    <3> QED
      BY <1>1, <1>4, <2>1, <2>2, <3>2, <3>3, ArriveChannel
  <2> QED
    BY <1>9, <2>3, <2>4, <2>5 DEF HeaderRead
<1>10. ASSUME NEW e \in Ends, BodyRead(e)
       PROVE  [C!Next]_(C!vars)
  <2>1. PICK p \in Ends : p = Peer(e)
    BY Peers
  <2>2. PICK x : x = IF /\ Head(Incoming(e)).key = key[e]
                        /\ Head(Incoming(e)).cou = Resync(dec[e], tmp[e].low)
                     THEN "right" ELSE "garbled"
    OBVIOUS
  <2>3. AddToIncoming(e, tmp[e], x) /\ sent' = sent
    BY <1>10, <2>2 DEF BodyRead
  <2>4. PICK m \in Receiveds : m = [n |-> tmp[e].n, size |-> tmp[e].size, body |-> x]
    <3>1. tmp[e].n \in Nat /\ tmp[e].size \in Sizes /\ x \in Contents
      BY <1>1, <2>2 DEF TypeOK, Contents
    <3> QED
      BY <3>1 DEF Receiveds
  <2>5. received' = [received EXCEPT ![e] = Append(@, m)]
    BY <2>3, <2>4 DEF AddToIncoming
  <2>6. Direction(e)'
    BY DEF Numbered
  <2> QED
    BY <1>1, <1>4, <2>1, <2>3, <2>5, <2>6, ArriveChannel
<1> QED
  BY <1>5, <1>6, <1>7, <1>8, <1>9, <1>10 DEF Next, Handshake, Handler

\* Implements: for a user who waits for the end of the handshake, each direction
\* of a connection is a channel: what arrives is what was sent, in order and with
\* the right text, up to the point where the connection breaks.
THEOREM Refinement ==
  ASSUME ~EarlySend
  PROVE  Spec => Implements
<1>1. Init => C!Init /\ CInv /\ Numbered
  BY ChannelInit, CountersInit, NumberedInit
<1>2. CInv /\ Numbered /\ [Next]_vars => CInv' /\ Numbered'
  BY CountersNext, NumberedNext DEF CInv
<1>3. CInv /\ Numbered /\ CInv' /\ Numbered' /\ [Next]_vars => [C!Next]_(C!vars)
  BY ChannelNext
<1> QED
  BY <1>1, <1>2, <1>3, PTL DEF Spec, Implements, C!Spec
=============================================================================
