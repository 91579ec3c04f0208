---------------------------- MODULE SessionProofs ----------------------------
(***************************************************************************)
(* Proofs about Session, for counters of any width, any body sizes, any    *)
(* number of requests, and for a user who waits for the handshake as well  *)
(* as for one who does not.                                                *)
(***************************************************************************)
EXTENDS Session, SharedLemmas

-----------------------------------------------------------------------------
\* Type correctness.

\* What Send posts is an enciphered message.
LEMMA MessageTypes ==
  ASSUME TypeOK, NEW e \in Ends, NEW size \in Sizes
  PROVE  Enciphered(e, size) \in Enciphereds
<1>1. Len(sent[e]) + 1 \in Nat
  BY SMT DEF TypeOK
<1>2. key[e] \in Keys /\ enc[e] \in Counters
  BY DEF TypeOK
<1> QED
  BY <1>1, <1>2 DEF Enciphered, Enciphereds

\* The units written for a message are units.
LEMMA UnitTypes ==
  ASSUME NEW m \in Enciphereds
  PROVE  HeaderOf(m) \in Units /\ BodyOf(m) \in Units
<1>1. /\ m.n \in Nat /\ m.size \in Sizes /\ m.key \in Keys /\ m.cou \in Counters
  BY DEF Enciphereds
<1>2. (IF m.size > 0 THEN m.cou % Byte ELSE 0) \in 0 .. Byte - 1
  <2>1. m.cou % Byte \in 0 .. Byte - 1
    BY <1>1, LowType
  <2>2. 0 \in 0 .. Byte - 1
    BY ByteAssumption, SMT
  <2> QED
    BY <2>1, <2>2
<1> HIDE DEF Counters
<1> QED
  BY <1>1, <1>2 DEF HeaderOf, BodyOf, Units

Labels == {"header", "body", "failing"}

\* Starting a write keeps the types of what it touches.
LEMMA WriteType ==
  ASSUME TypeOK, NEW e \in Ends, NEW u \in Units, NEW label \in Labels,
         NEW pending \in Seq(Labels), Write(e, pending, label, u)
  PROVE  writing' \in [Ends -> Seq(Labels)] /\ wire' \in [Ends -> Seq(Units)]
<1>1. writing \in [Ends -> Seq(Labels)] /\ wire \in [Ends -> Seq(Units)]
  BY DEF TypeOK, Labels
<1>2. writing' \in [Ends -> Seq(Labels)]
  <2>1. PICK l \in Labels : writing' = [writing EXCEPT ![e] = Append(pending, l)]
    BY DEF Write, Labels
  <2>2. Append(pending, l) \in Seq(Labels)
    BY AppendProperties
  <2> QED
    BY <1>1, <2>1, <2>2
<1> HIDE DEF Units
<1>3. Append(wire[e], u) \in Seq(Units)
  BY <1>1, AppendProperties
<1> QED
  BY <1>1, <1>2, <1>3 DEF Write

\* The front of a queue is a message of it and the rest is a queue.
LEMMA QueueParts ==
  ASSUME NEW S, NEW q \in Seq(S), q # <<>>
  PROVE  Head(q) \in S /\ Tail(q) \in Seq(S)
  BY HeadTailProperties

\* A queue of one element, and the queue it leaves behind.
LEMMA Singleton ==
  ASSUME NEW l
  PROVE  /\ Append(<<>>, l) = <<l>> /\ Tail(<<l>>) = <<>> /\ Head(<<l>>) = l
         /\ <<l>> # <<>> /\ Len(<<l>>) = 1 /\ <<l>>[1] = l
  OBVIOUS

\* What may be under way of the queue's writes: none or one.
Writings == {<<>>, <<"header">>, <<"body">>, <<"failing">>}

LEMMA OneUnderWay ==
  ASSUME TypeOK, OneWriter, NEW e \in Ends
  PROVE  /\ writing[e] \in Writings
         /\ writing[e] # <<>> =>
              /\ Tail(writing[e]) = <<>> /\ writing[e] = <<Head(writing[e])>>
              /\ out[e] # <<>>
<1> DEFINE w == writing[e]
<1>1. w \in Seq(Labels) /\ Len(w) <= 1
  BY DEF TypeOK, OneWriter, Labels
<1> HIDE DEF w
<1>2. ASSUME w # <<>>
      PROVE  w[1] \in Labels /\ w = <<w[1]>>
  <2>1. Len(w) = 1
    <3>1. Len(w) \in Nat /\ Len(w) # 0
      BY <1>1, <1>2, EmptySeq, LenProperties
    <3> QED
      BY <1>1, <3>1, SMT
  <2>2. w[1] \in Labels
    BY <1>1, <2>1, ElementOfSeq, LenProperties, SMT
  <2> QED
    BY <1>1, <2>1, <2>2, SMT
<1>3. w # <<>> => Tail(w) = <<>> /\ w = <<Head(w)>>
  <2>1. ASSUME NEW l, w = <<l>> PROVE Tail(w) = <<>> /\ w = <<Head(w)>>
    BY <2>1, Singleton
  <2> QED
    BY <1>2, <2>1
<1>4. w \in Writings
  BY <1>2 DEF Writings, Labels
<1> QED
  BY <1>3, <1>4 DEF w, OneWriter

\* With nothing under way, Write puts one write under way.
LEMMA WriteOne ==
  ASSUME TypeOK, NEW e \in Ends, NEW label, NEW u, Write(e, <<>>, label, u)
  PROVE  /\ writing'[e] = IF CanWrite(e) THEN <<label>> ELSE <<"failing">>
         /\ wire'[e] = IF CanWrite(e) THEN Append(wire[e], u) ELSE wire[e]
         /\ \A f \in Ends : f # e => writing'[f] = writing[f] /\ wire'[f] = wire[f]
<1>1. /\ writing \in [Ends -> Seq(Labels)] /\ wire \in [Ends -> Seq(Units)]
      /\ Append(<<>>, label) = <<label>> /\ Append(<<>>, "failing") = <<"failing">>
  BY Singleton DEF TypeOK, Labels
<1> HIDE DEF Units
<1> QED
  BY <1>1 DEF Write

\* Send keeps the types.
LEMMA SendType ==
  ASSUME TypeOK, NEW e \in Ends, NEW size \in Sizes, Send(e, size)
  PROVE  TypeOK'
<1>1. /\ Enciphered(e, size) \in Enciphereds
      /\ posted \in [Ends -> Seq(Enciphereds)]
      /\ sent \in [Ends -> Seq(Sizes)] /\ enc \in [Ends -> Counters]
  BY MessageTypes DEF TypeOK
<1>2. Plus(enc[e], size) \in Counters
  <2>1. enc[e] \in Int /\ size \in Int
    BY <1>1, WidthType, SizesAssumption, SMT DEF Counters
  <2> QED
    BY <2>1, PlusType
<1>3. posted' \in [Ends -> Seq(Enciphereds)]
  <2>1. Append(posted[e], Enciphered(e, size)) \in Seq(Enciphereds)
    BY <1>1, AppendProperties
  <2> QED
    BY <1>1, <2>1 DEF Send
<1>4. sent' \in [Ends -> Seq(Sizes)] /\ enc' \in [Ends -> Counters]
  <2>1. Append(sent[e], size) \in Seq(Sizes)
    BY <1>1, AppendProperties
  <2> QED
    BY <1>1, <1>2, <2>1 DEF Send
<1> QED
  BY <1>3, <1>4 DEF Send, TypeOK, linkVars, readVars

\* So does the posted function ...
LEMMA RunPostedType ==
  ASSUME TypeOK, NEW e \in Ends, RunPosted(e)
  PROVE  TypeOK'
<1>1. posted \in [Ends -> Seq(Enciphereds)] /\ out \in [Ends -> Seq(Enciphereds)]
  BY DEF TypeOK
<1>2. Head(posted[e]) \in Enciphereds /\ Tail(posted[e]) \in Seq(Enciphereds)
  BY <1>1, QueueParts DEF RunPosted
<1>3. posted' \in [Ends -> Seq(Enciphereds)] /\ out' \in [Ends -> Seq(Enciphereds)]
  <2>1. Append(out[e], Head(posted[e])) \in Seq(Enciphereds)
    BY <1>1, <1>2, AppendProperties
  <2> QED
    BY <1>1, <1>2, <2>1 DEF RunPosted
<1>4. writing' \in [Ends -> Seq(Labels)] /\ wire' \in [Ends -> Seq(Units)]
  <2>1. CASE StartsWriting(e)
    <3>1. out'[e] = Append(out[e], Head(posted[e]))
      BY <1>1 DEF RunPosted
    <3>2. Append(out[e], Head(posted[e])) # <<>>
      BY <1>1, <1>2, AppendProperties
    <3>3. Head(out'[e]) \in Enciphereds
      BY <1>3, <3>1, <3>2, QueueParts
    <3>4. writing[e] \in Seq(Labels)
      BY DEF TypeOK, Labels
    <3> QED
      BY <2>1, <3>3, <3>4, UnitTypes, WriteType DEF RunPosted, WriteHeader, Labels
  <2>2. CASE ~StartsWriting(e)
    BY <2>2 DEF RunPosted, TypeOK, Labels
  <2> QED
    BY <2>1, <2>2
<1> QED
  BY <1>3, <1>4 DEF RunPosted, TypeOK, Labels, linkVars, cipherVars, readVars

\* ... and a write handler that pops the message and starts the next.
LEMMA PopWrittenType ==
  ASSUME TypeOK, NEW e \in Ends, PopWritten(e), out[e] # <<>>, writing[e] # <<>>
  PROVE  /\ out' \in [Ends -> Seq(Enciphereds)]
         /\ writing' \in [Ends -> Seq(Labels)] /\ wire' \in [Ends -> Seq(Units)]
<1>1. out \in [Ends -> Seq(Enciphereds)]
  BY DEF TypeOK
<1>2. Tail(out[e]) \in Seq(Enciphereds)
  BY <1>1, QueueParts
<1>3. out' \in [Ends -> Seq(Enciphereds)]
  BY <1>1, <1>2 DEF PopWritten
<1>0. writing \in [Ends -> Seq(Labels)] /\ Tail(writing[e]) \in Seq(Labels)
  <2>1. writing \in [Ends -> Seq(Labels)]
    BY DEF TypeOK, Labels
  <2> QED
    BY <2>1, QueueParts
<1>4. CASE out'[e] = <<>>
  BY <1>0, <1>3, <1>4 DEF PopWritten, TypeOK, Labels
<1>5. CASE out'[e] # <<>>
  <2>1. Head(out'[e]) \in Enciphereds
    BY <1>3, <1>5, QueueParts
  <2> QED
    BY <1>0, <1>3, <1>5, <2>1, UnitTypes, WriteType DEF PopWritten, WriteHeader, Labels
<1> QED
  BY <1>4, <1>5

\* Each of the three write handlers keeps the types.
LEMMA WrittenType ==
  ASSUME TypeOK, OneWriter, NEW e \in Ends, HeaderWritten(e) \/ BodyWritten(e) \/ WriteFails(e)
  PROVE  TypeOK'
<1>1. CASE HeaderWritten(e)
  <2>1. /\ out[e] # <<>> /\ out \in [Ends -> Seq(Enciphereds)]
        /\ writing[e] # <<>> /\ Tail(writing[e]) \in Seq(Labels)
    <3>1. writing[e] # <<>> /\ writing[e] \in Seq(Labels)
      BY <1>1 DEF HeaderWritten, Written, TypeOK, Labels
    <3> QED
      BY <3>1, QueueParts DEF OneWriter, TypeOK
  <2>2. /\ out' \in [Ends -> Seq(Enciphereds)]
        /\ writing' \in [Ends -> Seq(Labels)] /\ wire' \in [Ends -> Seq(Units)]
    <3>1. CASE Head(out[e]).size > 0
      <4>1. Head(out[e]) \in Enciphereds
        BY <2>1, QueueParts
      <4> QED
        BY <1>1, <2>1, <3>1, <4>1, UnitTypes, WriteType
        DEF HeaderWritten, WriteBody, Labels
    <3>2. CASE ~(Head(out[e]).size > 0)
      BY <1>1, <2>1, <3>2, PopWrittenType DEF HeaderWritten
    <3> QED
      BY <3>1, <3>2
  <2> QED
    BY <1>1, <2>2 DEF HeaderWritten, TypeOK, Labels, linkVars, cipherVars, readVars
<1>2. CASE BodyWritten(e)
  <2>1. out[e] # <<>> /\ writing[e] # <<>>
    BY <1>2 DEF BodyWritten, Written, OneWriter
  <2> QED
    BY <1>2, <2>1, PopWrittenType
    DEF BodyWritten, TypeOK, Labels, linkVars, cipherVars, readVars
<1>3. CASE WriteFails(e)
  <2>1. writing \in [Ends -> Seq(Labels)] /\ writing[e] # <<>>
    BY <1>3 DEF WriteFails, TypeOK, Labels
  <2>2. Tail(writing[e]) \in Seq(Labels)
    BY <2>1, QueueParts
  <2>3. writing' \in [Ends -> Seq(Labels)]
    BY <1>3, <2>1, <2>2 DEF WriteFails
  <2> QED
    BY <1>3, <2>3 DEF WriteFails, TypeOK, Labels, cipherVars, readVars
<1> QED
  BY <1>1, <1>2, <1>3

-----------------------------------------------------------------------------
\* The stream of units towards an end.  Framed speaks of its first unit only;
\* the invariant speaks of each unit and the one before it, of the unit that the
\* end has read last, and of the write that is under way at the peer.

\* A header that announces a body.
Pending(u) == u.unit = "header" /\ u.size > 0

\* May v come directly after u?
Follows(u, v) ==
  IF Pending(u) THEN v.unit = "body" /\ v.n = u.n /\ v.size = u.size
  ELSE v.unit = CASE u.unit = "connect" -> "keys"
                  [] u.unit = "accept"  -> "answer"
                  [] OTHER              -> "header"

Mark(label) == [unit |-> label, n |-> 0, size |-> 0]

\* What e has read last, as far as it says what comes next.
Prev(e) ==
  CASE reading[e] = "body"            -> [unit |-> "header", n |-> tmp[e].n,
                                          size |-> tmp[e].size]
    [] reading[e] = "answer"          -> Mark("accept")
    [] reading[e] \in {"none", "keys"} -> Mark("connect")
    [] OTHER                          -> Mark("start")

\* The units of W, the first of which comes after u, come in order.
Stream(u, W) ==
  /\ W # <<>> => Follows(u, W[1])
  /\ \A i, j \in DOMAIN W : j = i + 1 => Follows(W[i], W[j])

LastUnit(u, W) == IF W = <<>> THEN u ELSE W[Len(W)]

\* p has written a header whose body is still to be written.
Owes(p) == writing[p] = <<"header">> /\ Head(out[p]).size > 0

\* A write of p's queue has failed, or cannot but fail: p writes no more.
Stuck(p) == writing[p] = <<"failing">> \/ (writing[p] = <<>> /\ out[p] # <<>>)

\* The last unit p has written, u, says that a body comes exactly if p is about
\* to write that body.  After a failure p writes nothing any more.
Tied(p, u) ==
  ~Stuck(p) =>
    /\ Owes(p) <=> Pending(u)
    /\ Owes(p) => u.n = Head(out[p]).n /\ u.size = Head(out[p]).size

\* The server may get a header where it waits for the answer, and then gives up.
Streaming(e) ==
  /\ open[e]
  /\ e = "server" =>
       \/ reading[e] \in {"header", "body"}
       \/ /\ reading[e] = "answer" /\ Incoming(e) # <<>>
          /\ Incoming(e)[1].unit = "answer"

InStep(e) ==
  Streaming(e) => /\ Stream(Prev(e), Incoming(e))
                  /\ Tied(Peer(e), LastUnit(Prev(e), Incoming(e)))

NoAnswer(W) == \A i \in DOMAIN W : W[i].unit # "answer"

\* Before the server accepts the connection it has done nothing on it.
Unaccepted ==
  key["server"] = "default" =>
    /\ wire["server"] = <<>> /\ posted["server"] = <<>> /\ out["server"] = <<>>
    /\ received["server"] = <<>> /\ ~open["server"] /\ reading["server"] = "none"
    /\ reading["client"] \in {"none", "keys"}
    /\ NoAnswer(wire["client"])

\* The keys come first on the server's wire.
KeysFirst ==
  key["server"] = "session" /\ open["client"] /\ reading["client"] \in {"none", "keys"}
    => wire["server"] # <<>>

\* There is no answer before the client has written it; it never waits for one,
\* and the server never waits for keys.
Unanswered ==
  /\ reading["client"] # "answer" /\ reading["server"] # "keys"
  /\ open["client"] /\ reading["client"] \in {"none", "keys", "copied"} =>
       NoAnswer(wire["client"]) /\ reading["server"] \notin {"header", "body"}

\* Nothing the client has written is read before the answer.
Unread ==
  (key["server"] = "default" \/ reading["server"] = "answer") /\ wire["client"] = <<>>
    => writing["client"] \notin {<<"header">>, <<"body">>}

Handshaking == Unaccepted /\ KeysFirst /\ Unanswered /\ Unread

\* A body that is being read has a size.
BodyHasSize == \A e \in Ends : reading[e] = "body" => tmp[e].size > 0

Aligned == Handshaking /\ \A e \in Ends : InStep(e)

IInv == TypeOK /\ OneWriter /\ BodyHasSize /\ Aligned

\* What may come after u and what may come after v is the same.
Alike(u, v) ==
  /\ Pending(u) <=> Pending(v)
  /\ Pending(u) => u.n = v.n /\ u.size = v.size
  /\ u.unit \notin {"connect", "accept"} /\ v.unit \notin {"connect", "accept"}

\* A unit that may come next keeps the stream in order and becomes the last one.
LEMMA AppendStream ==
  ASSUME NEW S, NEW W \in Seq(S), NEW u, NEW x \in S,
         Stream(u, W), Follows(LastUnit(u, W), x)
  PROVE  /\ Stream(u, Append(W, x))
         /\ LastUnit(u, Append(W, x)) = x
         /\ Append(W, x) # <<>>
<1> DEFINE A == Append(W, x)
<1>1. /\ Len(A) = Len(W) + 1 /\ A[Len(W) + 1] = x /\ A # <<>>
      /\ \A i \in 1 .. Len(W) : A[i] = W[i]
      /\ DOMAIN A = 1 .. Len(W) + 1 /\ DOMAIN W = 1 .. Len(W) /\ Len(W) \in Nat
  BY AppendProperties, LenProperties, SMT
<1> HIDE DEF A
<1>2. LastUnit(u, A) = x
  BY <1>1 DEF LastUnit
<1>3. Follows(u, A[1])
  <2>1. CASE W = <<>>
    BY <1>1, <2>1, SMT DEF LastUnit
  <2>2. CASE W # <<>>
    <3>1. 1 \in 1 .. Len(W)
      BY <2>2, EmptySeq, LenProperties, SMT
    <3> QED
      BY <1>1, <2>2, <3>1 DEF Stream
  <2> QED
    BY <2>1, <2>2
<1>4. ASSUME NEW i \in DOMAIN A, NEW j \in DOMAIN A, j = i + 1
      PROVE  Follows(A[i], A[j])
  <2>1. CASE j = Len(W) + 1
    <3>1. i = Len(W) /\ i \in 1 .. Len(W) /\ W # <<>>
      BY <1>1, <1>4, <2>1, SMT
    <3>2. LastUnit(u, W) = A[i] /\ A[j] = x
      BY <1>1, <2>1, <3>1 DEF LastUnit
    <3> QED
      BY <3>2
  <2>2. CASE j # Len(W) + 1
    <3>1. i \in 1 .. Len(W) /\ j \in 1 .. Len(W)
      BY <1>1, <1>4, <2>2, SMT
    <3> QED
      BY <1>1, <1>4, <3>1 DEF Stream
  <2> QED
    BY <2>1, <2>2
<1> QED
  BY <1>1, <1>2, <1>3, <1>4 DEF Stream, A

\* Reading the first unit leaves a stream behind.
LEMMA TakeStream ==
  ASSUME NEW S, NEW W \in Seq(S), W # <<>>, NEW u, NEW v,
         Stream(u, W), Alike(W[1], v)
  PROVE  /\ Stream(v, Tail(W))
         /\ \/ LastUnit(v, Tail(W)) = LastUnit(u, W)
            \/ LastUnit(u, W) = W[1] /\ LastUnit(v, Tail(W)) = v
<1> DEFINE T == Tail(W)
<1>1. /\ T \in Seq(S) /\ Len(T) = Len(W) - 1 /\ Len(W) \in Nat \ {0}
      /\ \A i \in 1 .. Len(T) : T[i] = W[i + 1]
      /\ DOMAIN T = 1 .. Len(T) /\ DOMAIN W = 1 .. Len(W) /\ Len(T) \in Nat
  BY HeadTailProperties, LenProperties, EmptySeq, SMT
<1> HIDE DEF T
<1>2. Follows(W[1], W[2]) => Follows(v, W[2])
  BY DEF Alike, Follows
<1>3. T # <<>> => Follows(v, T[1])
  <2> SUFFICES ASSUME T # <<>> PROVE Follows(v, T[1])
    OBVIOUS
  <2>1. Len(T) # 0
    BY <1>1, EmptySeq
  <2>2. 1 \in DOMAIN W /\ 2 \in DOMAIN W /\ T[1] = W[2] /\ 2 = 1 + 1
    BY <1>1, <2>1, SMT
  <2> QED
    BY <1>2, <2>2 DEF Stream
<1>4. ASSUME NEW i \in DOMAIN T, NEW j \in DOMAIN T, j = i + 1
      PROVE  Follows(T[i], T[j])
  <2>1. /\ i + 1 \in DOMAIN W /\ j + 1 \in DOMAIN W /\ j + 1 = (i + 1) + 1
        /\ T[i] = W[i + 1] /\ T[j] = W[j + 1]
    BY <1>1, <1>4, SMT
  <2> QED
    BY <2>1 DEF Stream
<1>5. \/ LastUnit(v, T) = LastUnit(u, W)
      \/ LastUnit(u, W) = W[1] /\ LastUnit(v, T) = v
  <2>1. CASE T = <<>>
    <3>1. Len(T) = 0
      BY <1>1, <2>1, EmptySeq
    <3>2. Len(W) = 1
      BY <1>1, <3>1, SMT
    <3> QED
      BY <2>1, <3>2 DEF LastUnit
  <2>2. CASE T # <<>>
    <3>1. Len(T) # 0
      BY <1>1, <2>2, EmptySeq
    <3>2. T[Len(T)] = W[Len(W)]
      BY <1>1, <3>1, SMT
    <3> QED
      BY <2>2, <3>2 DEF LastUnit
  <2> QED
    BY <2>1, <2>2
<1> QED
  BY <1>3, <1>4, <1>5 DEF Stream, T

-----------------------------------------------------------------------------
\* One writer at a time.

\* Every step keeps queue and writer in agreement.
LEMMA OneWriterNext ==
  ASSUME TypeOK, OneWriter, Aligned, [Next]_vars
  PROVE  OneWriter'
<1>0. /\ posted \in [Ends -> Seq(Enciphereds)] /\ out \in [Ends -> Seq(Enciphereds)]
      /\ writing \in [Ends -> Seq(Labels)] /\ open \in [Ends -> BOOLEAN]
      /\ "server" \in Ends /\ "client" \in Ends
  BY DEF TypeOK, Labels, Ends
<1> DEFINE Single(e) == writing'[e] = <<>> \/ \E l \in Labels : writing'[e] = <<l>>
<1>1. ASSUME NEW e \in Ends, Single(e),
             out'[e] = <<>> => writing'[e] = <<>>,
             open'[e] /\ out'[e] # <<>> => writing'[e] # <<>>,
             \A f \in Ends : f # e => /\ out'[f] = out[f] /\ writing'[f] = writing[f]
                                     /\ open'[f] = open[f]
      PROVE  OneWriter'
  <2>1. Len(writing'[e]) <= 1
    <3>1. CASE writing'[e] = <<>>
      BY <3>1, EmptySeq, SMT
    <3>2. CASE \E l \in Labels : writing'[e] = <<l>>
      BY <3>2, Singleton, SMT
    <3> QED
      BY <1>1, <3>1, <3>2
  <2> QED
    BY <1>1, <2>1 DEF OneWriter
<1>2. ASSUME NEW e \in Ends, NEW label \in Labels, NEW u, Write(e, <<>>, label, u)
      PROVE  /\ Single(e) /\ writing'[e] # <<>>
             /\ \A f \in Ends : f # e => writing'[f] = writing[f]
  <2>1. PICK l \in Labels : writing'[e] = <<l>>
    BY <1>2, WriteOne DEF Labels
  <2> QED
    BY <1>2, <2>1, WriteOne, Singleton
<1>3. ASSUME NEW e \in Ends, PopWritten(e), writing[e] # <<>>, UNCHANGED open
      PROVE  OneWriter'
  <2>1. /\ out'[e] = Tail(out[e])
        /\ \A f \in Ends : f # e => out'[f] = out[f]
    BY <1>0, <1>3 DEF PopWritten
  <2>2. Tail(writing[e]) = <<>>
    BY <1>3, OneUnderWay
  <2>3. CASE out'[e] = <<>>
    <3>1. writing'[e] = <<>> /\ \A f \in Ends : f # e => writing'[f] = writing[f]
      BY <1>0, <1>3, <2>2, <2>3 DEF PopWritten
    <3> QED
      BY <1>1, <1>3, <2>1, <2>3, <3>1
  <2>4. CASE out'[e] # <<>>
    <3>1. Write(e, <<>>, "header", HeaderOf(Head(out'[e]))) /\ "header" \in Labels
      BY <1>3, <2>2, <2>4 DEF PopWritten, WriteHeader, Labels
    <3> QED
      BY <1>1, <1>2, <1>3, <2>1, <2>4, <3>1
  <2> QED
    BY <2>3, <2>4
<1>4. ASSUME NEW e \in Ends, RunPosted(e) PROVE OneWriter'
  <2>1. Head(posted[e]) \in Enciphereds
    BY <1>0, <1>4, QueueParts DEF RunPosted
  <2>2. /\ out'[e] = Append(out[e], Head(posted[e]))
        /\ \A f \in Ends : f # e => out'[f] = out[f]
        /\ UNCHANGED open
    BY <1>0, <1>4 DEF RunPosted, linkVars
  <2>3. out'[e] # <<>>
    <3>1. out[e] \in Seq(Enciphereds)
      BY <1>0
    <3> QED
      BY <2>1, <2>2, <3>1, AppendProperties
  <2>4. CASE StartsWriting(e)
    <3>1. writing[e] = <<>>
      BY <2>4 DEF StartsWriting, OneWriter
    <3>2. Write(e, <<>>, "header", HeaderOf(Head(out'[e]))) /\ "header" \in Labels
      BY <1>4, <2>4, <3>1 DEF RunPosted, WriteHeader, Labels
    <3> QED
      BY <1>1, <1>2, <2>2, <2>3, <3>2
  <2>5. CASE ~StartsWriting(e)
    BY <1>4, <2>2, <2>3, <2>5 DEF RunPosted, StartsWriting, OneWriter
  <2> QED
    BY <2>4, <2>5
<1>5. ASSUME NEW e \in Ends, HeaderWritten(e) PROVE OneWriter'
  <2>1. writing[e] # <<>> /\ UNCHANGED open
    BY <1>5 DEF HeaderWritten, Written, linkVars
  <2>2. CASE Head(out[e]).size > 0
    <3>1. Write(e, <<>>, "body", BodyOf(Head(out[e]))) /\ "body" \in Labels /\ UNCHANGED out
      BY <1>5, <2>1, <2>2, OneUnderWay DEF HeaderWritten, WriteBody, Labels
    <3>2. out[e] # <<>>
      BY <2>1, OneUnderWay
    <3> QED
      BY <1>1, <1>2, <2>1, <3>1, <3>2
  <2>3. CASE ~(Head(out[e]).size > 0)
    BY <1>3, <1>5, <2>1, <2>3 DEF HeaderWritten
  <2> QED
    BY <2>2, <2>3
<1>6. ASSUME NEW e \in Ends, BodyWritten(e) PROVE OneWriter'
  BY <1>3, <1>6 DEF BodyWritten, Written, linkVars
<1>7. ASSUME NEW e \in Ends, WriteFails(e) PROVE OneWriter'
  <2>1. /\ writing[e] # <<>> /\ Tail(writing[e]) = <<>>
    BY <1>7, OneUnderWay DEF WriteFails
  <2>2. /\ writing'[e] = <<>> /\ ~open'[e] /\ UNCHANGED out
        /\ \A f \in Ends : f # e => writing'[f] = writing[f] /\ open'[f] = open[f]
    BY <1>0, <1>7, <2>1 DEF WriteFails
  <2> QED
    BY <1>1, <2>2
<1>8. ASSUME UNCHANGED <<out, writing>>, \A e \in Ends : open'[e] => open[e] \/ out[e] = <<>>
      PROVE  OneWriter'
  BY <1>8 DEF OneWriter
<1>9. ASSUME NEW e \in Ends, HeaderRead(e) \/ BodyRead(e) \/ ReadFails(e)
      PROVE  OneWriter'
  <2>1. UNCHANGED <<out, writing>> /\ \A f \in Ends : open'[f] => open[f]
    BY <1>0, <1>9 DEF HeaderRead, BodyRead, ReadFails, writeVars, linkVars
  <2> QED
    BY <1>8, <2>1
<1>10. CASE Accept
  <2>1. UNCHANGED <<out, writing>> /\ open'["client"] = open["client"] /\ out["server"] = <<>>
    BY <1>0, <1>10 DEF Accept, Aligned, Handshaking, Unaccepted
  <2> QED
    BY <1>8, <2>1 DEF Ends
<1>11. CASE TcpUp \/ ConnectFails \/ (Handshake /\ ~Accept) \/ PressKey \/ Exit \/ Serve
            \/ UNCHANGED vars
  <2>1. UNCHANGED <<out, writing>> /\ \A f \in Ends : open'[f] => open[f]
    BY <1>0, <1>11
    DEF TcpUp, ConnectFails, Handshake, KeysWritten, Connected, KeysCopied, KeysAnswered,
        AnswerWritten, KeysFinal, PressKey, Exit, Serve, Send, vars, writeVars, linkVars
  <2> QED
    BY <1>8, <2>1
<1> QED
  BY <1>4, <1>5, <1>6, <1>7, <1>9, <1>10, <1>11 DEF Next, Handler, Handshake

-----------------------------------------------------------------------------
\* The units on the wire.

\* The peer of the peer.
LEMMA Peers ==
  ASSUME NEW e \in Ends
  PROVE  Peer(e) \in Ends /\ Peer(Peer(e)) = e /\ Peer(e) # e
  BY DEF Ends, Peer

\* A direction nobody has touched is still in step; so is one whose reader has
\* closed its socket.
LEMMA SameStream ==
  ASSUME NEW e \in Ends, InStep(e), open'[e] => open[e],
         open'[e] => reading'[e] = reading[e] /\ tmp'[e] = tmp[e],
         wire'[Peer(e)] = wire[Peer(e)],
         Stuck(Peer(e))' \/
           (out'[Peer(e)] = out[Peer(e)] /\ writing'[Peer(e)] = writing[Peer(e)])
  PROVE  InStep(e)'
<1> SUFFICES ASSUME Streaming(e)'
             PROVE  /\ Stream(Prev(e), Incoming(e))'
                    /\ Tied(Peer(e), LastUnit(Prev(e), Incoming(e)))'
  BY DEF InStep
<1>1. /\ open[e] /\ Incoming(e)' = Incoming(e)
      /\ reading'[e] = reading[e] /\ tmp'[e] = tmp[e]
  BY DEF Streaming, Incoming
<1>2. Streaming(e) /\ Prev(e)' = Prev(e)
  BY <1>1 DEF Streaming, Prev
<1>3. Stream(Prev(e), Incoming(e)) /\ Tied(Peer(e), LastUnit(Prev(e), Incoming(e)))
  BY <1>2 DEF InStep
<1>4. Stream(Prev(e), Incoming(e))'
  BY <1>1, <1>2, <1>3 DEF Stream, Follows
<1>5. LastUnit(Prev(e), Incoming(e))' = LastUnit(Prev(e), Incoming(e))
  BY <1>1, <1>2 DEF LastUnit
<1>6. Tied(Peer(e), LastUnit(Prev(e), Incoming(e)))'
  BY <1>3, <1>5 DEF Tied, Owes, Stuck
<1> QED
  BY <1>4, <1>6

\* What a write may find of the stream it goes to.
MayWrite(p, x) ==
  LET e == Peer(p) IN Streaming(e) => Follows(LastUnit(Prev(e), Incoming(e)), x)

\* A write that the stream allows keeps the stream in order, and ties the
\* writer to it if what it owes now is told by the unit.
LEMMA WriteInStep ==
  ASSUME TypeOK, NEW p \in Ends, InStep(Peer(p)), NEW x \in Units, NEW label,
         x.unit \in {"header", "body"}, label \in {"header", "body"},
         Write(p, <<>>, label, x), MayWrite(p, x),
         UNCHANGED <<open, reading, tmp>>,
         writing'[p] = <<label>> =>
           /\ Owes(p)' <=> Pending(x)
           /\ Owes(p)' => x.n = Head(out'[p]).n /\ x.size = Head(out'[p]).size
  PROVE  InStep(Peer(p))'
<1> DEFINE e == Peer(p)
<1>1. e \in Ends /\ Peer(e) = p /\ Incoming(e) = wire[p] /\ Incoming(e)' = wire'[p]
  BY Peers DEF Incoming
<1>2. wire[p] \in Seq(Units) /\ wire \in [Ends -> Seq(Units)] /\ writing \in [Ends -> Seq(Labels)]
  BY DEF TypeOK, Labels
<1>3. Prev(e)' = Prev(e)
  BY DEF Prev
<1>4. CASE ~CanWrite(p)
  <2>1. wire' = wire /\ writing'[p] = <<"failing">>
    BY <1>2, <1>4, WriteOne DEF Write
  <2>2. InStep(e)'
    BY <1>1, <2>1, SameStream DEF Stuck
  <2> QED
    BY <2>2
<1>5. CASE CanWrite(p)
  <2>1. wire'[p] = Append(wire[p], x) /\ writing'[p] = <<label>>
    BY <1>5, WriteOne
  <2> HIDE DEF Units
  <2>2. SUFFICES ASSUME Streaming(e)'
                 PROVE  /\ Stream(Prev(e), Append(wire[p], x))
                        /\ LastUnit(Prev(e), Append(wire[p], x)) = x
    <3>1. Incoming(e)' = Append(wire[p], x)
      BY <1>1, <2>1
    <3>2. Tied(p, x)'
      BY <2>1 DEF Tied
    <3>3. Stream(Prev(e), Append(wire[p], x)) /\ LastUnit(Prev(e), Append(wire[p], x)) = x
          => /\ Stream(Prev(e), Incoming(e))'
             /\ Tied(p, LastUnit(Prev(e), Incoming(e)))'
      <4> SUFFICES ASSUME Stream(Prev(e), Append(wire[p], x)),
                          LastUnit(Prev(e), Append(wire[p], x)) = x
                   PROVE  Stream(Prev(e)', Incoming(e)') /\ Tied(p, LastUnit(Prev(e), Incoming(e)))'
        OBVIOUS
      <4>1. LastUnit(Prev(e), Incoming(e))' = x
        BY <1>3, <3>1 DEF LastUnit
      <4>2. Tied(p, LastUnit(Prev(e), Incoming(e)))'
        BY <3>2, <4>1 DEF Tied
      <4> QED
        BY <1>3, <3>1, <4>2
    <3> QED
      BY <1>1, <3>3 DEF InStep
  <2>3. Streaming(e)
    <3>1. wire'[p][1] = IF wire[p] = <<>> THEN x ELSE wire[p][1]
      BY <1>2, <2>1, AppendProperties, EmptySeq, LenProperties, SMT
    <3>2. e = "server" /\ reading[e] = "answer" => wire[p] # <<>> /\ wire[p][1].unit = "answer"
      BY <1>1, <2>2, <3>1 DEF Streaming
    <3> QED
      BY <1>1, <2>2, <3>2 DEF Streaming
  <2>4. Stream(Prev(e), wire[p]) /\ Follows(LastUnit(Prev(e), wire[p]), x)
    BY <1>1, <2>3 DEF InStep, MayWrite
  <2> QED
    BY <1>2, <2>4, AppendStream
<1> QED
  BY <1>4, <1>5

\* Such a write also keeps the handshake's order: the server does not write
\* before it has accepted, and what is written is no answer.
LEMMA WriteHandshaking ==
  ASSUME TypeOK, Handshaking, NEW p \in Ends, NEW x \in Units, NEW label,
         x.unit \in {"header", "body"}, Write(p, <<>>, label, x),
         UNCHANGED <<open, reading, key, received>>,
         p = "server" => key["server"] # "default",
         p = "client" => posted'["server"] = posted["server"] /\ out'["server"] = out["server"]
  PROVE  Handshaking'
<1>1. wire \in [Ends -> Seq(Units)] /\ writing \in [Ends -> Seq(Labels)]
  BY DEF TypeOK, Labels
<1> HIDE DEF Units
<1>2. \A f \in Ends : wire'[f] = wire[f] \/ (f = p /\ wire'[f] = Append(wire[f], x))
  BY WriteOne
<1>3. \A f \in Ends : /\ wire[f] # <<>> => wire'[f] # <<>>
                      /\ NoAnswer(wire[f]) => NoAnswer(wire'[f])
  <2> SUFFICES ASSUME NEW f \in Ends, wire'[f] = Append(wire[f], x)
               PROVE  wire'[f] # <<>> /\ (NoAnswer(wire[f]) => NoAnswer(wire'[f]))
    BY <1>2
  <2>1. /\ \A i \in DOMAIN Append(wire[f], x) :
             Append(wire[f], x)[i] = x \/ (i \in DOMAIN wire[f] /\ Append(wire[f], x)[i] = wire[f][i])
        /\ Append(wire[f], x) # <<>>
    BY <1>1, AppendProperties, LenProperties, SMT
  <2> QED
    BY <2>1 DEF NoAnswer
<1>4. {"server", "client"} = Ends
  BY DEF Ends
<1>5. Unaccepted'
  <2> SUFFICES ASSUME key["server"] = "default" PROVE Unaccepted'
    BY DEF Unaccepted
  <2>1. p = "client"
    BY <1>4
  <2> QED
    BY <1>2, <1>3, <1>4, <2>1 DEF Handshaking, Unaccepted
<1>6. KeysFirst' /\ Unanswered'
  BY <1>3, <1>4 DEF Handshaking, KeysFirst, Unanswered
<1>7. Unread'
  <2> SUFFICES ASSUME (key["server"] = "default" \/ reading["server"] = "answer"),
                      wire'["client"] = <<>>
               PROVE  writing'["client"] \notin {<<"header">>, <<"body">>}
    BY DEF Unread
  <2>1. wire["client"] = <<>> /\ writing["client"] \notin {<<"header">>, <<"body">>}
    BY <1>3, <1>4 DEF Handshaking, Unread
  <2>2. CASE p = "client"
    <3>1. Append(wire[p], x) # <<>>
      BY <1>1, AppendProperties
    <3>2. wire'[p] = <<>>
      BY <2>2
    <3>3. writing'[p] = <<"failing">>
      BY <3>1, <3>2, WriteOne
    <3> QED
      BY <2>2, <3>3
  <2>3. CASE p # "client"
    BY <1>4, <2>1, <2>3, WriteOne
  <2> QED
    BY <2>2, <2>3
<1> QED
  BY <1>5, <1>6, <1>7 DEF Handshaking

\* The header of a message tells of its body.
LEMMA HeaderTells ==
  ASSUME NEW m \in Enciphereds
  PROVE  /\ HeaderOf(m) \in Units /\ HeaderOf(m).unit = "header"
         /\ HeaderOf(m).n = m.n /\ HeaderOf(m).size = m.size
         /\ Pending(HeaderOf(m)) <=> m.size > 0
         /\ BodyOf(m) \in Units /\ BodyOf(m).unit = "body" /\ ~Pending(BodyOf(m))
         /\ BodyOf(m).n = m.n /\ BodyOf(m).size = m.size
  BY UnitTypes DEF HeaderOf, BodyOf, Pending

\* Whoever owes no body may write a header, unless its last write has failed.
LEMMA MayWriteHeader ==
  ASSUME NEW p \in Ends, InStep(Peer(p)), ~Owes(p),
         ~Stuck(p), NEW x, x.unit = "header",
         Streaming(Peer(p)) /\ Incoming(Peer(p)) = <<>> =>
           reading[Peer(p)] \notin {"none", "keys", "answer"},
         \A i \in DOMAIN wire[p] : wire[p][i].unit \notin {"connect", "accept"}
  PROVE  MayWrite(p, x)
<1> DEFINE e == Peer(p)
           u == LastUnit(Prev(e), Incoming(e))
<1> SUFFICES ASSUME Streaming(e) PROVE Follows(u, x)
  BY DEF MayWrite
<1>1. Incoming(e) = wire[p] /\ Peer(e) = p
  BY Peers DEF Incoming
<1>2. ~Pending(u)
  BY <1>1 DEF InStep, Tied
<1>3. u.unit \notin {"connect", "accept"}
  <2>1. CASE Incoming(e) = <<>>
    <3>1. Prev(e).unit \in {"header", "start"}
      BY <2>1 DEF Prev, Mark
    <3> QED
      BY <2>1, <3>1 DEF LastUnit
  <2>2. CASE Incoming(e) # <<>>
    BY <1>1, <2>2 DEF LastUnit
  <2> QED
    BY <2>1, <2>2
<1> HIDE DEF u
<1> QED
  BY <1>2, <1>3 DEF Follows

\* The units of a wire have the labels of units.
LEMMA WireUnits ==
  ASSUME TypeOK, NEW p \in Ends
  PROVE  /\ wire[p] \in Seq(Units)
         /\ \A i \in DOMAIN wire[p] : wire[p][i].unit \in {"keys", "answer", "header", "body"}
<1>1. wire[p] \in Seq(Units)
  BY DEF TypeOK
<1>2. \A u \in Units : u.unit \in {"keys", "answer", "header", "body"}
  BY DEF Units
<1> HIDE DEF Units
<1> QED
  BY <1>1, <1>2, ElementOfSeq, LenProperties

\* A writer that has something to write towards an open reader has not an empty
\* wire in front of the handshake.
LEMMA WriterKnows ==
  ASSUME TypeOK, Aligned, NEW p \in Ends, p = "server" => key["server"] # "default",
         Streaming(Peer(p)), Incoming(Peer(p)) = <<>>
  PROVE  reading[Peer(p)] \notin {"none", "keys", "answer"}
<1>1. CASE p = "server"
  <2>1. Peer(p) = "client" /\ open["client"] /\ wire["server"] = <<>>
    BY <1>1, Peers DEF Peer, Streaming, Incoming
  <2>2. key["server"] = "session" /\ reading["client"] # "answer"
    <3>1. key["server"] \in Keys
      BY DEF TypeOK, Ends
    <3> QED
      BY <1>1, <3>1 DEF Keys, Aligned, Handshaking, Unanswered
  <2> QED
    BY <2>1, <2>2 DEF Aligned, Handshaking, KeysFirst
<1>2. CASE p = "client"
  BY <1>2 DEF Peer, Streaming, Ends
<1> QED
  BY <1>1, <1>2 DEF Ends

\* The header of the next message goes out where a header is due.
LEMMA NextHeader ==
  ASSUME TypeOK, Aligned, NEW p \in Ends, ~Owes(p),
         ~Stuck(p),
         p = "server" => key["server"] # "default",
         p = "client" => posted'["server"] = posted["server"] /\ out'["server"] = out["server"],
         NEW m \in Enciphereds, WriteHeader(p, <<>>, m), Head(out'[p]) = m,
         UNCHANGED <<open, reading, tmp, key, received>>
  PROVE  Handshaking' /\ InStep(Peer(p))'
<1> DEFINE x == HeaderOf(m)
<1>1. x \in Units /\ x.unit = "header" /\ x.n = m.n /\ x.size = m.size
      /\ (Pending(x) <=> m.size > 0)
  BY HeaderTells
<1>2. Peer(p) \in Ends /\ InStep(Peer(p))
  BY Peers DEF Aligned
<1>3. Write(p, <<>>, "header", x)
  BY DEF WriteHeader
<1> HIDE DEF x
<1>4. MayWrite(p, x)
  BY <1>1, <1>2, WriterKnows, WireUnits, MayWriteHeader
<1>5. writing'[p] = <<"header">> =>
        /\ Owes(p)' <=> Pending(x)
        /\ Owes(p)' => x.n = Head(out'[p]).n /\ x.size = Head(out'[p]).size
  BY <1>1 DEF Owes
<1>6. InStep(Peer(p))'
  BY <1>1, <1>2, <1>3, <1>4, <1>5, WriteInStep
<1>7. Handshaking'
  BY <1>1, <1>3, WriteHandshaking DEF Aligned
<1> QED
  BY <1>6, <1>7

\* The other direction is not touched by a writer.
LEMMA OtherDirection ==
  ASSUME Aligned, NEW p \in Ends, UNCHANGED <<open, reading, tmp>>,
         \A f \in Ends : f # p => /\ wire'[f] = wire[f] /\ out'[f] = out[f]
                                  /\ writing'[f] = writing[f]
  PROVE  InStep(p)'
<1>1. Peer(p) \in Ends /\ Peer(p) # p /\ InStep(p)
  BY Peers DEF Aligned
<1> QED
  BY <1>1, SameStream

\* Whoever starts a write touches its own wire and label only.
LEMMA WriteOwn ==
  ASSUME TypeOK, NEW p \in Ends, NEW label, NEW x, Write(p, <<>>, label, x)
  PROVE  \A f \in Ends : f # p => wire'[f] = wire[f] /\ writing'[f] = writing[f]
  BY WriteOne

\* Both directions of an aligned connection are those towards p and its peer.
LEMMA BothDirections ==
  ASSUME NEW p \in Ends, InStep(p)', InStep(Peer(p))', Handshaking'
  PROVE  Aligned'
<1>1. Ends = {p, Peer(p)}
  BY DEF Ends, Peer
<1> QED
  BY <1>1 DEF Aligned

\* The posted function keeps the connection aligned.
LEMMA RunPostedAligned ==
  ASSUME TypeOK, OneWriter, Aligned, NEW p \in Ends, RunPosted(p)
  PROVE  Aligned'
<1>1. /\ out \in [Ends -> Seq(Enciphereds)] /\ posted \in [Ends -> Seq(Enciphereds)]
      /\ "server" \in Ends
  BY DEF TypeOK, Ends
<1>2. Head(posted[p]) \in Enciphereds
  BY <1>1, QueueParts DEF RunPosted
<1>3. /\ out'[p] = Append(out[p], Head(posted[p]))
      /\ \A f \in Ends : f # p => out'[f] = out[f] /\ posted'[f] = posted[f]
  BY <1>1 DEF RunPosted
<1>4. UNCHANGED <<open, reading, tmp, key, received>>
  BY DEF RunPosted, linkVars, cipherVars, readVars
<1>5. p = "server" => key["server"] # "default"
  BY DEF Aligned, Handshaking, Unaccepted, RunPosted
<1>6. CASE StartsWriting(p)
  <2>1. out[p] = <<>> /\ writing[p] = <<>>
    BY <1>6 DEF StartsWriting, OneWriter
  <2>2. Head(out'[p]) = Head(posted[p])
    BY <1>3, <2>1, SMT
  <2>3. WriteHeader(p, <<>>, Head(out'[p]))
    BY <1>6, <2>1 DEF RunPosted
  <2>4. ~Owes(p) /\ ~Stuck(p)
    BY <2>1 DEF Owes, Stuck
  <2>5. Handshaking' /\ InStep(Peer(p))'
    BY <1>1, <1>2, <1>3, <1>4, <1>5, <2>1, <2>2, <2>3, <2>4, NextHeader
  <2>6. InStep(p)'
    BY <1>3, <1>4, <2>3, WriteOwn, OtherDirection DEF WriteHeader
  <2> QED
    BY <2>5, <2>6, BothDirections
<1>7. CASE ~StartsWriting(p)
  <2>1. UNCHANGED <<writing, wire>> /\ out[p] # <<>>
    BY <1>7 DEF RunPosted, StartsWriting
  <2>2. Head(out'[p]) = Head(out[p])
    BY <1>1, <1>2, <1>3, <2>1, AppendProperties, EmptySeq, LenProperties, SMT
  <2>3. InStep(p)'
    BY <1>3, <1>4, <2>1, OtherDirection
  <2>4. InStep(Peer(p))'
    <3> DEFINE e == Peer(p)
    <3>1. e \in Ends /\ InStep(e) /\ Peer(e) = p
      BY Peers DEF Aligned
    <3>2. /\ Prev(e)' = Prev(e) /\ Incoming(e)' = Incoming(e)
          /\ Streaming(e)' <=> Streaming(e)
          /\ Owes(p)' <=> Owes(p)
          /\ Stuck(p)' <=> Stuck(p)
      <4>1. out'[p] # <<>>
        BY <1>1, <1>2, <1>3, AppendProperties
      <4> QED
        BY <1>4, <2>1, <2>2, <4>1 DEF Prev, Incoming, Streaming, Owes, Stuck
    <3> QED
      BY <2>1, <2>2, <3>1, <3>2 DEF InStep, Tied, Stream, LastUnit
  <2>5. Handshaking'
    <3>1. key["server"] = "default" => p # "server"
      BY <1>5
    <3> QED
      BY <1>1, <1>3, <1>4, <2>1, <3>1
      DEF Aligned, Handshaking, Unaccepted, KeysFirst, Unanswered, Unread
  <2> QED
    BY <2>3, <2>4, <2>5, BothDirections
<1> QED
  BY <1>6, <1>7

\* Popping a message that is completely written, and starting the next one.
LEMMA PopWrittenAligned ==
  ASSUME TypeOK, OneWriter, Aligned, NEW p \in Ends, PopWritten(p), out[p] # <<>>,
         ~Owes(p), ~Stuck(p), writing[p] # <<>>,
         UNCHANGED <<open, reading, tmp, key, received, posted>>
  PROVE  Aligned'
<1>1. out \in [Ends -> Seq(Enciphereds)] /\ writing \in [Ends -> Seq(Labels)]
      /\ "server" \in Ends
  BY DEF TypeOK, Ends, Labels
<1>2. out'[p] = Tail(out[p]) /\ \A f \in Ends : f # p => out'[f] = out[f]
  BY <1>1 DEF PopWritten
<1>3. Tail(out[p]) \in Seq(Enciphereds)
  BY <1>1, QueueParts
<1>4. p = "server" => key["server"] # "default"
  BY DEF Aligned, Handshaking, Unaccepted
<1>5. CASE out'[p] = <<>>
  <2>1. wire' = wire /\ writing'[p] = <<>> /\ \A f \in Ends : f # p => writing'[f] = writing[f]
    BY <1>1, <1>5, OneUnderWay DEF PopWritten
  <2>2. InStep(p)'
    BY <1>2, <2>1, OtherDirection
  <2>3. InStep(Peer(p))'
    <3> DEFINE e == Peer(p)
    <3>1. e \in Ends /\ InStep(e) /\ Peer(e) = p
      BY Peers DEF Aligned
    <3>2. /\ Prev(e)' = Prev(e) /\ Incoming(e)' = Incoming(e)
          /\ Streaming(e)' <=> Streaming(e)
          /\ ~Owes(p)'
      BY <2>1 DEF Prev, Incoming, Streaming, Owes
    <3> QED
      BY <3>1, <3>2 DEF InStep, Tied, Stream, LastUnit
  <2>4. Handshaking'
    <3>1. <<>> \notin {<<"header">>, <<"body">>}
      BY Singleton
    <3>2. writing'["client"] \in {<<>>, writing["client"]}
      BY <2>1, Peers DEF Ends
    <3>3. Unread'
      BY <2>1, <3>1, <3>2 DEF Aligned, Handshaking, Unread
    <3> QED
      BY <1>1, <1>2, <1>4, <2>1, <3>3
      DEF Aligned, Handshaking, Unaccepted, KeysFirst, Unanswered, Ends
  <2> QED
    BY <2>2, <2>3, <2>4, BothDirections
<1>6. CASE out'[p] # <<>>
  <2>1. WriteHeader(p, <<>>, Head(out'[p])) /\ Head(out'[p]) \in Enciphereds
    BY <1>2, <1>3, <1>6, QueueParts, OneUnderWay DEF PopWritten
  <2>2. p = "client" => posted'["server"] = posted["server"] /\ out'["server"] = out["server"]
    BY <1>1, <1>2
  <2>3. Handshaking' /\ InStep(Peer(p))'
    BY <1>4, <2>1, <2>2, NextHeader
  <2>4. InStep(p)'
    BY <1>2, <2>1, WriteOwn, OtherDirection DEF WriteHeader
  <2> QED
    BY <2>3, <2>4, BothDirections
<1> QED
  BY <1>5, <1>6

\* The write handlers keep the connection aligned: the body goes out directly
\* after its header.
LEMMA WrittenAligned ==
  ASSUME TypeOK, OneWriter, Aligned, NEW p \in Ends,
         HeaderWritten(p) \/ BodyWritten(p) \/ WriteFails(p)
  PROVE  Aligned'
<1>1. CASE BodyWritten(p)
  <2>1. writing[p] = <<"body">> /\ out[p] # <<>>
    BY <1>1, OneUnderWay DEF BodyWritten, Written
  <2>2. /\ PopWritten(p) /\ ~Owes(p) /\ ~Stuck(p) /\ writing[p] # <<>>
        /\ UNCHANGED <<open, reading, tmp, key, received, posted>>
    BY <1>1, <2>1 DEF BodyWritten, Owes, Stuck, linkVars, cipherVars, readVars
  <2> QED
    BY <2>1, <2>2, PopWrittenAligned
<1>2. CASE HeaderWritten(p)
  <2>0. writing[p] = <<"header">> /\ out[p] # <<>> /\ Tail(writing[p]) = <<>>
    BY <1>2, OneUnderWay DEF HeaderWritten, Written
  <2>1. /\ out[p] # <<>> /\ ~Stuck(p) /\ writing[p] # <<>>
        /\ UNCHANGED <<open, reading, tmp, key, received, posted>>
    BY <1>2, <2>0 DEF HeaderWritten, Stuck, linkVars, cipherVars, readVars
  <2>2. CASE ~(Head(out[p]).size > 0)
    <3>1. PopWritten(p) /\ ~Owes(p)
      BY <1>2, <2>2 DEF HeaderWritten, Owes
    <3> QED
      BY <2>1, <3>1, PopWrittenAligned
  <2>3. CASE Head(out[p]).size > 0
    <3> DEFINE m == Head(out[p])
               e == Peer(p)
               x == BodyOf(m)
    <3>1. m \in Enciphereds
      BY <2>1, QueueParts DEF TypeOK
    <3>2. Write(p, <<>>, "body", x) /\ out' = out /\ Owes(p)
      BY <1>2, <2>0, <2>3 DEF HeaderWritten, WriteBody, Owes
    <3>3. e \in Ends /\ InStep(e) /\ Peer(e) = p
      BY Peers DEF Aligned
    <3>4. /\ x \in Units /\ x.unit = "body" /\ ~Pending(x)
          /\ x.n = m.n /\ x.size = m.size
      BY <3>1, HeaderTells
    <3> HIDE DEF x
    <3>5. MayWrite(p, x)
      <4> DEFINE u == LastUnit(Prev(e), Incoming(e))
      <4> SUFFICES ASSUME Streaming(e) PROVE Follows(u, x)
        BY DEF MayWrite
      <4>1. Pending(u) /\ u.n = m.n /\ u.size = m.size
        BY <2>1, <3>2, <3>3 DEF InStep, Tied
      <4> HIDE DEF u
      <4> QED
        BY <3>4, <4>1 DEF Follows
    <3>6. writing'[p] = <<"body">> =>
            /\ Owes(p)' <=> Pending(x)
            /\ Owes(p)' => x.n = Head(out'[p]).n /\ x.size = Head(out'[p]).size
      BY <3>4 DEF Owes
    <3>7. InStep(e)'
      BY <2>1, <3>2, <3>3, <3>4, <3>5, <3>6, WriteInStep
    <3>8. Handshaking'
      <4>1. p = "server" => key["server"] # "default"
        BY <2>1 DEF Aligned, Handshaking, Unaccepted
      <4> QED
        BY <2>1, <3>2, <3>4, <4>1, WriteHandshaking DEF Aligned
    <3>9. InStep(p)'
      BY <2>1, <3>2, WriteOwn, OtherDirection
    <3> QED
      BY <3>7, <3>8, <3>9, BothDirections
  <2> QED
    BY <2>2, <2>3
<1>3. CASE WriteFails(p)
  <2>0. Tail(writing[p]) = <<>> /\ out[p] # <<>>
    BY <1>3, OneUnderWay DEF WriteFails
  <2>1. /\ writing'[p] = <<>> /\ Stuck(p)' /\ open'[p] = FALSE
        /\ \A f \in Ends : f # p => writing'[f] = writing[f] /\ open'[f] = open[f]
        /\ UNCHANGED <<out, wire, reading, tmp, key, received, posted>>
    BY <1>3, <2>0 DEF WriteFails, cipherVars, readVars, TypeOK, Stuck
  <2>2. Peer(p) \in Ends /\ Peer(p) # p /\ Peer(Peer(p)) = p /\ InStep(p) /\ InStep(Peer(p))
    BY Peers DEF Aligned
  <2>3. InStep(p)'
    BY <2>1 DEF InStep, Streaming
  <2>4. InStep(Peer(p))'
    BY <2>1, <2>2, SameStream
  <2>5. Handshaking'
    BY <2>1 DEF Aligned, Handshaking, Unaccepted, KeysFirst, Unanswered, Unread, Ends
  <2> QED
    BY <2>3, <2>4, <2>5, BothDirections
<1> QED
  BY <1>1, <1>2, <1>3

\* Reading a unit that leaves the reader where the unit did keeps the stream.
LEMMA TakeInStep ==
  ASSUME TypeOK, NEW e \in Ends, InStep(e), Streaming(e), Incoming(e) # <<>>,
         wire' = [wire EXCEPT ![Peer(e)] = Tail(@)], UNCHANGED <<out, writing>>,
         Streaming(e)' => Alike(Incoming(e)[1], Prev(e)')
  PROVE  InStep(e)'
<1> DEFINE p == Peer(e)
           W == Incoming(e)
<1>1. p \in Ends /\ W = wire[p] /\ Incoming(e)' = Tail(W) /\ W \in Seq(Units)
  BY Peers DEF Incoming, TypeOK
<1> SUFFICES ASSUME Streaming(e)'
             PROVE  Stream(Prev(e)', Tail(W)) /\ Tied(p, LastUnit(Prev(e), Incoming(e)))'
  BY <1>1 DEF InStep
<1>2. Stream(Prev(e), W) /\ Tied(p, LastUnit(Prev(e), W)) /\ Alike(W[1], Prev(e)')
  BY DEF InStep
<1> HIDE DEF Units, W
<1>3. /\ Stream(Prev(e)', Tail(W))
      /\ \/ LastUnit(Prev(e)', Tail(W)) = LastUnit(Prev(e), W)
         \/ LastUnit(Prev(e), W) = W[1] /\ LastUnit(Prev(e)', Tail(W)) = Prev(e)'
  BY <1>1, <1>2, TakeStream DEF W
<1>4. LastUnit(Prev(e), Incoming(e))' = LastUnit(Prev(e)', Tail(W))
  BY <1>1 DEF LastUnit
<1>5. Tied(p, LastUnit(Prev(e), Incoming(e)))'
  <2>1. Owes(p)' <=> Owes(p)
    BY DEF Owes
  <2> QED
    BY <1>2, <1>3, <1>4, <2>1 DEF Tied, Alike, Stuck
<1> QED
  BY <1>3, <1>5

\* The first unit of a stream in step is the one the reader waits for.
LEMMA FirstUnit ==
  ASSUME TypeOK, Aligned, NEW e \in Ends, open[e], Incoming(e) # <<>>
  PROVE  /\ reading[e] = "header" => Incoming(e)[1].unit = "header"
         /\ reading[e] = "body" /\ tmp[e].size > 0 =>
              /\ Incoming(e)[1].unit = "body"
              /\ Incoming(e)[1].n = tmp[e].n /\ Incoming(e)[1].size = tmp[e].size
         /\ e = "client" /\ reading[e] \in {"none", "keys"} => Incoming(e)[1].unit = "keys"
         /\ reading[e] \in {"header", "body"} => Streaming(e)
         /\ e = "client" => Streaming(e)
         /\ Incoming(e) \in Seq(Units) /\ Head(Incoming(e)) = Incoming(e)[1]
         /\ Head(Incoming(e)) \in Units
<1>1. Streaming(e) => Follows(Prev(e), Incoming(e)[1])
  BY DEF Aligned, InStep, Stream
<1>2. (reading[e] \in {"header", "body"} \/ e = "client") => Streaming(e)
  BY DEF Streaming
<1>3. Incoming(e) \in Seq(Units) /\ Peer(e) \in Ends
  BY Peers DEF Incoming, TypeOK
<1>4. Head(Incoming(e)) = Incoming(e)[1] /\ Head(Incoming(e)) \in Units
  <2> HIDE DEF Units
  <2> QED
    BY <1>3, QueueParts, EmptySeq, SMT
<1> QED
  BY <1>1, <1>2, <1>3, <1>4 DEF Follows, Pending, Prev, Mark

\* The read handlers keep the connection aligned.
LEMMA HeaderReadAligned ==
  ASSUME TypeOK, Aligned, NEW e \in Ends, HeaderRead(e)
  PROVE  Aligned'
<1> DEFINE h == Head(Incoming(e))
<1>1. /\ reading[e] = "header" /\ Incoming(e) # <<>> /\ open[e]
      /\ wire' = [wire EXCEPT ![Peer(e)] = Tail(@)]
      /\ UNCHANGED <<out, writing, key, posted>>
  BY DEF HeaderRead, CanRead, cipherVars, writeVars
<1>2. /\ h.unit = "header" /\ h = Incoming(e)[1] /\ h \in Units /\ Streaming(e)
  BY <1>1, FirstUnit
<1>3. /\ tmp'[e].n = h.n /\ tmp'[e].size = h.size
      /\ \A f \in Ends : f # e => /\ tmp'[f] = tmp[f] /\ reading'[f] = reading[f]
                                  /\ open'[f] = open[f] /\ received'[f] = received[f]
      /\ \/ h.size > 0 /\ reading'[e] = "body"
         \/ ~(h.size > 0) /\ reading'[e] = "header"
         \/ ~open'[e] /\ reading'[e] = "none"
      /\ open'[e] => open[e]
  BY <1>1 DEF HeaderRead, AddToIncoming, TypeOK
<1>4. /\ Peer(e) \in Ends /\ Peer(e) # e /\ Peer(Peer(e)) = e
      /\ InStep(e) /\ InStep(Peer(e))
  BY Peers DEF Aligned
<1> HIDE DEF h
<1>5. InStep(e)'
  <2>1. open'[e] => Alike(h, Prev(e)')
    BY <1>2, <1>3 DEF Alike, Prev, Mark, Pending
  <2>2. Streaming(e)' => open'[e]
    BY DEF Streaming
  <2> QED
    BY <1>1, <1>2, <1>4, <2>1, <2>2, TakeInStep
<1>6. InStep(Peer(e))'
  <2>1. wire'[e] = wire[e]
    BY <1>1, <1>4 DEF TypeOK
  <2> QED
    BY <1>1, <1>3, <1>4, <2>1, SameStream
<1>7. Handshaking'
  <2>1. CASE e = "server"
    <3>1. wire'["server"] = wire["server"] /\ "client" \in Ends
      BY <1>1, <1>4, <2>1 DEF TypeOK, Ends
    <3> QED
      BY <1>1, <1>3, <2>1, <3>1
      DEF Aligned, Handshaking, Unaccepted, KeysFirst, Unanswered, Unread
  <2>2. CASE e = "client"
    <3>1. wire'["client"] = wire["client"] /\ "server" \in Ends
      BY <1>1, <1>4, <2>2 DEF TypeOK, Ends
    <3> QED
      BY <1>1, <1>3, <2>2, <3>1
      DEF Aligned, Handshaking, Unaccepted, KeysFirst, Unanswered, Unread
  <2> QED
    BY <2>1, <2>2 DEF Ends
<1> QED
  BY <1>5, <1>6, <1>7, BothDirections

\* Reading a body leaves the reader at a header.
LEMMA BodyReadAligned ==
  ASSUME TypeOK, BodyHasSize, Aligned, NEW e \in Ends, BodyRead(e)
  PROVE  Aligned'
<1> DEFINE b == Incoming(e)[1]
<1>1. /\ reading[e] = "body" /\ Incoming(e) # <<>> /\ open[e]
      /\ wire' = [wire EXCEPT ![Peer(e)] = Tail(@)]
      /\ UNCHANGED <<out, writing, key, posted, open>>
  BY DEF BodyRead, CanRead, linkVars, writeVars
<1>2. b.unit = "body" /\ Streaming(e)
  BY <1>1, FirstUnit DEF BodyHasSize
<1>3. /\ reading'[e] = "header"
      /\ \A f \in Ends : f # e => /\ tmp'[f] = tmp[f] /\ reading'[f] = reading[f]
                                  /\ received'[f] = received[f]
  BY DEF BodyRead, AddToIncoming, TypeOK
<1>4. /\ Peer(e) \in Ends /\ Peer(e) # e /\ Peer(Peer(e)) = e
      /\ InStep(e) /\ InStep(Peer(e))
  BY Peers DEF Aligned
<1>5. InStep(e)'
  <2>1. Alike(b, Prev(e)')
    BY <1>2, <1>3 DEF Alike, Prev, Mark, Pending
  <2> QED
    BY <1>1, <1>2, <1>4, <2>1, TakeInStep
<1>6. InStep(Peer(e))'
  <2>1. wire'[e] = wire[e]
    BY <1>1, <1>4 DEF TypeOK
  <2> QED
    BY <1>1, <1>3, <1>4, <2>1, SameStream
<1>7. Handshaking'
  <2>1. CASE e = "server"
    <3>1. wire'["server"] = wire["server"] /\ "client" \in Ends
      BY <1>1, <1>4, <2>1 DEF TypeOK, Ends
    <3> QED
      BY <1>1, <1>3, <2>1, <3>1
      DEF Aligned, Handshaking, Unaccepted, KeysFirst, Unanswered, Unread
  <2>2. CASE e = "client"
    <3>1. wire'["client"] = wire["client"] /\ "server" \in Ends
      BY <1>1, <1>4, <2>2 DEF TypeOK, Ends
    <3> QED
      BY <1>1, <1>3, <2>2, <3>1
      DEF Aligned, Handshaking, Unaccepted, KeysFirst, Unanswered, Unread
  <2> QED
    BY <2>1, <2>2 DEF Ends
<1> QED
  BY <1>5, <1>6, <1>7, BothDirections

\* A read that fails ends its direction.
LEMMA ReadFailsAligned ==
  ASSUME TypeOK, Aligned, NEW e \in Ends, ReadFails(e)
  PROVE  Aligned'
<1>1. /\ reading[e] \notin {"none", "copied"}
      /\ reading'[e] = "none" /\ open'[e] = FALSE
      /\ \A f \in Ends : f # e => reading'[f] = reading[f] /\ open'[f] = open[f]
      /\ UNCHANGED <<wire, out, writing, posted, tmp, key, received>>
  BY DEF ReadFails, writeVars, cipherVars, TypeOK
<1>2. Peer(e) \in Ends /\ Peer(e) # e /\ InStep(Peer(e))
  BY Peers DEF Aligned
<1>3. InStep(e)'
  BY <1>1 DEF InStep, Streaming
<1>4. InStep(Peer(e))'
  BY <1>1, <1>2, SameStream
<1>5. Handshaking'
  BY <1>1 DEF Aligned, Handshaking, Unaccepted, KeysFirst, Unanswered, Unread, Ends
<1> QED
  BY <1>3, <1>4, <1>5, BothDirections

\* Steps that leave wires, queues and reads alone and open no socket.
LEMMA QuietAligned ==
  ASSUME Aligned,
         UNCHANGED <<wire, out, writing, tmp, key, received>>,
         reading' = reading \/
           (reading["client"] = "none" /\ reading' = [reading EXCEPT !["client"] = "keys"]) \/
           (reading["client"] = "answering" /\ reading' = [reading EXCEPT !["client"] = "header"]),
         TypeOK, \A e \in Ends : open'[e] => open[e],
         key["server"] = "default" => posted'["server"] = posted["server"]
  PROVE  Aligned'
<1>0. "client" \in Ends /\ "server" \in Ends /\ reading \in [Ends -> {"none", "keys",
        "copied", "answering", "answer", "header", "body"}]
  BY DEF TypeOK, Ends
<1>1. Handshaking'
  BY <1>0 DEF Aligned, Handshaking, Unaccepted, KeysFirst, Unanswered, Unread
<1>2. ASSUME NEW e \in Ends PROVE InStep(e)'
  <2>1. InStep(e) /\ (open'[e] => open[e])
    BY DEF Aligned
  <2>2. Prev(e)' = Prev(e)
    BY <1>0 DEF Prev, Mark
  <2>3. Streaming(e)' => Streaming(e)
    BY <1>0, <2>1 DEF Streaming, Incoming
  <2>4. Incoming(e)' = Incoming(e)
    BY DEF Incoming
  <2> QED
    BY <2>1, <2>2, <2>3, <2>4 DEF InStep, Tied, Owes, Stuck, Stream, LastUnit
<1> QED
  BY <1>1, <1>2 DEF Aligned

\* The server's accept handler puts the keys first on its wire.
LEMMA AcceptAligned ==
  ASSUME TypeOK, OneWriter, Aligned, Accept
  PROVE  Aligned'
<1>1. "server" \in Ends /\ "client" \in Ends /\ wire \in [Ends -> Seq(Units)]
  BY DEF TypeOK, Ends
<1>2. PICK k : /\ k.unit = "keys"
               /\ wire' = [wire EXCEPT !["server"] = Append(@, k)]
  BY DEF Accept
<1>3. /\ key["server"] = "default" /\ key'["server"] = "session"
      /\ reading'["server"] = "answer" /\ reading'["client"] = reading["client"]
      /\ open'["client"] = open["client"]
      /\ UNCHANGED <<out, writing, tmp, received>>
  BY <1>1 DEF Accept, TypeOK
<1>4. /\ wire["server"] = <<>> /\ out["server"] = <<>>
      /\ reading["client"] \in {"none", "keys"} /\ NoAnswer(wire["client"])
  BY <1>3 DEF Aligned, Handshaking, Unaccepted
<1>5. /\ wire'["client"] = wire["client"]
      /\ wire'["server"] = Append(<<>>, k)
  BY <1>1, <1>2, <1>4
<1>6. InStep("server")'
  <2>1. ~Streaming("server")'
    <3> SUFFICES ASSUME Streaming("server")' PROVE FALSE
      OBVIOUS
    <3>1. wire["client"] # <<>> /\ wire["client"][1].unit = "answer"
      BY <1>3, <1>5 DEF Streaming, Incoming, Peer
    <3>2. 1 \in DOMAIN wire["client"]
      <4> HIDE DEF Units
      <4> QED
        BY <1>1, <3>1, EmptySeq, LenProperties, SMT
    <3> QED
      BY <1>4, <3>1, <3>2 DEF NoAnswer
  <2> QED
    BY <2>1 DEF InStep
<1>7. InStep("client")'
  <2>1. Prev("client")' = Mark("connect") /\ Incoming("client")' = <<k>>
    <3>1. Append(<<>>, k) = <<k>>
      OBVIOUS
    <3> QED
      BY <1>3, <1>4, <1>5, <3>1 DEF Prev, Incoming, Peer
  <2>2. Stream(Mark("connect"), <<k>>) /\ LastUnit(Mark("connect"), <<k>>) = k
    BY <1>2 DEF Stream, Follows, Pending, Mark, LastUnit
  <2>3. writing["server"] = <<>>
    BY <1>1, <1>4 DEF OneWriter
  <2>4. Tied("server", k)'
    BY <1>2, <1>3, <2>3 DEF Tied, Owes, Pending
  <2>5. Stream(Prev("client"), Incoming("client"))'
    BY <2>1, <2>2 DEF Stream
  <2>6. LastUnit(Prev("client"), Incoming("client"))' = k
    BY <2>1, <2>2 DEF LastUnit
  <2>7. Tied("server", LastUnit(Prev("client"), Incoming("client")))'
    BY <2>4, <2>6 DEF Tied
  <2> QED
    BY <2>5, <2>7 DEF InStep, Peer
<1>8. Handshaking'
  <2>1. wire'["server"] # <<>>
    BY <1>5
  <2> QED
    BY <1>3, <1>4, <1>5, <2>1 DEF Aligned, Handshaking, Unaccepted, KeysFirst, Unanswered, Unread
<1> QED
  BY <1>6, <1>7, <1>8 DEF Aligned, Ends

\* The client takes the keys from the wire.
LEMMA KeysCopiedAligned ==
  ASSUME TypeOK, Aligned, KeysCopied
  PROVE  Aligned'
<1>1. /\ "client" \in Ends /\ "server" \in Ends /\ Peer("client") = "server"
      /\ reading["client"] = "keys" /\ open["client"] /\ Incoming("client") # <<>>
      /\ wire' = [wire EXCEPT !["server"] = Tail(@)]
      /\ wire'["client"] = wire["client"]
      /\ reading'["client"] = "copied" /\ reading'["server"] = reading["server"]
      /\ key'["server"] = key["server"]
      /\ UNCHANGED <<open, out, writing, posted, tmp, received>>
  BY DEF KeysCopied, CanRead, linkVars, writeVars, TypeOK, Ends, Peer
<1>2. Incoming("client")[1].unit = "keys" /\ Streaming("client")
  BY <1>1, FirstUnit
<1>3. InStep("client")'
  <2>1. Prev("client")' = Mark("start")
    BY <1>1 DEF Prev
  <2>2. Alike(Incoming("client")[1], Prev("client")')
    BY <1>2, <2>1 DEF Alike, Mark, Pending
  <2>3. InStep("client")
    BY <1>1 DEF Aligned
  <2> QED
    BY <1>1, <1>2, <2>2, <2>3, TakeInStep
<1>4. InStep("server")'
  <2>1. InStep("server") /\ Peer("server") = "client"
    BY <1>1 DEF Aligned, Peer
  <2> QED
    BY <1>1, <2>1, SameStream
<1>5. Handshaking'
  <2>1. key["server"] # "default"
    BY <1>1 DEF Aligned, Handshaking, Unaccepted, Incoming
  <2> QED
    BY <1>1, <2>1 DEF Aligned, Handshaking, Unaccepted, KeysFirst, Unanswered, Unread
<1> QED
  BY <1>3, <1>4, <1>5 DEF Aligned, Ends

\* An answer is a unit.
LEMMA AnswerType ==
  ASSUME NEW c \in Seeds, NEW n \in Counters
  PROVE  [unit |-> "answer", client_cou |-> c, cou |-> n] \in Units
<1>1. c \in Counters
  BY SeedsAssumption DEF Counters
<1> HIDE DEF Counters
<1> QED
  BY <1>1 DEF Units

\* The client writes its answer; what it has written before is no answer, and
\* the server will give up on it.
LEMMA KeysAnsweredAligned ==
  ASSUME TypeOK, Aligned, KeysAnswered
  PROVE  Aligned'
<1>0. wire \in [Ends -> Seq(Units)] /\ "client" \in Ends /\ "server" \in Ends
  BY DEF TypeOK, Ends
<1>1. /\ reading["client"] = "copied" /\ open["client"]
      /\ wire'["server"] = wire["server"]
      /\ reading'["client"] = "answering" /\ reading'["server"] = reading["server"]
      /\ tmp'["server"] = tmp["server"]
      /\ UNCHANGED <<open, key, out, writing, posted, received>>
  BY <1>0 DEF KeysAnswered, linkVars, writeVars, TypeOK
<1>2. PICK a \in Units : a.unit = "answer" /\ wire'["client"] = Append(wire["client"], a)
  <2>1. PICK c \in Seeds :
          wire' = [wire EXCEPT !["client"] =
                     Append(@, [unit |-> "answer", client_cou |-> c, cou |-> enc["client"]])]
    BY DEF KeysAnswered
  <2>2. enc["client"] \in Counters
    BY <1>0 DEF TypeOK
  <2>3. [unit |-> "answer", client_cou |-> c, cou |-> enc["client"]] \in Units
    BY <2>2, AnswerType
  <2> QED
    BY <1>0, <2>1, <2>3
<1>3. /\ key["server"] # "default" /\ reading["server"] \notin {"header", "body"}
      /\ NoAnswer(wire["client"])
  BY <1>1 DEF Aligned, Handshaking, Unaccepted, Unanswered
<1> HIDE DEF Units
<1>4. /\ Append(wire["client"], a) # <<>>
      /\ Append(wire["client"], a)[1] = IF wire["client"] = <<>> THEN a ELSE wire["client"][1]
      /\ wire["client"] # <<>> => 1 \in DOMAIN wire["client"]
      /\ wire["client"] = <<>> => Append(wire["client"], a) = <<a>>
  <2> DEFINE V == wire["client"]
  <2>1. V \in Seq(Units)
    BY <1>0
  <2> HIDE DEF V
  <2>2. V # <<>> => 1 \in 1 .. Len(V) /\ DOMAIN V = 1 .. Len(V)
    BY <2>1, EmptySeq, LenProperties, SMT
  <2>3. Append(V, a) # <<>> /\ (V # <<>> => Append(V, a)[1] = V[1])
    BY <2>1, <2>2, AppendProperties
  <2>4. V = <<>> => Append(V, a) = <<a>> /\ <<a>>[1] = a
    OBVIOUS
  <2> QED
    BY <2>2, <2>3, <2>4 DEF V
<1>5. InStep("client")'
  <2>1. Prev("client") = Mark("start") /\ Prev("client")' = Mark("start")
    BY <1>1 DEF Prev
  <2>2. Incoming("client")' = Incoming("client") /\ (Streaming("client")' <=> Streaming("client"))
    BY <1>1 DEF Incoming, Peer, Streaming
  <2>3. InStep("client")
    BY <1>0 DEF Aligned
  <2> QED
    BY <1>1, <2>1, <2>2, <2>3 DEF InStep, Tied, Owes, Stuck, Stream, LastUnit
<1>6. InStep("server")'
  <2> SUFFICES ASSUME Streaming("server")'
               PROVE  /\ Stream(Prev("server"), Incoming("server"))'
                      /\ Tied("client", LastUnit(Prev("server"), Incoming("server")))'
    BY DEF InStep, Peer
  <2>1. reading'["server"] = "answer" /\ wire'["client"][1].unit = "answer"
    BY <1>1, <1>3 DEF Streaming, Incoming, Peer
  <2>2. wire["client"] = <<>>
    BY <1>2, <1>3, <1>4, <2>1 DEF NoAnswer
  <2>3. Prev("server")' = Mark("accept") /\ Incoming("server")' = <<a>>
    BY <1>2, <1>4, <2>1, <2>2 DEF Prev, Incoming, Peer
  <2>4. Stream(Mark("accept"), <<a>>) /\ LastUnit(Mark("accept"), <<a>>) = a
    BY <1>2 DEF Stream, Follows, Pending, Mark, LastUnit
  <2>5. writing["client"] \notin {<<"header">>, <<"body">>}
    BY <1>1, <2>1, <2>2 DEF Aligned, Handshaking, Unread
  <2>6. Tied("client", a)'
    BY <1>1, <1>2, <2>5 DEF Tied, Owes, Pending
  <2>7. Stream(Prev("server"), Incoming("server"))'
    BY <2>3, <2>4 DEF Stream
  <2>8. LastUnit(Prev("server"), Incoming("server"))' = a
    BY <2>3, <2>4 DEF LastUnit
  <2> QED
    BY <2>6, <2>7, <2>8 DEF Tied
<1>7. Handshaking'
  BY <1>1, <1>2, <1>3, <1>4
  DEF Aligned, Handshaking, Unaccepted, KeysFirst, Unanswered, Unread
<1> QED
  BY <1>5, <1>6, <1>7 DEF Aligned, Ends

\* The server takes the answer, or gives up.
LEMMA KeysFinalAligned ==
  ASSUME TypeOK, Aligned, KeysFinal
  PROVE  Aligned'
<1>0. wire \in [Ends -> Seq(Units)] /\ "client" \in Ends /\ "server" \in Ends
  BY DEF TypeOK, Ends
<1> DEFINE W == Incoming("server")
<1>1. /\ reading["server"] = "answer" /\ open["server"] /\ W # <<>>
      /\ W = wire["client"] /\ Peer("server") = "client" /\ Peer("client") = "server"
      /\ wire' = [wire EXCEPT !["client"] = Tail(@)]
      /\ wire'["server"] = wire["server"] /\ wire'["client"] = Tail(wire["client"])
      /\ reading'["client"] = reading["client"] /\ open'["client"] = open["client"]
      /\ tmp'["client"] = tmp["client"]
      /\ UNCHANGED <<key, out, writing, posted, received>>
  BY <1>0 DEF KeysFinal, CanRead, Incoming, Peer, writeVars, TypeOK
<1>2. key["server"] # "default"
  BY <1>1 DEF Aligned, Handshaking, Unaccepted
<1>3. InStep("client")'
  <2>1. InStep("client")
    BY <1>0 DEF Aligned
  <2> QED
    BY <1>0, <1>1, <2>1, SameStream
<1>4. /\ Head(W) = W[1] /\ 1 \in DOMAIN W
      /\ NoAnswer(W) => NoAnswer(Tail(W))
  <2> HIDE DEF Units
  <2>1. W \in Seq(Units) /\ W # <<>>
    BY <1>0, <1>1
  <2>2. /\ Head(W) = W[1] /\ 1 \in DOMAIN W
        /\ \A i \in DOMAIN Tail(W) : i + 1 \in DOMAIN W /\ Tail(W)[i] = W[i + 1]
    BY <2>1, HeadTailProperties, EmptySeq, LenProperties, SMT
  <2> QED
    BY <2>2 DEF NoAnswer
<1>5. CASE ~open'["server"] /\ reading'["server"] = "none"
  <2>1. InStep("server")'
    BY <1>5 DEF InStep, Streaming
  <2>2. Handshaking'
    BY <1>0, <1>1, <1>2, <1>4, <1>5
    DEF Aligned, Handshaking, Unaccepted, KeysFirst, Unanswered, Unread
  <2> QED
    BY <1>3, <2>1, <2>2 DEF Aligned, Ends
<1>6. CASE W[1].unit = "answer" /\ reading'["server"] = "header"
  <2>1. Streaming("server") /\ InStep("server")
    BY <1>0, <1>1, <1>6 DEF Streaming, Aligned
  <2>2. Alike(W[1], Prev("server")')
    BY <1>6 DEF Alike, Prev, Mark, Pending
  <2>3. InStep("server")'
    BY <1>0, <1>1, <2>1, <2>2, TakeInStep
  <2>4. ~NoAnswer(wire["client"])
    BY <1>1, <1>4, <1>6 DEF NoAnswer
  <2>5. Handshaking'
    BY <1>1, <1>2, <1>6, <2>4
    DEF Aligned, Handshaking, Unaccepted, KeysFirst, Unanswered, Unread
  <2> QED
    BY <1>3, <2>3, <2>5 DEF Aligned, Ends
<1>7. \/ ~open'["server"] /\ reading'["server"] = "none"
      \/ W[1].unit = "answer" /\ reading'["server"] = "header"
  BY <1>0, <1>4 DEF KeysFinal, TypeOK
<1> QED
  BY <1>5, <1>6, <1>7

-----------------------------------------------------------------------------
\* The remaining types.

Readings == {"none", "keys", "copied", "answering", "answer", "header", "body"}

Temporary == [n : Nat, size : Sizes, low : 0 .. Byte - 1, body : Contents]

\* A step that reads takes the first unit from a wire.
LEMMA TakenType ==
  ASSUME TypeOK, NEW p \in Ends, wire[p] # <<>>, wire' = [wire EXCEPT ![p] = Tail(@)]
  PROVE  wire' \in [Ends -> Seq(Units)]
<1> HIDE DEF Units
<1>1. wire \in [Ends -> Seq(Units)]
  BY DEF TypeOK
<1>2. Tail(wire[p]) \in Seq(Units)
  BY <1>1, QueueParts
<1> QED
  BY <1>1, <1>2

\* Accepting keeps the types ...
LEMMA AcceptType ==
  ASSUME TypeOK, Accept
  PROVE  TypeOK'
<1>0. /\ "server" \in Ends /\ posted \in [Ends -> Seq(Enciphereds)]
      /\ sent \in [Ends -> Seq(Sizes)] /\ enc \in [Ends -> Counters]
      /\ dec \in [Ends -> Counters] /\ wire \in [Ends -> Seq(Units)]
  BY DEF TypeOK, Ends
<1>1. posted' \in [Ends -> Seq(Enciphereds)]
  <2>1. Enciphered("server", 0) \in Enciphereds
    BY <1>0, MessageTypes, SizesAssumption
  <2>2. Append(posted["server"], Enciphered("server", 0)) \in Seq(Enciphereds)
    BY <1>0, <2>1, AppendProperties
  <2> QED
    BY <1>0, <2>2 DEF Accept
<1>2. sent' \in [Ends -> Seq(Sizes)]
  <2>1. Append(sent["server"], 0) \in Seq(Sizes)
    BY <1>0, AppendProperties, SizesAssumption
  <2> QED
    BY <1>0, <2>1 DEF Accept
<1>3. /\ wire' \in [Ends -> Seq(Units)]
      /\ enc' \in [Ends -> Counters] /\ dec' \in [Ends -> Counters]
  <2>1. PICK c \in Seeds, s \in Seeds :
          /\ wire' = [wire EXCEPT !["server"] =
                        Append(@, [unit |-> "keys", client_cou |-> c, server_cou |-> s])]
          /\ enc' = [enc EXCEPT !["server"] = Plus(c, KeysBlocks)]
          /\ dec' = [dec EXCEPT !["server"] = s]
    BY DEF Accept
  <2>2. c \in Counters /\ s \in Counters /\ c \in Int /\ KeysBlocks \in Int
    BY SeedsAssumption, WidthType, SMT DEF Counters, KeysBlocks
  <2>3. Plus(c, KeysBlocks) \in Counters
    BY <2>2, PlusType
  <2> DEFINE k == [unit |-> "keys", client_cou |-> c, server_cou |-> s]
  <2>4. k \in Units
    <3> HIDE DEF Counters
    <3> QED
      BY <2>2 DEF Units
  <2> HIDE DEF Units, k, Counters
  <2>5. Append(wire["server"], k) \in Seq(Units)
    BY <1>0, <2>4, AppendProperties
  <2>6. wire' = [wire EXCEPT !["server"] = Append(wire["server"], k)]
    BY <2>1 DEF k
  <2> QED
    BY <1>0, <2>1, <2>2, <2>3, <2>5, <2>6
<1>4. /\ open' \in [Ends -> BOOLEAN] /\ key' \in [Ends -> Keys]
      /\ reading' \in [Ends -> Readings]
  BY <1>0 DEF Accept, TypeOK, Keys, Readings
<1> QED
  BY <1>1, <1>2, <1>3, <1>4 DEF Accept, TypeOK, Readings

\* ... and so do the three steps of the key exchange.
LEMMA KeysCopiedType ==
  ASSUME TypeOK, Aligned, KeysCopied
  PROVE  TypeOK'
<1> DEFINE k == Head(Incoming("client"))
<1>1. /\ "client" \in Ends /\ open["client"] /\ reading["client"] = "keys"
      /\ Incoming("client") # <<>> /\ Incoming("client") = wire["server"] /\ "server" \in Ends
  BY DEF KeysCopied, CanRead, Ends, Incoming, Peer
<1>2. k \in Units /\ k.unit = "keys"
  BY <1>1, FirstUnit
<1> HIDE DEF k
<1>3. k.client_cou \in Counters /\ k.server_cou \in Counters
  <2> HIDE DEF Counters
  <2> QED
    BY <1>2 DEF Units
<1>4. Plus(k.client_cou, KeysBlocks) \in Counters
  <2>1. k.client_cou \in Int /\ KeysBlocks \in Int
    BY <1>3, WidthType, SMT DEF Counters, KeysBlocks
  <2> QED
    BY <2>1, PlusType
<1>5. enc' \in [Ends -> Counters] /\ dec' \in [Ends -> Counters]
  <2> HIDE DEF Counters
  <2>1. enc \in [Ends -> Counters] /\ dec \in [Ends -> Counters]
    BY DEF TypeOK
  <2>2. /\ dec' = [dec EXCEPT !["client"] = Plus(k.client_cou, KeysBlocks)]
        /\ enc' = [enc EXCEPT !["client"] = k.server_cou]
    BY DEF KeysCopied, k
  <2> QED
    BY <1>3, <1>4, <2>1, <2>2
<1>6. wire' \in [Ends -> Seq(Units)]
  BY <1>1, TakenType DEF KeysCopied
<1>7. key' \in [Ends -> Keys] /\ reading' \in [Ends -> Readings]
  BY DEF KeysCopied, TypeOK, Keys, Readings
<1> QED
  BY <1>5, <1>6, <1>7 DEF KeysCopied, TypeOK, Readings, linkVars, writeVars

\* The second half of keys_receive keeps the types.
LEMMA KeysAnsweredType ==
  ASSUME TypeOK, KeysAnswered
  PROVE  TypeOK'
<1>0. /\ "client" \in Ends /\ wire \in [Ends -> Seq(Units)]
      /\ enc \in [Ends -> Counters] /\ dec \in [Ends -> Counters]
  BY DEF TypeOK, Ends
<1>1. PICK c \in Seeds :
        /\ dec' = [dec EXCEPT !["client"] = c]
        /\ wire' = [wire EXCEPT !["client"] =
                     Append(@, [unit |-> "answer", client_cou |-> c, cou |-> enc["client"]])]
  BY DEF KeysAnswered
<1>2. c \in Counters /\ enc["client"] \in Counters
  BY <1>0, SeedsAssumption DEF Counters
<1>3. AnswerCounter(enc["client"]) \in Counters
  <2>1. enc["client"] \in Int /\ AnswerBlocks \in Int
    BY <1>2, WidthType, SMT DEF Counters, AnswerBlocks
  <2> QED
    BY <2>1, PlusType DEF AnswerCounter
<1> DEFINE a == [unit |-> "answer", client_cou |-> c, cou |-> enc["client"]]
<1>4. a \in Units
  BY <1>2, AnswerType
<1> HIDE DEF Units, Counters, a
<1>5. wire' \in [Ends -> Seq(Units)]
  <2>1. Append(wire["client"], a) \in Seq(Units)
    BY <1>0, <1>4, AppendProperties
  <2> QED
    BY <1>0, <1>1, <2>1 DEF a
<1>6. enc' \in [Ends -> Counters] /\ dec' \in [Ends -> Counters]
  BY <1>0, <1>1, <1>2, <1>3 DEF KeysAnswered
<1>7. tmp' \in [Ends -> Temporary] /\ reading' \in [Ends -> Readings]
  <2>1. tmp \in [Ends -> Temporary]
    BY DEF TypeOK, Temporary
  <2>2. [tmp["client"] EXCEPT !.body = "keys"] \in Temporary
    BY <1>0, <2>1 DEF Temporary, Contents
  <2>3. tmp' \in [Ends -> Temporary]
    BY <2>1, <2>2 DEF KeysAnswered
  <2> QED
    BY <2>3 DEF KeysAnswered, TypeOK, Readings
<1> QED
  BY <1>5, <1>6, <1>7 DEF KeysAnswered, TypeOK, Readings, Temporary, linkVars, writeVars

\* keys_final keeps the types, whether it accepts the answer or not.
LEMMA KeysFinalType ==
  ASSUME TypeOK, KeysFinal
  PROVE  TypeOK'
<1> DEFINE a == Head(Incoming("server"))
<1>0. /\ "client" \in Ends /\ "server" \in Ends /\ Incoming("server") = wire["client"]
      /\ wire \in [Ends -> Seq(Units)] /\ wire["client"] # <<>>
      /\ enc \in [Ends -> Counters] /\ dec \in [Ends -> Counters]
  BY DEF KeysFinal, CanRead, TypeOK, Ends, Incoming, Peer
<1>1. a \in Units
  <2> HIDE DEF Units
  <2> QED
    BY <1>0, QueueParts
<1>2. a.unit = "answer" => a.client_cou \in Counters
  <2> HIDE DEF Counters, a
  <2> QED
    BY <1>1 DEF Units
<1>3. /\ Plus(dec["server"], AnswerBlocks) \in Counters
      /\ Plus(enc["server"], AnswerBlocks) \in Counters
  <2>1. dec["server"] \in Int /\ enc["server"] \in Int /\ AnswerBlocks \in Int
    BY <1>0, WidthType, SMT DEF Counters, AnswerBlocks
  <2> QED
    BY <2>1, PlusType
<1>4. wire' \in [Ends -> Seq(Units)]
  BY <1>0, TakenType DEF KeysFinal
<1>5. tmp' \in [Ends -> Temporary]
  <2>1. tmp \in [Ends -> Temporary]
    BY DEF TypeOK, Temporary
  <2>2. [tmp["server"] EXCEPT !.body = "keys"] \in Temporary
    BY <1>0, <2>1 DEF Temporary, Contents
  <2> QED
    BY <2>1, <2>2 DEF KeysFinal
<1> HIDE DEF Counters, Units
<1>6. enc' \in [Ends -> Counters] /\ dec' \in [Ends -> Counters]
  <2>1. dec' \in [Ends -> Counters]
    BY <1>0, <1>3 DEF KeysFinal
  <2>2. \/ enc' = [enc EXCEPT !["server"] = Plus(@, AnswerBlocks)]
        \/ a.unit = "answer" /\ enc' = [enc EXCEPT !["server"] = a.client_cou]
    BY DEF KeysFinal
  <2> HIDE DEF a
  <2> QED
    BY <1>0, <1>2, <1>3, <2>1, <2>2
<1>7. open' \in [Ends -> BOOLEAN] /\ reading' \in [Ends -> Readings]
  BY <1>0 DEF KeysFinal, TypeOK, Readings
<1> QED
  BY <1>4, <1>5, <1>6, <1>7 DEF KeysFinal, TypeOK, Readings, Temporary, writeVars

Receiveds == [n : Nat, size : Sizes, body : Contents]

\* Handing a message to the program keeps the types.
LEMMA IncomingType ==
  ASSUME TypeOK, NEW e \in Ends, NEW h, NEW body \in Contents,
         h.n \in Nat, h.size \in Sizes, AddToIncoming(e, h, body)
  PROVE  received' \in [Ends -> Seq(Receiveds)] /\ reading' \in [Ends -> Readings]
<1> DEFINE m == [n |-> h.n, size |-> h.size, body |-> body]
<1>1. m \in Receiveds
  BY DEF Receiveds
<1>2. received \in [Ends -> Seq(Receiveds)]
  BY DEF TypeOK, Receiveds
<1>3. received' = [received EXCEPT ![e] = Append(@, m)]
  BY DEF AddToIncoming
<1> HIDE DEF m, Receiveds
<1>4. Append(received[e], m) \in Seq(Receiveds)
  BY <1>1, <1>2, AppendProperties
<1>5. reading' \in [Ends -> Readings]
  BY DEF AddToIncoming, TypeOK, Readings
<1> QED
  BY <1>2, <1>3, <1>4, <1>5

\* The read handlers keep the types.
LEMMA HeaderReadType ==
  ASSUME TypeOK, Aligned, NEW e \in Ends, HeaderRead(e)
  PROVE  TypeOK'
<1> DEFINE h == Head(Incoming(e))
<1>1. /\ open[e] /\ reading[e] = "header" /\ Incoming(e) # <<>>
      /\ Incoming(e) = wire[Peer(e)] /\ Peer(e) \in Ends
  BY Peers DEF HeaderRead, CanRead, Incoming
<1>2. h \in Units /\ h.unit = "header"
  BY <1>1, FirstUnit
<1>3. h.n \in Nat /\ h.size \in Sizes /\ h.low \in 0 .. Byte - 1
  <2> HIDE DEF h
  <2> QED
    BY <1>2 DEF Units
<1>4. wire' \in [Ends -> Seq(Units)]
  BY <1>1, TakenType DEF HeaderRead
<1>5. tmp \in [Ends -> Temporary] /\ tmp[e].body \in Contents
  BY DEF TypeOK, Temporary
<1>6. tmp' \in [Ends -> Temporary]
  <2>1. [tmp[e] EXCEPT !.n = h.n, !.size = h.size, !.low = h.low] \in Temporary
    <3> HIDE DEF h
    <3> QED
      BY <1>3, <1>5 DEF Temporary
  <2>2. tmp' = [tmp EXCEPT ![e] = [tmp[e] EXCEPT !.n = h.n, !.size = h.size, !.low = h.low]]
    BY <1>5 DEF HeaderRead
  <2> HIDE DEF h, Temporary
  <2> QED
    BY <1>5, <2>1, <2>2
<1>7. /\ received' \in [Ends -> Seq(Receiveds)] /\ reading' \in [Ends -> Readings]
      /\ open' \in [Ends -> BOOLEAN]
  <2>1. \/ open' \in [Ends -> BOOLEAN] /\ reading' \in [Ends -> Readings] /\ received' = received
        \/ AddToIncoming(e, h, tmp[e].body) /\ open' = open
    BY DEF HeaderRead, TypeOK, Readings
  <2>2. received \in [Ends -> Seq(Receiveds)] /\ open \in [Ends -> BOOLEAN]
    BY DEF TypeOK, Receiveds
  <2> HIDE DEF h
  <2> QED
    BY <1>3, <1>5, <2>1, <2>2, IncomingType
<1> QED
  BY <1>4, <1>6, <1>7 DEF HeaderRead, TypeOK, Readings, Temporary, Receiveds, cipherVars, writeVars

\* The handler of ReadBody keeps the types.
LEMMA BodyReadType ==
  ASSUME TypeOK, NEW e \in Ends, BodyRead(e)
  PROVE  TypeOK'
<1>1. /\ Incoming(e) # <<>> /\ Incoming(e) = wire[Peer(e)] /\ Peer(e) \in Ends
  BY Peers DEF BodyRead, CanRead, Incoming
<1>2. wire' \in [Ends -> Seq(Units)]
  BY <1>1, TakenType DEF BodyRead
<1>3. /\ tmp \in [Ends -> Temporary] /\ dec \in [Ends -> Counters]
      /\ tmp[e].n \in Nat /\ tmp[e].size \in Sizes /\ tmp[e].low \in 0 .. Byte - 1
  BY DEF TypeOK, Temporary
<1>4. Plus(Resync(dec[e], tmp[e].low), tmp[e].size) \in Counters
  <2>1. Resync(dec[e], tmp[e].low) \in Counters
    BY <1>3, ResyncType
  <2>2. Counters \subseteq Int /\ Sizes \subseteq Int
    BY WidthType, SizesAssumption, SMT DEF Counters
  <2> HIDE DEF Counters
  <2>3. Resync(dec[e], tmp[e].low) \in Int /\ tmp[e].size \in Int
    BY <1>3, <2>1, <2>2
  <2> QED
    BY <2>3, PlusType
<1>5. dec' \in [Ends -> Counters]
  <2>1. dec' = [dec EXCEPT ![e] = Plus(Resync(dec[e], tmp[e].low), tmp[e].size)]
    BY DEF BodyRead
  <2> HIDE DEF Counters
  <2> QED
    BY <1>3, <1>4, <2>1
<1>6. PICK text \in Contents :
        tmp' = [tmp EXCEPT ![e].body = text] /\ AddToIncoming(e, tmp[e], text)
  BY DEF BodyRead, Contents
<1>7. tmp' \in [Ends -> Temporary]
  <2>1. [tmp[e] EXCEPT !.body = text] \in Temporary
    BY <1>3 DEF Temporary
  <2> QED
    BY <1>3, <1>6, <2>1
<1>8. received' \in [Ends -> Seq(Receiveds)] /\ reading' \in [Ends -> Readings]
  BY <1>3, <1>6, IncomingType
<1> QED
  BY <1>2, <1>5, <1>7, <1>8
  DEF BodyRead, TypeOK, Readings, Temporary, Receiveds, linkVars, writeVars

-----------------------------------------------------------------------------
\* The invariant.

\* The initial state has it.
LEMMA InvInit == Init => IInv
<1> SUFFICES ASSUME Init PROVE IInv
  OBVIOUS
<1>1. TypeOK
  <2>1. 0 \in Counters /\ 0 \in 0 .. Byte - 1 /\ 0 \in Sizes
    BY WidthType, ByteAssumption, SizesAssumption, SMT DEF Counters
  <2>2. <<>> \in Seq(Enciphereds) /\ <<>> \in Seq(Units) /\ <<>> \in Seq(Sizes)
        /\ <<>> \in Seq([n : Nat, size : Sizes, body : Contents])
        /\ <<>> \in Seq({"header", "body", "failing"})
    BY EmptySeq
  <2> HIDE DEF Counters, Units, Enciphereds
  <2> QED
    BY <2>1, <2>2 DEF Init, TypeOK, Keys, Contents
<1>2. OneWriter /\ BodyHasSize
  BY DEF Init, OneWriter, BodyHasSize
<1>3. Handshaking
  <2>1. NoAnswer(<<>>)
    BY DEF NoAnswer
  <2> QED
    BY <2>1 DEF Init, Handshaking, Unaccepted, KeysFirst, Unanswered, Unread, Ends
<1>4. ASSUME NEW e \in Ends PROVE InStep(e)
  <2>1. Incoming(e) = <<>> /\ Prev(e) = Mark("connect") /\ Peer(e) \in Ends
    BY Peers DEF Init, Incoming, Prev
  <2>2. Stream(Mark("connect"), <<>>) /\ LastUnit(Mark("connect"), <<>>) = Mark("connect")
    BY DEF Stream, LastUnit
  <2>3. Tied(Peer(e), Mark("connect"))
    BY <2>1 DEF Init, Tied, Owes, Pending, Mark
  <2> QED
    BY <2>1, <2>2, <2>3 DEF InStep
<1> QED
  BY <1>1, <1>2, <1>3, <1>4 DEF IInv, Aligned

\* Each kind of step keeps the types ...
LEMMA TypeNext ==
  ASSUME IInv, [Next]_vars
  PROVE  TypeOK'
<1> USE DEF IInv
<1>1. CASE TcpUp \/ ConnectFails \/ Exit
  BY <1>1 DEF TcpUp, ConnectFails, Exit, TypeOK, linkVars, cipherVars, writeVars, readVars
<1>2. CASE KeysWritten \/ Connected \/ AnswerWritten
  BY <1>2 DEF KeysWritten, Connected, AnswerWritten, TypeOK, linkVars, cipherVars, writeVars,
              readVars
<1>3. CASE Accept \/ KeysCopied \/ KeysAnswered \/ KeysFinal
  BY <1>3, AcceptType, KeysCopiedType, KeysAnsweredType, KeysFinalType
<1>4. ASSUME NEW e \in Ends, Handler(e) PROVE TypeOK'
  <2>1. CASE RunPosted(e) \/ HeaderWritten(e) \/ BodyWritten(e) \/ WriteFails(e)
    BY <2>1, RunPostedType, WrittenType
  <2>2. CASE HeaderRead(e) \/ BodyRead(e)
    BY <2>2, HeaderReadType, BodyReadType
  <2>3. CASE ReadFails(e)
    BY <2>3 DEF ReadFails, TypeOK, cipherVars, writeVars
  <2> QED
    BY <1>4, <2>1, <2>2, <2>3 DEF Handler
<1>5. CASE PressKey
  <2>1. "client" \in Ends
    BY <1>5 DEF PressKey, TypeOK, Ends
  <2>2. PICK size \in Sizes : Send("client", size)
    BY <1>5 DEF PressKey
  <2> QED
    BY <2>1, <2>2, SendType
<1>6. CASE Serve
  <2>1. "server" \in Ends
    BY <1>6 DEF Serve, TypeOK, Ends
  <2>2. PICK size \in Sizes : Send("server", size)
    BY <1>6 DEF Serve
  <2> QED
    BY <2>1, <2>2, SendType
<1>7. CASE UNCHANGED vars
  BY <1>7 DEF vars, TypeOK, linkVars, cipherVars, writeVars, readVars
<1> QED
  BY <1>1, <1>2, <1>3, <1>4, <1>5, <1>6, <1>7 DEF Next, Handshake

\* ... and the bodies' sizes ...
LEMMA BodyHasSizeNext ==
  ASSUME IInv, [Next]_vars
  PROVE  BodyHasSize'
<1> USE DEF IInv
<1>0. /\ reading \in [Ends -> Readings] /\ tmp \in [Ends -> Temporary]
      /\ "client" \in Ends /\ "server" \in Ends
  BY DEF TypeOK, Readings, Temporary, Ends
<1>1. ASSUME UNCHANGED tmp, \A e \in Ends : reading'[e] = "body" => reading[e] = "body"
      PROVE  BodyHasSize'
  BY <1>1 DEF BodyHasSize
<1>2. CASE TcpUp \/ ConnectFails \/ Exit \/ Accept \/ KeysWritten \/ Connected \/ KeysCopied
           \/ AnswerWritten \/ PressKey \/ Serve \/ UNCHANGED vars
  <2>1. CASE TcpUp \/ ConnectFails \/ Exit \/ KeysWritten \/ PressKey \/ Serve \/ UNCHANGED vars
    <3>1. UNCHANGED readVars
      BY <2>1 DEF KeysWritten, TcpUp, ConnectFails, Exit, PressKey, Serve, Send, vars, readVars
    <3> QED
      BY <1>1, <3>1 DEF readVars
  <2>2. CASE Accept \/ Connected \/ KeysCopied \/ AnswerWritten
    BY <1>0, <1>1, <2>2 DEF Accept, Connected, KeysCopied, AnswerWritten
  <2> QED
    BY <1>2, <2>1, <2>2
<1>3. CASE KeysAnswered \/ KeysFinal
  <2>1. \A e \in Ends : tmp'[e].size = tmp[e].size
    <3>1. PICK f \in Ends : tmp' = [tmp EXCEPT ![f].body = "keys"]
      BY <1>0, <1>3 DEF KeysAnswered, KeysFinal
    <3>2. tmp[f] \in Temporary
      BY <1>0
    <3>3. [tmp[f] EXCEPT !.body = "keys"].size = tmp[f].size
      BY <3>2 DEF Temporary
    <3> QED
      BY <1>0, <3>1, <3>3
  <2>2. \A e \in Ends : reading'[e] = "body" => reading[e] = "body"
    BY <1>0, <1>3 DEF KeysAnswered, KeysFinal
  <2> QED
    BY <2>1, <2>2 DEF BodyHasSize
<1>4. ASSUME NEW e \in Ends, Handler(e) PROVE BodyHasSize'
  <2>1. CASE RunPosted(e) \/ HeaderWritten(e) \/ BodyWritten(e) \/ WriteFails(e)
    BY <1>1, <2>1 DEF RunPosted, HeaderWritten, BodyWritten, WriteFails, readVars
  <2>2. CASE HeaderRead(e)
    <3>1. \A f \in Ends : f # e => tmp'[f] = tmp[f] /\ reading'[f] = reading[f]
      BY <1>0, <2>2 DEF HeaderRead, AddToIncoming
    <3>2. reading'[e] = "body" => tmp'[e].size > 0
      BY <1>0, <2>2 DEF HeaderRead, AddToIncoming, Temporary
    <3> QED
      BY <3>1, <3>2 DEF BodyHasSize
  <2>3. CASE BodyRead(e)
    BY <1>0, <2>3 DEF BodyRead, AddToIncoming, BodyHasSize
  <2>4. CASE ReadFails(e)
    BY <1>0, <1>1, <2>4 DEF ReadFails
  <2> QED
    BY <1>4, <2>1, <2>2, <2>3, <2>4 DEF Handler
<1> QED
  BY <1>2, <1>3, <1>4 DEF Next, Handshake

\* ... and the alignment of readers, wires and writers.
LEMMA AlignedNext ==
  ASSUME IInv, [Next]_vars
  PROVE  Aligned'
<1> USE DEF IInv
<1>0. "client" \in Ends /\ "server" \in Ends /\ open \in [Ends -> BOOLEAN]
      /\ posted \in [Ends -> Seq(Enciphereds)]
  BY DEF TypeOK, Ends
<1>1. CASE TcpUp \/ ConnectFails \/ Exit \/ KeysWritten \/ Connected \/ AnswerWritten
           \/ PressKey \/ Serve \/ UNCHANGED vars
  <2>1. /\ UNCHANGED <<wire, out, writing, tmp, key, received>>
        /\ \A e \in Ends : open'[e] => open[e]
    BY <1>0, <1>1
    DEF TcpUp, ConnectFails, Exit, KeysWritten, Connected, AnswerWritten, PressKey, Serve, Send,
        vars, linkVars, cipherVars, writeVars, readVars
  <2>2. \/ reading' = reading
        \/ reading["client"] = "none" /\ reading' = [reading EXCEPT !["client"] = "keys"]
        \/ reading["client"] = "answering" /\ reading' = [reading EXCEPT !["client"] = "header"]
    BY <1>1
    DEF TcpUp, ConnectFails, Exit, KeysWritten, Connected, AnswerWritten, PressKey, Serve, Send,
        vars, readVars
  <2>3. key["server"] = "default" => posted'["server"] = posted["server"]
    <3>1. CASE Serve
      <4>1. received["server"] # <<>>
        BY <3>1 DEF Serve
      <4> QED
        BY <4>1 DEF Aligned, Handshaking, Unaccepted
    <3>2. CASE PressKey
      BY <1>0, <3>2 DEF PressKey, Send
    <3>3. CASE ~Serve /\ ~PressKey
      BY <1>1, <3>3
      DEF TcpUp, ConnectFails, Exit, KeysWritten, Connected, AnswerWritten, vars, writeVars
    <3> QED
      BY <3>1, <3>2, <3>3
  <2> QED
    BY <2>1, <2>2, <2>3, QuietAligned
<1>2. CASE Accept \/ KeysCopied \/ KeysAnswered \/ KeysFinal
  BY <1>2, AcceptAligned, KeysCopiedAligned, KeysAnsweredAligned, KeysFinalAligned
<1>3. ASSUME NEW e \in Ends, Handler(e) PROVE Aligned'
  BY <1>3, RunPostedAligned, WrittenAligned, HeaderReadAligned, BodyReadAligned,
     ReadFailsAligned DEF Handler
<1> QED
  BY <1>1, <1>2, <1>3 DEF Next, Handshake

\* The inductive invariant holds in every reachable state.
THEOREM Invariant == Spec => []IInv
<1>1. IInv /\ [Next]_vars => IInv'
  BY TypeNext, OneWriterNext, BodyHasSizeNext, AlignedNext DEF IInv
<1> QED
  BY <1>1, InvInit, PTL DEF Spec

\* Type correctness (TypeOK).
THEOREM TypeCorrect == Spec => []TypeOK
<1>1. IInv => TypeOK
  BY DEF IInv
<1> QED
  BY <1>1, Invariant, PTL

\* OneWriter: the outgoing queue never has two writes under way, and no message
\* waits in it without a writer, however the posted functions, the handlers of
\* the queue and the handshake's own reads and writes interleave.
THEOREM SingleWriter == Spec => []OneWriter
<1>1. IInv => OneWriter
  BY DEF IInv
<1> QED
  BY <1>1, Invariant, PTL

\* Framed: whoever waits for the keys or for a header finds that, and whoever
\* waits for a body finds the body of the header it has read.
THEOREM InFrame == Spec => []Framed
<1>1. IInv => Framed
  <2> SUFFICES ASSUME IInv, NEW e \in Ends, open[e], Incoming(e) # <<>>
               PROVE  LET u == Head(Incoming(e)) IN
                      /\ reading[e] = "keys" => u.unit = "keys"
                      /\ reading[e] = "header" => u.unit = "header"
                      /\ reading[e] = "body" =>
                           u.unit = "body" /\ u.n = tmp[e].n /\ u.size = tmp[e].size
    BY DEF Framed
  <2> QED
    <3>1. reading[e] = "keys" => e = "client"
      BY DEF IInv, Aligned, Handshaking, Unanswered, Ends
    <3> QED
      BY <3>1, FirstUnit DEF IInv, BodyHasSize
<1> QED
  BY <1>1, Invariant, PTL
=============================================================================
