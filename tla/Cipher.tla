------------------------------- MODULE Cipher -------------------------------
(***************************************************************************)
(* What the two programs read of what they say, byte by byte: the message  *)
(* container and the cipher of both ends, from the accepted connection on. *)
(* The keys, their answer and the messages of one end share one socket.    *)
(* Each end has an asio thread, and a main thread that calls Send: what    *)
(* Send enciphers is posted, and written when the asio thread gets to it.  *)
(*                                                                         *)
(* A request of the client is a new game (no body), an echo (a string) or  *)
(* a move (a value pushed onto a message); the server answers an echo with *)
(* a string and sends game information and errors as values.               *)
(***************************************************************************)
EXTENDS Scrypto

CONSTANTS
  DefaultKey,      \* secIV and baseKey
  Randoms,         \* what getRandom may fill a crt_init_s with
  Strings, Values, \* what may be said as a string, and as a value
  MaxSends         \* bound: requests of the client, answers of the server

\* getRandom never draws a 0; a string holds none.
ASSUME DataAssumption ==
  /\ DefaultKey \in [1 .. KeyLen -> Bytes]
  /\ Randoms \subseteq [1 .. InitLen -> Bytes \ {0}]
  /\ Strings \subseteq Seq(Bytes \ {0}) \ {<<>>}
  /\ Values \subseteq Seq(Bytes) \ {<<>>}
  /\ MaxSends \in Nat

Ends == {"server", "client"}

Peer(e) == IF e = "server" THEN "client" ELSE "server"

VARIABLES
  obj,     \* crypto_keys of each end
  phase,   \* the exchange: "start", "prepared", "copied" (the client is inside
           \* keys_receive), "received", "done", "refused"
  open,    \* m_socket.is_open()
  posted,  \* messages enciphered and not yet written
  wire,    \* what an end has written and the peer has not read, in order: keys
           \* (or their answer) and messages
  sends,   \* how many requests the client has made, how many answers the server
  heard,   \* has the server read a message of the client?
  strayed, \* history: has an end enciphered a body with the default key?
  early,   \* history: has a message got in the way of the exchange?
  last     \* history: what was said last to an end, what it understood, whether
           \* msg_from_in accepted it, and whether its checksum was right

vars == <<obj, phase, open, posted, wire, sends, heard, strayed, early, last>>

Init ==
  /\ obj = [e \in Ends |-> [key |-> DefaultKey, enc |-> 0, dec |-> 0]]
  /\ phase = "start"
  /\ open = TRUE
  /\ posted = [e \in Ends |-> <<>>]
  /\ wire = [e \in Ends |-> <<>>]
  /\ sends = [e \in Ends |-> 0]
  /\ heard = FALSE
  /\ strayed = [e \in Ends |-> FALSE]
  /\ early = FALSE
  /\ last = [e \in Ends |-> [said |-> <<>>, understood |-> <<>>, ok |-> TRUE,
                       right |-> TRUE]]

-----------------------------------------------------------------------------
\* Kinds of messages, told apart by header.id.
None == 0
String == 1
Value == 2

Unit(msg, said) == [unit |-> "message", msg |-> msg, said |-> said]

KeysUnit(data) == [unit |-> "keys", data |-> data]

\* Bytes of a unit: header.size, id and encip_cou_1b are 8 of a message's.
Length(u) == IF u.unit = "keys" THEN Len(u.data) ELSE 8 + Len(u.msg.body)

BytesOn(e) == Total([i \in DOMAIN wire[e] |-> Length(wire[e][i])])

-----------------------------------------------------------------------------
\* skey_validation and skey_ReadVal, both with m_msgTemporaryIn.body.

\* The accept handler: ServerAccept is posted, the keys are written.
KeysPrep ==
  /\ phase = "start"
  /\ posted' = [posted EXCEPT !["server"] =
                   Append(@, Unit(NewMessage(None), <<>>))]
  /\ \E random \in Randoms :
       LET p == keys_prep(obj["server"], random) IN
       /\ obj' = [obj EXCEPT !["server"] = p.o]
       /\ wire' = [wire EXCEPT !["server"] = Append(@, KeysUnit(p.data))]
  /\ phase' = "prepared"
  /\ UNCHANGED <<open, sends, heard, strayed, early, last>>

KeysCopied ==
  /\ phase = "prepared" /\ open
  /\ obj' = [obj EXCEPT !["client"] = keys_copied(@, Head(wire["server"]).data)]
  /\ wire' = [wire EXCEPT !["server"] = Tail(@)]
  /\ phase' = "copied"
  /\ UNCHANGED <<open, posted, sends, heard, strayed, early, last>>

KeysAnswered ==
  /\ phase = "copied"
  /\ \E random \in Randoms :
       LET a == keys_answered(obj["client"], random) IN
       /\ obj' = [obj EXCEPT !["client"] = a.o]
       /\ wire' = [wire EXCEPT !["client"] = Append(@, KeysUnit(a.data))]
  /\ phase' = "received"
  /\ UNCHANGED <<open, posted, sends, heard, strayed, early, last>>

\* What keys_final does to the server's counters when the checksum is wrong.
Refused(o) ==
  [key |-> o.key, enc |-> Plus(o.enc, Blocks(InitLen)), dec |-> Plus(o.dec, Blocks(InitLen))]

\* The server reads as many bytes as an answer has.  When a message is ahead of
\* the answer they are no answer: the checksum is wrong and the socket closed.
KeysFinal ==
  /\ phase \in {"prepared", "copied", "received"} /\ open
  /\ wire["client"] # <<>> /\ BytesOn("client") >= InitLen
  /\ LET first == Head(wire["client"])
         f == keys_final(obj["server"], first.data)
         ok == first.unit = "keys" /\ f.ok
     IN
     /\ obj' = [obj EXCEPT !["server"] = IF first.unit = "keys" THEN f.o ELSE Refused(@)]
     /\ phase' = IF ok THEN "done" ELSE "refused"
     /\ open' = ok
  /\ wire' = [wire EXCEPT !["client"] = Tail(@)]
  /\ UNCHANGED <<posted, sends, heard, strayed, early, last>>

-----------------------------------------------------------------------------
\* Sending.

HasKeys(e) == phase # "start" /\ (e = "client" => phase # "prepared")

\* connection::Send, on the main thread.  A body that the client enciphers while
\* it is inside keys_receive moves the counter the server expects the answer at.
Send(e, msg, said) ==
  LET s == msg_to_out(obj[e], msg)
      stray == ~HasKeys(e) /\ msg.body # <<>>
  IN
  /\ obj' = [obj EXCEPT ![e] = s.o]
  /\ posted' = [posted EXCEPT ![e] = Append(@, Unit(s.msg, said))]
  /\ sends' = [sends EXCEPT ![e] = @ + 1]
  /\ strayed' = [strayed EXCEPT ![e] = @ \/ stray]
  /\ early' = (early \/ (e = "client" /\ phase = "copied" /\ msg.body # <<>>))

\* The asio thread writes the next message.  Before its answer to the keys the
\* client writes it in the answer's place.
Write(e) ==
  /\ open /\ posted[e] # <<>>
  /\ ~(e = "client" /\ phase = "copied")
  /\ posted' = [posted EXCEPT ![e] = Tail(@)]
  /\ wire' = [wire EXCEPT ![e] = Append(@, Head(posted[e]))]
  /\ early' = (early \/ (e = "client" /\ ~HasKeys("client")))
  /\ UNCHANGED <<obj, phase, open, sends, heard, strayed, last>>

\* EchoServer, NewGameWithPlayer, MakeAMove
Request ==
  /\ open /\ sends["client"] < MaxSends
  /\ \/ \E s \in Strings : Send("client", FromString(NewMessage(String), s), s)
     \/ \E v \in Values : Send("client", Push(NewMessage(Value), v), v)
     \/ Send("client", NewMessage(None), <<>>)
  /\ UNCHANGED <<phase, open, wire, heard, last>>

\* OnMessage and what it calls: to a client that has said something.
Answer ==
  /\ heard /\ sends["server"] < MaxSends
  /\ \/ \E s \in Strings : Send("server", FromString(NewMessage(String), s), s)
     \/ \E v \in Values : Send("server", Push(NewMessage(Value), v), v)
  /\ UNCHANGED <<phase, open, wire, heard, last>>

\* What the program makes of a message, by its id: to_string, or >> of as many
\* bytes as the value has.
Understood(msg, said) ==
  IF msg.id = None THEN <<>>
  ELSE IF msg.id = String THEN UpToZero(msg.body)
  ELSE Pulled(msg, Len(said))

\* ReadHeader, ReadBody and AddToIncomingMessageQueue: msg_from_in is called
\* for a message with a body, and what it returns is ignored.
Received(e, msg) ==
  IF msg.size > 0 THEN msg_from_in(obj[e], msg)
  ELSE [ok |-> TRUE, o |-> obj[e], msg |-> msg]

\* Is the checksum in the message that of its header and body?
ChecksumRight(o, msg) ==
  LET data == Plain(o, msg) IN CsOf(data) = CsBytes(MsgCs(msg, Text(data)))

Reads(e) ==
  open /\ (IF e = "server" THEN phase = "done" ELSE phase \in {"received", "done"})

Read(e) ==
  /\ Reads(e) /\ wire[Peer(e)] # <<>>
  /\ wire' = [wire EXCEPT ![Peer(e)] = Tail(@)]
  /\ LET m == Head(wire[Peer(e)])
         r == Received(e, m.msg)
     IN IF m.msg.size > max_encr_len
        THEN open' = FALSE /\ UNCHANGED <<obj, heard, last>>
        ELSE /\ obj' = [obj EXCEPT ![e] = r.o]
             /\ heard' = (heard \/ e = "server")
             /\ last' = [last EXCEPT ![e] =
                  [said |-> m.said, understood |-> Understood(r.msg, m.said),
                   ok |-> r.ok, right |-> m.msg.size > 0 => ChecksumRight(obj[e], m.msg)]]
             /\ UNCHANGED open
  /\ UNCHANGED <<phase, posted, sends, strayed, early>>

-----------------------------------------------------------------------------
Next ==
  \/ KeysPrep \/ KeysCopied \/ KeysAnswered \/ KeysFinal
  \/ Request \/ Answer
  \/ \E e \in Ends : Write(e) \/ Read(e)

Spec == Init /\ [][Next]_vars

-----------------------------------------------------------------------------
Messages == [size : Nat, id : {None, String, Value}, low : Bytes, body : Seq(Bytes)]

Said == [unit : {"message"}, msg : Messages, said : Seq(Bytes)]

Exchanged == {u \in [unit : {"keys"}, data : Seq(Bytes)] : Len(u.data) = InitLen}

Heard == [said : Seq(Bytes), understood : Seq(Bytes), ok : BOOLEAN, right : BOOLEAN]

TypeOK ==
  /\ obj \in [Ends -> [key : [1 .. KeyLen -> Bytes], enc : Counters, dec : Counters]]
  /\ phase \in {"start", "prepared", "copied", "received", "done", "refused"}
  /\ open \in BOOLEAN
  /\ posted \in [Ends -> Seq(Said)]
  /\ wire \in [Ends -> Seq(Said \cup Exchanged)]
  /\ sends \in [Ends -> 0 .. MaxSends]
  /\ heard \in BOOLEAN
  /\ strayed \in [Ends -> BOOLEAN]
  /\ early \in BOOLEAN
  /\ last \in [Ends -> Heard]

\* The exchange never fails between two ends of this program, whatever is
\* drawn and whatever is said ("Key generation OK", Scrc/test.cpp:35), unless
\* the client writes a message before its answer to the keys (line 232 of
\* net_connection.h beside 567) or enciphers a body inside keys_receive: a
\* message that was given to Send early, and is written late, does no harm.
ExchangeWorks == ~early => phase # "refused"

\* What the program at one end understands is what the program at the other
\* end said, and its checksum is accepted: through the container, the size with
\* and without the checksum, and the stream cipher across its counters' wrap.
\* It holds of a direction in which nothing was enciphered before the keys came,
\* after an exchange in whose way no message got.
RoundTrip ==
  \A e \in Ends : ~early /\ ~strayed[Peer(e)] =>
    last[e].understood = last[e].said /\ last[e].ok

\* Blocks of a message, of each of a sequence, and of all that e has said and
\* its peer has not read.
BlocksOf(msg) == IF msg.size > 0 THEN Blocks(Len(msg.body)) ELSE 0

AllBlocks(W) == [i \in DOMAIN W |-> BlocksOf(W[i].msg)]

BlocksOn(e) == Total(AllBlocks(wire[e] \o posted[e]))

\* Once the exchange is over both ends have one key, and each decipher counter
\* is behind the peer's encipher counter by the blocks on their way: Resync
\* has nothing to do.
InStep ==
  open /\ phase = "done" =>
    /\ obj["server"].key = obj["client"].key
    /\ \A e \in Ends : ~early /\ ~strayed[e] =>
         obj[e].enc = Plus(obj[Peer(e)].dec, BlocksOn(e))

\* A message that msg_from_in accepts has the checksum of what it says
\* ("compare checksum", scrc_crypto.h:313).  It fails for a request that was
\* enciphered before the keys came and written after them.
Checked == \A e \in Ends : last[e].ok => last[e].right
=============================================================================
