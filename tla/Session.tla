------------------------------ MODULE Session ------------------------------
(***************************************************************************)
(* One connection between the server and a client, from async_connect to   *)
(* the closed socket: net_connection.h at both ends, with the key exchange *)
(* and the counters of scrc_crypto.h.                                      *)
(*                                                                         *)
(* Each end has an asio thread, which runs one handler at a time, and a    *)
(* main thread, which calls Send.  A handler is one action; keys_receive,  *)
(* which the client's main thread may interrupt, is two.  The wire carries *)
(* units (keys, answer, header, body): a unit is written and read by one   *)
(* asynchronous operation.  A cipher is a key and a counter: a body is     *)
(* deciphered right when both are those it was enciphered with.            *)
(***************************************************************************)
EXTENDS Queues, Counter, FiniteSets

CONSTANTS
  Seeds,      \* what getRandom may put into a counter
  Sizes,      \* body sizes in cipher blocks of 8 bytes; 0: no body
  MaxPayload, \* max_payload, in the same unit
  MaxSends,   \* bound: requests of the client, messages of the server
  EarlySend   \* may the user press a key before the handshake is over?

ASSUME SeedsAssumption == Seeds # {} /\ Seeds \subseteq 0 .. Width - 1
ASSUME SizesAssumption ==
  Sizes \subseteq Nat /\ 0 \in Sizes /\ MaxPayload \in Nat
ASSUME SendsAssumption == MaxSends \in Nat /\ EarlySend \in BOOLEAN

Ends == {"server", "client"}

Peer(e) == IF e = "server" THEN "client" ELSE "server"

VARIABLES
  link,      \* TCP: "connecting", "up" or "failed"; "stopped" when its failure
             \* leaves the client's asio thread without work
  alive,     \* does the client process run?
  open,      \* m_socket.is_open() of each end
  key,       \* sKey and sIV: "default" or "session"
  enc,       \* cou_for_encipher
  dec,       \* cou_for_decipher
  posted,    \* lambdas posted by Send, each with its copy of the message
  out,       \* m_qMessagesOut
  writing,   \* the queue's async_writes under way, oldest first: "header",
             \* "body", or "failing" for one that cannot succeed
  validating, \* is skey_validation's async_write under way?  The client's
             \* answer is being written while reading says "answering".
  wire,      \* units sent by this end and not yet read by the peer
  reading,   \* the read under way; "copied" is inside keys_receive
  tmp,       \* m_msgTemporaryIn: the header read last, what the body holds
  sent,      \* history: body sizes of the messages given to Send
  received   \* history: what AddToIncomingMessageQueue has pushed

linkVars   == <<link, alive, open>>
cipherVars == <<key, enc, dec>>
writeVars  == <<posted, out, writing>>
readVars   == <<reading, tmp, received>>
vars == <<linkVars, cipherVars, writeVars, validating, wire, readVars, sent>>

-----------------------------------------------------------------------------
\* The cipher.

\* Blocks of data_cipher: 24 bytes of keys, 28 bytes of answer.
KeysBlocks   == 3
AnswerBlocks == 4

-----------------------------------------------------------------------------
Init ==
  /\ link = "connecting"
  /\ alive = TRUE
  /\ open = [e \in Ends |-> e = "client"]   \* async_connect opens the socket
  /\ key = [e \in Ends |-> "default"]
  /\ enc = [e \in Ends |-> 0]
  /\ dec = [e \in Ends |-> 0]
  /\ posted = [e \in Ends |-> <<>>]
  /\ out = [e \in Ends |-> <<>>]
  /\ writing = [e \in Ends |-> <<>>]
  /\ validating = FALSE
  /\ wire = [e \in Ends |-> <<>>]
  /\ reading = [e \in Ends |-> "none"]
  /\ tmp = [e \in Ends |-> [n |-> 0, size |-> 0, low |-> 0, body |-> "empty"]]
  /\ sent = [e \in Ends |-> <<>>]
  /\ received = [e \in Ends |-> <<>>]

-----------------------------------------------------------------------------
\* Sending.

\* The message as msg_to_out leaves it: a body, if there is one, is enciphered
\* with the key and the counter of this moment, which moves block by block.
Enciphered(e, size) ==
  [n |-> Len(sent[e]) + 1, size |-> size, key |-> key[e], cou |-> enc[e]]

\* Send, on the main thread: encipher, and post a copy to the asio thread.
Send(e, size) ==
  /\ posted' = [posted EXCEPT ![e] = Append(@, Enciphered(e, size))]
  /\ enc' = [enc EXCEPT ![e] = Plus(@, size)]
  /\ sent' = [sent EXCEPT ![e] = Append(@, size)]
  /\ UNCHANGED <<linkVars, key, dec, out, writing, validating, wire, readVars>>

\* msg_to_out leaves the header of a message without a body as it was made.
HeaderOf(m) ==
  [unit |-> "header", n |-> m.n, size |-> m.size,
   low |-> IF m.size > 0 THEN m.cou % Byte ELSE 0]

BodyOf(m) ==
  [unit |-> "body", n |-> m.n, size |-> m.size, key |-> m.key, cou |-> m.cou]

CanWrite(e) == open[e] /\ link = "up"

\* async_write of the queue, beside those that are pending: on a usable socket
\* the unit is on its way.
Write(e, pending, label, unit) ==
  /\ writing' = [writing EXCEPT ![e] =
                   Append(pending, IF CanWrite(e) THEN label ELSE "failing")]
  /\ wire' = IF CanWrite(e) THEN [wire EXCEPT ![e] = Append(@, unit)] ELSE wire

WriteHeader(e, pending, m) == Write(e, pending, "header", HeaderOf(m))

WriteBody(e, pending, m) == Write(e, pending, "body", BodyOf(m))

Mut_StartsWriting(e) == TRUE

\* !bWritingMessage: nothing was in the queue, hence nothing is being written.
StartsWriting(e) == out[e] = <<>>

\* Can the asio thread of e run a handler?  That of the client is busy inside
\* keys_receive, and it ends when there is nothing left to wait for.
Runs(e) ==
  e = "client" => alive /\ link # "stopped" /\ reading["client"] # "copied"

\* The posted lambda, on the asio thread.
RunPosted(e) ==
  /\ Runs(e) /\ posted[e] # <<>>
  /\ posted' = [posted EXCEPT ![e] = Tail(@)]
  /\ out' = [out EXCEPT ![e] = Append(@, Head(posted[e]))]
  /\ IF StartsWriting(e) THEN WriteHeader(e, writing[e], Head(out'[e]))
     ELSE UNCHANGED <<writing, wire>>
  /\ UNCHANGED <<linkVars, cipherVars, validating, readVars, sent>>

Mut_PopWritten(e) ==
  /\ out' = [out EXCEPT ![e] = Tail(@)]
  /\ writing' = [writing EXCEPT ![e] = Tail(@)]
  /\ UNCHANGED wire

\* The front message is written: pop it and go on with the next.
PopWritten(e) ==
  /\ out' = [out EXCEPT ![e] = Tail(@)]
  /\ IF out'[e] = <<>>
     THEN writing' = [writing EXCEPT ![e] = Tail(@)] /\ UNCHANGED wire
     ELSE WriteHeader(e, Tail(writing[e]), Head(out'[e]))

\* The oldest write of the queue has ended, and it wrote such a unit.
Written(e, label) ==
  Runs(e) /\ open[e] /\ writing[e] # <<>> /\ Head(writing[e]) = label

Mut_HeaderWritten(e) ==
  /\ Written(e, "header")
  /\ WriteBody(e, Tail(writing[e]), Head(out[e])) /\ UNCHANGED out
  /\ UNCHANGED <<linkVars, cipherVars, posted, validating, readVars, sent>>

\* The write handlers, without an error.
HeaderWritten(e) ==
  /\ Written(e, "header")
  /\ IF Head(out[e]).size > 0
     THEN WriteBody(e, Tail(writing[e]), Head(out[e])) /\ UNCHANGED out
     ELSE PopWritten(e)
  /\ UNCHANGED <<linkVars, cipherVars, posted, validating, readVars, sent>>

BodyWritten(e) ==
  /\ Written(e, "body")
  /\ PopWritten(e)
  /\ UNCHANGED <<linkVars, cipherVars, posted, validating, readVars, sent>>

\* Was this end's socket connected and then closed?
Closed(e) == ~open[e] /\ (e = "server" => key[e] = "session")

\* The write handlers with an error: the socket is not connected, or was closed
\* here or there.  The message stays at the front of the queue for ever.
WriteFails(e) ==
  /\ Runs(e) /\ writing[e] # <<>>
  /\ Head(writing[e]) = "failing" \/ Closed(e) \/ Closed(Peer(e))
  /\ open' = [open EXCEPT ![e] = FALSE]
  /\ writing' = [writing EXCEPT ![e] = Tail(@)]
  /\ UNCHANGED <<link, alive, cipherVars, posted, out, validating, wire, readVars,
                 sent>>

-----------------------------------------------------------------------------
\* Connecting.

\* TCP's handshake succeeds or fails.  The handler of async_connect has no
\* branch for an error: a failed attempt leaves the socket open, and the
\* io_context, unless Send has given it work, returns from run.
TcpUp ==
  /\ link = "connecting" /\ open["client"]
  /\ link' = "up"
  /\ UNCHANGED <<alive, open, cipherVars, writeVars, validating, wire, readVars,
                 sent>>

ConnectFails ==
  /\ link = "connecting"
  /\ link' = IF posted["client"] = <<>> /\ writing["client"] = <<>>
             THEN "stopped" ELSE "failed"
  /\ UNCHANGED <<alive, open, cipherVars, writeVars, validating, wire, readVars,
                 sent>>

\* The server's accept handler: OnClientConnect sends ServerAccept, which has no
\* body; skey_validation draws the counters (c for the client's, s for the
\* server's decipher counter), writes the keys, enciphered with the default key
\* from c on, and puts them to use; skey_ReadVal waits for the answer.  The
\* posted lambda of ServerAccept may start WriteHeader beside that write.
Accept ==
  /\ link = "up" /\ key["server"] = "default"
  /\ open' = [open EXCEPT !["server"] = TRUE]
  /\ posted' = [posted EXCEPT !["server"] = Append(@, Enciphered("server", 0))]
  /\ sent' = [sent EXCEPT !["server"] = Append(@, 0)]
  /\ \E c, s \in Seeds :
       /\ wire' = [wire EXCEPT !["server"] =
                     Append(@, [unit |-> "keys", client_cou |-> c, server_cou |-> s])]
       /\ enc' = [enc EXCEPT !["server"] = Plus(c, KeysBlocks)]
       /\ dec' = [dec EXCEPT !["server"] = s]
  /\ key' = [key EXCEPT !["server"] = "session"]
  /\ validating' = TRUE
  /\ reading' = [reading EXCEPT !["server"] = "answer"]
  /\ UNCHANGED <<link, alive, out, writing, tmp, received>>

\* The handler of skey_validation's write.
KeysWritten ==
  /\ validating
  /\ validating' = FALSE
  /\ \/ open["server"] /\ UNCHANGED open
     \/ /\ Closed("server") \/ Closed("client")
        /\ open' = [open EXCEPT !["server"] = FALSE]
  /\ UNCHANGED <<link, alive, cipherVars, writeVars, wire, readVars, sent>>

\* The client's connect handler waits for the keys.
Connected ==
  /\ alive /\ link = "up" /\ open["client"] /\ reading["client"] = "none"
  /\ reading' = [reading EXCEPT !["client"] = "keys"]
  /\ UNCHANGED <<linkVars, cipherVars, writeVars, validating, wire, tmp, received,
                 sent>>

\* The unit that e reads next.
Incoming(e) == wire[Peer(e)]

CanRead(e, label) ==
  Runs(e) /\ open[e] /\ reading[e] = label /\ Incoming(e) # <<>>

\* keys_receive, up to and with copy_cr_data ...
KeysCopied ==
  /\ CanRead("client", "keys")
  /\ LET k == Head(Incoming("client")) IN
       /\ dec' = [dec EXCEPT !["client"] = Plus(k.client_cou, KeysBlocks)]
       /\ enc' = [enc EXCEPT !["client"] = k.server_cou]
  /\ key' = [key EXCEPT !["client"] = "session"]
  /\ wire' = [wire EXCEPT !["server"] = Tail(@)]
  /\ reading' = [reading EXCEPT !["client"] = "copied"]
  /\ UNCHANGED <<linkVars, writeVars, validating, tmp, received, sent>>

Mut_AnswerCounter(counter) == counter

\* Enciphering the answer moves the client's counter.
AnswerCounter(counter) == Plus(counter, AnswerBlocks)

\* ... and from there on: a new decipher counter, and the answer that tells it
\* to the server is enciphered and written.
KeysAnswered ==
  /\ alive /\ open["client"] /\ reading["client"] = "copied"
  /\ \E c \in Seeds :
       /\ dec' = [dec EXCEPT !["client"] = c]
       /\ wire' = [wire EXCEPT !["client"] =
                     Append(@, [unit |-> "answer", client_cou |-> c,
                                cou |-> enc["client"]])]
  /\ enc' = [enc EXCEPT !["client"] = AnswerCounter(@)]
  /\ reading' = [reading EXCEPT !["client"] = "answering"]
  /\ tmp' = [tmp EXCEPT !["client"].body = "keys"]
  /\ UNCHANGED <<linkVars, key, writeVars, validating, received, sent>>

\* The answer is written: ReadHeader.
AnswerWritten ==
  /\ alive /\ open["client"] /\ reading["client"] = "answering"
  /\ reading' = [reading EXCEPT !["client"] = "header"]
  /\ UNCHANGED <<linkVars, cipherVars, writeVars, validating, wire, tmp, received,
                 sent>>

\* keys_final, once 28 bytes are there (an answer, or a message with a body):
\* the checksum holds for the client's answer enciphered with the counter the
\* server expects, and for nothing else.  When it does not hold, keys_final
\* enciphers what it has read before it gives up.
KeysFinal ==
  /\ CanRead("server", "answer")
  /\ \E i \in DOMAIN Incoming("server") :
       Incoming("server")[i].unit \in {"answer", "body"}
  /\ dec' = [dec EXCEPT !["server"] = Plus(@, AnswerBlocks)]
  /\ wire' = [wire EXCEPT !["client"] = Tail(@)]
  /\ tmp' = [tmp EXCEPT !["server"].body = "keys"]
  /\ LET a == Head(Incoming("server")) IN
     IF a.unit = "answer" /\ a.cou = dec["server"]
     THEN /\ enc' = [enc EXCEPT !["server"] = a.client_cou]
          /\ reading' = [reading EXCEPT !["server"] = "header"]
          /\ UNCHANGED open
     ELSE /\ open' = [open EXCEPT !["server"] = FALSE]
          /\ reading' = [reading EXCEPT !["server"] = "none"]
          /\ enc' = [enc EXCEPT !["server"] = Plus(@, AnswerBlocks)]
  /\ UNCHANGED <<link, alive, key, writeVars, validating, received, sent>>

-----------------------------------------------------------------------------
\* Receiving.

Mut_AddToIncoming(e, header, body) ==
  /\ received' = [received EXCEPT ![e] =
                    <<[n |-> header.n, size |-> header.size, body |-> body]>> \o @]
  /\ reading' = [reading EXCEPT ![e] = "header"]

\* AddToIncomingMessageQueue pushes a copy of m_msgTemporaryIn, its body
\* included, and starts the next ReadHeader.
AddToIncoming(e, header, body) ==
  /\ received' = [received EXCEPT ![e] =
                    Append(@, [n |-> header.n, size |-> header.size, body |-> body])]
  /\ reading' = [reading EXCEPT ![e] = "header"]

\* The handler of ReadHeader.
HeaderRead(e) ==
  /\ CanRead(e, "header")
  /\ wire' = [wire EXCEPT ![Peer(e)] = Tail(@)]
  /\ LET h == Head(Incoming(e)) IN
     /\ tmp' = [tmp EXCEPT ![e].n = h.n, ![e].size = h.size, ![e].low = h.low]
     /\ IF h.size > MaxPayload
        THEN /\ open' = [open EXCEPT ![e] = FALSE]
             /\ reading' = [reading EXCEPT ![e] = "none"]
             /\ UNCHANGED received
        ELSE /\ IF h.size > 0
                THEN reading' = [reading EXCEPT ![e] = "body"] /\ UNCHANGED received
                ELSE AddToIncoming(e, h, tmp[e].body)
             /\ UNCHANGED open
  /\ UNCHANGED <<link, alive, cipherVars, writeVars, validating, sent>>

\* The handler of ReadBody deciphers with msg_from_in, whose result it ignores.
BodyRead(e) ==
  /\ CanRead(e, "body")
  /\ wire' = [wire EXCEPT ![Peer(e)] = Tail(@)]
  /\ LET b == Head(Incoming(e))
         counter == Resync(dec[e], tmp[e].low)
         text == IF b.key = key[e] /\ b.cou = counter THEN "right" ELSE "garbled"
     IN
     /\ dec' = [dec EXCEPT ![e] = Plus(counter, tmp[e].size)]
     /\ tmp' = [tmp EXCEPT ![e].body = text]
     /\ AddToIncoming(e, tmp[e], text)
  /\ UNCHANGED <<linkVars, key, enc, writeVars, validating, sent>>

\* A read handler with an error, or that of the client's answer: this socket or
\* the peer's was closed.  What is still on the wire may be lost.
ReadFails(e) ==
  /\ Runs(e) /\ reading[e] \notin {"none", "copied"}
  /\ Closed(e) \/ Closed(Peer(e))
  /\ open' = [open EXCEPT ![e] = FALSE]
  /\ reading' = [reading EXCEPT ![e] = "none"]
  /\ UNCHANGED <<link, alive, cipherVars, writeVars, validating, wire, tmp,
                 received, sent>>

-----------------------------------------------------------------------------
\* The two programs.

HandshakeOver == reading["client"] \in {"header", "body"}

\* A key of the client: EchoServer and MakeAMove send a body,
\* NewGameWithPlayer does not; client_interface::Send asks IsConnected first.
PressKey ==
  /\ alive /\ open["client"]
  /\ Len(sent["client"]) < MaxSends
  /\ EarlySend \/ HandshakeOver
  /\ \E size \in Sizes : Send("client", size)

\* Key 0: the process ends and its socket with it.
Exit ==
  /\ alive
  /\ alive' = FALSE
  /\ open' = [open EXCEPT !["client"] = FALSE]
  /\ UNCHANGED <<link, cipherVars, writeVars, validating, wire, readVars, sent>>

\* The server's main thread sends to a client that has sent something: none,
\* one or several messages for each that it handles, of this client or of the
\* other player.  Every one of them has a body.
Serve ==
  /\ received["server"] # <<>>
  /\ Len(sent["server"]) <= MaxSends
  /\ \E size \in Sizes \ {0} : Send("server", size)

-----------------------------------------------------------------------------
\* One completion handler of the asio thread of e.
Handler(e) ==
  \/ RunPosted(e) \/ HeaderWritten(e) \/ BodyWritten(e) \/ WriteFails(e)
  \/ HeaderRead(e) \/ BodyRead(e) \/ ReadFails(e)

Handshake ==
  \/ Accept \/ KeysWritten \/ Connected \/ KeysCopied \/ KeysAnswered
  \/ AnswerWritten \/ KeysFinal

Next ==
  \/ TcpUp \/ ConnectFails \/ Handshake
  \/ \E e \in Ends : Handler(e)
  \/ PressKey \/ Exit \/ Serve

Spec == Init /\ [][Next]_vars

\* asio runs the handlers whose operations have completed.  Nothing is assumed
\* of the network's choice, of the user, or of the server's main thread.
FairSpec ==
  /\ Spec
  /\ WF_vars(Handshake)
  /\ \A e \in Ends :
       /\ WF_vars(RunPosted(e))
       /\ WF_vars(HeaderWritten(e) \/ BodyWritten(e) \/ WriteFails(e))
       /\ WF_vars(HeaderRead(e) \/ BodyRead(e) \/ ReadFails(e))

-----------------------------------------------------------------------------
Keys == {"default", "session"}

Contents == {"empty", "keys", "right", "garbled"}

Enciphereds == [n : Nat, size : Sizes, key : Keys, cou : Counters]

Units ==
  [unit : {"keys"}, client_cou : Counters, server_cou : Counters] \cup
  [unit : {"answer"}, client_cou : Counters, cou : Counters] \cup
  [unit : {"header"}, n : Nat, size : Sizes, low : 0 .. Byte - 1] \cup
  [unit : {"body"}, n : Nat, size : Sizes, key : Keys, cou : Counters]

TypeOK ==
  /\ link \in {"connecting", "up", "failed", "stopped"}
  /\ alive \in BOOLEAN
  /\ open \in [Ends -> BOOLEAN]
  /\ key \in [Ends -> Keys]
  /\ enc \in [Ends -> Counters] /\ dec \in [Ends -> Counters]
  /\ posted \in [Ends -> Seq(Enciphereds)] /\ out \in [Ends -> Seq(Enciphereds)]
  /\ writing \in [Ends -> Seq({"header", "body", "failing"})]
  /\ validating \in BOOLEAN
  /\ wire \in [Ends -> Seq(Units)]
  /\ reading \in [Ends -> {"none", "keys", "copied", "answering", "answer",
                           "header", "body"}]
  /\ tmp \in [Ends -> [n : Nat, size : Sizes, low : 0 .. Byte - 1,
                       body : Contents]]
  /\ sent \in [Ends -> Seq(Sizes)]
  /\ received \in [Ends -> Seq([n : Nat, size : Sizes, body : Contents])]

\* The outgoing queue has one async_write under way at most, none while it is
\* empty, and one as long as it is not, until a write fails and the socket is
\* closed: its writes never overlap and no message waits in it without a
\* writer.  The handshake's own write may overlap with the queue's
\* (net_connection.h:510 and 567 beside 269).
OneWriter ==
  \A e \in Ends :
    /\ Len(writing[e]) <= 1
    /\ out[e] = <<>> => writing[e] = <<>>
    /\ open[e] /\ out[e] # <<>> => writing[e] # <<>>

\* The reader is never out of step with the wire: whoever waits for the keys
\* finds the keys, although ServerAccept was sent before them and its write may
\* overlap with theirs, whoever waits for a header finds a header, whoever waits
\* for a body finds the body of the header it read, even when the user is faster
\* than the handshake.
Framed ==
  \A e \in Ends : open[e] /\ Incoming(e) # <<>> =>
    LET u == Head(Incoming(e)) IN
    /\ reading[e] = "keys" => u.unit = "keys"
    /\ reading[e] = "header" => u.unit = "header"
    /\ reading[e] = "body" => u.unit = "body" /\ u.n = tmp[e].n /\ u.size = tmp[e].size

\* What a message with a body says when it is handed to the program is what its
\* sender said ("Encryption message OK" in Scrc/test.cpp:62).
Deciphered ==
  \A e \in Ends : \A i \in DOMAIN received[e] :
    received[e][i].size > 0 => received[e][i].body = "right"

\* The blocks of each unit of a wire, and of each message of a queue.
Bodies(W) == [i \in DOMAIN W |-> IF W[i].unit = "body" THEN W[i].size ELSE 0]

Blocks(U) == [i \in DOMAIN U |-> U[i].size]

\* The messages of e whose bodies are not on the wire yet.
Unwritten(e) ==
  IF writing[e] = <<"body">> THEN Tail(out[e]) \o posted[e] ELSE out[e] \o posted[e]

\* Between two open ends the counters never drift: the sender's is ahead of the
\* receiver's by the bodies on their way, so that msg_from_in never has to
\* guess.  This holds for a user who waits for the end of the handshake.
CountersInStep ==
  /\ \A e \in Ends : open[e]
  /\ reading["server"] \in {"header", "body"} /\ HandshakeOver
  =>
    \A e \in Ends :
      enc[e] = Plus(dec[Peer(e)], Total(Bodies(wire[e])) + Total(Blocks(Unwritten(e))))

\* A message given to Send arrives, or the connection is closed.
Broken == \E e \in Ends : Closed(e)

Delivered ==
  \A e \in Ends : \A n \in 1 .. MaxSends + 1 :
    (link = "up" /\ Len(sent[e]) >= n) ~> (Len(received[Peer(e)]) >= n \/ Broken)

\* IsConnected tells whether the client is connected ("Check if client is
\* actually connected to a server", net_client.h:128): after a failed attempt
\* to connect it is false, sooner or later.
FailedConnectNoticed == (link \in {"failed", "stopped"}) ~> ~open["client"]

\* What has arrived from e, as <<number, size>>; a garbled body is no message.
Arrived(e) ==
  [i \in DOMAIN received[Peer(e)] |->
     LET m == received[Peer(e)][i] IN
     <<m.n, IF m.size > 0 /\ m.body # "right" THEN -1 ELSE m.size>>]

C == INSTANCE Channel WITH
       Messages <- (1 .. MaxSends + 1) \X Sizes,
       sent     <- [e \in Ends |-> [i \in DOMAIN sent[e] |-> <<i, sent[e][i]>>]],
       arrived  <- [e \in Ends |-> Arrived(e)]

\* The connection implements a channel in each direction: nothing is lost in
\* the middle, duplicated, reordered or changed.
Implements == C!Spec
=============================================================================
