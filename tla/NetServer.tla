----------------------------- MODULE NetServer -----------------------------
(***************************************************************************)
(* server_interface of net_server.h: the deque of connections, which the   *)
(* asio thread fills as it accepts and the main thread walks through to    *)
(* send and to tidy up, and the server's start and end.  What is sent and  *)
(* received on a connection is in Session.                                 *)
(*                                                                         *)
(* The XO server calls Start and Update and never ends by itself;          *)
(* MessageClient, MessageAllClients and Stop are there for the main thread *)
(* of any server, and are modelled for one that calls them.                *)
(***************************************************************************)
EXTENDS Sockets, Queues

CONSTANTS
  NoConnection,  \* nullptr
  MaxBroadcasts  \* bound: calls of MessageAllClients and of MessageClient

ASSUME NoConnectionAssumption == NoConnection \notin Clients
ASSUME BroadcastsAssumption == MaxBroadcasts \in Nat

VARIABLES
  process,          \* "off", "listening", "running", "stopping", "dead"
  m_deqConnections, \* a sequence of clients, a nullptr for one being removed
  nIDCounter,       \* counted from 0, in the code from 10000
  id,               \* connection::id; -1: none yet
  main,             \* the main thread: in "none", "one" (MessageClient) or
                    \* "all" (MessageAllClients), the position of its iterator
                    \* and of the end, and bInvalidClientExists
  broadcasts,       \* how many such calls there have been
  raced             \* history: was the deque extended during such a call?

serverVars == <<process, m_deqConnections, nIDCounter, id, main, broadcasts, raced>>

Idle == [call |-> "none", i |-> 0, end |-> 0, invalid |-> FALSE]

ServerInit ==
  /\ process = "off"
  /\ m_deqConnections = <<>>
  /\ nIDCounter = 0
  /\ id = [c \in Clients |-> -1]
  /\ main = Idle
  /\ broadcasts = 0
  /\ raced = FALSE

\* The constructor opens the port; Start then waits for a client and runs the
\* asio thread.  If Start fails the program goes on as if it were yet to come.
Construct ==
  /\ process = "off"
  /\ process' = "listening"
  /\ listening' = TRUE
  /\ UNCHANGED <<tcp, csock, ssock, m_deqConnections, nIDCounter, id, main,
                 broadcasts, raced>>

Start ==
  /\ process = "listening"
  /\ process' = "running"
  /\ UNCHANGED <<netVars, m_deqConnections, nIDCounter, id, main, broadcasts, raced>>

\* The end of the process closes every socket of it.
Die ==
  /\ process' = "dead"
  /\ listening' = FALSE
  /\ ssock' = [c \in Clients |-> IF ssock[c] = "open" THEN "closed" ELSE ssock[c]]
  /\ UNCHANGED <<tcp, csock, m_deqConnections, nIDCounter, id, main, broadcasts, raced>>

-----------------------------------------------------------------------------
\* The asio thread.

AsioRuns == process \in {"running", "stopping"}

Mut_NewID == nIDCounter - 1

\* nIDCounter++
NewID == nIDCounter

\* The accept handler: the XO server's OnClientConnect denies nobody.
AcceptClient(c) ==
  /\ AsioRuns /\ tcp[c] = "backlog"
  /\ tcp' = [tcp EXCEPT ![c] = "accepted"]
  /\ ssock' = [ssock EXCEPT ![c] = "open"]
  /\ m_deqConnections' = Append(m_deqConnections, c)
  /\ id' = [id EXCEPT ![c] = NewID]
  /\ nIDCounter' = nIDCounter + 1
  /\ raced' = (raced \/ main.call # "none")
  /\ UNCHANGED <<listening, csock, process, main, broadcasts>>

\* The accept handler asks for remote_endpoint() outside any try: when the
\* client has gone in the meantime this may throw, out of the asio thread.
RemoteEndpointThrows ==
  /\ AsioRuns
  /\ \E c \in Clients : tcp[c] = "backlog" /\ csock[c] = "closed"
  /\ Die

Mut_ServerIOFails(c) ==
  /\ AsioRuns /\ ssock[c] = "open" /\ csock[c] = "closed"
  /\ UNCHANGED <<netVars, serverVars>>

\* A read or write handler with an error closes the socket.
ServerIOFails(c) ==
  /\ AsioRuns /\ ssock[c] = "open" /\ csock[c] = "closed"
  /\ ssock' = [ssock EXCEPT ![c] = "closed"]
  /\ UNCHANGED <<listening, tcp, csock, serverVars>>

\* The handshake fails, or a header announces too long a body: close.
ServerRejects(c) ==
  /\ AsioRuns /\ ssock[c] = "open"
  /\ ssock' = [ssock EXCEPT ![c] = "closed"]
  /\ UNCHANGED <<listening, tcp, csock, serverVars>>

-----------------------------------------------------------------------------
\* The main thread.

Mut_WithoutNull(deq) ==
  SubSeq(deq, 1, Len(deq) - Len(SelectSeq(deq, LAMBDA c : c = NoConnection)))

\* erase(remove(begin, end, nullptr), end)
WithoutNull(deq) == ElementsAt(deq, {i \in DOMAIN deq : deq[i] # NoConnection})

CallsNobody == process = "running" /\ main.call = "none" /\ broadcasts < MaxBroadcasts

\* MessageClient sends to a connected client.  The pointer to another is its
\* own copy: it is reset before the deque is searched for it, so that nullptrs
\* are removed and the client itself stays.
MessageClient ==
  /\ CallsNobody
  /\ \E c \in Clients : ssock[c] = "closed"
  /\ main' = [Idle EXCEPT !.call = "one"]
  /\ broadcasts' = broadcasts + 1
  /\ UNCHANGED <<netVars, process, m_deqConnections, nIDCounter, id, raced>>

MessageClientRemoves ==
  /\ process = "running" /\ main.call = "one"
  /\ m_deqConnections' = WithoutNull(m_deqConnections)
  /\ main' = Idle
  /\ UNCHANGED <<netVars, process, nIDCounter, id, broadcasts, raced>>

\* MessageAllClients: the loop's end is where the deque ended when it began.
MessageAllClients ==
  /\ CallsNobody
  /\ main' = [Idle EXCEPT !.call = "all", !.i = 1, !.end = Len(m_deqConnections)]
  /\ broadcasts' = broadcasts + 1
  /\ UNCHANGED <<netVars, process, m_deqConnections, nIDCounter, id, raced>>

IsConnected(c) == c # NoConnection /\ ssock[c] = "open"

\* One round of the loop: a connected client is sent the message, the pointer
\* to another is reset in its place.
VisitClient ==
  /\ process = "running" /\ main.call = "all" /\ main.i <= main.end
  /\ IF IsConnected(m_deqConnections[main.i])
     THEN main' = [main EXCEPT !.i = @ + 1] /\ UNCHANGED m_deqConnections
     ELSE /\ main' = [main EXCEPT !.i = @ + 1, !.invalid = TRUE]
          /\ m_deqConnections' = [m_deqConnections EXCEPT ![main.i] = NoConnection]
  /\ UNCHANGED <<netVars, process, nIDCounter, id, broadcasts, raced>>

Mut_TidiesUp ==
  m_deqConnections # <<>> /\ m_deqConnections[Len(m_deqConnections)] = NoConnection

TidiesUp == main.invalid

\* After the loop the reset pointers are removed all in one go.
RemoveClients ==
  /\ process = "running" /\ main.call = "all" /\ main.i > main.end
  /\ m_deqConnections' =
       IF TidiesUp THEN WithoutNull(m_deqConnections) ELSE m_deqConnections
  /\ main' = Idle
  /\ UNCHANGED <<netVars, process, nIDCounter, id, broadcasts, raced>>

\* Stop, as the destructor calls it: the asio thread finishes its handler and is
\* joined; the sockets go with the object.
Stop ==
  /\ process = "running" /\ main.call = "none"
  /\ process' = "stopping"
  /\ UNCHANGED <<netVars, m_deqConnections, nIDCounter, id, main, broadcasts, raced>>

Stopped == process = "stopping" /\ Die

\* Somebody closes the console.
Killed == process \notin {"off", "dead"} /\ Die

-----------------------------------------------------------------------------
ServerAsio ==
  \/ \E c \in Clients : AcceptClient(c) \/ ServerIOFails(c)
  \/ RemoteEndpointThrows

ServerMain ==
  MessageClientRemoves \/ VisitClient \/ RemoveClients \/ Stopped

ServerNext ==
  \/ Construct \/ Start \/ ServerAsio
  \/ MessageClient \/ MessageAllClients \/ Stop \/ ServerMain \/ Killed

ServerTypeOK ==
  /\ process \in {"off", "listening", "running", "stopping", "dead"}
  /\ m_deqConnections \in Seq(Clients \cup {NoConnection})
  /\ nIDCounter \in Nat
  /\ id \in [Clients -> Nat \cup {-1}]
  /\ \A c \in Clients : tcp[c] = "accepted" => id[c] \in 0 .. nIDCounter - 1
  /\ main \in [call : {"none", "one", "all"}, i : Nat, end : Nat, invalid : BOOLEAN]
  /\ broadcasts \in Nat
  /\ raced \in BOOLEAN
=============================================================================
