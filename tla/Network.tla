------------------------------ MODULE Network ------------------------------
(***************************************************************************)
(* The server and its clients as processes that come and go: NetServer and *)
(* NetClient over the same sockets.                                        *)
(***************************************************************************)
EXTENDS NetServer, NetClient, FiniteSets

vars == <<netVars, serverVars, clientVars>>

Init == NetInit /\ ServerInit /\ ClientInit

\* A client sends nothing the server would reject before its key loop: Session
\* has the details.
Rejected(c) == pc[c] \notin {"connect", "check"} /\ ServerRejects(c)

Next ==
  \/ \E c \in Clients : (Reach(c) \/ Refuse(c)) /\ UNCHANGED <<serverVars, clientVars>>
  \/ ServerNext /\ UNCHANGED clientVars
  \/ \E c \in Clients : Rejected(c) /\ UNCHANGED clientVars
  \/ ClientNext /\ UNCHANGED serverVars

Spec == Init /\ [][Next]_vars

\* The asio threads run their handlers and the main threads go on with what they
\* have begun.  Nobody has to start the server, to end it or to leave.
FairSpec ==
  /\ Spec
  /\ \A c \in Clients :
       /\ WF_vars(ClientMain(c) /\ UNCHANGED serverVars)
       /\ WF_vars(ClientAsio(c) /\ UNCHANGED serverVars)
       /\ WF_vars(ServerIOFails(c) /\ UNCHANGED clientVars)
  /\ WF_vars(ServerMain /\ UNCHANGED clientVars)

-----------------------------------------------------------------------------
TypeOK == NetTypeOK /\ ServerTypeOK /\ ClientTypeOK

Kept == WithoutNull(m_deqConnections)

\* As long as no client was accepted in the middle of MessageClient or
\* MessageAllClients, the deque is the register it is meant to be: it has a null
\* pointer only while MessageAllClients is at work, lists each client once in
\* the order of the IDs, and no client whose socket is open is missing.
Registered ==
  ~raced =>
    /\ Len(Kept) < Len(m_deqConnections) => main.call = "all"
    /\ \A i, j \in DOMAIN Kept : i < j => id[Kept[i]] < id[Kept[j]]
    /\ \A c \in Clients : ssock[c] = "open" =>
         \E i \in DOMAIN Kept : Kept[i] = c

\* A client's process ends in std::terminate only if the server has ended while
\* the client was starting; a refused connection does not lead there.
TerminatesWithServerOnly ==
  \A c \in Clients : pc[c] = "terminated" => process = "dead"

\* Disconnect comes to its end, whatever the asio thread was waiting for.
ExitCompletes ==
  \A c \in Clients : (pc[c] \in {"close", "stop", "join", "release"}) ~> (pc[c] = "gone")

\* A server that runs notices that a client has gone: it closes its socket too.
ServerNotices ==
  \A c \in Clients :
    (tcp[c] = "accepted" /\ pc[c] \in {"gone", "terminated"})
      ~> (ssock[c] = "closed" \/ ~AsioRuns)

\* A client whose server has gone leaves ("Server Down", XOclient.cpp:87).
ClientNotices ==
  \A c \in Clients :
    (tcp[c] = "accepted" /\ ssock[c] = "closed") ~> (pc[c] \in {"gone", "terminated"})

\* MessageAllClients forgets the clients that had gone when it began, and leaves
\* no null pointer behind.
BroadcastTidies ==
  \A c \in Clients :
    (main.call = "all" /\ main.i = 1 /\ ssock[c] = "closed")
      ~> (raced \/ process # "running" \/
          \A i \in DOMAIN m_deqConnections : m_deqConnections[i] \notin {c, NoConnection})
=============================================================================
