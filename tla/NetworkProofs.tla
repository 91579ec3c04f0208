--------------------------- MODULE NetworkProofs ---------------------------
(***************************************************************************)
(* Proofs about Network, for every number of clients and of broadcasts:    *)
(* the deque of connections is the register it is meant to be, Disconnect  *)
(* lets nothing go while a handler may run, and a client's process is      *)
(* terminated only when the server's has ended.                            *)
(***************************************************************************)
EXTENDS Network, SharedLemmas

\* The port is open from the server's constructor to the end of its process, and
\* nobody is connected before.
PortOpen ==
  /\ listening <=> process \in {"listening", "running", "stopping"}
  /\ \A c \in Clients : tcp[c] \in {"backlog", "accepted"} => process # "off"
  /\ \A c \in Clients : ssock[c] # "none" <=> tcp[c] = "accepted"

\* A client's main thread that has connected goes on with its thread running or
\* ended; until it has left its loop nothing but the end of the server closes
\* either socket.
Loop(c) ==
  /\ pc[c] = "connect" =>
       \/ thread[c] = "none" /\ tcp[c] = "none" /\ csock[c] = "none" /\ work[c] = "none"
       \/ thread[c] \in {"running", "done"} /\ csock[c] = "closed"
  /\ pc[c] = "check" => thread[c] \in {"running", "done"}
  /\ pc[c] = "check" => csock[c] \in {"open", "closed"}
  /\ pc[c] \in {"connect", "check"} =>
       /\ csock[c] = "closed" => process = "dead"
       /\ ssock[c] = "closed" => process = "dead"
       /\ ~posted[c]
  /\ work[c] = "read" => tcp[c] \in {"backlog", "accepted"}

\* main's iterator never passes the end of the deque, which nothing shortens
\* while MessageAllClients is at work.
Iterates ==
  main.call = "all" => main.i >= 1 /\ main.end <= Len(m_deqConnections)

\* Who is in the deque has been accepted, and has the ID it got then.
Accepted ==
  /\ \A i \in DOMAIN m_deqConnections :
       m_deqConnections[i] # NoConnection => tcp[m_deqConnections[i]] = "accepted"

Ordered ==
  \A i, j \in DOMAIN m_deqConnections :
    /\ i < j
    /\ m_deqConnections[i] # NoConnection /\ m_deqConnections[j] # NoConnection
    => id[m_deqConnections[i]] < id[m_deqConnections[j]]

NullsKnown ==
  \A i \in DOMAIN m_deqConnections :
    m_deqConnections[i] = NoConnection => main.call = "all" /\ main.invalid

Present ==
  \A c \in Clients : ssock[c] = "open" =>
    \E i \in DOMAIN m_deqConnections : m_deqConnections[i] = c

\* The inductive invariant.
IInv ==
  /\ TypeOK
  /\ NoHandlerAfterExit
  /\ TerminatesWithServerOnly
  /\ PortOpen
  /\ \A c \in Clients : Loop(c)
  /\ Iterates
  /\ Accepted
  /\ ~raced => Ordered /\ NullsKnown /\ Present
-----------------------------------------------------------------------------
\* The steps.

\* What a step of the network is, action by action.
LEMMA NextSteps ==
  ASSUME IInv, [Next]_vars
  PROVE
    \/ \E c \in Clients : Reach(c) /\ UNCHANGED <<serverVars, clientVars>>
    \/ \E c \in Clients : Refuse(c) /\ UNCHANGED <<serverVars, clientVars>>
    \/ Construct /\ UNCHANGED clientVars
    \/ Start /\ UNCHANGED clientVars
    \/ \E c \in Clients : AcceptClient(c) /\ UNCHANGED clientVars
    \/ \E c \in Clients : ServerIOFails(c) /\ UNCHANGED clientVars
    \/ \E c \in Clients : Rejected(c) /\ UNCHANGED clientVars
    \/ MessageClient /\ UNCHANGED clientVars
    \/ MessageClientRemoves /\ UNCHANGED clientVars
    \/ MessageAllClients /\ UNCHANGED clientVars
    \/ VisitClient /\ UNCHANGED clientVars
    \/ RemoveClients /\ UNCHANGED clientVars
    \/ Stop /\ UNCHANGED clientVars
    \/ process \notin {"off", "dead"} /\ Die /\ UNCHANGED clientVars
    \/ \E c \in Clients : Connect(c) /\ UNCHANGED serverVars
    \/ \E c \in Clients : KeyZero(c) /\ UNCHANGED serverVars
    \/ \E c \in Clients : ConnectAgain(c) /\ UNCHANGED serverVars
    \/ \E c \in Clients : CheckConnected(c) /\ UNCHANGED serverVars
    \/ \E c \in Clients : ServerDown(c) /\ UNCHANGED serverVars
    \/ \E c \in Clients : PostClose(c) /\ UNCHANGED serverVars
    \/ \E c \in Clients : StopContext(c) /\ UNCHANGED serverVars
    \/ \E c \in Clients : JoinThread(c) /\ UNCHANGED serverVars
    \/ \E c \in Clients : Release(c) /\ UNCHANGED serverVars
    \/ \E c \in Clients : Connected(c) /\ UNCHANGED serverVars
    \/ \E c \in Clients : ConnectRefused(c) /\ UNCHANGED serverVars
    \/ \E c \in Clients : ClientReadFails(c) /\ UNCHANGED serverVars
    \/ \E c \in Clients : RunClose(c) /\ UNCHANGED serverVars
    \/ \E c \in Clients : ThreadEnds(c) /\ UNCHANGED serverVars
    \/ UNCHANGED vars
<1>1. CASE UNCHANGED vars
  BY <1>1
<1>2. ASSUME RemoteEndpointThrows \/ Stopped \/ Killed
      PROVE  process \notin {"off", "dead"} /\ Die
  BY <1>2 DEF RemoteEndpointThrows, AsioRuns, Stopped, Killed
<1> QED
  BY <1>1, <1>2, Zenon
     DEF Next, ServerNext, ServerAsio, ServerMain, ClientNext, ClientMain, ClientAsio

\* w has the connections of deq, each of them, in their order.
Keeps(w, deq) ==
  /\ \A i \in DOMAIN w : w[i] # NoConnection
  /\ \A k \in DOMAIN deq : deq[k] # NoConnection => \E i \in DOMAIN w : w[i] = deq[k]
  /\ \A i, j \in DOMAIN w : i < j =>
       \E k, l \in DOMAIN deq : k < l /\ w[i] = deq[k] /\ w[j] = deq[l]
  /\ \A i \in DOMAIN w : \E k \in DOMAIN deq : w[i] = deq[k]
  /\ Len(w) < Len(deq) => \E k \in DOMAIN deq : deq[k] = NoConnection

\* That is what WithoutNull leaves.
LEMMA WithoutNullKeeps ==
  ASSUME NEW deq \in Seq(Clients \cup {NoConnection})
  PROVE  /\ WithoutNull(deq) \in Seq(Clients \cup {NoConnection})
         /\ Keeps(WithoutNull(deq), deq)
<1> DEFINE places == {i \in DOMAIN deq : deq[i] # NoConnection}
<1>1. PICK w : w = WithoutNull(deq)
  OBVIOUS
<1>2. w = ElementsAt(deq, places)
  BY <1>1 DEF WithoutNull
<1>3. DOMAIN deq = 1 .. Len(deq)
  OBVIOUS
<1>4. w \in Seq(Clients \cup {NoConnection}) /\ \E at : Embeds(at, w, deq, Len(deq), places)
  <2> HIDE DEF places
  <2> QED
    BY <1>2, ElementsAtEmbeds
<1>5. PICK at : Embeds(at, w, deq, Len(deq), places)
  BY <1>4
<1>6. DOMAIN w = 1 .. Len(w)
  BY <1>4
<1>7. /\ \A i \in DOMAIN w : at[i] \in DOMAIN deq /\ at[i] \in places /\ w[i] = deq[at[i]]
      /\ \A i, j \in DOMAIN w : i < j => at[i] < at[j]
      /\ \A k \in DOMAIN deq : k \in places => \E i \in DOMAIN w : at[i] = k
  <2>1. \A i \in 1 .. Len(w) : at[i] \in 1 .. Len(deq)
    BY <1>5 DEF Embeds
  <2> HIDE DEF places
  <2> QED
    BY <1>3, <1>5, <1>6, <2>1 DEF Embeds
<1>8. Len(w) < Len(deq) => \E k \in DOMAIN deq : deq[k] = NoConnection
  <2>1. ASSUME ~\E k \in DOMAIN deq : deq[k] = NoConnection
        PROVE  Len(w) = Len(deq)
    <3>1. 1 .. Len(deq) \subseteq places
      BY <1>3, <2>1
    <3> HIDE DEF places
    <3> QED
      BY <1>2, <3>1, ElementsAtAll
  <2> QED
    BY <2>1
<1>9. Keeps(w, deq)
  <2>1. \A i \in DOMAIN w : w[i] # NoConnection
    BY <1>7
  <2>2. \A k \in DOMAIN deq : deq[k] # NoConnection => \E i \in DOMAIN w : w[i] = deq[k]
    BY <1>7
  <2>3. ASSUME NEW i \in DOMAIN w, NEW j \in DOMAIN w, i < j
        PROVE  \E k, l \in DOMAIN deq : k < l /\ w[i] = deq[k] /\ w[j] = deq[l]
    <3>1. at[i] \in DOMAIN deq /\ at[j] \in DOMAIN deq /\ at[i] < at[j]
      BY <1>7, <2>3
    <3>2. w[i] = deq[at[i]] /\ w[j] = deq[at[j]]
      BY <1>7
    <3> QED
      BY <3>1, <3>2
  <2>4. \A i \in DOMAIN w : \E k \in DOMAIN deq : w[i] = deq[k]
    BY <1>7
  <2> QED
    BY <1>8, <2>1, <2>2, <2>3, <2>4 DEF Keeps
<1> QED
  BY <1>1, <1>4, <1>9

\* The types.
LEMMA TypeNext ==
  ASSUME IInv, [Next]_vars
  PROVE  TypeOK'
<1> USE DEF IInv, TypeOK, NetTypeOK, ServerTypeOK, ClientTypeOK
<1>1. ASSUME NEW c \in Clients, Reach(c), UNCHANGED <<serverVars, clientVars>>
      PROVE  TypeOK'
  BY <1>1 DEF Reach, serverVars, clientVars
<1>2. ASSUME NEW c \in Clients, Refuse(c), UNCHANGED <<serverVars, clientVars>>
      PROVE  TypeOK'
  BY <1>2 DEF Refuse, serverVars, clientVars
<1>3. ASSUME Construct, UNCHANGED clientVars
      PROVE  TypeOK'
  BY <1>3 DEF Construct, clientVars
<1>4. ASSUME Start, UNCHANGED clientVars
      PROVE  TypeOK'
  BY <1>4 DEF Start, netVars, clientVars
<1>5. ASSUME NEW c \in Clients, AcceptClient(c), UNCHANGED clientVars
      PROVE  TypeOK'
  BY <1>5 DEF AcceptClient, AsioRuns, NewID, clientVars
<1>6. ASSUME NEW c \in Clients, ServerIOFails(c), UNCHANGED clientVars
      PROVE  TypeOK'
  BY <1>6 DEF ServerIOFails, AsioRuns, serverVars, clientVars
<1>7. ASSUME NEW c \in Clients, Rejected(c), UNCHANGED clientVars
      PROVE  TypeOK'
  BY <1>7 DEF Rejected, ServerRejects, AsioRuns, serverVars, clientVars
<1>8. ASSUME MessageClient, UNCHANGED clientVars
      PROVE  TypeOK'
  <2>1. main' = [call |-> "one", i |-> 0, end |-> 0, invalid |-> FALSE]
    BY <1>8 DEF MessageClient, Idle
  <2>2. main' \in [call : {"none", "one", "all"}, i : Nat, end : Nat, invalid : BOOLEAN]
    BY <2>1
  <2> QED
    BY <1>8, <2>2 DEF MessageClient, CallsNobody, netVars, clientVars
<1>9. ASSUME MessageClientRemoves, UNCHANGED clientVars
      PROVE  TypeOK'
  <2>1. WithoutNull(m_deqConnections) \in Seq(Clients \cup {NoConnection})
    BY WithoutNullKeeps
  <2>2. m_deqConnections' \in Seq(Clients \cup {NoConnection})
    BY <1>9, <2>1 DEF MessageClientRemoves
  <2>3. main' \in [call : {"none", "one", "all"}, i : Nat, end : Nat, invalid : BOOLEAN]
    BY <1>9 DEF MessageClientRemoves, Idle
  <2> QED
    BY <1>9, <2>2, <2>3 DEF MessageClientRemoves, netVars, clientVars
<1>10. ASSUME MessageAllClients, UNCHANGED clientVars
      PROVE  TypeOK'
  <2>1. main' = [call |-> "all", i |-> 1, end |-> Len(m_deqConnections), invalid |-> FALSE]
    BY <1>10 DEF MessageAllClients, Idle
  <2>2. main' \in [call : {"none", "one", "all"}, i : Nat, end : Nat, invalid : BOOLEAN]
    BY <2>1
  <2> QED
    BY <1>10, <2>2 DEF MessageAllClients, CallsNobody, netVars, clientVars
<1>11. ASSUME VisitClient, UNCHANGED clientVars
      PROVE  TypeOK'
  <2>1. m_deqConnections' \in Seq(Clients \cup {NoConnection})
    BY <1>11 DEF VisitClient
  <2>2. main' \in [call : {"none", "one", "all"}, i : Nat, end : Nat, invalid : BOOLEAN]
    <3>1. \/ main' = [main EXCEPT !.i = main.i + 1]
          \/ main' = [main EXCEPT !.i = main.i + 1, !.invalid = TRUE]
      BY <1>11 DEF VisitClient
    <3>2. main.i + 1 \in Nat
      OBVIOUS
    <3> QED
      BY <3>1, <3>2, ZenonT(60)
  <2> QED
    BY <1>11, <2>1, <2>2 DEF VisitClient, netVars, clientVars
<1>12. ASSUME RemoveClients, UNCHANGED clientVars
      PROVE  TypeOK'
  <2>1. WithoutNull(m_deqConnections) \in Seq(Clients \cup {NoConnection})
    BY WithoutNullKeeps
  <2>2. m_deqConnections' \in Seq(Clients \cup {NoConnection})
    BY <1>12, <2>1 DEF RemoveClients
  <2>3. main' \in [call : {"none", "one", "all"}, i : Nat, end : Nat, invalid : BOOLEAN]
    BY <1>12 DEF RemoveClients, Idle
  <2> QED
    BY <1>12, <2>2, <2>3 DEF RemoveClients, netVars, clientVars
<1>13. ASSUME Stop, UNCHANGED clientVars
      PROVE  TypeOK'
  BY <1>13 DEF Stop, netVars, clientVars
<1>14. ASSUME process \notin {"off", "dead"}, Die, UNCHANGED clientVars
      PROVE  TypeOK'
  BY <1>14 DEF Die, clientVars
<1>15. ASSUME NEW c \in Clients, Connect(c), UNCHANGED serverVars
      PROVE  TypeOK'
  BY <1>15 DEF Connect, Joinable, serverVars
<1>16. ASSUME NEW c \in Clients, KeyZero(c), UNCHANGED serverVars
      PROVE  TypeOK'
  BY <1>16 DEF KeyZero, Then, netVars, serverVars
<1>17. ASSUME NEW c \in Clients, ConnectAgain(c), UNCHANGED serverVars
      PROVE  TypeOK'
  BY <1>17 DEF ConnectAgain, Joinable, serverVars
<1>18. ASSUME NEW c \in Clients, CheckConnected(c), UNCHANGED serverVars
      PROVE  TypeOK'
  BY <1>18 DEF CheckConnected, netVars, serverVars
<1>19. ASSUME NEW c \in Clients, ServerDown(c), UNCHANGED serverVars
      PROVE  TypeOK'
  BY <1>19 DEF ServerDown, Then, netVars, serverVars
<1>20. ASSUME NEW c \in Clients, PostClose(c), UNCHANGED serverVars
      PROVE  TypeOK'
  BY <1>20 DEF PostClose, Then, netVars, serverVars
<1>21. ASSUME NEW c \in Clients, StopContext(c), UNCHANGED serverVars
      PROVE  TypeOK'
  BY <1>21 DEF StopContext, Then, netVars, serverVars
<1>22. ASSUME NEW c \in Clients, JoinThread(c), UNCHANGED serverVars
      PROVE  TypeOK'
  BY <1>22 DEF JoinThread, Then, netVars, serverVars
<1>23. ASSUME NEW c \in Clients, Release(c), UNCHANGED serverVars
      PROVE  TypeOK'
  BY <1>23 DEF Release, serverVars
<1>24. ASSUME NEW c \in Clients, Connected(c), UNCHANGED serverVars
      PROVE  TypeOK'
  BY <1>24 DEF Connected, netVars, serverVars
<1>25. ASSUME NEW c \in Clients, ConnectRefused(c), UNCHANGED serverVars
      PROVE  TypeOK'
  BY <1>25 DEF ConnectRefused, netVars, serverVars
<1>26. ASSUME NEW c \in Clients, ClientReadFails(c), UNCHANGED serverVars
      PROVE  TypeOK'
  BY <1>26 DEF ClientReadFails, ServerGone, serverVars
<1>27. ASSUME NEW c \in Clients, RunClose(c), UNCHANGED serverVars
      PROVE  TypeOK'
  BY <1>27 DEF RunClose, serverVars
<1>28. ASSUME NEW c \in Clients, ThreadEnds(c), UNCHANGED serverVars
      PROVE  TypeOK'
  BY <1>28 DEF ThreadEnds, netVars, serverVars
<1>29. ASSUME UNCHANGED vars
      PROVE  TypeOK'
  BY <1>29 DEF vars, netVars, serverVars, clientVars
<1> QED
  BY <1>1, <1>2, <1>3, <1>4, <1>5, <1>6, <1>7, <1>8, <1>9, <1>10, <1>11,
     <1>12, <1>13, <1>14, <1>15, <1>16, <1>17, <1>18, <1>19, <1>20, <1>21,
     <1>22, <1>23, <1>24, <1>25, <1>26, <1>27, <1>28, <1>29, NextSteps

\* The clients' main threads and sockets.
LEMMA ClientsNext ==
  ASSUME IInv, [Next]_vars
  PROVE  /\ NoHandlerAfterExit' /\ TerminatesWithServerOnly' /\ PortOpen'
         /\ \A c \in Clients : Loop(c)'
<1> DEFINE Goal == /\ NoHandlerAfterExit' /\ TerminatesWithServerOnly' /\ PortOpen'
                   /\ \A c \in Clients : Loop(c)'
<1> USE DEF IInv, TypeOK, NetTypeOK, ServerTypeOK, ClientTypeOK,
            NoHandlerAfterExit, TerminatesWithServerOnly, PortOpen, Loop
<1>1. ASSUME NEW c \in Clients, Reach(c), UNCHANGED <<serverVars, clientVars>>
      PROVE  Goal
  BY <1>1 DEF Reach, serverVars, clientVars
<1>2. ASSUME NEW c \in Clients, Refuse(c), UNCHANGED <<serverVars, clientVars>>
      PROVE  Goal
  BY <1>2 DEF Refuse, serverVars, clientVars
<1>3. ASSUME Construct, UNCHANGED clientVars
      PROVE  Goal
  BY <1>3 DEF Construct, clientVars
<1>4. ASSUME Start, UNCHANGED clientVars
      PROVE  Goal
  BY <1>4 DEF Start, netVars, clientVars
<1>5. ASSUME NEW c \in Clients, AcceptClient(c), UNCHANGED clientVars
      PROVE  Goal
  BY <1>5 DEF AcceptClient, AsioRuns, NewID, clientVars
<1>6. ASSUME NEW c \in Clients, ServerIOFails(c), UNCHANGED clientVars
      PROVE  Goal
  BY <1>6 DEF ServerIOFails, AsioRuns, serverVars, clientVars
<1>7. ASSUME NEW c \in Clients, Rejected(c), UNCHANGED clientVars
      PROVE  Goal
  BY <1>7 DEF Rejected, ServerRejects, AsioRuns, serverVars, clientVars
<1>8. ASSUME MessageClient, UNCHANGED clientVars
      PROVE  Goal
  BY <1>8 DEF MessageClient, CallsNobody, Idle, netVars, clientVars
<1>9. ASSUME MessageClientRemoves, UNCHANGED clientVars
      PROVE  Goal
  BY <1>9 DEF MessageClientRemoves, Idle, netVars, clientVars
<1>10. ASSUME MessageAllClients, UNCHANGED clientVars
      PROVE  Goal
  BY <1>10 DEF MessageAllClients, CallsNobody, Idle, netVars, clientVars
<1>11. ASSUME VisitClient, UNCHANGED clientVars
      PROVE  Goal
  BY <1>11 DEF VisitClient, IsConnected, netVars, clientVars
<1>12. ASSUME RemoveClients, UNCHANGED clientVars
      PROVE  Goal
  BY <1>12 DEF RemoveClients, TidiesUp, Idle, netVars, clientVars
<1>13. ASSUME Stop, UNCHANGED clientVars
      PROVE  Goal
  BY <1>13 DEF Stop, netVars, clientVars
<1>14. ASSUME process \notin {"off", "dead"}, Die, UNCHANGED clientVars
      PROVE  Goal
  BY <1>14 DEF Die, clientVars
<1>15. ASSUME NEW c \in Clients, Connect(c), UNCHANGED serverVars
      PROVE  Goal
  BY <1>15 DEF Connect, Joinable, serverVars
<1>16. ASSUME NEW c \in Clients, KeyZero(c), UNCHANGED serverVars
      PROVE  Goal
  BY <1>16 DEF KeyZero, Then, netVars, serverVars
<1>17. ASSUME NEW c \in Clients, ConnectAgain(c), UNCHANGED serverVars
      PROVE  Goal
  BY <1>17 DEF ConnectAgain, Joinable, serverVars
<1>18. ASSUME NEW c \in Clients, CheckConnected(c), UNCHANGED serverVars
      PROVE  Goal
  BY <1>18 DEF CheckConnected, netVars, serverVars
<1>19. ASSUME NEW c \in Clients, ServerDown(c), UNCHANGED serverVars
      PROVE  Goal
  BY <1>19 DEF ServerDown, Then, netVars, serverVars
<1>20. ASSUME NEW c \in Clients, PostClose(c), UNCHANGED serverVars
      PROVE  Goal
  BY <1>20 DEF PostClose, Then, netVars, serverVars
<1>21. ASSUME NEW c \in Clients, StopContext(c), UNCHANGED serverVars
      PROVE  Goal
  BY <1>21 DEF StopContext, Then, netVars, serverVars
<1>22. ASSUME NEW c \in Clients, JoinThread(c), UNCHANGED serverVars
      PROVE  Goal
  BY <1>22 DEF JoinThread, Then, netVars, serverVars
<1>23. ASSUME NEW c \in Clients, Release(c), UNCHANGED serverVars
      PROVE  Goal
  BY <1>23 DEF Release, serverVars
<1>24. ASSUME NEW c \in Clients, Connected(c), UNCHANGED serverVars
      PROVE  Goal
  BY <1>24 DEF Connected, netVars, serverVars
<1>25. ASSUME NEW c \in Clients, ConnectRefused(c), UNCHANGED serverVars
      PROVE  Goal
  BY <1>25 DEF ConnectRefused, netVars, serverVars
<1>26. ASSUME NEW c \in Clients, ClientReadFails(c), UNCHANGED serverVars
      PROVE  Goal
  BY <1>26 DEF ClientReadFails, ServerGone, serverVars
<1>27. ASSUME NEW c \in Clients, RunClose(c), UNCHANGED serverVars
      PROVE  Goal
  BY <1>27 DEF RunClose, serverVars
<1>28. ASSUME NEW c \in Clients, ThreadEnds(c), UNCHANGED serverVars
      PROVE  Goal
  BY <1>28 DEF ThreadEnds, netVars, serverVars
<1>29. ASSUME UNCHANGED vars
      PROVE  Goal
  BY <1>29 DEF vars, netVars, serverVars, clientVars
<1> QED
  BY <1>1, <1>2, <1>3, <1>4, <1>5, <1>6, <1>7, <1>8, <1>9, <1>10, <1>11,
     <1>12, <1>13, <1>14, <1>15, <1>16, <1>17, <1>18, <1>19, <1>20, <1>21,
     <1>22, <1>23, <1>24, <1>25, <1>26, <1>27, <1>28, <1>29, NextSteps

\* The nulls are removed at the end of MessageClient and of MessageAllClients.
LEMMA Tidied ==
  ASSUME IInv, m_deqConnections' = WithoutNull(m_deqConnections),
         UNCHANGED <<tcp, ssock, id, raced>>
  PROVE  Accepted' /\ (~raced => Ordered /\ NullsKnown /\ Present)'
<1>1. PICK w : w = WithoutNull(m_deqConnections)
  OBVIOUS
<1>2. m_deqConnections' = w
  BY <1>1
<1>3. m_deqConnections \in Seq(Clients \cup {NoConnection})
  BY DEF IInv, TypeOK, ServerTypeOK
<1>4. Keeps(w, m_deqConnections)
  BY <1>1, <1>3, WithoutNullKeeps
<1>5. Accepted'
  BY <1>2, <1>4 DEF IInv, Accepted, Keeps
<1>6. ~raced => Ordered'
  <2>1. ASSUME ~raced, NEW i \in DOMAIN w, NEW j \in DOMAIN w, i < j
        PROVE  id[w[i]] < id[w[j]]
    <3>1. PICK k \in DOMAIN m_deqConnections, l \in DOMAIN m_deqConnections :
            k < l /\ w[i] = m_deqConnections[k] /\ w[j] = m_deqConnections[l]
      BY <1>4, <2>1 DEF Keeps
    <3>2. m_deqConnections[k] # NoConnection /\ m_deqConnections[l] # NoConnection
      BY <1>4, <3>1 DEF Keeps
    <3> QED
      BY <2>1, <3>1, <3>2 DEF IInv, Ordered
  <2> QED
    BY <1>2, <2>1 DEF Ordered
<1>7. NullsKnown'
  BY <1>2, <1>4 DEF NullsKnown, Keeps
<1>8. ~raced => Present'
  <2>1. ASSUME ~raced, NEW c \in Clients, ssock[c] = "open"
        PROVE  \E i \in DOMAIN w : w[i] = c
    <3>1. PICK k \in DOMAIN m_deqConnections : m_deqConnections[k] = c
      BY <2>1 DEF IInv, Present
    <3>2. c # NoConnection
      BY NoConnectionAssumption
    <3> QED
      BY <1>4, <3>1, <3>2 DEF Keeps
  <2> QED
    BY <1>2, <2>1 DEF Present
<1> QED
  BY <1>5, <1>6, <1>7, <1>8

\* The deque of connections.
LEMMA DequeNext ==
  ASSUME IInv, [Next]_vars
  PROVE  Iterates' /\ Accepted' /\ (~raced => Ordered /\ NullsKnown /\ Present)'
<1> DEFINE DequeKept == Iterates' /\ Accepted' /\ (~raced => Ordered /\ NullsKnown /\ Present)'
<1> USE DEF IInv, TypeOK, NetTypeOK, ServerTypeOK, Iterates, Accepted, Ordered, NullsKnown, Present
<1>1. ASSUME NEW c \in Clients, Reach(c), UNCHANGED <<serverVars, clientVars>>
      PROVE  DequeKept
  BY <1>1 DEF Reach, serverVars, clientVars
<1>2. ASSUME NEW c \in Clients, Refuse(c), UNCHANGED <<serverVars, clientVars>>
      PROVE  DequeKept
  BY <1>2 DEF Refuse, serverVars, clientVars
<1>3. ASSUME Construct, UNCHANGED clientVars
      PROVE  DequeKept
  BY <1>3 DEF Construct, clientVars
<1>4. ASSUME Start, UNCHANGED clientVars
      PROVE  DequeKept
  BY <1>4 DEF Start, netVars, clientVars
<1>5. ASSUME NEW c \in Clients, AcceptClient(c), UNCHANGED clientVars
      PROVE  DequeKept
  <2>1. /\ tcp' = [tcp EXCEPT ![c] = "accepted"] /\ ssock' = [ssock EXCEPT ![c] = "open"]
        /\ id' = [id EXCEPT ![c] = nIDCounter] /\ main' = main
        /\ raced' = (raced \/ main.call # "none") /\ tcp[c] = "backlog"
    BY <1>5 DEF AcceptClient, NewID
  <2>2. PICK n \in Nat : n = Len(m_deqConnections)
    OBVIOUS
  <2>3. /\ DOMAIN m_deqConnections' = 1 .. n + 1 /\ Len(m_deqConnections') = n + 1
        /\ DOMAIN m_deqConnections = 1 .. n
        /\ m_deqConnections'[n + 1] = c
        /\ \A i \in 1 .. n : m_deqConnections'[i] = m_deqConnections[i]
    BY <1>5, <2>2 DEF AcceptClient
  <2>4. \A i \in 1 .. n : /\ m_deqConnections[i] # c
                          /\ m_deqConnections[i] \in Clients \cup {NoConnection}
    BY <2>1, <2>3, NoConnectionAssumption
  <2>5. \A i \in 1 .. n : m_deqConnections[i] # NoConnection =>
          /\ id[m_deqConnections[i]] < nIDCounter
          /\ id'[m_deqConnections[i]] = id[m_deqConnections[i]]
    BY <2>1, <2>3, <2>4
  <2>6. Iterates'
    BY <2>1, <2>2, <2>3
  <2>7. Accepted'
    BY <2>1, <2>3, <2>4
  <2>8. ~raced' => Ordered'
    <3>1. ASSUME ~raced, NEW i \in 1 .. n + 1, NEW j \in 1 .. n + 1, i < j,
                 m_deqConnections'[i] # NoConnection, m_deqConnections'[j] # NoConnection
          PROVE  id'[m_deqConnections'[i]] < id'[m_deqConnections'[j]]
      <4>1. i \in 1 .. n /\ m_deqConnections'[i] = m_deqConnections[i]
        BY <2>3, <3>1
      <4>2. CASE j = n + 1
        BY <2>1, <2>3, <2>5, <3>1, <4>1, <4>2
      <4>3. CASE j # n + 1
        <5>1. j \in 1 .. n /\ m_deqConnections'[j] = m_deqConnections[j]
          BY <2>3, <4>3
        <5> QED
          BY <2>3, <2>5, <3>1, <4>1, <5>1
      <4> QED
        BY <4>2, <4>3
    <3> QED
      BY <2>1, <2>3, <3>1
  <2>9. ~raced' => NullsKnown'
    BY <2>1, <2>3, NoConnectionAssumption
  <2>10. ~raced' => Present'
    <3>1. ASSUME ~raced, NEW d \in Clients, ssock'[d] = "open"
          PROVE  \E i \in 1 .. n + 1 : m_deqConnections'[i] = d
      <4>1. CASE d = c
        BY <2>2, <2>3, <4>1
      <4>2. CASE d # c
        <5>1. ssock[d] = "open"
          BY <2>1, <3>1, <4>2
        <5>2. PICK i \in 1 .. n : m_deqConnections[i] = d
          BY <2>3, <3>1, <5>1
        <5> QED
          BY <2>3, <5>2
      <4> QED
        BY <4>1, <4>2
    <3> QED
      BY <2>1, <2>3, <3>1, ZenonT(60)
  <2> QED
    BY <2>6, <2>7, <2>8, <2>9, <2>10
<1>6. ASSUME NEW c \in Clients, ServerIOFails(c), UNCHANGED clientVars
      PROVE  DequeKept
  BY <1>6 DEF ServerIOFails, AsioRuns, serverVars, clientVars
<1>7. ASSUME NEW c \in Clients, Rejected(c), UNCHANGED clientVars
      PROVE  DequeKept
  BY <1>7 DEF Rejected, ServerRejects, AsioRuns, serverVars, clientVars
<1>8. ASSUME MessageClient, UNCHANGED clientVars
      PROVE  DequeKept
  BY <1>8 DEF MessageClient, CallsNobody, Idle, netVars, clientVars
<1>9. ASSUME MessageClientRemoves, UNCHANGED clientVars
      PROVE  DequeKept
  BY <1>9, Tidied DEF MessageClientRemoves, Idle, netVars
<1>10. ASSUME MessageAllClients, UNCHANGED clientVars
      PROVE  DequeKept
  BY <1>10 DEF MessageAllClients, CallsNobody, Idle, netVars, clientVars
<1>11. ASSUME VisitClient, UNCHANGED clientVars
      PROVE  DequeKept
  <2>1. main.i \in 1 .. Len(m_deqConnections) /\ main.i \in DOMAIN m_deqConnections
    BY <1>11 DEF VisitClient
  <2>2. CASE IsConnected(m_deqConnections[main.i])
    BY <1>11, <2>1, <2>2 DEF VisitClient, netVars
  <2>3. CASE ~IsConnected(m_deqConnections[main.i])
    <3>1. /\ m_deqConnections' = [m_deqConnections EXCEPT ![main.i] = NoConnection]
          /\ main' = [main EXCEPT !.i = main.i + 1, !.invalid = TRUE]
          /\ UNCHANGED <<tcp, ssock, id, raced>>
      BY <1>11, <2>3 DEF VisitClient, netVars
    <3>2. /\ DOMAIN m_deqConnections' = DOMAIN m_deqConnections
          /\ Len(m_deqConnections') = Len(m_deqConnections)
          /\ m_deqConnections'[main.i] = NoConnection
          /\ \A i \in DOMAIN m_deqConnections :
               i # main.i => m_deqConnections'[i] = m_deqConnections[i]
      BY <2>1, <3>1
    <3>3. /\ main'.call = "all" /\ main'.invalid /\ main'.i = main.i + 1
          /\ main'.end = main.end
      BY <1>11, <3>1 DEF VisitClient
    <3>4. Iterates'
      <4>1. main.i \in Nat /\ main.i >= 1 /\ main.end <= Len(m_deqConnections)
        BY <1>11 DEF VisitClient
      <4> QED
        BY <3>2, <3>3, <4>1
    <3>5. Accepted'
      BY <3>1, <3>2
    <3>6. ~raced => Ordered'
      BY <3>1, <3>2
    <3>7. NullsKnown'
      BY <3>3
    <3>8. ~raced => Present'
      BY <2>3, <3>1, <3>2, NoConnectionAssumption DEF IsConnected
    <3> QED
      BY <3>1, <3>4, <3>5, <3>6, <3>7, <3>8
  <2> QED
    BY <2>2, <2>3
<1>12. ASSUME RemoveClients, UNCHANGED clientVars
      PROVE  DequeKept
  <2>1. Iterates'
    BY <1>12 DEF RemoveClients, Idle
  <2>2. CASE TidiesUp
    BY <1>12, <2>1, <2>2, Tidied DEF RemoveClients, netVars
  <2>3. CASE ~TidiesUp
    BY <1>12, <2>1, <2>3 DEF RemoveClients, TidiesUp, netVars
  <2> QED
    BY <2>2, <2>3
<1>13. ASSUME Stop, UNCHANGED clientVars
      PROVE  DequeKept
  BY <1>13 DEF Stop, netVars, clientVars
<1>14. ASSUME process \notin {"off", "dead"}, Die, UNCHANGED clientVars
      PROVE  DequeKept
  BY <1>14 DEF Die, clientVars
<1>15. ASSUME NEW c \in Clients, Connect(c), UNCHANGED serverVars
      PROVE  DequeKept
  <2>1. tcp[c] = "none"
    BY <1>15 DEF Connect, Joinable, Loop
  <2>2. \A i \in DOMAIN m_deqConnections : m_deqConnections[i] # c
    BY <2>1, NoConnectionAssumption
  <2> QED
    BY <1>15, <2>2 DEF Connect, serverVars
<1>16. ASSUME NEW c \in Clients, KeyZero(c), UNCHANGED serverVars
      PROVE  DequeKept
  BY <1>16 DEF KeyZero, Then, netVars, serverVars
<1>17. ASSUME NEW c \in Clients, ConnectAgain(c), UNCHANGED serverVars
      PROVE  DequeKept
  BY <1>17 DEF ConnectAgain, Joinable, serverVars
<1>18. ASSUME NEW c \in Clients, CheckConnected(c), UNCHANGED serverVars
      PROVE  DequeKept
  BY <1>18 DEF CheckConnected, netVars, serverVars
<1>19. ASSUME NEW c \in Clients, ServerDown(c), UNCHANGED serverVars
      PROVE  DequeKept
  BY <1>19 DEF ServerDown, Then, netVars, serverVars
<1>20. ASSUME NEW c \in Clients, PostClose(c), UNCHANGED serverVars
      PROVE  DequeKept
  BY <1>20 DEF PostClose, Then, netVars, serverVars
<1>21. ASSUME NEW c \in Clients, StopContext(c), UNCHANGED serverVars
      PROVE  DequeKept
  BY <1>21 DEF StopContext, Then, netVars, serverVars
<1>22. ASSUME NEW c \in Clients, JoinThread(c), UNCHANGED serverVars
      PROVE  DequeKept
  BY <1>22 DEF JoinThread, Then, netVars, serverVars
<1>23. ASSUME NEW c \in Clients, Release(c), UNCHANGED serverVars
      PROVE  DequeKept
  BY <1>23 DEF Release, serverVars
<1>24. ASSUME NEW c \in Clients, Connected(c), UNCHANGED serverVars
      PROVE  DequeKept
  BY <1>24 DEF Connected, netVars, serverVars
<1>25. ASSUME NEW c \in Clients, ConnectRefused(c), UNCHANGED serverVars
      PROVE  DequeKept
  BY <1>25 DEF ConnectRefused, netVars, serverVars
<1>26. ASSUME NEW c \in Clients, ClientReadFails(c), UNCHANGED serverVars
      PROVE  DequeKept
  BY <1>26 DEF ClientReadFails, ServerGone, serverVars
<1>27. ASSUME NEW c \in Clients, RunClose(c), UNCHANGED serverVars
      PROVE  DequeKept
  BY <1>27 DEF RunClose, serverVars
<1>28. ASSUME NEW c \in Clients, ThreadEnds(c), UNCHANGED serverVars
      PROVE  DequeKept
  BY <1>28 DEF ThreadEnds, netVars, serverVars
<1>29. ASSUME UNCHANGED vars
      PROVE  DequeKept
  BY <1>29 DEF vars, netVars, serverVars, clientVars
<1> QED
  BY <1>1, <1>2, <1>3, <1>4, <1>5, <1>6, <1>7, <1>8, <1>9, <1>10, <1>11,
     <1>12, <1>13, <1>14, <1>15, <1>16, <1>17, <1>18, <1>19, <1>20, <1>21,
     <1>22, <1>23, <1>24, <1>25, <1>26, <1>27, <1>28, <1>29, NextSteps

\* The invariant holds of the initial states ...
LEMMA InitInv == Init => IInv
<1>1. Init => TypeOK
  <2>1. SUFFICES ASSUME Init PROVE NetTypeOK /\ ServerTypeOK /\ ClientTypeOK
    BY DEF TypeOK
  <2>2. NetTypeOK
    BY <2>1 DEF Init, NetInit, NetTypeOK
  <2>3. ServerTypeOK
    <3>1. m_deqConnections \in Seq(Clients \cup {NoConnection})
      BY <2>1 DEF Init, ServerInit
    <3>2. main \in [call : {"none", "one", "all"}, i : Nat, end : Nat, invalid : BOOLEAN]
      BY <2>1 DEF Init, ServerInit, Idle
    <3>3. \A c \in Clients : tcp[c] = "none"
      BY <2>1 DEF Init, NetInit
    <3> QED
      BY <2>1, <3>1, <3>2, <3>3 DEF Init, ServerInit, ServerTypeOK
  <2>4. ClientTypeOK
    BY <2>1 DEF Init, ClientInit, ClientTypeOK
  <2> QED
    BY <2>2, <2>3, <2>4
<1>2. Init => /\ NoHandlerAfterExit /\ TerminatesWithServerOnly /\ PortOpen
              /\ \A c \in Clients : Loop(c)
  <2>1. SUFFICES ASSUME Init
                 PROVE  /\ NoHandlerAfterExit /\ TerminatesWithServerOnly /\ PortOpen
                        /\ \A c \in Clients : Loop(c)
    OBVIOUS
  <2>2. ~listening /\ process = "off"
    BY <2>1 DEF Init, NetInit, ServerInit
  <2>3. \A c \in Clients :
          /\ tcp[c] = "none" /\ csock[c] = "none" /\ ssock[c] = "none"
          /\ pc[c] = "connect" /\ thread[c] = "none" /\ work[c] = "none" /\ ~posted[c]
    BY <2>1 DEF Init, NetInit, ClientInit
  <2> QED
    BY <2>2, <2>3 DEF NoHandlerAfterExit, TerminatesWithServerOnly, PortOpen, Loop
<1>3. Init => Iterates /\ Accepted /\ Ordered /\ NullsKnown /\ Present
  <2>1. SUFFICES ASSUME Init PROVE Iterates /\ Accepted /\ Ordered /\ NullsKnown /\ Present
    OBVIOUS
  <2>2. /\ DOMAIN m_deqConnections = {} /\ main.call = "none"
        /\ \A c \in Clients : ssock[c] = "none"
    BY <2>1 DEF Init, NetInit, ServerInit, Idle
  <2> QED
    BY <2>2 DEF Iterates, Accepted, Ordered, NullsKnown, Present
<1> QED
  BY <1>1, <1>2, <1>3 DEF IInv

\* ... and every step keeps it.
LEMMA NextInv == IInv /\ [Next]_vars => IInv'
  BY TypeNext, ClientsNext, DequeNext DEF IInv

\* IInv holds throughout: the types of the system, and who runs which thread of
\* server_interface and client_interface (Start, Stop, Connect, Disconnect).
THEOREM Invariant == Spec => []IInv
  BY InitInv, NextInv, PTL DEF Spec

-----------------------------------------------------------------------------
\* What the invariant gives.

\* Every variable has its type; an accepted client's ID is one that
\* nIDCounter has given out.
THEOREM TypeCorrect == Spec => []TypeOK
<1>1. IInv => TypeOK
  BY DEF IInv
<1> QED
  BY <1>1, Invariant, PTL

\* Disconnect lets the connection go only after the asio thread has ended: no
\* handler runs on objects that are being destroyed (net_client.h, Disconnect).
THEOREM NoHandler == Spec => []NoHandlerAfterExit
<1>1. IInv => NoHandlerAfterExit
  BY DEF IInv
<1> QED
  BY <1>1, Invariant, PTL

\* Connect assigns to a joinable thread, which terminates the client, only after
\* the server's process has ended.
THEOREM Terminates == Spec => []TerminatesWithServerOnly
<1>1. IInv => TerminatesWithServerOnly
  BY DEF IInv
<1> QED
  BY <1>1, Invariant, PTL

\* Without an accept in the middle of a broadcast the deque lists every open
\* client once, in the order of the IDs, and has nulls only during a broadcast.
THEOREM Register == Spec => []Registered
<1>1. IInv => Registered
  <2>1. SUFFICES ASSUME IInv, ~raced
                 PROVE  /\ Len(Kept) < Len(m_deqConnections) => main.call = "all"
                        /\ \A i, j \in DOMAIN Kept : i < j => id[Kept[i]] < id[Kept[j]]
                        /\ \A c \in Clients : ssock[c] = "open" =>
                             \E i \in DOMAIN Kept : Kept[i] = c
    BY DEF Registered
  <2>2. PICK w : w = Kept
    OBVIOUS
  <2>3. Keeps(w, m_deqConnections)
    BY <2>1, <2>2, WithoutNullKeeps DEF Kept, IInv, TypeOK, ServerTypeOK
  <2>4. Ordered /\ NullsKnown /\ Present
    BY <2>1 DEF IInv
  <2>5. Len(w) < Len(m_deqConnections) => main.call = "all"
    BY <2>3, <2>4 DEF Keeps, NullsKnown
  <2>6. ASSUME NEW i \in DOMAIN w, NEW j \in DOMAIN w, i < j
        PROVE  id[w[i]] < id[w[j]]
    <3>1. PICK k \in DOMAIN m_deqConnections, l \in DOMAIN m_deqConnections :
            k < l /\ w[i] = m_deqConnections[k] /\ w[j] = m_deqConnections[l]
      BY <2>3, <2>6 DEF Keeps
    <3>2. m_deqConnections[k] # NoConnection /\ m_deqConnections[l] # NoConnection
      BY <2>3, <3>1 DEF Keeps
    <3> QED
      BY <2>4, <3>1, <3>2 DEF Ordered
  <2>7. ASSUME NEW c \in Clients, ssock[c] = "open"
        PROVE  \E i \in DOMAIN w : w[i] = c
    <3>1. PICK k \in DOMAIN m_deqConnections : m_deqConnections[k] = c
      BY <2>4, <2>7 DEF Present
    <3>2. c # NoConnection
      BY NoConnectionAssumption
    <3> QED
      BY <2>3, <3>1, <3>2 DEF Keeps
  <2> QED
    BY <2>2, <2>5, <2>6, <2>7
<1> QED
  BY <1>1, Invariant, PTL
=============================================================================
