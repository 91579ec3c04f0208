--------------------------- MODULE XOServerProofs ---------------------------
(***************************************************************************)
(* Proofs about XOServer, for any set of clients and of game IDs, any      *)
(* number of key presses, and whether or not game IDs collide.             *)
(***************************************************************************)
EXTENDS XOServer, SequenceTheorems, TLAPS

-----------------------------------------------------------------------------
\* Type correctness.

\* A message without a game_info is a message to a client.
LEMMA PlainType ==
  ASSUME NEW type \in {"ServerAccept", "ServerEcho"}
  PROVE  Plain(type) \in Reply
  BY DEF Plain, Reply

\* So is a GameStatus ...
LEMMA GameInfoType ==
  ASSUME NEW g \in GameIDs, NEW p \in Nat, NEW status \in ClientStatuses
  PROVE  GameInfo(g, p, status) \in Reply
  BY DEF GameInfo, Reply

\* ... and a ServerError, which prepErrMsg builds.
LEMMA ErrInfoType ==
  ASSUME NEW g \in GameIDs, NEW p \in Nat, NEW err \in ErrorCodes
  PROVE  ErrInfo(g, p, err) \in Reply
  BY DEF ErrInfo, Reply

\* Posting a message keeps the wires wires.
LEMMA PostedType ==
  ASSUME NEW wires \in [Clients -> Seq(Reply)], NEW c \in Clients, NEW m \in Reply
  PROVE  Posted(wires, c, m) \in [Clients -> Seq(Reply)]
  BY SMT DEF Posted

\* The record that OpenGame stores is a game.
LEMMA NewGameType ==
  ASSUME TypeOK, NEW c \in Clients
  PROVE  NewGame(c) \in Game
  BY SMT DEF NewGame, Game, Turns, Started, TypeOK

\* The record that JoinGame stores is a game.
LEMMA JoinedType ==
  ASSUME TypeOK, NEW c \in Clients, NEW G \in Game, NEW status \in Started
  PROVE  Joined(G, c, status) \in Game
<1>1. connID[c] \in Nat
  BY DEF TypeOK
<1>2. TurnOf(status) \in Turns
  BY DEF TurnOf, Turns
<1> QED
  BY <1>1, <1>2, SMT DEF Joined, Game, Started

\* chkPlayerGame leaves a map of games behind.
LEMMA GamesCheckedType ==
  ASSUME TypeOK, NEW c \in Clients
  PROVE  GamesChecked(c) \in [GameIDs -> Game \cup {NoGame}]
<1>1. games \in [GameIDs -> Game \cup {NoGame}] /\ connGame[c] \in GameIDs \cup {0}
  BY DEF TypeOK
<1> QED
  BY <1>1, SMT DEF GamesChecked

\* The two answers to the players of a started game are messages to clients.
LEMMA AnnouncedType ==
  ASSUME TypeOK, NEW g \in GameIDs, NEW G \in Game, NEW c \in Clients, NEW status \in Started
  PROVE  Announced(down, g, G, c, status) \in [Clients -> Seq(Reply)]
<1>1. /\ down \in [Clients -> Seq(Reply)]
      /\ connID[c] \in Nat /\ G.p1ID \in Nat /\ G.player1 \in Clients
      /\ {"StartedThis", "StartedOpponent"} \subseteq ClientStatuses
  BY DEF TypeOK, Game, ClientStatuses
<1> DEFINE s2 == IF SecondPlayerFirst(status) THEN "StartedThis" ELSE "StartedOpponent"
           s1 == IF SecondPlayerFirst(status) THEN "StartedOpponent" ELSE "StartedThis"
<1>2. GameInfo(g, connID[c], s2) \in Reply /\ GameInfo(g, G.p1ID, s1) \in Reply
  BY <1>1, GameInfoType
<1>3. Posted(down, c, GameInfo(g, connID[c], s2)) \in [Clients -> Seq(Reply)]
  BY <1>1, <1>2, PostedType
<1> HIDE DEF s1, s2
<1>4. Posted(Posted(down, c, GameInfo(g, connID[c], s2)), G.player1, GameInfo(g, G.p1ID, s1))
        \in [Clients -> Seq(Reply)]
  BY <1>1, <1>2, <1>3, PostedType
<1> QED
  BY <1>4 DEF Announced, s1, s2

\* What chkPlayerGame answers, read backwards.
LEMMA ChkValues ==
  ASSUME NEW c \in Clients
  PROVE  ChkPlayerGame(c) # "No_such_game" => connGame[c] # 0
  BY DEF ChkPlayerGame

\* What start2Pgame, Echo and clientsMove have to keep.
HandlerTypes ==
  /\ games \in [GameIDs -> Game \cup {NoGame}]
  /\ wait2_game \in Seq(GameIDs)
  /\ connGame \in [Clients -> GameIDs \cup {0}]
  /\ down \in [Clients -> Seq(Reply)]

\* The error answer keeps the types.
LEMMA RefuseType ==
  ASSUME TypeOK, NEW c \in Clients, Refuse(c)
  PROVE  HandlerTypes'
<1> DEFINE err == IF ChkPlayerGame(c) = "Game_on" THEN "PlayerHasGame"
                  ELSE "PlayerWaitsAnotherPlayer"
<1>1. connGame[c] \in GameIDs /\ connID[c] \in Nat /\ err \in ErrorCodes
  BY ChkValues DEF TypeOK, Refuse, ErrorCodes
<1>2. down' = Posted(down, c, ErrInfo(connGame[c], connID[c], err))
  BY DEF Refuse
<1> HIDE DEF err
<1>3. down' \in [Clients -> Seq(Reply)]
  BY <1>1, <1>2, ErrInfoType, PostedType DEF TypeOK
<1> QED
  BY <1>3 DEF Refuse, TypeOK, HandlerTypes

\* The loop that draws an ID yields an ID of the range.
LEMMA DrawsType ==
  ASSUME NEW map, NEW d \in Draws(map)
  PROVE  d[1] \in GameIDs
  BY SMT DEF Draws

\* The answer CantCreateNewGame keeps the types.
LEMMA CantCreateType ==
  ASSUME TypeOK, NEW c \in Clients, CantCreate(c)
  PROVE  HandlerTypes'
<1>1. PICK d \in Draws(GamesChecked(c)) :
        down' = Posted(down, c, ErrInfo(d[1], connID[c], "CantCreateNewGame"))
  BY DEF CantCreate
<1>2. ErrInfo(d[1], connID[c], "CantCreateNewGame") \in Reply
  BY DrawsType, ErrInfoType DEF TypeOK, ErrorCodes
<1>3. down' \in [Clients -> Seq(Reply)]
  BY <1>1, <1>2, PostedType DEF TypeOK
<1> QED
  BY <1>3, GamesCheckedType DEF CantCreate, TypeOK, HandlerTypes

\* Opening a game keeps the types.
LEMMA OpenGameType ==
  ASSUME TypeOK, NEW c \in Clients, OpenGame(c)
  PROVE  HandlerTypes'
<1>1. PICK g \in GameIDs :
        /\ wait2_game' = Append(wait2_game, g)
        /\ games' = [GamesChecked(c) EXCEPT ![g] = NewGame(c)]
        /\ connGame' = [connGame EXCEPT ![c] = g]
        /\ down' = Posted(down, c,
                     GameInfo(g, connID[c], "Wait_for_opponent_connection"))
  BY DrawsType DEF OpenGame
<1>2. GameInfo(g, connID[c], "Wait_for_opponent_connection") \in Reply
  BY GameInfoType DEF TypeOK, ClientStatuses
<1>3. down' \in [Clients -> Seq(Reply)]
  BY <1>1, <1>2, PostedType DEF TypeOK
<1>4. games' \in [GameIDs -> Game \cup {NoGame}]
  BY <1>1, GamesCheckedType, NewGameType, SMT
<1>5. wait2_game' \in Seq(GameIDs) /\ connGame' \in [Clients -> GameIDs \cup {0}]
  BY <1>1, SMT DEF TypeOK
<1> QED
  BY <1>3, <1>4, <1>5 DEF OpenGame, TypeOK, HandlerTypes

\* Joining a game keeps the types.
LEMMA JoinGameType ==
  ASSUME TypeOK, NEW c \in Clients, JoinGame(c)
  PROVE  HandlerTypes'
<1> DEFINE g == Head(wait2_game)
           G == GamesChecked(c)
<1>1. g \in GameIDs /\ wait2_game' \in Seq(GameIDs)
  BY SMT DEF JoinGame, TypeOK
<1>2. G \in [GameIDs -> Game \cup {NoGame}]
  BY GamesCheckedType
<1>3. CASE G[g] = NoGame
  <2>1. /\ down' = Posted(down, c, ErrInfo(g, connID[c], "NoGameID"))
        /\ games' = G /\ connGame' = connGame
    BY <1>3 DEF JoinGame
  <2>2. ErrInfo(g, connID[c], "NoGameID") \in Reply
    BY <1>1, ErrInfoType DEF TypeOK, ErrorCodes
  <2> QED
    BY <1>1, <1>2, <2>1, <2>2, PostedType DEF TypeOK, HandlerTypes
<1>4. CASE G[g] # NoGame
  <2>1. PICK status \in Started :
          /\ games' = [G EXCEPT ![g] = Joined(G[g], c, status)]
          /\ connGame' = [connGame EXCEPT ![c] = g]
          /\ down' = Announced(down, g, G[g], c, status)
    BY <1>4 DEF JoinGame
  <2>2. G[g] \in Game
    BY <1>1, <1>2, <1>4
  <2> HIDE DEF g, G
  <2>3. games' \in [GameIDs -> Game \cup {NoGame}]
    BY <1>1, <1>2, <2>1, <2>2, JoinedType, SMT
  <2>4. connGame' \in [Clients -> GameIDs \cup {0}]
    BY <1>1, <2>1, SMT DEF TypeOK
  <2>5. down' \in [Clients -> Seq(Reply)]
    BY <1>1, <2>1, <2>2, AnnouncedType
  <2>6. {c, G[g].player1} \subseteq Clients
    BY <2>2 DEF Game
  <2> QED
    BY <1>1, <2>1, <2>3, <2>4, <2>5, <2>6 DEF TypeOK, HandlerTypes
<1> QED
  BY <1>3, <1>4

\* So does handling any message.
LEMMA OnMessageType ==
  ASSUME TypeOK, OnMessage
  PROVE  TypeOK'
<1> DEFINE m == Head(m_qMessagesIn)
<1>1. m.remote \in Clients /\ m_qMessagesIn' \in Seq([remote : Clients, type : Requests])
  <2> DEFINE R == [remote : Clients, type : Requests]
  <2>1. /\ m_qMessagesIn \in Seq(R)
        /\ m_qMessagesIn # <<>> /\ m_qMessagesIn' = Tail(m_qMessagesIn)
    BY DEF OnMessage, TypeOK
  <2>2. m \in R /\ m_qMessagesIn' \in Seq(R)
    <3> HIDE DEF R
    <3> QED
      BY <2>1, SMT
  <2> QED
    BY <2>2
<1>2. HandlerTypes'
  <2>1. CASE start2Pgame(m.remote)
    BY <1>1, <2>1, RefuseType, CantCreateType, OpenGameType, JoinGameType DEF start2Pgame
  <2>2. CASE Echo(m.remote)
    <3>1. Plain("ServerEcho") \in Reply
      BY PlainType
    <3> QED
      BY <1>1, <2>2, <3>1, PostedType DEF Echo, TypeOK, HandlerTypes
  <2>3. CASE clientsMove(m.remote)
    BY <2>3 DEF clientsMove, TypeOK, HandlerTypes
  <2> QED
    BY <2>1, <2>2, <2>3 DEF OnMessage
<1>3. UNCHANGED <<nIDCounter, m_deqConnections, connID, srvOpen, up, phase, keys, client>>
  BY DEF OnMessage, clientVars
<1> QED
  BY <1>1, <1>2, <1>3 DEF TypeOK, HandlerTypes

\* A client that reads an answer keeps the types of its fields.
LEMMA ClientReadsType ==
  ASSUME TypeOK, NEW c \in Clients, ClientReads(c)
  PROVE  TypeOK'
<1> DEFINE m == Head(down[c])
<1>1. m \in Reply /\ down' \in [Clients -> Seq(Reply)]
  BY SMT DEF ClientReads, TypeOK
<1>2. ASSUME m.type = "GameStatus"
      PROVE  client_status_msg(client[c], m) \in ClientRecord
  <2>1. m.info \in ClientStatuses /\ m.gameID \in GameIDs /\ m.playerID \in Nat
    BY <1>1, <1>2 DEF Reply
  <2>2. client[c] \in ClientRecord
    BY DEF TypeOK
  <2> HIDE DEF m
  <2>3. /\ client[c].id \in Nat /\ client[c].id_game \in GameIDs \cup {0}
        /\ client[c].n_move \in uint16
        /\ client[c].turn \in {"unset", "YourMove", "OpponentMove"}
    BY <2>2 DEF ClientRecord
  <2> QED
    BY <2>1, <2>3 DEF client_status_msg, ClientRecord
<1>3. client' \in [Clients -> ClientRecord]
  BY <1>2, SMT DEF ClientReads, TypeOK
<1>4. UNCHANGED <<games, wait2_game, nIDCounter, m_deqConnections, connID, connGame,
                  m_qMessagesIn, srvOpen, up, phase, keys>>
  BY DEF ClientReads, serverVars
<1> QED
  BY <1>1, <1>3, <1>4 DEF TypeOK

\* The count of moves stays within uint16_t.
LEMMA MovedType ==
  ASSUME NEW r \in ClientRecord
  PROVE  Moved(r) \in ClientRecord
<1>1. \A n \in uint16 : NextMove(n) \in uint16
  BY SMTT(30) DEF NextMove, uint16
<1> QED
  BY <1>1, SMTT(30) DEF Moved, ClientRecord

\* A key press keeps the types.
LEMMA PressKeyType ==
  ASSUME TypeOK, NEW c \in Clients, NEW type \in Requests, PressKey(c, type)
  PROVE  TypeOK'
<1>1. keys' \in Nat /\ up' \in [Clients -> Seq(Requests)]
  BY BoundsAssumption, SMT DEF PressKey, TypeOK
<1>2. client' \in [Clients -> ClientRecord]
  <2>1. client \in [Clients -> ClientRecord] /\ Moved(client[c]) \in ClientRecord
    BY MovedType DEF TypeOK
  <2>2. client' = client \/ client' = [client EXCEPT ![c] = Moved(client[c])]
    BY DEF PressKey
  <2> QED
    BY <2>1, <2>2
<1>3. UNCHANGED <<games, wait2_game, nIDCounter, m_deqConnections, connID, connGame,
                  m_qMessagesIn, srvOpen, down, phase>>
  BY DEF PressKey, serverVars
<1> QED
  BY <1>1, <1>2, <1>3 DEF TypeOK

\* Connecting, leaving and reading keep the types.
LEMMA ConnectionType ==
  ASSUME TypeOK, NEW c \in Clients,
         Connect(c) \/ Exit(c) \/ ReadFails(c) \/ ReadMessage(c)
  PROVE  TypeOK'
<1>1. CASE Connect(c)
  <2>1. Plain("ServerAccept") \in Reply
    BY PlainType
  <2> QED
    BY <1>1, <2>1, SMT DEF Connect, TypeOK
<1>2. CASE Exit(c)
  BY <1>2, SMT DEF Exit, TypeOK, serverVars, netVars
<1>3. CASE ReadFails(c)
  BY <1>3, SMT DEF ReadFails, TypeOK, serverVars, clientVars
<1>4. CASE ReadMessage(c)
  <2>1. [remote |-> c, type |-> Head(up[c])] \in [remote : Clients, type : Requests]
    BY <1>4, SMT DEF ReadMessage, TypeOK
  <2>2. m_qMessagesIn' \in Seq([remote : Clients, type : Requests])
        /\ up' \in [Clients -> Seq(Requests)]
    BY <1>4, <2>1, SMT DEF ReadMessage, TypeOK
  <2> QED
    BY <1>4, <2>2 DEF ReadMessage, TypeOK, serverVars, clientVars
<1> QED
  BY <1>1, <1>2, <1>3, <1>4

\* The types hold at the start.
LEMMA InitType == Init => TypeOK
<1> SUFFICES ASSUME Init PROVE TypeOK
  OBVIOUS
<1>1. InitClient \in ClientRecord
  <2>1. 0 \in uint16
    BY SMT DEF uint16
  <2> QED
    BY <2>1, SMT DEF InitClient, ClientRecord, ClientStatuses
<1> QED
  BY <1>1, SMT DEF Init, TypeOK

\* Every step keeps the types.
LEMMA NextType == TypeOK /\ [Next]_vars => TypeOK'
<1> SUFFICES ASSUME TypeOK, [Next]_vars PROVE TypeOK'
  OBVIOUS
<1>1. CASE UNCHANGED vars
  BY <1>1 DEF vars, serverVars, netVars, clientVars, TypeOK
<1> QED
  BY <1>1, OnMessageType, ClientReadsType, PressKeyType, ConnectionType DEF Next

\* Every variable keeps the type of its declaration: in particular the game IDs
\* that connections, queue and messages carry are IDs the server has drawn.
THEOREM TypeCorrect == Spec => []TypeOK
  BY InitType, NextType, PTL DEF Spec

-----------------------------------------------------------------------------
\* The pairing of players.  The invariant adds to WaitQueue and PlayersLinked
\* that nothing is known yet of a client that has not connected (its ID may
\* still change) and that no game of the map is finished (chkPlayerGame erases
\* nothing).

Unconnected ==
  \A c \in Clients : phase[c] = "off" =>
    /\ connGame[c] = 0
    /\ up[c] = <<>>
    /\ \A i \in DOMAIN m_qMessagesIn : m_qMessagesIn[i].remote # c

NoneFinished == \A g \in Live : games[g].game_status # "Game_finished"

Pairing == WaitQueue /\ PlayersLinked /\ NoneFinished

IInv == TypeOK /\ Pairing /\ Unconnected

\* A game in the map is a game record.
LEMMA LiveGame ==
  ASSUME TypeOK, NEW g \in Live
  PROVE  /\ g \in GameIDs /\ g # 0
         /\ games[g] \in Game
         /\ games[g].player1 \in Clients
         /\ games[g].player2 \in Clients \cup {NoClient}
<1>1. g \in GameIDs /\ g # 0
  BY GamesAssumption DEF Live
<1>2. games[g] \in Game
  BY DEF TypeOK, Live
<1> QED
  BY <1>1, <1>2 DEF Game

\* A connection that chkPlayerGame lets through plays in no game of the map.
LEMMA FreePlayer ==
  ASSUME TypeOK, PlayersLinked, NoneFinished,
         NEW c \in Clients, ChkPlayerGame(c) = "No_such_game"
  PROVE  /\ GamesChecked(c) = games
         /\ \A g \in Live : c # games[g].player1 /\ c # games[g].player2
<1>1. connGame[c] = 0 \/ connGame[c] \in GameIDs
  BY DEF TypeOK
<1>2. ~(connGame[c] \in Live)
  <2> SUFFICES ASSUME connGame[c] \in Live PROVE FALSE
    OBVIOUS
  <2>1. connGame[c] # 0 /\ games[connGame[c]] # NoGame
    BY LiveGame DEF Live
  <2>2. games[connGame[c]].game_status # "Game_finished"
    BY DEF NoneFinished
  <2> QED
    BY <2>1, <2>2 DEF ChkPlayerGame
<1>3. GamesChecked(c) = games
  BY <1>1, <1>2 DEF GamesChecked, Live
<1>4. \A g \in Live : c # games[g].player1 /\ c # games[g].player2
  <2> SUFFICES ASSUME NEW g \in Live PROVE connGame[c] # g => c # games[g].player1 /\ c # games[g].player2
    BY <1>2
  <2> QED
    BY ClientsAssumption DEF PlayersLinked
<1> QED
  BY <1>3, <1>4

\* A game other than the one that is being written keeps its links.
LEMMA OtherGame ==
  ASSUME TypeOK, PlayersLinked, NEW c \in Clients, NEW g \in GameIDs,
         connGame' = [connGame EXCEPT ![c] = g], connID' = connID,
         NEW h \in Live, games'[h] = games[h],
         c # games[h].player1, c # games[h].player2
  PROVE  /\ connGame'[games'[h].player1] = h
         /\ games'[h].p1ID = connID'[games'[h].player1]
         /\ IF Waits(h)' THEN games'[h].player2 = NoClient
            ELSE /\ games'[h].player2 \in Clients \ {games'[h].player1}
                 /\ connGame'[games'[h].player2] = h
                 /\ games'[h].p2ID = connID'[games'[h].player2]
<1>1. connGame \in [Clients -> GameIDs \cup {0}]
  BY DEF TypeOK
<1>2. \A p \in Clients : p # c => connGame'[p] = connGame[p]
  BY <1>1
<1>3. games[h].player1 \in Clients
  BY LiveGame
<1>4. Waits(h)' <=> Waits(h)
  BY DEF Waits
<1> QED
  BY <1>2, <1>3, <1>4 DEF PlayersLinked

\* A refused request changes neither games nor queue.
LEMMA RefusePairs ==
  ASSUME Pairing, UNCHANGED <<games, wait2_game, connGame, connID>>
  PROVE  Pairing'
  BY DEF Pairing, WaitQueue, PlayersLinked, NoneFinished, Live, Waits

\* Opening a game when nobody waits keeps the pairing, even when the drawn ID is in
\* the map: every game there is then a started one.
LEMMA OpenGamePairs ==
  ASSUME TypeOK, Pairing, NEW c \in Clients, OpenGame(c), connID' = connID
  PROVE  Pairing'
<1>1. /\ GamesChecked(c) = games
      /\ \A h \in Live : c # games[h].player1 /\ c # games[h].player2
  BY FreePlayer DEF OpenGame, Pairing
<1>2. PICK g \in GameIDs :
        /\ wait2_game' = Append(wait2_game, g)
        /\ games' = [games EXCEPT ![g] = NewGame(c)]
        /\ connGame' = [connGame EXCEPT ![c] = g]
  BY <1>1, DrawsType DEF OpenGame
<1>3. wait2_game = <<>> /\ wait2_game' = <<g>>
  BY <1>2, SMT DEF OpenGame
<1>4. games \in [GameIDs -> Game \cup {NoGame}] /\ connGame \in [Clients -> GameIDs \cup {0}]
  BY DEF TypeOK
<1>5. games'[g] = NewGame(c) /\ \A h \in GameIDs : h # g => games'[h] = games[h]
  BY <1>2, <1>4
<1>6. /\ NewGame(c).player1 = c /\ NewGame(c).player2 = NoClient
      /\ NewGame(c).p1ID = connID[c]
      /\ NewGame(c).game_status = "Wait_for_player2_connection"
  BY DEF NewGame
<1>7. g \in Live' /\ Waits(g)'
  <2>1. games'[g] # NoGame
    BY <1>5, NewGameType, GamesAssumption
  <2> QED
    BY <1>5, <1>6, <2>1 DEF Live, Waits
<1>8. ASSUME NEW h \in Live', h # g
      PROVE  h \in Live /\ ~Waits(h) /\ games'[h] = games[h]
  <2>1. h \in Live /\ games'[h] = games[h]
    BY <1>5, <1>8 DEF Live
  <2>2. ~Waits(h)
    BY <1>3, <2>1, LiveGame, SMT DEF Pairing, WaitQueue
  <2> QED
    BY <2>1, <2>2
<1>9. WaitQueue'
  <2>1. Len(wait2_game') <= 1 /\ DOMAIN wait2_game' = {1} /\ wait2_game'[1] = g
    BY <1>3, SMT
  <2>2. ASSUME NEW h \in GameIDs
        PROVE  (h \in Live' /\ Waits(h)') <=> h = g
    BY <1>7, <1>8 DEF Waits
  <2> QED
    BY <2>1, <2>2 DEF WaitQueue
<1>10. PlayersLinked'
  <2> SUFFICES ASSUME NEW h \in Live'
               PROVE  /\ connGame'[games'[h].player1] = h
                      /\ games'[h].p1ID = connID'[games'[h].player1]
                      /\ IF Waits(h)' THEN games'[h].player2 = NoClient
                         ELSE /\ games'[h].player2 \in Clients \ {games'[h].player1}
                              /\ connGame'[games'[h].player2] = h
                              /\ games'[h].p2ID = connID'[games'[h].player2]
    BY DEF PlayersLinked
  <2>1. CASE h = g
    <3>1. connGame'[c] = g
      BY <1>2, <1>4
    <3> QED
      BY <1>5, <1>6, <1>7, <2>1, <3>1
  <2>2. CASE h # g
    BY <1>1, <1>2, <1>8, <2>2, OtherGame DEF Pairing
  <2> QED
    BY <2>1, <2>2
<1>11. NoneFinished'
  BY <1>5, <1>6, <1>8 DEF NoneFinished, Pairing, Live
<1> QED
  BY <1>9, <1>10, <1>11 DEF Pairing

\* The front of the queue is a game of the map that waits for its second player.
LEMMA WaitingGame ==
  ASSUME TypeOK, WaitQueue, wait2_game # <<>>
  PROVE  /\ Head(wait2_game) \in Live /\ Waits(Head(wait2_game))
         /\ Tail(wait2_game) = <<>>
         /\ \A h \in Live : Waits(h) => h = Head(wait2_game)
<1>1. wait2_game \in Seq(GameIDs) /\ Len(wait2_game) <= 1
  BY DEF TypeOK, WaitQueue
<1>2. /\ DOMAIN wait2_game = {1} /\ wait2_game[1] = Head(wait2_game)
      /\ Head(wait2_game) \in GameIDs /\ Tail(wait2_game) = <<>>
  <2>1. Len(wait2_game) = 1
    <3>1. Len(wait2_game) \in Nat \ {0}
      BY <1>1, EmptySeq
    <3>2. \A n \in Nat \ {0} : n <= 1 => n = 1
      OBVIOUS
    <3> QED
      BY <1>1, <3>1, <3>2, Zenon
  <2>2. DOMAIN wait2_game = {1} /\ wait2_game[1] \in GameIDs /\ wait2_game[1] = Head(wait2_game)
    BY <1>1, <2>1, SMT
  <2>3. Tail(wait2_game) \in Seq(GameIDs) /\ Len(Tail(wait2_game)) = 0
    BY <1>1, <2>1, SMT
  <2>4. Tail(wait2_game) = <<>>
    BY <2>3, EmptySeq
  <2> QED
    BY <2>2, <2>4
<1> QED
  BY <1>2, LiveGame DEF WaitQueue

\* Joining the waiting game keeps the pairing: its first player is somebody else.
LEMMA JoinGamePairs ==
  ASSUME TypeOK, Pairing, NEW c \in Clients, JoinGame(c), connID' = connID
  PROVE  Pairing'
<1> DEFINE g == Head(wait2_game)
<1>1. /\ GamesChecked(c) = games
      /\ \A h \in Live : c # games[h].player1 /\ c # games[h].player2
  BY FreePlayer DEF JoinGame, Pairing
<1>2. /\ g \in Live /\ Waits(g)
      /\ Tail(wait2_game) = <<>>
      /\ \A h \in Live : Waits(h) => h = g
  BY WaitingGame DEF JoinGame, Pairing
<1>3. PICK status \in Started :
        /\ games' = [games EXCEPT ![g] = Joined(games[g], c, status)]
        /\ connGame' = [connGame EXCEPT ![c] = g]
        /\ wait2_game' = <<>>
  BY <1>1, <1>2 DEF JoinGame, Live
<1> HIDE DEF g
<1>4. games \in [GameIDs -> Game \cup {NoGame}] /\ connGame \in [Clients -> GameIDs \cup {0}]
  BY DEF TypeOK
<1>5. /\ g \in GameIDs /\ games[g] \in Game /\ games[g].player1 \in Clients
  BY <1>2, LiveGame
<1>6. games'[g] = Joined(games[g], c, status)
      /\ \A h \in GameIDs : h # g => games'[h] = games[h]
  BY <1>3, <1>4, <1>5
<1>7. /\ games'[g].player1 = games[g].player1 /\ games'[g].p1ID = games[g].p1ID
      /\ games'[g].player2 = c /\ games'[g].p2ID = connID[c]
      /\ games'[g].game_status = status
  BY <1>6 DEF Joined
<1>8. status # "Wait_for_player2_connection" /\ status # "Game_finished"
  BY DEF Started
<1>9. ASSUME NEW h \in Live', h # g
      PROVE  h \in Live /\ ~Waits(h) /\ games'[h] = games[h]
  BY <1>2, <1>6, <1>9 DEF Live
<1>10. WaitQueue'
  <2>1. Len(wait2_game') <= 1 /\ DOMAIN wait2_game' = {}
    BY <1>3, SMT
  <2>2. \A h \in GameIDs : ~(h \in Live' /\ Waits(h)')
    BY <1>7, <1>8, <1>9 DEF Waits
  <2> QED
    BY <2>1, <2>2 DEF WaitQueue
<1>11. PlayersLinked'
  <2> SUFFICES ASSUME NEW h \in Live'
               PROVE  /\ connGame'[games'[h].player1] = h
                      /\ games'[h].p1ID = connID'[games'[h].player1]
                      /\ IF Waits(h)' THEN games'[h].player2 = NoClient
                         ELSE /\ games'[h].player2 \in Clients \ {games'[h].player1}
                              /\ connGame'[games'[h].player2] = h
                              /\ games'[h].p2ID = connID'[games'[h].player2]
    BY DEF PlayersLinked
  <2>1. CASE h = g
    <3>1. connGame'[c] = g /\ \A p \in Clients : p # c => connGame'[p] = connGame[p]
      BY <1>3, <1>4
    <3>2. /\ connGame[games[g].player1] = g
          /\ games[g].p1ID = connID[games[g].player1]
      BY <1>2 DEF PlayersLinked, Pairing
    <3>3. games[g].player1 # c
      BY <1>1, <1>2
    <3>4. ~(games'[g].game_status = "Wait_for_player2_connection")
      BY <1>7, <1>8
    <3>5. connGame'[games'[g].player1] = g /\ games'[g].p1ID = connID'[games'[g].player1]
      BY <1>5, <1>7, <3>1, <3>2, <3>3
    <3>6. /\ games'[g].player2 \in Clients \ {games'[g].player1}
          /\ connGame'[games'[g].player2] = g
          /\ games'[g].p2ID = connID'[games'[g].player2]
      BY <1>7, <3>1, <3>3
    <3> QED
      BY <2>1, <3>4, <3>5, <3>6 DEF Waits
  <2>2. CASE h # g
    <3>1. h \in Live /\ games'[h] = games[h] /\ c # games[h].player1 /\ c # games[h].player2
      BY <1>1, <1>9, <2>2
    <3> QED
      BY <1>3, <1>5, <3>1, OtherGame, ZenonT(60) DEF Pairing
  <2> QED
    BY <2>1, <2>2
<1>12. NoneFinished'
  BY <1>7, <1>8, <1>9 DEF NoneFinished, Pairing, Live
<1> QED
  BY <1>10, <1>11, <1>12 DEF Pairing

\* start2Pgame as a whole keeps the pairing.
LEMMA HandlerPairs ==
  ASSUME IInv, OnMessage
  PROVE  Pairing'
<1> DEFINE m == Head(m_qMessagesIn)
<1>1. m.remote \in Clients
  <2>1. /\ m_qMessagesIn \in Seq([remote : Clients, type : Requests])
        /\ m_qMessagesIn # <<>>
    BY DEF IInv, TypeOK, OnMessage
  <2>2. m \in [remote : Clients, type : Requests]
    BY <2>1, HeadTailProperties
  <2> QED
    BY <2>2
<1>2. connID' = connID
  BY DEF OnMessage
<1>3. CASE OpenGame(m.remote)
  BY <1>1, <1>2, <1>3, OpenGamePairs DEF IInv
<1>4. CASE JoinGame(m.remote)
  BY <1>1, <1>2, <1>4, JoinGamePairs DEF IInv
<1>5. CASE Refuse(m.remote)
  BY <1>2, <1>5, RefusePairs DEF IInv, Refuse
<1>6. CASE CantCreate(m.remote)
  <2>1. GamesChecked(m.remote) = games
    BY <1>1, <1>6, FreePlayer DEF IInv, Pairing, CantCreate
  <2> QED
    BY <1>2, <1>6, <2>1, RefusePairs DEF IInv, CantCreate
<1>7. CASE Echo(m.remote) \/ clientsMove(m.remote)
  BY <1>2, <1>7, RefusePairs DEF IInv, Echo, clientsMove
<1> QED
  BY <1>3, <1>4, <1>5, <1>6, <1>7 DEF OnMessage, start2Pgame

\* Only a connection that has sent something is given a game.
LEMMA HandlerUnconnected ==
  ASSUME IInv, OnMessage
  PROVE  Unconnected'
<1> DEFINE m == Head(m_qMessagesIn)
           M1 == [remote : Clients, type : Requests]
<1>1. m_qMessagesIn \in Seq(M1) /\ m_qMessagesIn # <<>>
  BY DEF IInv, TypeOK, OnMessage
<1>2. m.remote \in Clients /\ 1 \in DOMAIN m_qMessagesIn /\ m = m_qMessagesIn[1]
  <2>1. m \in M1
    BY <1>1, HeadTailProperties
  <2> HIDE DEF M1
  <2>2. 1 \in DOMAIN m_qMessagesIn /\ m = m_qMessagesIn[1]
    BY <1>1, EmptySeq, SMT
  <2> QED
    BY <2>1, <2>2 DEF M1
<1>3. phase[m.remote] # "off"
  BY <1>2 DEF IInv, Unconnected
<1>4. \A c \in Clients : c # m.remote => connGame'[c] = connGame[c]
  BY DEF OnMessage, start2Pgame, Refuse, CantCreate, OpenGame, JoinGame,
         Echo, clientsMove, IInv, TypeOK
<1>5. \A i \in DOMAIN m_qMessagesIn' : /\ i + 1 \in DOMAIN m_qMessagesIn
                                       /\ m_qMessagesIn'[i] = m_qMessagesIn[i + 1]
  <2> HIDE DEF M1
  <2>1. m_qMessagesIn' = Tail(m_qMessagesIn)
    BY DEF OnMessage
  <2> QED
    BY <1>1, <2>1, EmptySeq, SMT
<1>6. phase' = phase /\ up' = up
  BY DEF OnMessage, clientVars
<1> QED
  BY <1>3, <1>4, <1>5, <1>6 DEF IInv, Unconnected

\* A new connection plays in no game yet, so that giving it its ID
\* changes no link.
LEMMA ConnectKeeps ==
  ASSUME IInv, NEW c \in Clients, Connect(c)
  PROVE  Pairing' /\ Unconnected'
<1>1. connGame[c] = 0
  BY DEF IInv, Unconnected, Connect
<1>2. \A g \in Live : games[g].player1 # c /\ games[g].player2 # c
  BY <1>1, LiveGame, ClientsAssumption DEF IInv, Pairing, PlayersLinked
<1>3. UNCHANGED <<games, wait2_game, connGame, up, m_qMessagesIn>>
  BY DEF Connect
<1>4. /\ \A d \in Clients : d # c => connID'[d] = connID[d]
      /\ \A d \in Clients : phase'[d] = "off" => phase[d] = "off"
  BY DEF Connect, IInv, TypeOK
<1>5. Live' = Live /\ \A g : Waits(g)' <=> Waits(g)
  BY <1>3 DEF Live, Waits
<1>6. PlayersLinked'
  BY <1>2, <1>3, <1>4, <1>5, LiveGame DEF IInv, Pairing, PlayersLinked
<1>7. WaitQueue' /\ NoneFinished'
  BY <1>3, <1>5 DEF IInv, Pairing, WaitQueue, NoneFinished
<1> QED
  BY <1>3, <1>4, <1>6, <1>7 DEF IInv, Pairing, Unconnected

\* A message that is read comes from a client that has connected.
LEMMA ReadMessageKeeps ==
  ASSUME IInv, NEW c \in Clients, ReadMessage(c)
  PROVE  Unconnected'
<1>1. phase[c] # "off"
  BY DEF IInv, Unconnected, ReadMessage
<1> DEFINE M1 == [remote : Clients, type : Requests]
<1>2. m_qMessagesIn \in Seq(M1)
  BY DEF IInv, TypeOK
<1> HIDE DEF M1
<1>3. \A i \in DOMAIN m_qMessagesIn' :
        \/ i \in DOMAIN m_qMessagesIn /\ m_qMessagesIn'[i] = m_qMessagesIn[i]
        \/ m_qMessagesIn'[i].remote = c
  <2> DEFINE e == [remote |-> c, type |-> Head(up[c])]
  <2>1. m_qMessagesIn' = Append(m_qMessagesIn, e) /\ e.remote = c
    BY DEF ReadMessage
  <2> HIDE DEF e
  <2> QED
    BY <1>2, <2>1, SMT
<1>4. /\ \A d \in Clients : d # c => up'[d] = up[d]
      /\ phase' = phase /\ connGame' = connGame
  BY DEF ReadMessage, IInv, TypeOK, serverVars, clientVars
<1> QED
  BY <1>1, <1>3, <1>4 DEF IInv, Unconnected

\* The invariant holds at the start.
LEMMA InvInit == Init => IInv
<1> SUFFICES ASSUME Init PROVE IInv
  OBVIOUS
<1>1. TypeOK
  BY InitType
<1>2. Live = {} /\ wait2_game = <<>>
  BY DEF Init, Live
<1>3. WaitQueue
  <2>1. Len(wait2_game) = 0 /\ DOMAIN wait2_game = {}
    BY <1>2, SMT
  <2> QED
    BY <1>2, <2>1 DEF WaitQueue
<1>4. PlayersLinked /\ NoneFinished
  BY <1>2 DEF PlayersLinked, NoneFinished
<1>5. Unconnected
  BY SMT DEF Init, Unconnected
<1> QED
  BY <1>1, <1>3, <1>4, <1>5 DEF IInv, Pairing

\* Every step keeps the invariant.
LEMMA InvNext == IInv /\ [Next]_vars => IInv'
<1> SUFFICES ASSUME IInv, [Next]_vars PROVE IInv'
  OBVIOUS
<1>1. TypeOK'
  BY NextType DEF IInv
<1>2. Pairing' /\ Unconnected'
  <2>1. CASE OnMessage
    BY <2>1, HandlerPairs, HandlerUnconnected
  <2>2. ASSUME NEW c \in Clients, Connect(c) PROVE Pairing' /\ Unconnected'
    BY <2>2, ConnectKeeps
  <2>3. ASSUME NEW c \in Clients, ReadMessage(c) PROVE Pairing' /\ Unconnected'
    <3>1. UNCHANGED <<games, wait2_game, connGame, connID>>
      BY <2>3 DEF ReadMessage, serverVars
    <3> QED
      BY <2>3, <3>1, ReadMessageKeeps, RefusePairs DEF IInv
  <2>4. ASSUME NEW c \in Clients, Exit(c) \/ ReadFails(c) \/ ClientReads(c)
        PROVE  Pairing' /\ Unconnected'
    <3>1. UNCHANGED <<games, wait2_game, connGame, connID, m_qMessagesIn>>
      BY <2>4 DEF Exit, ReadFails, ClientReads, serverVars, netVars
    <3>2. \A d \in Clients : phase'[d] = "off" => phase[d] = "off"
      BY <2>4 DEF Exit, ReadFails, ClientReads, clientVars, IInv, TypeOK
    <3>3. \A d \in Clients : up'[d] = up[d] \/ up'[d] = <<>>
      BY <2>4 DEF Exit, ReadFails, ClientReads, netVars, IInv, TypeOK
    <3> QED
      BY <3>1, <3>2, <3>3, RefusePairs DEF IInv, Unconnected
  <2>5. ASSUME NEW c \in Clients, NEW type \in Requests, PressKey(c, type)
        PROVE  Pairing' /\ Unconnected'
    <3>1. UNCHANGED <<games, wait2_game, connGame, connID, m_qMessagesIn, phase>>
      BY <2>5 DEF PressKey, serverVars
    <3>2. phase[c] # "off" /\ \A d \in Clients : d # c => up'[d] = up[d]
      BY <2>5 DEF PressKey, IInv, TypeOK
    <3> QED
      BY <3>1, <3>2, RefusePairs DEF IInv, Unconnected
  <2>6. CASE UNCHANGED vars
    <3>1. UNCHANGED <<games, wait2_game, connGame, connID, m_qMessagesIn, phase, up>>
      BY <2>6 DEF vars, serverVars, netVars, clientVars
    <3> QED
      BY <3>1, RefusePairs DEF IInv, Unconnected
  <2> QED
    BY <2>1, <2>2, <2>3, <2>4, <2>5, <2>6 DEF Next
<1> QED
  BY <1>1, <1>2 DEF IInv

\* The games, the queue and the connections tell one story in every reachable
\* state: the strengthening from which OneWaits and Linked follow.
THEOREM Invariant == Spec => []IInv
  BY InvInit, InvNext, PTL DEF Spec

\* The queue of start2Pgame never holds two games, and holds a game exactly as
\* long as its record says that it waits - for any number of clients, whether
\* or not game IDs collide.
THEOREM OneWaits == Spec => []WaitQueue
<1>1. IInv => WaitQueue
  BY DEF IInv, Pairing
<1> QED
  BY <1>1, Invariant, PTL

\* Every game of the map has two different players that point back to it and
\* whose IDs it holds; in particular nobody plays in two games and nobody is
\* paired with itself.
THEOREM Linked == Spec => []PlayersLinked
<1>1. IInv => PlayersLinked
  BY DEF IInv, Pairing
<1> QED
  BY <1>1, Invariant, PTL

-----------------------------------------------------------------------------
\* A connection's game, when IDs do not collide.

\* Unless a draw may hit the map, OpenGame gets an ID that is in no game.
LEMMA FreshDraw ==
  ASSUME NEW c \in Clients, GamesChecked(c) = games, NEW d \in Draws(games),
         d[1] \in Live
  PROVE  RandMayCollide
  BY SMT DEF Draws, Live

\* Opening a game without a collision leaves everybody its game.
LEMMA OpenGameKeepsGames ==
  ASSUME IInv, HasItsGame, ~RandMayCollide, NEW c \in Clients, OpenGame(c)
  PROVE  HasItsGame'
<1>1. GamesChecked(c) = games
  BY FreePlayer DEF OpenGame, IInv, Pairing
<1>2. PICK d \in Draws(games) :
        /\ games' = [games EXCEPT ![d[1]] = NewGame(c)]
        /\ connGame' = [connGame EXCEPT ![c] = d[1]]
  BY <1>1 DEF OpenGame
<1> DEFINE g == d[1]
<1>3. g \in GameIDs /\ g \notin Live
  BY <1>1, <1>2, DrawsType, FreshDraw
<1> HIDE DEF g
<1>4. games \in [GameIDs -> Game \cup {NoGame}] /\ connGame \in [Clients -> GameIDs \cup {0}]
  BY DEF IInv, TypeOK
<1>5. games'[g] = NewGame(c) /\ \A h \in GameIDs : h # g => games'[h] = games[h]
  BY <1>2, <1>3, <1>4 DEF g
<1>6. games'[g] # NoGame /\ games'[g].player1 = c
  <2>1. NewGame(c) \in Game /\ NewGame(c).player1 = c
    BY NewGameType DEF IInv, NewGame
  <2> QED
    BY <1>5, <2>1, GamesAssumption
<1>7. ASSUME NEW p \in Clients, connGame'[p] # 0
      PROVE  Plays(p, connGame[p])'
  <2>1. CASE p = c
    BY <1>2, <1>3, <1>4, <1>6, <2>1 DEF Plays, Live, g
  <2>2. CASE p # c
    <3>1. connGame'[p] = connGame[p] /\ Plays(p, connGame[p])
      BY <1>2, <1>4, <1>7, <2>2 DEF HasItsGame
    <3>2. connGame[p] # g /\ connGame[p] \in GameIDs
      BY <1>3, <3>1 DEF Plays, Live
    <3> QED
      BY <1>5, <3>1, <3>2 DEF Plays, Live
  <2> QED
    BY <2>1, <2>2
<1> QED
  BY <1>7 DEF HasItsGame

\* Joining a game adds a player to it and takes none away.
LEMMA JoinGameKeepsGames ==
  ASSUME IInv, HasItsGame, NEW c \in Clients, JoinGame(c)
  PROVE  HasItsGame'
<1> DEFINE g == Head(wait2_game)
<1>1. GamesChecked(c) = games /\ g \in Live /\ Waits(g)
  BY FreePlayer, WaitingGame DEF JoinGame, IInv, Pairing
<1>2. PICK status \in Started :
        /\ games' = [games EXCEPT ![g] = Joined(games[g], c, status)]
        /\ connGame' = [connGame EXCEPT ![c] = g]
  BY <1>1 DEF JoinGame, Live
<1> HIDE DEF g
<1>3. /\ games \in [GameIDs -> Game \cup {NoGame}]
      /\ connGame \in [Clients -> GameIDs \cup {0}]
      /\ g \in GameIDs /\ games[g] \in Game
  BY <1>1, LiveGame DEF IInv, TypeOK
<1>4. games'[g] = Joined(games[g], c, status)
      /\ \A h \in GameIDs : h # g => games'[h] = games[h]
  BY <1>2, <1>3
<1>5. /\ games'[g] # NoGame
      /\ games'[g].player1 = games[g].player1 /\ games'[g].player2 = c
  <2>1. Joined(games[g], c, status) \in Game
    BY <1>3, JoinedType DEF IInv
  <2>2. /\ Joined(games[g], c, status).player1 = games[g].player1
        /\ Joined(games[g], c, status).player2 = c
    BY DEF Joined
  <2> QED
    BY <1>4, <2>1, <2>2, GamesAssumption
<1>6. games[g].player2 = NoClient
  BY <1>1 DEF IInv, Pairing, PlayersLinked
<1>7. ASSUME NEW p \in Clients, connGame'[p] # 0
      PROVE  Plays(p, connGame[p])'
  <2>1. CASE p = c
    BY <1>2, <1>3, <1>5, <2>1 DEF Plays, Live
  <2>2. CASE p # c
    <3>1. connGame'[p] = connGame[p] /\ Plays(p, connGame[p])
      BY <1>2, <1>3, <1>7, <2>2 DEF HasItsGame
    <3>2. connGame[p] = g => p = games[g].player1
      BY <1>6, <3>1, ClientsAssumption DEF Plays
    <3> QED
      BY <1>3, <1>4, <1>5, <3>1, <3>2 DEF Plays, Live
  <2> QED
    BY <2>1, <2>2
<1> QED
  BY <1>7 DEF HasItsGame

\* A step that touches neither games nor connections keeps everybody's game.
LEMMA SameGames ==
  ASSUME HasItsGame, UNCHANGED <<games, connGame>>
  PROVE  HasItsGame'
  BY DEF HasItsGame, Plays, Live

\* Every step keeps everybody's game.
LEMMA HasItsGameNext ==
  ASSUME ~RandMayCollide, IInv, HasItsGame, [Next]_vars
  PROVE  HasItsGame'
<1> DEFINE c == Head(m_qMessagesIn).remote
<1>1. CASE OnMessage
  <2>1. c \in Clients
    <3>1. /\ m_qMessagesIn \in Seq([remote : Clients, type : Requests])
          /\ m_qMessagesIn # <<>>
      BY <1>1 DEF IInv, TypeOK, OnMessage
    <3>2. Head(m_qMessagesIn) \in [remote : Clients, type : Requests]
      BY <3>1, HeadTailProperties
    <3> QED
      BY <3>2
  <2>2. CASE CantCreate(c)
    <3>1. GamesChecked(c) = games
      BY <2>1, <2>2, FreePlayer DEF IInv, Pairing, CantCreate
    <3> QED
      BY <2>2, <3>1, SameGames DEF CantCreate
  <2>3. CASE Refuse(c) \/ Echo(c) \/ clientsMove(c)
    BY <2>3, SameGames DEF Refuse, Echo, clientsMove
  <2> QED
    BY <1>1, <2>1, <2>2, <2>3, OpenGameKeepsGames, JoinGameKeepsGames
    DEF OnMessage, start2Pgame
<1>2. CASE ~OnMessage
  <2>1. UNCHANGED <<games, connGame>>
    BY <1>2 DEF Next, Connect, Exit, ReadFails, ReadMessage, ClientReads, PressKey,
                vars, serverVars
  <2> QED
    BY <2>1, SameGames
<1> QED
  BY <1>1, <1>2

\* As long as rand32 returns no ID of a game in the map, every connection that
\* holds a game ID takes part in that game - for any number of clients.
THEOREM OwnGame ==
  ASSUME ~RandMayCollide
  PROVE  Spec => []HasItsGame
<1>1. Init => HasItsGame
  BY DEF Init, HasItsGame
<1>2. IInv /\ HasItsGame /\ [Next]_vars => HasItsGame'
  BY HasItsGameNext
<1> QED
  BY <1>1, <1>2, Invariant, PTL DEF Spec

-----------------------------------------------------------------------------
\* The pairing of players implements Matchmaking.

\* A player who is let through is neither waiting nor in a pair.
LEMMA NotBusy ==
  ASSUME IInv, NEW c \in Clients, ChkPlayerGame(c) = "No_such_game"
  PROVE  ~M!Busy(c)
<1>1. \A g \in Live : c # games[g].player1 /\ c # games[g].player2
  BY FreePlayer DEF IInv, Pairing
<1>2. c # WaitingPlayer
  BY <1>1, WaitingGame, ClientsAssumption DEF WaitingPlayer, IInv, Pairing
<1>3. c \notin UNION PlayingPairs
  BY <1>1 DEF PlayingPairs
<1> QED
  BY <1>2, <1>3 DEF M!Busy

\* Two games have two pairs of players.
LEMMA OnePairPerGame ==
  ASSUME IInv, NEW g \in Live, ~Waits(g), NEW h \in Live, ~Waits(h), g # h
  PROVE  {games[g].player1, games[g].player2} # {games[h].player1, games[h].player2}
<1>1. connGame[games[g].player1] = g
  BY DEF IInv, Pairing, PlayersLinked
<1>2. connGame[games[h].player1] = h /\ connGame[games[h].player2] = h
  BY DEF IInv, Pairing, PlayersLinked
<1> QED
  BY <1>1, <1>2

\* Opening a game is Wait, or WaitInstead when its ID was that of a game.
LEMMA OpenGameMatches ==
  ASSUME IInv, NEW c \in Clients, OpenGame(c)
  PROVE  M!Next
<1>1. GamesChecked(c) = games /\ ~M!Busy(c) /\ wait2_game = <<>>
  BY FreePlayer, NotBusy DEF OpenGame, IInv, Pairing
<1>2. PICK d \in Draws(games) :
        /\ games' = [games EXCEPT ![d[1]] = NewGame(c)]
        /\ wait2_game' = Append(wait2_game, d[1])
  BY <1>1 DEF OpenGame
<1> DEFINE g == d[1]
<1>3. g \in GameIDs /\ games \in [GameIDs -> Game \cup {NoGame}]
  BY <1>1, <1>2, DrawsType DEF IInv, TypeOK
<1>4. g \in Live => RandMayCollide
  BY <1>1, FreshDraw
<1> HIDE DEF g
<1>5. /\ games'[g] = NewGame(c)
      /\ \A h \in GameIDs : h # g => games'[h] = games[h]
      /\ wait2_game' = <<g>>
  <2>1. wait2_game' = <<g>>
    BY <1>1, <1>2, SMT DEF g
  <2> QED
    BY <1>2, <1>3, <2>1 DEF g
<1>6. WaitingPlayer = NoClient /\ WaitingPlayer' = c
  <2>1. wait2_game' # <<>> /\ Head(wait2_game') = g
    BY <1>5, SMT
  <2>2. NewGame(c).player1 = c
    BY DEF NewGame
  <2> QED
    BY <1>1, <1>5, <2>1, <2>2 DEF WaitingPlayer
<1>7. Waits(g)'
  BY <1>5 DEF Waits, NewGame
<1>8. \A h : (h \in Live' /\ ~Waits(h)') <=> (h \in Live /\ ~Waits(h) /\ h # g)
  BY <1>5, <1>7 DEF Live, Waits
<1>9. \A h \in Live : h # g => games'[h] = games[h]
  BY <1>5 DEF Live
<1>10. CASE g \notin Live
  <2>1. PlayingPairs' = PlayingPairs
    BY <1>8, <1>9, <1>10 DEF PlayingPairs
  <2> QED
    BY <1>1, <1>6, <2>1 DEF M!Next, M!Wait
<1>11. CASE g \in Live
  <2> DEFINE pair == {games[g].player1, games[g].player2}
  <2>1. ~Waits(g)
    <3>1. DOMAIN wait2_game = {}
      BY <1>1, SMT
    <3> QED
      BY <1>3, <1>11, <3>1 DEF IInv, Pairing, WaitQueue
  <2>2. pair \in PlayingPairs
    BY <1>11, <2>1 DEF PlayingPairs
  <2>3. PlayingPairs' = PlayingPairs \ {pair}
    <3>1. ASSUME NEW x \in PlayingPairs' PROVE x \in PlayingPairs /\ x # pair
      <4>1. PICK h \in Live' : ~Waits(h)' /\ x = {games'[h].player1, games'[h].player2}
        BY <3>1 DEF PlayingPairs
      <4>2. h \in Live /\ ~Waits(h) /\ h # g /\ x = {games[h].player1, games[h].player2}
        BY <1>8, <1>9, <4>1
      <4> QED
        BY <1>11, <2>1, <4>2, OnePairPerGame DEF PlayingPairs
    <3>2. ASSUME NEW x \in PlayingPairs, x # pair PROVE x \in PlayingPairs'
      <4>1. PICK h \in Live : ~Waits(h) /\ x = {games[h].player1, games[h].player2}
        BY DEF PlayingPairs
      <4>2. h # g
        BY <3>2, <4>1
      <4>3. h \in Live' /\ ~Waits(h)' /\ x = {games'[h].player1, games'[h].player2}
        BY <1>8, <1>9, <4>1, <4>2
      <4> QED
        BY <4>3 DEF PlayingPairs
    <3> QED
      BY <3>1, <3>2
  <2> HIDE DEF pair
  <2> QED
    BY <1>1, <1>4, <1>6, <1>11, <2>2, <2>3 DEF M!Next, M!WaitInstead
<1> QED
  BY <1>10, <1>11

\* Joining the game that waits is Pair.
LEMMA JoinGameMatches ==
  ASSUME IInv, NEW c \in Clients, JoinGame(c)
  PROVE  M!Next
<1> DEFINE g == Head(wait2_game)
<1>1. /\ GamesChecked(c) = games /\ ~M!Busy(c) /\ wait2_game # <<>>
      /\ g \in Live /\ Waits(g) /\ Tail(wait2_game) = <<>>
      /\ \A h \in Live : Waits(h) => h = g
  BY FreePlayer, NotBusy, WaitingGame DEF JoinGame, IInv, Pairing
<1>2. PICK status \in Started :
        /\ games' = [games EXCEPT ![g] = Joined(games[g], c, status)]
        /\ wait2_game' = <<>>
  BY <1>1 DEF JoinGame, Live
<1>3. WaitingPlayer = games[g].player1 /\ WaitingPlayer' = NoClient
  BY <1>1, <1>2 DEF WaitingPlayer
<1> HIDE DEF g
<1>4. /\ games \in [GameIDs -> Game \cup {NoGame}]
      /\ g \in GameIDs /\ games[g] \in Game /\ games[g].player1 \in Clients
  BY <1>1, LiveGame DEF IInv, TypeOK
<1>5. games'[g] = Joined(games[g], c, status)
      /\ \A h \in GameIDs : h # g => games'[h] = games[h]
  BY <1>2, <1>4
<1>6. /\ games'[g] # NoGame
      /\ games'[g].game_status # "Wait_for_player2_connection"
      /\ games'[g].player1 = games[g].player1 /\ games'[g].player2 = c
  <2>1. Joined(games[g], c, status) \in Game
    BY <1>4, JoinedType DEF IInv
  <2>2. /\ Joined(games[g], c, status).player1 = games[g].player1
        /\ Joined(games[g], c, status).player2 = c
        /\ Joined(games[g], c, status).game_status # "Wait_for_player2_connection"
    BY DEF Joined, Started
  <2> QED
    BY <1>5, <2>1, <2>2, GamesAssumption
<1>7. \A h : (h \in Live' /\ ~Waits(h)') <=> (h = g \/ (h \in Live /\ ~Waits(h)))
  BY <1>1, <1>4, <1>5, <1>6 DEF Live, Waits
<1>8. \A h \in Live : h # g => games'[h] = games[h]
  BY <1>5 DEF Live
<1> DEFINE pair == {games[g].player1, c}
<1>9. PlayingPairs' = PlayingPairs \cup {pair}
  <2>1. ASSUME NEW x \in PlayingPairs' PROVE x \in PlayingPairs \cup {pair}
    <3>1. PICK h \in Live' : ~Waits(h)' /\ x = {games'[h].player1, games'[h].player2}
      BY <2>1 DEF PlayingPairs
    <3>2. CASE h = g
      BY <1>6, <3>1, <3>2
    <3>3. CASE h # g
      BY <1>7, <1>8, <3>1, <3>3 DEF PlayingPairs
    <3> QED
      BY <3>2, <3>3
  <2>2. pair \in PlayingPairs'
    BY <1>6, <1>7 DEF PlayingPairs
  <2>3. ASSUME NEW x \in PlayingPairs PROVE x \in PlayingPairs'
    <3>1. PICK h \in Live : ~Waits(h) /\ x = {games[h].player1, games[h].player2}
      BY DEF PlayingPairs
    <3>2. h \in Live' /\ ~Waits(h)' /\ x = {games'[h].player1, games'[h].player2}
      BY <1>1, <1>7, <1>8, <3>1
    <3> QED
      BY <3>2 DEF PlayingPairs
  <2> QED
    BY <2>1, <2>2, <2>3
<1>10. games[g].player1 # NoClient
  BY <1>4, ClientsAssumption
<1> QED
  BY <1>1, <1>3, <1>9, <1>10 DEF M!Next, M!Pair

\* A step that touches neither games nor queue is a stutter of Matchmaking.
LEMMA SamePairs ==
  ASSUME UNCHANGED <<games, wait2_game>>
  PROVE  UNCHANGED M!vars
  BY DEF M!vars, WaitingPlayer, PlayingPairs, Live, Waits

\* Every step is a step of Matchmaking or a stutter.
LEMMA StepMatches ==
  ASSUME IInv, [Next]_vars
  PROVE  [M!Next]_(M!vars)
<1> DEFINE c == Head(m_qMessagesIn).remote
<1>1. CASE OnMessage
  <2>1. c \in Clients
    <3>1. /\ m_qMessagesIn \in Seq([remote : Clients, type : Requests])
          /\ m_qMessagesIn # <<>>
      BY <1>1 DEF IInv, TypeOK, OnMessage
    <3>2. Head(m_qMessagesIn) \in [remote : Clients, type : Requests]
      BY <3>1, HeadTailProperties
    <3> QED
      BY <3>2
  <2>2. CASE CantCreate(c)
    <3>1. GamesChecked(c) = games
      BY <2>1, <2>2, FreePlayer DEF IInv, Pairing, CantCreate
    <3> QED
      BY <2>2, <3>1, SamePairs DEF CantCreate
  <2>3. CASE Refuse(c) \/ Echo(c) \/ clientsMove(c)
    BY <2>3, SamePairs DEF Refuse, Echo, clientsMove
  <2> QED
    BY <1>1, <2>1, <2>2, <2>3, OpenGameMatches, JoinGameMatches
    DEF OnMessage, start2Pgame
<1>2. CASE ~OnMessage
  <2>1. UNCHANGED <<games, wait2_game>>
    BY <1>2 DEF Next, Connect, Exit, ReadFails, ReadMessage, ClientReads, PressKey,
                vars, serverVars
  <2> QED
    BY <2>1, SamePairs
<1> QED
  BY <1>1, <1>2

\* The server's pairing implements Matchmaking for any number of clients, game
\* IDs and key presses; pairs are forgotten only if IDs of games may be drawn again.
THEOREM Refinement == Spec => Implements
<1>1. Init => M!Init
  <2> SUFFICES ASSUME Init PROVE M!Init
    OBVIOUS
  <2>1. Live = {} /\ wait2_game = <<>>
    BY DEF Init, Live
  <2> QED
    BY <2>1 DEF M!Init, WaitingPlayer, PlayingPairs
<1>2. IInv /\ [Next]_vars => [M!Next]_(M!vars)
  BY StepMatches
<1> QED
  BY <1>1, <1>2, Invariant, PTL DEF Spec, Implements, M!Spec

-----------------------------------------------------------------------------
\* What the clients come to know: what is on its way to a client and what the
\* client has stored is true of the server, and comes in the order in which it
\* became true.  When rand32 returns the ID of a game in the map that game is
\* lost, and with it only what was said about its first move.

\* Who moves first in a started game.
FirstMover(G) == IF G.turn = "player1" THEN G.player1 ELSE G.player2

Beginnings == {"StartedThis", "StartedOpponent"}

\* c's game has started, and status says rightly who moves first.
Agrees(c, status) ==
  ~RandMayCollide =>
    /\ connGame[c] \in Live /\ ~Waits(connGame[c])
    /\ (status = "StartedThis") <=> (c = FirstMover(games[connGame[c]]))

\* What the message m, a GameStatus, tells c is true.
Told(c, m) ==
  /\ connGame[c] # 0
  /\ m.playerID = connID[c] /\ m.gameID = connGame[c]
  /\ m.info \in Beginnings \cup {"Wait_for_opponent_connection"}
  /\ m.info \in Beginnings => Agrees(c, m.info)

IsStatus(m) == m.type = "GameStatus"

\* What a client has stored of what it was told.
Stored(c) == [client_status |-> client[c].client_status,
              id            |-> client[c].id,
              id_game       |-> client[c].id_game]

\* The messages w on their way to c, and what c has stored, r, are true.
Right(c, w, r) ==
  /\ \A i \in DOMAIN w : IsStatus(w[i]) => Told(c, w[i])
  /\ r.client_status # "NoGame" =>
       /\ connGame[c] # 0
       /\ r.id = connID[c] /\ r.id_game = connGame[c]
       /\ r.client_status \in Beginnings => Agrees(c, r.client_status)

\* No message of w says less than one before it, or than what is stored.
InOrder(w, r) ==
  \A i \in DOMAIN w : IsStatus(w[i]) =>
    /\ StatusRank[r.client_status] <= StatusRank[w[i].info]
    /\ \A j \in DOMAIN w : i < j /\ IsStatus(w[j]) =>
         StatusRank[w[i].info] <= StatusRank[w[j].info]

View(c) == Right(c, down[c], Stored(c)) /\ InOrder(down[c], Stored(c))

Views == \A c \in Clients : View(c)
-----------------------------------------------------------------------------
\* What a step leaves alone.

\* The game of a connection is in the map, if only under its ID: chkPlayerGame,
\* which erases finished games, finds none.
GameThere == \A c \in Clients : connGame[c] # 0 => connGame[c] \in Live

\* A connection with a game keeps its game and its ID, no ID leaves the map, and
\* without a collision a started game stays what it is.
Steady ==
  /\ \A c \in Clients : connGame[c] # 0 =>
       connGame'[c] = connGame[c] /\ connID'[c] = connID[c]
  /\ \A g \in Live : g \in Live'
  /\ ~RandMayCollide => \A g \in Live : ~Waits(g) => games'[g] = games[g]

\* Who is let through by chkPlayerGame has had no game before.
LEMMA FirstGame ==
  ASSUME IInv, GameThere, NEW c \in Clients, ChkPlayerGame(c) = "No_such_game"
  PROVE  connGame[c] = 0
<1> SUFFICES ASSUME connGame[c] # 0 PROVE FALSE
  OBVIOUS
<1>1. connGame[c] \in Live /\ games[connGame[c]] # NoGame
  BY DEF GameThere, Live
<1>2. games[connGame[c]].game_status # "Game_finished"
  BY <1>1 DEF IInv, Pairing, NoneFinished
<1> QED
  BY <1>1, <1>2 DEF ChkPlayerGame

\* What OpenGame does: the ID that it draws is in no game, or collides.
LEMMA OpenGameFresh ==
  ASSUME IInv, NEW c \in Clients, OpenGame(c)
  PROVE  \E g \in GameIDs :
           /\ RandMayCollide \/ g \notin Live
           /\ games' = [games EXCEPT ![g] = NewGame(c)]
           /\ connGame' = [connGame EXCEPT ![c] = g]
           /\ down' = Posted(down, c,
                        GameInfo(g, connID[c], "Wait_for_opponent_connection"))
<1>1. GamesChecked(c) = games
  BY FreePlayer DEF OpenGame, IInv, Pairing
<1>2. PICK d \in Draws(games) :
        /\ games' = [games EXCEPT ![d[1]] = NewGame(c)]
        /\ connGame' = [connGame EXCEPT ![c] = d[1]]
        /\ down' = Posted(down, c,
                     GameInfo(d[1], connID[c], "Wait_for_opponent_connection"))
  BY <1>1 DEF OpenGame
<1>3. d[1] \in GameIDs /\ (RandMayCollide \/ d[1] \notin Live)
  BY <1>1, <1>2, DrawsType, FreshDraw
<1> QED
  BY <1>2, <1>3

\* What JoinGame does to the game that waits.
LEMMA JoinGameWaiting ==
  ASSUME IInv, NEW c \in Clients, JoinGame(c)
  PROVE  \E g \in Live, status \in Started :
           /\ Waits(g)
           /\ games' = [games EXCEPT ![g] = Joined(games[g], c, status)]
           /\ connGame' = [connGame EXCEPT ![c] = g]
           /\ down' = Announced(down, g, games[g], c, status)
<1> DEFINE g == Head(wait2_game)
<1>1. GamesChecked(c) = games /\ g \in Live /\ Waits(g)
  BY FreePlayer, WaitingGame DEF JoinGame, IInv, Pairing
<1>2. \E status \in Started :
        /\ games' = [games EXCEPT ![g] = Joined(games[g], c, status)]
        /\ connGame' = [connGame EXCEPT ![c] = g]
        /\ down' = Announced(down, g, games[g], c, status)
  BY <1>1 DEF JoinGame, Live
<1> QED
  BY <1>1, <1>2

\* The sender of the message that OnMessage takes.
LEMMA Sender ==
  ASSUME IInv, OnMessage
  PROVE  Head(m_qMessagesIn).remote \in Clients
<1>1. /\ m_qMessagesIn \in Seq([remote : Clients, type : Requests])
      /\ m_qMessagesIn # <<>>
  BY DEF IInv, TypeOK, OnMessage
<1>2. Head(m_qMessagesIn) \in [remote : Clients, type : Requests]
  BY <1>1, HeadTailProperties
<1> QED
  BY <1>2

\* Every step is steady.
LEMMA SteadyNext ==
  ASSUME IInv, GameThere, [Next]_vars
  PROVE  Steady
<1> USE DEF Steady
<1>1. games \in [GameIDs -> Game \cup {NoGame}] /\ connGame \in [Clients -> GameIDs \cup {0}]
  BY DEF IInv, TypeOK
<1>2. CASE OnMessage
  <2> DEFINE c == Head(m_qMessagesIn).remote
  <2>1. c \in Clients /\ connID' = connID
    BY <1>2, Sender DEF OnMessage
  <2> HIDE DEF c
  <2>2. CASE UNCHANGED <<games, connGame>>
    BY <2>1, <2>2 DEF Live
  <2>3. CASE CantCreate(c)
    BY <2>1, <2>3, FreePlayer DEF CantCreate, IInv, Pairing, Live
  <2>4. CASE OpenGame(c)
    <3>1. connGame[c] = 0
      BY <2>1, <2>4, FirstGame DEF OpenGame
    <3>2. PICK g \in GameIDs :
            /\ RandMayCollide \/ g \notin Live
            /\ games' = [games EXCEPT ![g] = NewGame(c)]
            /\ connGame' = [connGame EXCEPT ![c] = g]
      BY <2>1, <2>4, OpenGameFresh
    <3>3. NewGame(c) # NoGame
      BY <2>1, NewGameType, GamesAssumption DEF IInv
    <3>4. \A h \in Live : h \in Live' /\ (h # g => games'[h] = games[h])
      BY <1>1, <3>2, <3>3 DEF Live
    <3>5. \A d \in Clients : connGame[d] # 0 => connGame'[d] = connGame[d]
      BY <1>1, <3>1, <3>2
    <3> QED
      BY <2>1, <3>2, <3>4, <3>5
  <2>5. CASE JoinGame(c)
    <3>1. connGame[c] = 0
      BY <2>1, <2>5, FirstGame DEF JoinGame
    <3>2. PICK g \in Live, status \in Started :
            /\ Waits(g)
            /\ games' = [games EXCEPT ![g] = Joined(games[g], c, status)]
            /\ connGame' = [connGame EXCEPT ![c] = g]
      BY <2>1, <2>5, JoinGameWaiting
    <3>3. Joined(games[g], c, status) # NoGame
      BY <2>1, LiveGame, JoinedType, GamesAssumption DEF IInv
    <3>4. \A h \in Live : h \in Live' /\ (~Waits(h) => games'[h] = games[h])
      BY <1>1, <3>2, <3>3 DEF Live
    <3>5. \A d \in Clients : connGame[d] # 0 => connGame'[d] = connGame[d]
      BY <1>1, <3>1, <3>2
    <3> QED
      BY <2>1, <3>4, <3>5
  <2> QED
    BY <1>2, <2>2, <2>3, <2>4, <2>5
    DEF OnMessage, start2Pgame, Refuse, Echo, clientsMove, c
<1>3. ASSUME NEW c \in Clients, Connect(c) PROVE Steady
  <2>1. connGame[c] = 0
    BY <1>3 DEF Connect, IInv, Unconnected
  <2>2. \A d \in Clients \ {c} : connID'[d] = connID[d]
    BY <1>3 DEF Connect, IInv, TypeOK
  <2>3. UNCHANGED <<games, connGame>>
    BY <1>3 DEF Connect
  <2> QED
    BY <2>1, <2>2, <2>3 DEF Live
<1>4. CASE UNCHANGED <<games, connGame, connID>>
  BY <1>4 DEF Live
<1> QED
  BY <1>2, <1>3, <1>4
  DEF Next, Exit, ReadFails, ReadMessage, ClientReads, PressKey, vars, serverVars

\* A connection is given a game that is in the map.
LEMMA GameThereNext ==
  ASSUME IInv, GameThere, [Next]_vars
  PROVE  GameThere'
<1>1. Steady
  BY SteadyNext
<1>2. games \in [GameIDs -> Game \cup {NoGame}] /\ connGame \in [Clients -> GameIDs \cup {0}]
  BY DEF IInv, TypeOK
<1>3. \A d \in Clients : connGame'[d] = connGame[d] /\ connGame'[d] # 0 => connGame'[d] \in Live'
  BY <1>1 DEF Steady, GameThere
<1>4. CASE OnMessage
  <2> DEFINE c == Head(m_qMessagesIn).remote
  <2>1. c \in Clients
    BY <1>4, Sender
  <2> HIDE DEF c
  <2>2. CASE connGame' = connGame
    BY <1>3, <2>2 DEF GameThere
  <2>3. CASE OpenGame(c)
    <3>1. PICK g \in GameIDs :
            /\ games' = [games EXCEPT ![g] = NewGame(c)]
            /\ connGame' = [connGame EXCEPT ![c] = g]
      BY <2>1, <2>3, OpenGameFresh
    <3>2. NewGame(c) # NoGame
      BY <2>1, NewGameType, GamesAssumption DEF IInv
    <3>3. g \in Live'
      BY <1>2, <3>1, <3>2 DEF Live
    <3>4. \A d \in Clients : connGame'[d] = connGame[d] \/ connGame'[d] = g
      BY <1>2, <3>1
    <3> QED
      BY <1>3, <3>3, <3>4 DEF GameThere
  <2>4. CASE JoinGame(c)
    <3>1. PICK g \in Live : connGame' = [connGame EXCEPT ![c] = g]
      BY <2>1, <2>4, JoinGameWaiting
    <3>2. g \in Live'
      BY <1>1 DEF Steady
    <3>3. \A d \in Clients : connGame'[d] = connGame[d] \/ connGame'[d] = g
      BY <1>2, <3>1
    <3> QED
      BY <1>3, <3>2, <3>3 DEF GameThere
  <2> QED
    BY <1>4, <2>2, <2>3, <2>4
    DEF OnMessage, start2Pgame, Refuse, CantCreate, Echo, clientsMove, c
<1>5. CASE connGame' = connGame
  BY <1>3, <1>5 DEF GameThere
<1> QED
  BY <1>4, <1>5
  DEF Next, Connect, Exit, ReadFails, ReadMessage, ClientReads, PressKey, vars, serverVars

-----------------------------------------------------------------------------
\* A client's view.

\* The ranks of the statuses.
LEMMA Ranks ==
  /\ \A s \in ClientStatuses : StatusRank[s] \in 0 .. 2
  /\ \A s \in Beginnings : StatusRank[s] = 2
  /\ StatusRank["NoGame"] = 0
BY DEF ClientStatuses, Beginnings, StatusRank

\* What is said rightly of a started game stays right.
LEMMA AgreesKept ==
  ASSUME Steady, NEW c \in Clients, connGame[c] # 0, NEW status, Agrees(c, status)
  PROVE  Agrees(c, status)'
BY DEF Steady, Agrees, Live, Waits, FirstMover

\* What a message says stays true.
LEMMA ToldKept ==
  ASSUME Steady, NEW c \in Clients, NEW m, Told(c, m)
  PROVE  Told(c, m)'
BY AgreesKept DEF Steady, Told

\* What is said rightly to a client, and stored rightly, stays right.
LEMMA RightKept ==
  ASSUME Steady, NEW c \in Clients, NEW w, NEW r, Right(c, w, r)
  PROVE  Right(c, w, r)'
<1>1. \A i \in DOMAIN w : IsStatus(w[i]) => Told(c, w[i])'
  BY ToldKept DEF Right
<1>2. ASSUME r.client_status # "NoGame"
      PROVE  /\ connGame'[c] # 0
             /\ r.id = connID'[c] /\ r.id_game = connGame'[c]
             /\ r.client_status \in Beginnings => Agrees(c, r.client_status)'
  <2>1. /\ connGame[c] # 0
        /\ r.id = connID[c] /\ r.id_game = connGame[c]
        /\ r.client_status \in Beginnings => Agrees(c, r.client_status)
    BY <1>2 DEF Right
  <2> QED
    BY <2>1, AgreesKept DEF Steady
<1> QED
  BY <1>1, <1>2 DEF Right

\* One more true message.
LEMMA RightAppend ==
  ASSUME NEW c \in Clients, NEW w \in Seq(Reply), NEW r, NEW m \in Reply,
         Right(c, w, r)', IsStatus(m) => Told(c, m)'
  PROVE  Right(c, Append(w, m), r)'
<1>1. \A i \in DOMAIN Append(w, m) :
        (i \in DOMAIN w /\ Append(w, m)[i] = w[i]) \/ Append(w, m)[i] = m
  BY SMT
<1>2. \A i \in DOMAIN w : IsStatus(w[i]) => Told(c, w[i])'
  BY DEF Right
<1>3. \A i \in DOMAIN Append(w, m) :
        IsStatus(Append(w, m)[i]) => Told(c, Append(w, m)[i])'
  BY <1>1, <1>2
<1> QED
  BY <1>3 DEF Right

\* One more message that says no less than those before it.
LEMMA InOrderAppend ==
  ASSUME NEW w \in Seq(Reply), NEW r, r.client_status \in ClientStatuses, InOrder(w, r),
         NEW m \in Reply,
         IsStatus(m) => \/ m.info \in Beginnings
                        \/ /\ r.client_status = "NoGame"
                           /\ \A i \in DOMAIN w : ~IsStatus(w[i])
  PROVE  InOrder(Append(w, m), r)
<1> DEFINE v == Append(w, m)
<1>1. /\ DOMAIN v = DOMAIN w \cup {Len(w) + 1} /\ v[Len(w) + 1] = m
      /\ \A i \in DOMAIN w : v[i] = w[i] /\ w[i] \in Reply /\ i \in Nat /\ i <= Len(w)
      /\ Len(w) \in Nat
  BY SMT
<1> HIDE DEF v
<1>2. \A x \in Reply : IsStatus(x) => StatusRank[x.info] \in 0 .. 2
  BY Ranks DEF Reply, IsStatus
<1>3. StatusRank[r.client_status] \in 0 .. 2
  BY Ranks
<1>4. IsStatus(m) =>
        /\ StatusRank[r.client_status] <= StatusRank[m.info]
        /\ \A i \in DOMAIN w : IsStatus(w[i]) =>
             StatusRank[w[i].info] <= StatusRank[m.info]
  <2>1. CASE m.info \in Beginnings
    <3>1. StatusRank[m.info] = 2
      BY <2>1, Ranks
    <3> QED
      BY <1>1, <1>2, <1>3, <3>1
  <2>2. CASE r.client_status = "NoGame" /\ \A i \in DOMAIN w : ~IsStatus(w[i])
    BY <1>2, <2>2, Ranks
  <2> QED
    BY <2>1, <2>2
<1>5. ASSUME NEW i \in DOMAIN v, IsStatus(v[i])
      PROVE  /\ StatusRank[r.client_status] <= StatusRank[v[i].info]
             /\ \A j \in DOMAIN v : i < j /\ IsStatus(v[j]) =>
                  StatusRank[v[i].info] <= StatusRank[v[j].info]
  <2>1. CASE i = Len(w) + 1
    BY <1>1, <1>4, <1>5, <2>1
  <2>2. CASE i \in DOMAIN w
    BY <1>1, <1>4, <1>5, <2>2 DEF InOrder
  <2> QED
    BY <1>1, <2>1, <2>2
<1> QED
  BY <1>5 DEF InOrder, v

\* What the client stores of a message.
Read(m, r) ==
  IF IsStatus(m)
  THEN [client_status |-> m.info, id |-> m.playerID, id_game |-> m.gameID]
  ELSE r

\* The first message is read: it is true, and says no less than what was stored
\* and no more than what is still to come.
LEMMA ReadRight ==
  ASSUME NEW c \in Clients, NEW w \in Seq(Reply), w # <<>>, NEW r,
         Right(c, w, r), InOrder(w, r)
  PROVE  Right(c, Tail(w), Read(Head(w), r)) /\ InOrder(Tail(w), Read(Head(w), r))
<1> DEFINE v == Tail(w)
<1>1. /\ 1 \in DOMAIN w /\ Head(w) = w[1]
      /\ \A i \in DOMAIN v : i + 1 \in DOMAIN w /\ v[i] = w[i + 1] /\ i \in Nat \ {0}
  BY SMT
<1> HIDE DEF v
<1>2. \A i \in DOMAIN v : IsStatus(v[i]) => Told(c, v[i])
  BY <1>1 DEF Right
<1>3. \A i \in DOMAIN v : IsStatus(v[i]) => \A j \in DOMAIN v : i < j /\ IsStatus(v[j]) =>
        StatusRank[v[i].info] <= StatusRank[v[j].info]
  <2> SUFFICES ASSUME NEW i \in DOMAIN v, IsStatus(v[i]),
                      NEW j \in DOMAIN v, i < j, IsStatus(v[j])
               PROVE  StatusRank[v[i].info] <= StatusRank[v[j].info]
    OBVIOUS
  <2>1. i + 1 < j + 1
    BY <1>1
  <2> QED
    BY <1>1, <2>1 DEF InOrder
<1>4. CASE IsStatus(Head(w))
  <2>1. Told(c, Head(w))
    BY <1>1, <1>4 DEF Right
  <2> DEFINE q == Read(Head(w), r)
  <2>2. /\ q.client_status = Head(w).info
        /\ q.id = Head(w).playerID /\ q.id_game = Head(w).gameID
    BY <1>4 DEF Read
  <2>3. \A i \in DOMAIN v : IsStatus(v[i]) =>
          StatusRank[Head(w).info] <= StatusRank[v[i].info]
    <3> SUFFICES ASSUME NEW i \in DOMAIN v, IsStatus(v[i])
                 PROVE  StatusRank[Head(w).info] <= StatusRank[v[i].info]
      OBVIOUS
    <3>1. 1 < i + 1
      BY <1>1
    <3> QED
      BY <1>1, <1>4, <3>1 DEF InOrder
  <2> HIDE DEF q
  <2>4. Right(c, v, q)
    BY <1>2, <2>1, <2>2 DEF Right, Told
  <2>5. InOrder(v, q)
    BY <1>3, <2>2, <2>3 DEF InOrder
  <2> QED
    BY <2>4, <2>5 DEF q, v
<1>5. CASE ~IsStatus(Head(w))
  <2>1. Read(Head(w), r) = r
    BY <1>5 DEF Read
  <2>2. Right(c, v, r)
    BY <1>2 DEF Right
  <2>3. \A i \in DOMAIN v : IsStatus(v[i]) =>
          StatusRank[r.client_status] <= StatusRank[v[i].info]
    BY <1>1 DEF InOrder
  <2>4. InOrder(v, r)
    BY <1>3, <2>3 DEF InOrder
  <2> QED
    BY <2>1, <2>2, <2>4 DEF v
<1> QED
  BY <1>4, <1>5

\* A client's view, from the values of its parts.
LEMMA ViewFrom ==
  ASSUME NEW c \in Clients, NEW w, NEW r, down'[c] = w, Stored(c)' = r,
         Right(c, w, r)', InOrder(w, r)
  PROVE  View(c)'
<1>1. Right(c, down[c], Stored(c))'
  BY DEF Right, Told, Agrees
<1>2. InOrder(down[c], Stored(c))'
  BY DEF InOrder
<1> QED
  BY <1>1, <1>2 DEF View

\* A step that adds nothing to what is on its way to a client.
LEMMA ViewKept ==
  ASSUME Steady, NEW c \in Clients, View(c), down'[c] = down[c], Stored(c)' = Stored(c)
  PROVE  View(c)'
<1>1. PICK w : w = down[c]
  OBVIOUS
<1>2. PICK r : r = Stored(c)
  OBVIOUS
<1>3. Right(c, w, r) /\ InOrder(w, r)
  BY <1>1, <1>2 DEF View
<1>4. Right(c, w, r)'
  BY <1>3, RightKept
<1> QED
  BY <1>1, <1>2, <1>3, <1>4, ViewFrom

\* May m be sent to c?
News(c, m) ==
  IsStatus(m) => Told(c, m)' /\ (connGame[c] = 0 \/ m.info \in Beginnings)

\* A step that sends a client one more message.
LEMMA ViewAppend ==
  ASSUME TypeOK, Steady, NEW c \in Clients, View(c), Stored(c)' = Stored(c),
         NEW m \in Reply, down'[c] = Append(down[c], m), News(c, m)
  PROVE  View(c)'
<1>1. PICK w \in Seq(Reply) : w = down[c]
  BY DEF TypeOK
<1>2. PICK r : r = Stored(c)
  OBVIOUS
<1>3. Right(c, w, r) /\ InOrder(w, r)
  BY <1>1, <1>2 DEF View
<1>4. Right(c, w, r)'
  BY <1>3, RightKept
<1>5. Right(c, Append(w, m), r)'
  BY <1>4, RightAppend DEF News
<1>6. r.client_status \in ClientStatuses
  BY <1>2 DEF Stored, TypeOK, ClientRecord
<1>7. connGame[c] = 0 => /\ r.client_status = "NoGame"
                         /\ \A i \in DOMAIN w : ~IsStatus(w[i])
  BY <1>3 DEF Right, Told
<1>8. InOrder(Append(w, m), r)
  BY <1>3, <1>6, <1>7, InOrderAppend DEF News
<1> QED
  BY <1>1, <1>2, <1>5, <1>8, ViewFrom

\* A client that takes a message from its wire.
LEMMA ViewRead ==
  ASSUME TypeOK, Steady, NEW c \in Clients, View(c), ClientReads(c)
  PROVE  View(c)'
<1>1. PICK w \in Seq(Reply) : w = down[c]
  BY DEF TypeOK
<1>2. PICK r : r = Stored(c)
  OBVIOUS
<1>3. Right(c, w, r) /\ InOrder(w, r) /\ w # <<>>
  BY <1>1, <1>2 DEF View, ClientReads
<1>4. /\ Right(c, Tail(w), Read(Head(w), r))
      /\ InOrder(Tail(w), Read(Head(w), r))
  BY <1>3, ReadRight
<1>5. Right(c, Tail(w), Read(Head(w), r))'
  BY <1>4, RightKept
<1>6. down'[c] = Tail(w)
  BY <1>1 DEF ClientReads, TypeOK
<1>7. Stored(c)' = Read(Head(w), r)
  <2>1. IsStatus(Head(w)) =>
          Head(w).info \in Beginnings \cup {"Wait_for_opponent_connection"}
    <3>1. 1 \in DOMAIN w /\ Head(w) = w[1]
      BY <1>3, SMT
    <3> QED
      BY <1>3, <3>1 DEF Right, Told
  <2>2. client' = IF IsStatus(Head(w))
                  THEN [client EXCEPT ![c] = client_status_msg(client[c], Head(w))]
                  ELSE client
    BY <1>1 DEF ClientReads, IsStatus
  <2>3. CASE IsStatus(Head(w))
    <3>1. client'[c] = client_status_msg(client[c], Head(w))
      BY <2>2, <2>3 DEF TypeOK
    <3>2. /\ client'[c].client_status = Head(w).info
          /\ client'[c].id = Head(w).playerID
          /\ client'[c].id_game = Head(w).gameID
      BY <2>1, <2>3, <3>1 DEF client_status_msg, Beginnings
    <3> QED
      BY <2>3, <3>2 DEF Stored, Read
  <2>4. CASE ~IsStatus(Head(w))
    BY <1>2, <2>2, <2>4 DEF Stored, Read
  <2> QED
    BY <2>3, <2>4
<1> QED
  BY <1>4, <1>5, <1>6, <1>7, ViewFrom

-----------------------------------------------------------------------------
\* Every step.

\* What a step may put on the wire to d.
Extends(d) ==
  \/ down'[d] = down[d]
  \/ \E m \in Reply : down'[d] = Append(down[d], m) /\ News(d, m)

\* A message that is no GameStatus may always be sent.
LEMMA OtherMessage ==
  ASSUME TypeOK, NEW c \in Clients, NEW m \in Reply, ~IsStatus(m),
         down' = Posted(down, c, m), NEW d \in Clients
  PROVE  Extends(d)
<1>1. down \in [Clients -> Seq(Reply)]
  BY DEF TypeOK
<1>2. down'[d] = down[d] \/ down'[d] = Append(down[d], m)
  BY <1>1 DEF Posted
<1> QED
  BY <1>2 DEF Extends, News

\* The answers of Refuse, CantCreate and Echo say nothing about a game.
LEMMA ErrorExtends ==
  ASSUME TypeOK, NEW c \in Clients, Refuse(c) \/ CantCreate(c) \/ Echo(c), NEW d \in Clients
  PROVE  Extends(d)
<1>1. CASE Refuse(c)
  <2> DEFINE err == IF ChkPlayerGame(c) = "Game_on" THEN "PlayerHasGame"
                    ELSE "PlayerWaitsAnotherPlayer"
  <2>1. connGame[c] \in GameIDs /\ connID[c] \in Nat /\ err \in ErrorCodes
    BY <1>1, ChkValues DEF TypeOK, Refuse, ErrorCodes
  <2>2. down' = Posted(down, c, ErrInfo(connGame[c], connID[c], err))
    BY <1>1 DEF Refuse
  <2> HIDE DEF err
  <2>3. ErrInfo(connGame[c], connID[c], err) \in Reply
    BY <2>1, ErrInfoType
  <2>4. ~IsStatus(ErrInfo(connGame[c], connID[c], err))
    BY DEF ErrInfo, IsStatus
  <2>5. PICK m \in Reply : m = ErrInfo(connGame[c], connID[c], err)
    BY <2>3
  <2> QED
    BY <2>2, <2>4, <2>5, OtherMessage
<1>2. CASE CantCreate(c)
  <2>1. PICK g \in Draws(GamesChecked(c)) :
          down' = Posted(down, c, ErrInfo(g[1], connID[c], "CantCreateNewGame"))
    BY <1>2 DEF CantCreate
  <2>2. ErrInfo(g[1], connID[c], "CantCreateNewGame") \in Reply
    BY DrawsType, ErrInfoType DEF TypeOK, ErrorCodes
  <2>3. ~IsStatus(ErrInfo(g[1], connID[c], "CantCreateNewGame"))
    BY DEF ErrInfo, IsStatus
  <2>4. PICK m \in Reply : m = ErrInfo(g[1], connID[c], "CantCreateNewGame")
    BY <2>2
  <2> QED
    BY <2>1, <2>3, <2>4, OtherMessage
<1>3. CASE Echo(c)
  <2>1. Plain("ServerEcho") \in Reply /\ ~IsStatus(Plain("ServerEcho"))
    BY PlainType DEF Plain, IsStatus
  <2> QED
    BY <1>3, <2>1, OtherMessage DEF Echo
<1> QED
  BY <1>1, <1>2, <1>3

\* The player who opens a game hears of no game before that one.
LEMMA OpenGameExtends ==
  ASSUME IInv, GameThere, NEW c \in Clients, OpenGame(c),
         connID' = connID, NEW d \in Clients
  PROVE  Extends(d)
<1>1. PICK g \in GameIDs :
        /\ connGame' = [connGame EXCEPT ![c] = g]
        /\ down' = Posted(down, c,
                     GameInfo(g, connID[c], "Wait_for_opponent_connection"))
  BY OpenGameFresh
<1>2. PICK m : m = GameInfo(g, connID[c], "Wait_for_opponent_connection")
  OBVIOUS
<1>3. m \in Reply
  BY <1>2, GameInfoType DEF IInv, TypeOK, ClientStatuses
<1>4. connGame[c] = 0 /\ connGame'[c] = g /\ g # 0
  BY <1>1, FirstGame, GamesAssumption DEF OpenGame, IInv, TypeOK
<1>5. /\ m.playerID = connID[c] /\ m.gameID = g
      /\ m.info = "Wait_for_opponent_connection"
  BY <1>2 DEF GameInfo
<1>6. Told(c, m)'
  BY <1>4, <1>5 DEF Told, Beginnings
<1>7. News(c, m)
  BY <1>4, <1>6 DEF News
<1>8. down'[d] = down[d] \/ (d = c /\ down'[d] = Append(down[d], m))
  BY <1>1, <1>2, <1>3 DEF Posted, IInv, TypeOK
<1> QED
  BY <1>3, <1>7, <1>8 DEF Extends

\* The two players of a game that starts are told the same of it.
LEMMA JoinGameExtends ==
  ASSUME IInv, NEW c \in Clients, JoinGame(c), connID' = connID, NEW d \in Clients
  PROVE  Extends(d)
<1>1. PICK g \in Live, status \in Started :
        /\ Waits(g)
        /\ games' = [games EXCEPT ![g] = Joined(games[g], c, status)]
        /\ connGame' = [connGame EXCEPT ![c] = g]
        /\ down' = Announced(down, g, games[g], c, status)
  BY JoinGameWaiting
<1>2. PICK G \in Game : G = games[g]
  BY LiveGame DEF IInv
<1>3. PICK p \in Clients : p = G.player1
  BY DEF Game
<1>4. /\ g \in GameIDs /\ g # 0
      /\ p # c /\ connGame[p] = g /\ G.p1ID = connID[p]
  BY <1>2, <1>3, LiveGame, FreePlayer DEF IInv, Pairing, PlayersLinked, JoinGame
<1>5. /\ games'[g] = Joined(G, c, status) /\ g \in Live'
  <2>1. games'[g] = Joined(G, c, status)
    BY <1>1, <1>2, <1>4 DEF IInv, TypeOK
  <2>2. Joined(G, c, status) \in Game
    BY JoinedType DEF IInv
  <2> QED
    BY <1>4, <2>1, <2>2, GamesAssumption DEF Live
<1>6. /\ games'[g].player1 = p /\ games'[g].player2 = c
      /\ games'[g].game_status = status /\ games'[g].turn = TurnOf(status)
      /\ ~Waits(g)'
  BY <1>3, <1>5 DEF Joined, Waits, Started
<1>7. connGame'[c] = g /\ connGame'[p] = g
  BY <1>1, <1>4 DEF IInv, TypeOK
<1>8. PICK s2 \in Beginnings :
        s2 = IF SecondPlayerFirst(status) THEN "StartedThis" ELSE "StartedOpponent"
  BY DEF Beginnings
<1>9. PICK s1 \in Beginnings :
        s1 = IF SecondPlayerFirst(status) THEN "StartedOpponent" ELSE "StartedThis"
  BY DEF Beginnings
<1>10. /\ (s2 = "StartedThis") <=> (c = FirstMover(games'[g]))
       /\ (s1 = "StartedThis") <=> (p = FirstMover(games'[g]))
  <2>1. FirstMover(games'[g]) = IF status = "Player1_First_move" THEN p ELSE c
    BY <1>6 DEF FirstMover, TurnOf
  <2>2. SecondPlayerFirst(status) <=> status # "Player1_First_move"
    BY DEF SecondPlayerFirst, Started
  <2> QED
    BY <1>4, <1>8, <1>9, <2>1, <2>2
<1>11. Agrees(c, s2)' /\ Agrees(p, s1)'
  BY <1>5, <1>6, <1>7, <1>10 DEF Agrees
<1>12. PICK m2 : m2 = GameInfo(g, connID[c], s2)
  OBVIOUS
<1>13. PICK m1 : m1 = GameInfo(g, G.p1ID, s1)
  OBVIOUS
<1>14. m1 \in Reply /\ m2 \in Reply
  BY <1>4, <1>12, <1>13, GameInfoType DEF IInv, TypeOK, Game, Beginnings, ClientStatuses
<1>15. /\ m2.playerID = connID[c] /\ m2.gameID = g /\ m2.info = s2
       /\ m1.playerID = connID[p] /\ m1.gameID = g /\ m1.info = s1
  BY <1>4, <1>12, <1>13 DEF GameInfo
<1>16. Told(c, m2)' /\ Told(p, m1)'
  BY <1>4, <1>7, <1>11, <1>15 DEF Told
<1>17. News(c, m2) /\ News(p, m1)
  BY <1>15, <1>16 DEF News
<1>18. down' = Posted(Posted(down, c, m2), p, m1)
  BY <1>1, <1>2, <1>3, <1>8, <1>9, <1>12, <1>13 DEF Announced
<1>19. PICK w \in [Clients -> Seq(Reply)] : w = Posted(down, c, m2)
  BY <1>14, PostedType DEF IInv, TypeOK
<1>20. w[d] = down[d] \/ (d = c /\ w[d] = Append(down[d], m2))
  BY <1>14, <1>19 DEF Posted, IInv, TypeOK
<1>21. down'[d] = w[d] \/ (d = p /\ down'[d] = Append(w[d], m1))
  BY <1>14, <1>18, <1>19 DEF Posted
<1> QED
  BY <1>4, <1>14, <1>17, <1>20, <1>21 DEF Extends

\* Counting a move changes nothing a client was told.
LEMMA MovedKeeps ==
  ASSUME NEW r \in ClientRecord
  PROVE  /\ Moved(r).client_status = r.client_status
         /\ Moved(r).id = r.id /\ Moved(r).id_game = r.id_game
BY DEF Moved, ClientRecord

\* Every step keeps every client's view.
LEMMA ViewsNext ==
  ASSUME IInv, GameThere, Views, [Next]_vars
  PROVE  Views'
<1>1. Steady
  BY SteadyNext
<1>2. TypeOK /\ down \in [Clients -> Seq(Reply)] /\ client \in [Clients -> ClientRecord]
  BY DEF IInv, TypeOK
<1>3. ASSUME NEW d \in Clients, Extends(d), Stored(d)' = Stored(d) PROVE View(d)'
  BY <1>1, <1>2, <1>3, ViewKept, ViewAppend DEF Extends, Views
<1>4. ASSUME NEW d \in Clients, down'[d] = down[d], Stored(d)' = Stored(d) PROVE View(d)'
  BY <1>1, <1>4, ViewKept DEF Views
<1>5. CASE OnMessage
  <2> DEFINE c == Head(m_qMessagesIn).remote
  <2>1. c \in Clients /\ connID' = connID /\ client' = client
    BY <1>5, Sender DEF OnMessage, clientVars
  <2>2. start2Pgame(c) \/ Echo(c) \/ clientsMove(c)
    BY <1>5 DEF OnMessage
  <2> HIDE DEF c
  <2> SUFFICES ASSUME NEW d \in Clients PROVE View(d)'
    BY DEF Views
  <2>3. Extends(d)
    <3>1. CASE Refuse(c) \/ CantCreate(c) \/ Echo(c)
      BY <1>2, <2>1, <3>1, ErrorExtends
    <3>2. CASE OpenGame(c)
      BY <2>1, <3>2, OpenGameExtends
    <3>3. CASE JoinGame(c)
      BY <2>1, <3>3, JoinGameExtends
    <3>4. CASE clientsMove(c)
      BY <3>4 DEF clientsMove, Extends
    <3> QED
      BY <2>2, <3>1, <3>2, <3>3, <3>4 DEF start2Pgame
  <2>4. Stored(d)' = Stored(d)
    BY <2>1 DEF Stored
  <2> QED
    BY <1>3, <2>3, <2>4
<1>6. ASSUME NEW c \in Clients, Connect(c) PROVE Views'
  <2>1. Plain("ServerAccept") \in Reply /\ ~IsStatus(Plain("ServerAccept"))
    BY PlainType DEF Plain, IsStatus
  <2>2. client' = client /\ down' = [down EXCEPT ![c] = Append(down[c], Plain("ServerAccept"))]
    BY <1>6 DEF Connect
  <2> SUFFICES ASSUME NEW d \in Clients PROVE View(d)'
    BY DEF Views
  <2>3. Extends(d)
    BY <1>2, <2>1, <2>2 DEF Extends, News
  <2>4. Stored(d)' = Stored(d)
    BY <2>2 DEF Stored
  <2> QED
    BY <1>3, <2>3, <2>4
<1>7. ASSUME NEW c \in Clients, ClientReads(c) PROVE Views'
  <2> SUFFICES ASSUME NEW d \in Clients PROVE View(d)'
    BY DEF Views
  <2>1. CASE d = c
    BY <1>1, <1>2, <1>7, <2>1, ViewRead DEF Views
  <2>2. CASE d # c
    <3>1. down'[d] = down[d] /\ client'[d] = client[d]
      BY <1>2, <1>7, <2>2 DEF ClientReads
    <3>2. Stored(d)' = Stored(d)
      BY <3>1 DEF Stored
    <3> QED
      BY <1>4, <3>1, <3>2
  <2> QED
    BY <2>1, <2>2
<1>8. ASSUME NEW c \in Clients, NEW type \in Requests, PressKey(c, type) PROVE Views'
  <2> SUFFICES ASSUME NEW d \in Clients PROVE View(d)'
    BY DEF Views
  <2>1. down' = down
    BY <1>8 DEF PressKey
  <2>2. client' = client \/ client' = [client EXCEPT ![c] = Moved(client[c])]
    BY <1>8 DEF PressKey
  <2>3. /\ client'[d].client_status = client[d].client_status
        /\ client'[d].id = client[d].id /\ client'[d].id_game = client[d].id_game
    <3>1. client[d] \in ClientRecord
      BY <1>2
    <3>2. client'[d] = client[d] \/ client'[d] = Moved(client[d])
      BY <1>2, <2>2
    <3> QED
      BY <3>1, <3>2, MovedKeeps
  <2>4. Stored(d)' = Stored(d)
    BY <2>3 DEF Stored
  <2> QED
    BY <1>4, <2>1, <2>4
<1>9. CASE UNCHANGED <<down, client>>
  <2> SUFFICES ASSUME NEW d \in Clients PROVE View(d)'
    BY DEF Views
  <2>1. Stored(d)' = Stored(d)
    BY <1>9 DEF Stored
  <2> QED
    BY <1>4, <1>9, <2>1
<1> QED
  BY <1>5, <1>6, <1>7, <1>8, <1>9
  DEF Next, Exit, ReadFails, ReadMessage, vars, netVars, clientVars

-----------------------------------------------------------------------------
\* The theorems.

\* Whatever the clients ask for and in whatever order the asio thread, the main
\* thread and the clients run: every answer under way and every stored answer
\* is true, and they come in the order in which they became true.
THEOREM TrueViews == Spec => [](GameThere /\ Views)
<1>1. Init => Views
  <2> SUFFICES ASSUME Init, NEW c \in Clients PROVE View(c)
    BY DEF Views
  <2>1. down[c] = <<>> /\ Stored(c).client_status = "NoGame"
    BY DEF Init, InitClient, Stored
  <2> QED
    BY <2>1 DEF View, Right, InOrder
<1>2. Init => GameThere
  BY DEF Init, GameThere
<1>3. IInv /\ GameThere /\ Views /\ [Next]_vars => (GameThere /\ Views)'
  BY GameThereNext, ViewsNext
<1> QED
  BY <1>1, <1>2, <1>3, Invariant, PTL DEF Spec

\* The ID and the game that a client has stored are those of its connection on
\* the server, even when another game has taken over its ID.
THEOREM KnowsItself == Spec => []ClientKnowsItself
<1>1. Views => ClientKnowsItself
  BY DEF Views, View, Right, Stored, ClientKnowsItself
<1> QED
  BY <1>1, TrueViews, PTL

\* A client that is told who moves first is told what the server recorded.
THEOREM FirstMove ==
  ASSUME ~RandMayCollide
  PROVE  Spec => []FirstMoveAgreed
<1>1. ~RandMayCollide /\ Views => FirstMoveAgreed
  <2> SUFFICES ASSUME ~RandMayCollide, Views, NEW c \in Clients,
                      client[c].client_status \in Beginnings
               PROVE  LET G == games[client[c].id_game] IN
                      /\ G # NoGame
                      /\ ~Waits(client[c].id_game)
                      /\ (client[c].client_status = "StartedThis") <=>
                           (c = IF G.turn = "player1" THEN G.player1 ELSE G.player2)
    BY DEF FirstMoveAgreed, Beginnings
  <2>1. /\ client[c].id_game = connGame[c]
        /\ Agrees(c, client[c].client_status)
    BY DEF Views, View, Right, Stored, Beginnings
  <2> QED
    BY <2>1 DEF Agrees, FirstMover, Live
<1> QED
  BY <1>1, TrueViews, PTL

\* The record of a started game is never written again.
THEOREM GameKept ==
  ASSUME ~RandMayCollide
  PROVE  Spec => ActiveGameKept
<1>1. IInv /\ GameThere /\ [Next]_vars =>
        [\A g \in GameIDs : g \in Live /\ ~Waits(g) => games'[g] = games[g]]_vars
  BY SteadyNext DEF Steady
<1> QED
  BY <1>1, Invariant, TrueViews, PTL DEF Spec, ActiveGameKept

\* No answer takes a client's status back.
LEMMA StatusStep ==
  ASSUME IInv, GameThere, Views, [Next]_vars, NEW c \in Clients
  PROVE  StatusRank[client'[c].client_status] >= StatusRank[client[c].client_status]
<1>1. /\ client \in [Clients -> ClientRecord] /\ down \in [Clients -> Seq(Reply)]
      /\ StatusRank[client[c].client_status] \in 0 .. 2
  BY Ranks DEF IInv, TypeOK, ClientRecord
<1>2. CASE client'[c].client_status = client[c].client_status
  BY <1>1, <1>2
<1>3. CASE ClientReads(c) /\ IsStatus(Head(down[c]))
  <2>1. 1 \in DOMAIN down[c] /\ Head(down[c]) = down[c][1] /\ Head(down[c]) \in Reply
    BY <1>1, <1>3 DEF ClientReads
  <2>2. StatusRank[client[c].client_status] <= StatusRank[Head(down[c]).info]
    BY <1>3, <2>1 DEF Views, View, InOrder, Stored
  <2>3. client'[c] = client_status_msg(client[c], Head(down[c]))
    BY <1>1, <1>3 DEF ClientReads, IsStatus
  <2>4. client'[c].client_status = Head(down[c]).info
    BY <2>3 DEF client_status_msg
  <2>5. StatusRank[Head(down[c]).info] \in 0 .. 2
    BY <1>3, <2>1, Ranks DEF Reply, IsStatus
  <2> QED
    BY <1>1, <2>2, <2>4, <2>5
<1>4. ASSUME NEW d \in Clients, ClientReads(d)
      PROVE  \/ client'[c].client_status = client[c].client_status
             \/ ClientReads(c) /\ IsStatus(Head(down[c]))
  BY <1>1, <1>4 DEF ClientReads, IsStatus
<1>5. ASSUME NEW d \in Clients, NEW type \in Requests, PressKey(d, type)
      PROVE  client'[c].client_status = client[c].client_status
  <2>1. client' = client \/ client' = [client EXCEPT ![d] = Moved(client[d])]
    BY <1>5 DEF PressKey
  <2>2. client[c] \in ClientRecord /\ (client'[c] = client[c] \/ client'[c] = Moved(client[c]))
    BY <1>1, <2>1
  <2> QED
    BY <2>2, MovedKeeps
<1> QED
  BY <1>2, <1>3, <1>4, <1>5
  DEF Next, OnMessage, Connect, Exit, ReadFails, ReadMessage, vars, clientVars

\* A client never falls back from a started game to waiting, nor from waiting to
\* no game.
THEOREM NeverFallsBack == Spec => StatusNeverFallsBack
<1>1. IInv /\ GameThere /\ Views /\ [Next]_vars =>
        [\A c \in Clients : StatusRank[client'[c].client_status] >=
                            StatusRank[client[c].client_status]]_vars
  BY StatusStep
<1> QED
  BY <1>1, Invariant, TrueViews, PTL DEF Spec, StatusNeverFallsBack
=============================================================================
