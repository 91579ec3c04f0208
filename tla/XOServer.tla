------------------------------ MODULE XOServer ------------------------------
(***************************************************************************)
(* The XO server and its clients: how two players are brought together in  *)
(* a game, and what each of them comes to know about it.                   *)
(*                                                                         *)
(* Server side (XOserver/XOserver1.cpp, net_server.h): the map of games,   *)
(* the queue of the game that waits for its second player, the list of     *)
(* connections, the incoming queue that the main thread empties.  Client   *)
(* side (XOclient): the fields of xo_client, changed by the messages that  *)
(* arrive.  A connection is a pair of FIFO wires; what happens before the  *)
(* first message (key exchange) and below a message (header, body, cipher) *)
(* is the subject of module Session, and the way the main thread sleeps on *)
(* the incoming queue that of module TsQueue.                              *)
(***************************************************************************)
EXTENDS Integers, Sequences, FiniteSets

CONSTANTS
  Clients,        \* the client processes; each connects at most once
  NoClient,       \* the null pointer of game_::player2
  GameIDs,        \* the range of rand32(1000), cut down to a small set
  NoGame,         \* what games.find returns for an ID not in the map
  MaxKeys,        \* bound: key presses of all clients together
  RandMayCollide  \* may rand32 return an ID that is in the map?

\* The game record, an entry of xo_server::games.
Turns == {"player1", "player2"}

Started == {"Player1_First_move", "Player2_First_move"}

Game == [player1     : Clients,
         player2     : Clients \cup {NoClient},
         p1ID        : Nat,
         p2ID        : Nat,
         game_status : Started \cup {"Wait_for_player2_connection",
                                     "Game_finished"},
         turn        : Turns]

ASSUME ClientsAssumption == NoClient \notin Clients
ASSUME GamesAssumption == /\ GameIDs \subseteq Nat \ {0}
                          /\ NoGame \notin Game
ASSUME BoundsAssumption == MaxKeys \in Nat /\ RandMayCollide \in BOOLEAN

VARIABLES
  \* --- the server
  games,             \* unordered_map from game ID to game
  wait2_game,        \* IDs of the games that wait for player 2
  nIDCounter,        \* the next connection ID
  m_deqConnections,  \* the connections the server keeps
  m_qMessagesIn,     \* messages read from all connections, with their sender
  connID,            \* connection::id
  connGame,          \* connection::id_game
  srvOpen,           \* is the server's socket of the connection open?
  \* --- the wires
  up,                \* client to server
  down,              \* server to client
  \* --- the clients
  phase,             \* "off" before Connect, "on", "gone" after the exit
  keys,              \* key presses so far
  client             \* the fields of xo_client

serverVars == <<games, wait2_game, nIDCounter, m_deqConnections, connID,
                connGame>>
netVars    == <<m_qMessagesIn, srvOpen, up, down>>
clientVars == <<phase, keys, client>>
vars       == <<serverVars, netVars, clientVars>>

-----------------------------------------------------------------------------
\* Messages.

\* The requests a client's keys 1, 2 and 4 send.
Requests == {"ServerEcho", "NewPlayerGame", "MakeAMove"}

ErrorCodes == {"CantCreateNewGame", "NoGameID", "PlayerHasGame",
               "PlayerWaitsAnotherPlayer"}

ClientStatuses == {"NoGame", "Wait_for_opponent_connection", "StartedThis",
                   "StartedOpponent"}

\* A message to a client: game_info, err_info, or a body nobody unpacks.
Reply ==
  [type : {"ServerAccept", "ServerEcho"}, gameID : {0}, playerID : {0},
   info : {"none"}] \cup
  [type : {"GameStatus"}, gameID : GameIDs, playerID : Nat,
   info : ClientStatuses] \cup
  [type : {"ServerError"}, gameID : GameIDs, playerID : Nat, info : ErrorCodes]

Plain(type) == [type |-> type, gameID |-> 0, playerID |-> 0, info |-> "none"]

GameInfo(g, p, status) ==
  [type |-> "GameStatus", gameID |-> g, playerID |-> p, info |-> status]

\* prepErrMsg
ErrInfo(g, p, err) ==
  [type |-> "ServerError", gameID |-> g, playerID |-> p, info |-> err]

Mut_Posted(wires, c, m) ==
  IF srvOpen[c] THEN [wires EXCEPT ![c] = <<m>> \o @] ELSE wires

\* connection::Send never looks at the socket: the message is posted to the
\* asio thread, whose write fails when the socket is closed.
Posted(wires, c, m) ==
  IF srvOpen[c] THEN [wires EXCEPT ![c] = Append(@, m)] ELSE wires

-----------------------------------------------------------------------------
InitClient == [client_status |-> "NoGame", id |-> 0, id_game |-> 0,
               n_move |-> 0, turn |-> "unset"]

Init ==
  /\ games = [g \in GameIDs |-> NoGame]
  /\ wait2_game = <<>>
  /\ nIDCounter = 10000
  /\ m_deqConnections = {}
  /\ m_qMessagesIn = <<>>
  /\ connID = [c \in Clients |-> 0]
  /\ connGame = [c \in Clients |-> 0]
  /\ srvOpen = [c \in Clients |-> FALSE]
  /\ up = [c \in Clients |-> <<>>]
  /\ down = [c \in Clients |-> <<>>]
  /\ phase = [c \in Clients |-> "off"]
  /\ keys = 0
  /\ client = [c \in Clients |-> InitClient]

-----------------------------------------------------------------------------
\* The connection's life.

\* The accept handler: OnClientConnect sends ServerAccept, then the connection
\* enters m_deqConnections and ConnectToClient gives it the next ID.
Connect(c) ==
  /\ phase[c] = "off"
  /\ phase' = [phase EXCEPT ![c] = "on"]
  /\ srvOpen' = [srvOpen EXCEPT ![c] = TRUE]
  /\ down' = [down EXCEPT ![c] = Append(@, Plain("ServerAccept"))]
  /\ m_deqConnections' = m_deqConnections \cup {c}
  /\ connID' = [connID EXCEPT ![c] = nIDCounter]
  /\ nIDCounter' = nIDCounter + 1
  /\ UNCHANGED <<games, wait2_game, connGame, m_qMessagesIn, up,
                 keys, client>>

\* Key 0 (or the end of the process): the client's socket goes away.
Exit(c) ==
  /\ phase[c] = "on"
  /\ phase' = [phase EXCEPT ![c] = "gone"]
  /\ UNCHANGED <<serverVars, netVars, keys, client>>

\* The asio thread notices: the pending read fails and the handler closes the
\* socket.  What was still under way is lost.
ReadFails(c) ==
  /\ srvOpen[c] /\ phase[c] = "gone"
  /\ srvOpen' = [srvOpen EXCEPT ![c] = FALSE]
  /\ up' = [up EXCEPT ![c] = <<>>]
  /\ UNCHANGED <<serverVars, m_qMessagesIn, down, clientVars>>

\* The asio thread reads one message: AddToIncomingMessageQueue.
ReadMessage(c) ==
  /\ srvOpen[c] /\ up[c] # <<>>
  /\ m_qMessagesIn' = Append(m_qMessagesIn, [remote |-> c, type |-> Head(up[c])])
  /\ up' = [up EXCEPT ![c] = Tail(@)]
  /\ UNCHANGED <<serverVars, srvOpen, down, clientVars>>

-----------------------------------------------------------------------------
\* start2Pgame

Mut_ChkPlayerGame(c) ==
  IF connGame[c] = 0 \/ games[connGame[c]] = NoGame THEN "No_such_game"
  ELSE IF games[connGame[c]].game_status = "Wait_for_player2_connection"
       THEN "No_such_game" ELSE "Game_on"

\* chkPlayerGame: has the connection a game that waits or is being played?
ChkPlayerGame(c) ==
  IF connGame[c] = 0 \/ games[connGame[c]] = NoGame THEN "No_such_game"
  ELSE LET s == games[connGame[c]].game_status IN
       CASE s = "Game_finished"               -> "No_such_game"
         [] s = "Wait_for_player2_connection" -> s
         [] OTHER                             -> "Game_on"

\* ... which also erases a finished game from the map.
GamesChecked(c) ==
  IF /\ connGame[c] # 0 /\ games[connGame[c]] # NoGame
     /\ games[connGame[c]].game_status = "Game_finished"
  THEN [games EXCEPT ![connGame[c]] = NoGame]
  ELSE games

\* The player already waits or plays: an error is sent, nothing changes.
Refuse(c) ==
  LET s == ChkPlayerGame(c) IN
  /\ s # "No_such_game"
  /\ down' = Posted(down, c, ErrInfo(connGame[c], connID[c],
                 IF s = "Game_on" THEN "PlayerHasGame"
                                  ELSE "PlayerWaitsAnotherPlayer"))
  /\ UNCHANGED <<games, wait2_game, connGame>>

\* The loop that draws a game ID: at most Tries draws, and it stops at the
\* first ID that IS in the map (the comparison is the wrong way round).
\* <<g, i>> is a result of the loop: the last number drawn and the loop
\* counter after it, -1 when no draw hit the map.
Tries == 10

Mut_Draws(map) == GameIDs \X {-1}

Draws(map) ==
  LET used == {g \in GameIDs : map[g] # NoGame}
      free == GameIDs \ used
  IN IF used = {} THEN GameIDs \X {Tries}
     ELSE (free \X {-1}) \cup
          {d \in used \X (0 .. Tries - 1) :
             RandMayCollide /\ (d[2] < Tries - 1 => free # {})}

\* The tenth draw hit the map: the server answers CantCreateNewGame.
CantCreate(c) ==
  /\ ChkPlayerGame(c) = "No_such_game" /\ wait2_game = <<>>
  /\ \E d \in Draws(GamesChecked(c)) :
       /\ d[2] = 0
       /\ down' = Posted(down, c, ErrInfo(d[1], connID[c], "CantCreateNewGame"))
  /\ games' = GamesChecked(c)
  /\ UNCHANGED <<wait2_game, connGame>>

NewGame(c) ==
  [player1 |-> c, player2 |-> NoClient, p1ID |-> connID[c], p2ID |-> 0,
   game_status |-> "Wait_for_player2_connection", turn |-> "player1"]

\* Nobody waits: the player opens a game and waits for an opponent.
OpenGame(c) ==
  /\ ChkPlayerGame(c) = "No_such_game" /\ wait2_game = <<>>
  /\ \E d \in Draws(GamesChecked(c)) :
       LET g == d[1] IN
       /\ d[2] # 0
       /\ wait2_game' = Append(wait2_game, g)
       /\ games' = [GamesChecked(c) EXCEPT ![g] = NewGame(c)]
       /\ connGame' = [connGame EXCEPT ![c] = g]
       /\ down' = Posted(down, c,
                    GameInfo(g, connID[c], "Wait_for_opponent_connection"))

Mut_TurnOf(status) == status

\* (Turn)(uint32_t)game_stat, under the two static_asserts.
TurnOf(status) == IF status = "Player1_First_move" THEN "player1" ELSE "player2"

Mut_Joined(game, c, status) ==
  [game EXCEPT !.player2 = c, !.p2ID = connID[c], !.turn = TurnOf(status)]

Mut_NoPlayer2(game, c, status) ==
  [game EXCEPT !.p2ID = connID[c], !.game_status = status, !.turn = TurnOf(status)]

\* What the second player's request writes into the game's record.
Joined(game, c, status) ==
  [player1 |-> game.player1, player2 |-> c, p1ID |-> game.p1ID, p2ID |-> connID[c],
   game_status |-> status, turn |-> TurnOf(status)]

Mut_SecondPlayerFirst(status) == status = "Player1_First_move"

\* Does the second player, who is being answered, move first?
SecondPlayerFirst(status) == status = "Player2_First_move"

Mut_Announced(wires, g, game, c, status) ==
  LET second == SecondPlayerFirst(status) IN
  Posted(Posted(wires, c, GameInfo(g, connID[c],
           IF second THEN "StartedThis" ELSE "StartedOpponent")),
         c, GameInfo(g, game.p1ID,
           IF second THEN "StartedOpponent" ELSE "StartedThis"))

\* The two answers, to the second player and to the first.
Announced(wires, g, game, c, status) ==
  LET second == SecondPlayerFirst(status) IN
  Posted(Posted(wires, c, GameInfo(g, connID[c],
           IF second THEN "StartedThis" ELSE "StartedOpponent")),
         game.player1, GameInfo(g, game.p1ID,
           IF second THEN "StartedOpponent" ELSE "StartedThis"))

\* Somebody waits: the player becomes player 2 of that game, a random draw
\* says who moves first, and both players are told.  (The map always holds the
\* waiting game; the code answers NoGameID if it does not.)
JoinGame(c) ==
  /\ ChkPlayerGame(c) = "No_such_game" /\ wait2_game # <<>>
  /\ wait2_game' = Tail(wait2_game)
  /\ LET g == Head(wait2_game)
         G == GamesChecked(c)
     IN IF G[g] = NoGame
        THEN /\ down' = Posted(down, c, ErrInfo(g, connID[c], "NoGameID"))
             /\ games' = G
             /\ UNCHANGED connGame
        ELSE \E status \in Started :
             /\ games' = [G EXCEPT ![g] = Joined(G[g], c, status)]
             /\ connGame' = [connGame EXCEPT ![c] = g]
             /\ down' = Announced(down, g, G[g], c, status)

start2Pgame(c) == Refuse(c) \/ CantCreate(c) \/ OpenGame(c) \/ JoinGame(c)

\* ServerEcho: the text comes back.  clientsMove only unpacks the move.
Echo(c) ==
  /\ down' = Posted(down, c, Plain("ServerEcho"))
  /\ UNCHANGED <<games, wait2_game, connGame>>

clientsMove(c) ==
  UNCHANGED <<games, wait2_game, connGame, down>>

\* Update pops the first message and OnMessage dispatches it.
OnMessage ==
  /\ m_qMessagesIn # <<>>
  /\ LET m == Head(m_qMessagesIn) IN
       \/ m.type = "NewPlayerGame" /\ start2Pgame(m.remote)
       \/ m.type = "ServerEcho"    /\ Echo(m.remote)
       \/ m.type = "MakeAMove"     /\ clientsMove(m.remote)
  /\ m_qMessagesIn' = Tail(m_qMessagesIn)
  /\ UNCHANGED <<nIDCounter, m_deqConnections, connID, srvOpen, up, clientVars>>

-----------------------------------------------------------------------------
\* The client's main loop.

\* MakeAMove counts the moves in a uint16_t.
uint16 == 0 .. 65535

NextMove(n) == (n + 1) % 65536

Moved(r) == [r EXCEPT !.n_move = NextMove(@)]

\* Keys 1, 2 and 4: EchoServer, NewGameWithPlayer, MakeAMove.  Nothing depends
\* on the client's status or turn.
PressKey(c, type) ==
  /\ phase[c] = "on" /\ keys < MaxKeys
  /\ keys' = keys + 1
  /\ up' = IF srvOpen[c] THEN [up EXCEPT ![c] = Append(@, type)] ELSE up
  /\ client' = IF type = "MakeAMove" THEN [client EXCEPT ![c] = Moved(@)]
               ELSE client
  /\ UNCHANGED <<serverVars, m_qMessagesIn, srvOpen, down, phase>>

Mut_client_status_msg(r, m) ==
  [r EXCEPT !.client_status = m.info, !.id = m.gameID, !.id_game = m.playerID]

\* client_status_msg: the statuses of a game that waits or is on carry the
\* client's ID and its game; once the game is on, turn becomes YourMove whoever moves first.
client_status_msg(r, m) ==
  LET started == m.info \in {"StartedThis", "StartedOpponent"}
      told    == started \/ m.info = "Wait_for_opponent_connection"
  IN [client_status |-> m.info,
      id      |-> IF told THEN m.playerID ELSE r.id,
      id_game |-> IF told THEN m.gameID ELSE r.id_game,
      n_move  |-> r.n_move,
      turn    |-> IF started THEN "YourMove" ELSE r.turn]

\* At most one message per turn of the loop; only GameStatus changes a field.
ClientReads(c) ==
  /\ phase[c] = "on" /\ down[c] # <<>>
  /\ down' = [down EXCEPT ![c] = Tail(@)]
  /\ client' = IF Head(down[c]).type = "GameStatus"
               THEN [client EXCEPT ![c] = client_status_msg(@, Head(down[c]))]
               ELSE client
  /\ UNCHANGED <<serverVars, m_qMessagesIn, srvOpen, up, phase,
                 keys>>

-----------------------------------------------------------------------------
Next ==
  \/ OnMessage
  \/ \E c \in Clients :
       \/ Connect(c)
       \/ Exit(c)
       \/ ReadFails(c)
       \/ ReadMessage(c)
       \/ ClientReads(c)
       \/ \E type \in Requests : PressKey(c, type)

Spec == Init /\ [][Next]_vars

\* The asio thread runs its handlers and the client polls its queue; nobody has
\* to connect, press a key or leave.  The main thread of the server sleeps on a
\* condition variable and is not promised to wake up (module TsQueue).
FairSpec ==
  Spec /\ \A c \in Clients : /\ WF_vars(ReadFails(c))
                             /\ WF_vars(ReadMessage(c))
                             /\ WF_vars(ClientReads(c))

-----------------------------------------------------------------------------
ClientRecord == [client_status : ClientStatuses, id : Nat,
                 id_game : GameIDs \cup {0}, n_move : uint16,
                 turn : {"unset", "YourMove", "OpponentMove"}]

\* Every variable has the type its declaration in the code gives it.
TypeOK ==
  /\ games \in [GameIDs -> Game \cup {NoGame}]
  /\ wait2_game \in Seq(GameIDs)
  /\ nIDCounter \in Nat
  /\ m_deqConnections \subseteq Clients
  /\ m_qMessagesIn \in Seq([remote : Clients, type : Requests])
  /\ connID \in [Clients -> Nat]
  /\ connGame \in [Clients -> GameIDs \cup {0}]
  /\ srvOpen \in [Clients -> BOOLEAN]
  /\ up \in [Clients -> Seq(Requests)]
  /\ down \in [Clients -> Seq(Reply)]
  /\ phase \in [Clients -> {"off", "on", "gone"}]
  /\ keys \in Nat
  /\ client \in [Clients -> ClientRecord]

Live == {g \in GameIDs : games[g] # NoGame}

Waits(g) == games[g].game_status = "Wait_for_player2_connection"

\* The queue holds at most one game (XOserver1.h:67), and that game is exactly
\* the one whose record says that it waits: a game is never lost from the queue
\* and a started game is never offered to a third player.
WaitQueue ==
  /\ Len(wait2_game) <= 1
  /\ \A g \in GameIDs : (g \in Live /\ Waits(g)) <=>
       \E i \in DOMAIN wait2_game : wait2_game[i] = g

\* A game, the connections it points to and the IDs it copied from them tell
\* one story: both players exist, differ, point back to this game (so that no
\* connection plays in two games), and p1ID and p2ID are theirs.
PlayersLinked ==
  \A g \in Live :
    LET G == games[g] IN
    /\ connGame[G.player1] = g
    /\ G.p1ID = connID[G.player1]
    /\ IF Waits(g) THEN G.player2 = NoClient
       ELSE /\ G.player2 \in Clients \ {G.player1}
            /\ connGame[G.player2] = g
            /\ G.p2ID = connID[G.player2]

Plays(c, g) == g \in Live /\ c \in {games[g].player1, games[g].player2}

\* A connection with a game ID takes part in that game.  It fails when rand32
\* returns the ID of a game in the map, which insert_or_assign then replaces.
HasItsGame == \A c \in Clients : connGame[c] # 0 => Plays(c, connGame[c])

\* What a client stored of the answers (id, id_game) is what the server's
\* connection holds, although answers to several requests may be in flight.
ClientKnowsItself ==
  \A c \in Clients : client[c].client_status # "NoGame" =>
    /\ client[c].id = connID[c]
    /\ client[c].id_game = connGame[c]

\* A client that is told who moves first is told what the server recorded, and
\* so the two players of a game never both believe that they begin.
FirstMoveAgreed ==
  \A c \in Clients :
    client[c].client_status \in {"StartedThis", "StartedOpponent"} =>
      LET G == games[client[c].id_game] IN
      /\ G # NoGame
      /\ ~Waits(client[c].id_game)
      /\ (client[c].client_status = "StartedThis") <=>
           (c = IF G.turn = "player1" THEN G.player1 ELSE G.player2)

StatusRank ==
  [s \in ClientStatuses |-> CASE s = "NoGame" -> 0
                              [] s = "Wait_for_opponent_connection" -> 1
                              [] OTHER -> 2]

\* A client never falls back from a started game to waiting, nor from waiting
\* to no game: answers are sent and read in the order the game progressed, and
\* an error answer to an impatient second request does not undo anything.
StatusNeverFallsBack ==
  [][\A c \in Clients : StatusRank[client'[c].client_status] >=
                        StatusRank[client[c].client_status]]_vars

\* A started game stays what it is: its players and its first mover are never
\* replaced ("try to find if game is absent in th map", XOserver1.cpp:127).
ActiveGameKept ==
  [][\A g \in GameIDs : g \in Live /\ ~Waits(g) => games'[g] = games[g]]_vars

\* Once a game has started on the server, each of its players learns it,
\* unless it leaves or was already gone when the answer was written.
PlayersLearn ==
  \A c \in Clients, g \in GameIDs :
    (Plays(c, g) /\ ~Waits(g)) ~>
      (phase[c] = "gone" \/ client[c].client_status \in {"StartedThis", "StartedOpponent"})

\* Who waits for an opponent, and who plays with whom.
WaitingPlayer ==
  IF wait2_game = <<>> THEN NoClient ELSE games[Head(wait2_game)].player1

PlayingPairs ==
  {{games[g].player1, games[g].player2} : g \in {h \in Live : ~Waits(h)}}

M == INSTANCE Matchmaking WITH
       Players   <- Clients,
       Nobody    <- NoClient,
       MayForget <- RandMayCollide,
       waiting   <- WaitingPlayer,
       pairs     <- PlayingPairs

\* The pairing of players implements Matchmaking, however the requests of
\* several clients interleave; a pair is forgotten only when rand32 returns the
\* ID of a game in the map.
Implements == M!Spec
=============================================================================
