# XOproject: TLA+ models, model checking and proofs

XOproject is five-in-a-row ("XO") in C++: a console server that pairs players,
a console client, a small asio networking library between them with its own
key exchange and stream cipher, and a Qt window with a computer player that is
not yet connected to the network part.  This directory models what each part
does, checks it with TLC and proves part of it with TLAPS.  Paths below are
relative to the repository, `src/...`.

## 1. The system

### Parts, their state, their operations

| Part | Code | State | Operations |
|---|---|---|---|
| XO server | `XOserver/XOserver1.cpp/.h`, `XOserver2.cpp`, `XOserver.cpp` | `games` (map ID -> game), `wait2_game` (queue of the game that waits), per connection an ID and `id_game` | `OnClientConnect`, `OnMessage` -> `start2Pgame`, echo, `clientsMove` (stub); `chkPlayerGame` |
| XO client | `XOclient/*.cpp/.h` | `xo_client`: status, id, id_game, n_move, turn | keys 1-4, the switch over messages, `client_status_msg`, `client_error_msg` |
| `server_interface` | `NetCommon/net_server.h` | `m_deqConnections`, `nIDCounter`, `m_qMessagesIn` | accept, `Update`, `MessageClient`, `MessageAllClients`, `Start`, `Stop` |
| `client_interface` | `NetCommon/net_client.h` | the connection, its asio thread | `Connect`, `Disconnect`, `IsConnected`, `Send` |
| `tsqueue` | `NetCommon/net_tsqueue.h` | a deque, `muxQueue`, `muxBlocking`, `cvBlocking` | `push_back`, `pop_front`, `empty`, `wait` |
| `connection` | `NetCommon/net_connection.h` | socket, `m_qMessagesOut`, `m_msgTemporaryIn` | connect, key exchange, `Send`, read and write header/body |
| cipher | `Scrc/scrc_crypto.h`, `scrc_crypto1.h` | keys, one block counter per direction | `keys_prep/receive/final`, `msg_to_out`, `msg_from_in` |
| message | `NetCommon/net_message.h` | header (size, id, counter byte), body | `<<`, `>>`, `=` of a string, `to_string` |
| board | `Qt1/gboard.cpp/.h` | cells with cached weights and statuses, played area, `fgame_on` | `set_move`, `find_max_weights`, `init` |
| window | `Qt1/mainw.cpp`, `xoscene.cpp` | `pl_move`, the clicked cell | mouse click, start, computer, calculate |

### How they interact

* Server process: the asio thread accepts, reads and writes; each message read
  is pushed to `m_qMessagesIn`; the main thread sleeps in `Update(-1, true)`,
  pops and calls `OnMessage`, which answers with `connection::Send`.
* Client process: the main thread polls keys and its incoming queue, the asio
  thread does the input and output.
* `connection::Send` enciphers on the caller's thread and posts the message to
  the asio thread.  A connection first exchanges keys in three messages.
* The Qt program has one thread; Qt runs one handler at a time.

### What is hard about it

Concurrency (the two threads around `tsqueue`; `Send` during the handshake, on
the handshake's socket and counters; the chain of header and body writes), order (answers to two players over two
connections), loss (a peer leaves, a connect fails), ends (a thread that must
stop before the objects it works on go), random choices (game IDs
that collide), stale copies (a connection's game ID; the weights cached for
each cell) and edges (of the board, of counters).  `hazards` in `PROJECT.json`
lists them, each at its line with the properties that would show it going wrong.

### What makes each part correct

* Matchmaking: one game waits at most; a player is in one game at most, with
  somebody else; both players learn who begins; a running game stays.
* Queue: no data race, no pop of an empty deque, FIFO, nothing left behind.
* Connection: the outgoing queue has one write at a time (the handshake's own
  may overlap with it), header and body are paired, both ends' counters are in
  step, each message arrives once, in order and readable.
* Cipher and message: the key exchange ends with the same key and matching
  counters at both ends, what is pushed at one end is what is pulled at the
  other, a message that is accepted has the right checksum, and who follows the
  protocol is not refused.
* Server and client objects: the server's deque lists the open connections;
  each side notices when the other goes; `Disconnect` comes to its end, and no
  handler runs after it.
* Board: the cache is right about the cells that decide the game; a win is
  seen; the computer neither misses its own win nor the opponent's.

## 2. Modules

| Module | Role |
|---|---|
| `XOServer` | server, wires and clients at the grain of messages |
| `Matchmaking` | what the pairing promises: wait, then be paired, once |
| `MCXOServer` | symmetry of clients for TLC |
| `XOServerProofs` | theorems about `XOServer`, server and clients |
| `TsQueue` | the queue and the main loop at the grain of locks |
| `Mailbox` | an atomic FIFO mailbox |
| `TsQueueProofs` | theorems about `TsQueue` |
| `Session` | one client, one server connection: connect, keys, send, receive |
| `Channel` | a reliable FIFO channel in each direction |
| `MCSession` | small key sets for TLC |
| `Queues`, `Counter` | operators the models share: sums and selections of sequences, the cipher's counter |
| `SharedLemmas` | lemmas about `Queues`, `Counter`, sequences and least elements |
| `SessionProofs` | `Session`, for any user: types, one writer, framing |
| `ChannelProofs` | `Session`: keys and counters, order of arrival, and the refinement of `Channel` |
| `Message` | the message container as operators |
| `Scrypto` | the cipher, its checksum and the key exchange as operators on bytes |
| `Cipher` | two programs that talk through `Message` and `Scrypto` |
| `MCCipher` | a small block cipher and a few texts for TLC |
| `CipherProofs` | theorems about `Cipher` |
| `Sockets` | TCP connections and the sockets at their ends (the kernel's steps) |
| `NetServer` | `server_interface`: accept, broadcast, tidy up, start and end |
| `NetClient` | `client_interface` in the client's `main()`: connect, leave |
| `Network` | `NetServer` and several `NetClient`s over `Sockets` |
| `NetworkProofs` | theorems about `Network` |
| `Gboard` | the board's algorithms as operators |
| `MainW` | the window's handlers as actions on a board |
| `MCMainW` | the cells to click for TLC |
| `MainWProofs` | theorems about `MainW` |

The modules are views of one program, each leaving out what the others look at.
`XOServer` has messages arrive whole and in order (what `Session` shows of a
client that waits for the handshake) and the main thread take any step (what
`TsQueue` refines).  `Session` has bodies that decipher or do not, by key and
counter; `Cipher` has their bytes, over queues in place of asio.  `Network` has
processes, threads and sockets that come and go, and no messages.

### Correspondence with the code

`map` in `PROJECT.json` gives each definition's lines.  The main points:

* `XOServer`.  `games` is a function with `NoGame` for an absent ID; `connGame`
  is `connection::id_game`; `OnMessage` pops one message and runs the whole
  handler.  `Draws(map)` is the set of outcomes of the ID loop of `start2Pgame`
  (lines 116-147) with its inverted test: -1 when no draw hit the map, 0 when
  only the tenth did.  `RandMayCollide` says whether a draw may hit the map at
  all.  `Posted` drops a message for a closed socket, as the failing write does.
* `TsQueue`.  A step lies between two points another thread can see: a lock, a
  touch of the deque, falling asleep, a notification.  `pop_front` is three
  steps: lock, move, erase and unlock.
* `Session`.  Operations of asio are pending labels, their completion handlers
  are actions.  `writing` is the sequence of the queue's writes under way, so
  that two of them could overlap; the writes of the handshake are beside it
  (`validating` for `skey_validation`'s, `reading = "answering"` for the
  client's answer), so that the lambda of `ServerAccept` may start `WriteHeader`
  next to the keys, and an early request next to the answer.  All units of an
  end go to one `wire` in the order of their initiation.  `keys_receive` is two
  actions (`KeysCopied`, `KeysAnswered`), between which the main thread may
  `Send`; `link = "stopped"` is a client whose asio thread ended because a
  failed connect left it without work.  `Serve` may send several messages for
  one it has received, as `start2Pgame` does.  A message has a number, a size in
  cipher blocks, and the key and counter it was enciphered with; it deciphers
  exactly when the receiver has both.  Counters are taken modulo `Width`, with
  their lowest `Byte`, and `Resync` is the code's correction of them.
  `EarlySend` lets the user press a key before the handshake is over, as the
  program does.
* `Cipher`, `Scrypto`, `Message`.  An `scrypto` object is `[key, enc, dec]`;
  data is a sequence of numbers below `Byte`, and every length, block and
  counter step is the code's.  `KeyStream` stands for `xtea_encipher`: any
  function of key, counter and place in the block.  Keys, their answer and
  messages of an end share one `wire` and one pair of counters.  `Send`
  enciphers and posts, `Write` is the asio thread's chain of writes, which may
  put a message ahead of the answer; then `KeysFinal` reads it as the answer and
  refuses.  `keys_receive` is two steps here too: a body enciphered in between
  moves the counter the server expects the answer at.  `early` records that
  one of the two has happened, `strayed` that a body was enciphered with the
  default key.  `Read` is header, body and `msg_from_in`, whose verdict is ignored as in
  `ReadBody`.  The second operand of line 313's `&&` is the high byte, and `!`
  belongs to the first only (`CsRejected`); `get_crc` leaves out the last two
  bytes of what it is given, header and body alike.  `start2Pgame` calls
  `msg.clear()` between its two answers; `net_message.h` has no such function,
  and the model has what it must mean, an empty message of the same id.
* `NetServer`, `NetClient`.  `MessageAllClients` is a step per client it visits,
  because the asio thread may accept in between (`raced` records that, as what
  happens afterwards is undefined in C++).  `Disconnect` is four steps, between
  which handlers run; `Then` is their order.  A connect opens the socket at
  once (`csock`), whatever becomes of the attempt.  `RemoteEndpointThrows` ends
  the server, as an exception that leaves a thread does.
* `Gboard`, `MainW`.  The array is indexed by address, x * N + y, because the
  code steps over the edge of a row.  A failing assertion and an access outside
  the array end the model's run (`failed`, `astray`); assertions are taken to
  be compiled in.  `auto` is what the check box says at the click.

## 3. Runs

| Run | Constants | Shows |
|---|---|---|
| `xo_match` | 3 clients, 2 game IDs, 3 keys, IDs may collide | `TypeOK`, `WaitQueue`, `PlayersLinked`; the server implements `Matchmaking`; `CantCreate` happens |
| `xo_players` | 2 clients, no collision, fair | `HasItsGame`; clients and server agree; both players learn (`PlayersLearn`) |
| `queue` | 2 pushing threads, 3 pushes each, fair | `TypeOK`, `DequeRaceFree`, `NeverPopsEmpty`, refinement of `Mailbox`, `LaterPushFlushes` |
| `session` | 2 sends, sizes 0 and 3, counters of 16 values, a user who waits, fair | `TypeOK`, `Deciphered`, `CountersInStep`, `OneWriter`, `Framed`, refinement of `Channel`, `Delivered` |
| `network` | 2 clients, 1 call of a broadcast, fair | `TypeOK`, `Registered`, `NoHandlerAfterExit`, `TerminatesWithServerOnly`, `ExitCompletes`, `ServerNotices`, `ClientNotices`, `BroadcastTidies` |
| `cipher` | bytes of 2 bits, blocks of 4, counters of 256 values, 2 sends each way | `TypeOK`, `ExchangeWorks`, `RoundTrip`, `InStep` |
| `board` | 7 x 7, 6 cells for X, 3 for O, 9 marks | `TypeOK`, `FourFresh`, `WinDetected`, `PlaysFour`, `FirstFiveFound` |

Bounds and why they are enough.  Three clients are the two of a game and the
one that must not get into it; two IDs let a draw hit the map or miss it; three
keys let one client ask twice while another asks once.  The server runs one
connection's handlers on one thread, but two pushing threads exercise the locks
of `tsqueue` fully.  `Byte = 2` makes every carry of the counters happen in
two sends: of the counters drawn, 5 and 15, three blocks carry the one into its
upper half and wrap the other.  `session` has a user who waits, as only then do
bodies decipher; the writes overlap all the same, since the lambda of
`ServerAccept` may run while the keys are being written.  A user who does not
wait is in `cipher`, `session_connect` and the theorems of `SessionProofs`; with
`EarlySend = TRUE`, `Seeds = {15}` and `Sizes = {0, 1}` TLC finds `OneWriter`,
`Framed` and `Delivered` true as well.  `network` has two clients because a deque of two is the smallest in
which the wrong one can be removed and one can be accepted while the other is
visited; a second broadcast finds what the first found.  In `cipher` the counters
drawn wrap in the first block or carry in the middle, and the texts need one
block, several, all of `max_encr_len`, and more; the user may press keys at any
time, also before the keys came or inside `keys_receive` (`strayed`, `early`),
where the properties say what is left.  `SizesAssumption` and its like hold for the code's values.  The board of 7 has an interior of exactly five cells, so that a row
can be won with and without touching an edge; O has two cells to click, and
the computer plays the others; the third click is the strip below the board.
`val_arr_size = 1` replaces 16 and makes the random choice among equal cells
the first of them; the chosen ranks stay, the choice within a rank does not
vary.  In `board` X wins, O wins and both having four are all reached.

Deadlock is checked in `queue` only: elsewhere the user may stop for ever, or
the program ends.

### Runs that end in a violation

| Run | Property | What the code does |
|---|---|---|
| `xo_overwrite` | `ActiveGameKept` | the ID loop (`XOserver1.cpp:127`) stops at an ID in use and line 167 replaces the running game |
| `queue_lost` | `EveryMessageHandled` | a push between the test and the sleep of `wait` (`net_tsqueue.h:151-154`) wakes nobody |
| `cipher_checksum` | `Checked` | `!a && b` (`scrc_crypto.h:313`) rejects only a wrong low byte next to a right high byte: a request enciphered before the keys came (`net_connection.h:231`) and written after the answer is accepted as garbage |
| `session_connect` | `FailedConnectNoticed` | a refused connect leaves the socket open (`net_connection.h:189`), and `IsConnected` true |
| `board_wrap` | `FoundFive` | X at (x,0)..(x,3) writes the weight of (x,-1) into the last cell of row x-1 (`gboard.cpp:202`); X there fails the assertion at line 854 |

### Fairness

`TsQueue!FairSpec`: a thread that can take a step takes one (weak fairness of
the main thread and of a push begun); nobody has to push, and spurious wakeups
may happen or not.  `Session!FairSpec`: asio runs handlers whose operations have
completed; nothing is assumed of the user, of a connect's outcome, or of the
server's main thread.  `XOServer!FairSpec`: the asio thread reads what has
arrived and the client's loop empties its queue; the server's main thread is
given no fairness, since `queue_lost` shows that it may sleep on a full queue.
`Network!FairSpec`: asio threads run what is ready, a main thread goes on with
what it has begun (the rest of `Disconnect` or of a broadcast, the connect
loop); nobody has to start, leave, broadcast, stop or kill anything, and the
kernel need not answer a connect.
`Matchmaking`, `Mailbox` and `Channel` are safety specifications; liveness is
stated on the detailed modules.

## 4. Proofs

`TsQueueProofs`, for any finite or infinite set of pushing threads and any
`MaxSent`:

* `TypeCorrect`, `NoRace` (`DequeRaceFree`), `PopSafe` (`NeverPopsEmpty`),
  `Refinement` (`Implements`).  `DequeRaceFree` is not inductive: that a thread
  is inside the deque says nothing until one knows that it owns the mutex.  The
  invariant adds, for each thread, that it holds `muxQueue` or `muxBlocking`
  exactly at the positions where the code does, and that the message the main
  thread has moved is the front.  Refinement then is by cases: `Emplace` maps
  to `Put`, handling to `Handle`, taking the front to a stutter.

`XOServerProofs`, for any set of clients, any game IDs and any `MaxKeys`, with
or without collisions:

* `TypeCorrect`, and from `Invariant` the theorems `OneWaits` (`WaitQueue`) and
  `Linked` (`PlayersLinked`).  Neither is inductive.  `PlayersLinked` speaks of
  `connID[G.player1]`, which `Connect` writes: one needs `Unconnected`, that a
  client still to connect has no game, nothing on its wire and nothing in the
  server's queue.  And `chkPlayerGame` would remove a finished game from the map
  but not from `wait2_game`: one needs `NoneFinished`.  `IInv` is `TypeOK`,
  `Pairing` and `Unconnected`; the step theorem goes through the actions, and
  `OpenGame` and `JoinGame` through the conjuncts they disturb.  A collision
  replaces a game only when nothing waits, so even then both theorems hold.
* `OwnGame` (`HasItsGame`): when IDs do not collide.  With `IInv`, a draw gives
  an ID that is not in the map, so `OpenGame` takes no game from anybody.
* `Refinement` (`Implements`): `CantCreate`, refusals, echoes and every step
  outside `OnMessage` are stutters; `JoinGame` is `Pair`; `OpenGame` is `Wait`,
  or `WaitInstead` when the ID drawn was that of a running game.  That the pair
  which goes is one pair and the others stay needs `PlayersLinked`: a player of
  two games would make them one pair or two.

`SessionProofs`, for counters of any width, any body sizes, any number of
requests, and whether or not the user waits for the handshake:

* `TypeCorrect` (`TypeOK`), `SingleWriter` (`OneWriter`), `InFrame` (`Framed`),
  from `Invariant`.  `OneWriter` is about the queue's chain of writes: `writing`
  is a sequence that `Write` appends to, and what keeps it short is that a lambda
  starts a write only on an empty queue and that a message leaves the queue only
  when its last write has ended.  It does not say that the socket has one write:
  the handshake's may be under way beside it, and `Framed` holds all the same.
  `Framed` speaks of the next unit only; what keeps it is
  that all that is on the wire, with what is written behind it, has one shape:
  the rest of the handshake, then headers each followed by its body, an
  unfinished one last.  `Aligned` says so for both directions and each stage of
  the handshake, `BodyHasSize` that who waits for a body was told of one.
  In particular a key pressed during the handshake disturbs neither: its bytes
  follow the handshake's or are refused with it.

`ChannelProofs`, on top of that invariant, for a user who waits (`~EarlySend`):

* `RightText` (`Deciphered`) and `NoDrift` (`CountersInStep`), from
  `CountersInvariant`.  `CountersInStep` speaks of ends that are both open and
  past the handshake; what makes it so is set up before.  `CInv` adds `Agreed`,
  which keys and counters each end has at each of its positions in the
  handshake, and `Counted`, that the bodies on the wire, in the writer's hands
  and in its queues were enciphered with the final key and, one by one, from
  the counter the ones before leave.  `LowAgrees` says that the byte in each
  header is that counter's lowest, so `Resync` leaves the counter alone, at
  every wrap.  A message without blocks moves nothing.
* The hypothesis is needed: with `EarlySend = TRUE` in `session.cfg` TLC refutes
  `Deciphered`, `CountersInStep` and `Implements`, because `Send` enciphers with
  a key that is about to be replaced (`cipher_checksum` is the same on bytes).

`ChannelProofs` on the order of messages:

* `InOrder`, for any user: the i-th message that arrives has the number and
  the size of the i-th that was sent.  What arrived, what is on the wire, in
  hand, in the queue and posted is, in this order, what was sent (`Numbered`).
* `Refinement` (`Implements`), for a user who waits: a `Send` maps to the
  channel's send, handing a body to the incoming queue to its arrival, with
  `Numbered` for the order and `CInv` for the text; all else is a stutter.

`NetworkProofs`, for any set of clients and any number of broadcasts:

* `NoHandler` (`NoHandlerAfterExit`), `Terminates` (`TerminatesWithServerOnly`),
  `Register` (`Registered`) and `TypeCorrect`.  `Terminates` needs `Loop`, that
  until a client leaves its loop only the end of the server's process closes
  either of its sockets.  `Registered` speaks of the deque without its null
  pointers; while a broadcast runs, what is inductive is about the deque as it
  is: IDs grow along it (`Ordered`), null pointers are known to the broadcast
  (`NullsKnown`), every open connection is in it (`Present`), and the iterator
  does not pass its end (`Iterates`).  That what remains after the null
  pointers are removed is ordered and complete is `ElementsAt`'s lemmas in
  `SharedLemmas`.

`XOServerProofs` on the clients:

* `KnowsItself` (`ClientKnowsItself`) and `NeverFallsBack`
  (`StatusNeverFallsBack`, an action property), with or without collisions:
  even a client whose game was overwritten keeps the ID and the game that its
  connection has.  They follow from `TrueViews`: every answer on a client's wire
  is true of the server when it is read, however late, and answers stand in
  the wire in the order of their ranks, an error among them changing nothing.
  For this no connection may lose its game, which is `GameThere`: the entry of
  each connection's game is in the map, so `chkPlayerGame` resets nothing.
* `FirstMove` (`FirstMoveAgreed`) and `GameKept` (`ActiveGameKept`) when IDs do
  not collide.  Both, and `HasItsGame`, fail without the hypothesis (`xo_overwrite`, and
  the constants of `xo_match` for the others): a replaced game is not the one
  its players were told of.

`CipherProofs`, for any size of byte, block, key and message, any function for
the block cipher, any `Xor` that undoes itself, any key material and any
contents.  The user need not wait, but the properties are about exchanges in
whose way no message got (`~early`): the client wrote nothing before its answer
and enciphered no body inside `keys_receive`.  Without this the
exchange fails: `Send` posts a write whether or not the handshake is over
(`net_connection.h:232`), a request written before the answer (line 567) is read
in its place (line 536), and the server closes the connection.

* `Exchange` (`ExchangeWorks`), `Trip` (`RoundTrip`), `Synchronised` (`InStep`)
  and `TypeCorrect`.  `CipherTwice` is that `data_cipher` undoes itself from the
  same counter.  Of the exchange the invariant says what is on its way
  (`OnTheWay`: the keys drawn, enciphered with the key and counter the reader
  has at this point, and the messages behind them) and whose keys are whose
  (`SameKeys`).  After it, `Chain` says of each message on the wire or posted
  that it deciphers, from the counter the ones before it leave, to what was said
  with its checksum; `ChainAppend`, `ChainTail` and `ChainSilent` are the three
  things that happen to it.  A request given to `Send` early but written late
  does the exchange no harm (its direction is `strayed`, and `Trip` and the
  counters of `Synchronised` leave it out); the keys agree all the same.  The
  checksum's value is never used: what the proof needs is that the receiver
  computes it of the same header and bytes.

`MainWProofs`, for boards of any size above 5, any cells clicked and any
`val_arr_size`:

* `TypeCorrect` (`TypeOK`), `FreshFours` (`FourFresh`), `WinSeen`
  (`WinDetected`), `FourTaken` (`PlaysFour`) and `FiveFound`
  (`FirstFiveFound`), from one invariant `Right` of a board and the ways in
  which moves have strayed.  It is proved of one call of `set_move`
  (`MoveRight`), and a handler makes one call or two.
* The argument: the two runs that `calc_dir_weight` counts make four exactly if
  the cell lacks one of a line of five (`RunsOfFour`, `WindowOfLine`,
  `LineOfWindow`); four weights of less than a four are 320 at most, so a sum
  reaches 400 only with a four (`SumWeightIs`); a cell that a move makes winning
  is joined to it by a row of at most three marks, so the walk reaches it
  (`WinnerReached`); so a move keeps the cache right about the cells that win
  (`KnowsStep`, `Knows`).  From `Knows` a move makes five exactly if the cache
  said so.  `FourTaken` also needs `InArea`, that all marks are in the area from
  which `find_max_weights` takes its window, and that the least of the cells of
  greatest weight is among the first `val_arr_size`.
* `FiveFound` says when the assertion of `chek_win_situation` is safe.  It needs
  `Honest`, that a direction cached as four is one (`Knows` is about sums), and
  `Interior`: a move at the border always strays, unless a mark across the edge
  is there before it, so where none strayed there is no such mark to miscount.
  Without the hypothesis `board_wrap` violates it.
* What the hypotheses on `astray` leave: `FourFresh`, `WinDetected` and
  `PlaysFour` hold for O on all rows but the first and the last, where the
  opponent's pass leaves the array and C++ promises nothing.  Those about X's
  weights, and `FirstFiveFound`, are about games whose marks, but for the last,
  are off the border: a move there may write X's weights into another row.

Assumptions: the named `ASSUME`s on constants (distinct null values, positive
game IDs, bounds that are numbers, a byte of two values at least, a board of
more than five rows); TLC evaluates them in the runs.  Nothing else is assumed
but the hypotheses named above: `~EarlySend` and `~RandMayCollide`, each a
choice of the environment that the models leave open, and the states `early`,
`strayed`, `raced` and `astray`, which the properties exclude by name.

Abstractions of the connection.  A unit is on its wire, whole, when its write is
initiated; two overlapping `async_write`s of the code may interleave when the
kernel takes a part of one only, which needs a key pressed during the handshake
and a full send buffer.  The queue's writes complete in the order in which they
were begun.  In `Cipher` header and body of a message are one unit: an answer
that slips in between them is behind a message's header, and refused as in the
model.  28 bytes that are not an answer are taken to have a wrong checksum; that
two bytes agree by chance is left out.

Model-checked only: liveness (`PlayersLearn`, `LaterPushFlushes`, `Delivered`,
`ExitCompletes`, `ServerNotices`, `ClientNotices`, `BroadcastTidies`), which is
out of the prover's reach.  Every safety property that a passing run checks is
stated by a theorem.

## 5. Not modelled

* The rounds of `xtea_encipher` and the random numbers themselves (parameters of
  `Scrypto`).
* A thread that cannot be started, an acceptor that
  cannot bind; the error branch of accept (it logs); a veto by
  `OnClientConnect` (the XO server gives none); a resolver that throws (a
  stutter: the loop calls `Connect` again).
* `front`, `back`, the `vector` operators, copying and moving of messages: not
  called.  `MessageClient`, `MessageAllClients` and `Stop` have no caller in the
  XO programs either; they are modelled for a main thread that calls them.
* The body a message without one carries along (`tmp.body` in `Session`): kept by
  the model, read by no handler, compared by no property.
* What `Resync` makes of a counter after a message that was enciphered before the
  keys came: `InStep` says that otherwise it has nothing to do.  Line 286 of
  `scrc_crypto.h` then clears the second byte of the counter and adds 0x100, so
  that the receiver may go to a block the sender never used; the models have the
  line as it is, and no property is about it.
* The deque of connections after an accept in the middle of a broadcast: C++
  promises nothing there (`raced`).
* What freed memory does: `client.reset()` may destroy a connection whose
  aborted handlers still hold `this`.
* `push_front`, `pop_back`, `clear`, `count` of `tsqueue`; the older
  `ReadValidation` handshake; `check_foreview`, `chk_foreview2`, `go_near`,
  `chk_status_3c` of the board: never called.
* `win_info`, drawing, the right click's display, texts and logs: pure output.
* `testXO.cpp`, `Scrc/test.cpp`, build files.
* `common_h.h` is included by the Qt sources and not in the repository.

## 6. Plan

Done: every part with state of its own, in the order `XOServer`, `TsQueue`,
`Session`, `Gboard` with `MainW`, `NetServer` and `NetClient` with `Network`,
`Scrypto` with `Cipher`, and proofs of all safety properties of their runs.  To
come:

1. The safety half of the liveness properties: for each, the step that must
   come next is not disabled by another, and a number that every step on the
   way decreases.
2. `Found` for rows that touch the border, where the assertion's outcome
   depends on what is across the edge.
