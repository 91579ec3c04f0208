----------------------------- MODULE NetClient -----------------------------
(***************************************************************************)
(* client_interface of net_client.h in the client's main(): the loop that  *)
(* connects, the key loop, and Disconnect in the destructor, which has to  *)
(* bring the asio thread to its end before the objects it works on go.     *)
(*                                                                         *)
(* A Connect whose resolver throws changes nothing and is tried again; a   *)
(* thread that cannot be started is left out.                              *)
(***************************************************************************)
EXTENDS Sockets

VARIABLES
  pc,      \* the main thread; "terminated": std::terminate
  thread,  \* thrContext: "none", "running", "done" (joinable), "joined"
  work,    \* the operation the context waits for: "none", "connect", "read"
  posted,  \* has Disconnect posted a close that has not run?
  stopped  \* has m_context been stopped?

clientVars == <<pc, thread, work, posted, stopped>>

ClientInit ==
  /\ pc = [c \in Clients |-> "connect"]
  /\ thread = [c \in Clients |-> "none"]
  /\ work = [c \in Clients |-> "none"]
  /\ posted = [c \in Clients |-> FALSE]
  /\ stopped = [c \in Clients |-> FALSE]

Joinable(c) == thread[c] \in {"running", "done"}

-----------------------------------------------------------------------------
\* The main thread.

\* Connect: a new connection, async_connect, which opens the socket at once, and
\* a thread for the context ...
Connect(c) ==
  /\ pc[c] = "connect" /\ ~Joinable(c)
  /\ csock' = [csock EXCEPT ![c] = "open"]
  /\ tcp' = [tcp EXCEPT ![c] = "connecting"]
  /\ work' = [work EXCEPT ![c] = "connect"]
  /\ thread' = [thread EXCEPT ![c] = "running"]
  /\ pc' = [pc EXCEPT ![c] = "check"]
  /\ UNCHANGED <<listening, ssock, posted, stopped>>

\* ... which, the second time, is assigned to a joinable thread.
ConnectAgain(c) ==
  /\ pc[c] = "connect" /\ Joinable(c)
  /\ pc' = [pc EXCEPT ![c] = "terminated"]
  /\ thread' = [thread EXCEPT ![c] = "joined"]
  /\ csock' = [csock EXCEPT ![c] = "closed"]
  /\ UNCHANGED <<listening, tcp, ssock, work, posted, stopped>>

\* while (!client.IsConnected())
CheckConnected(c) ==
  /\ pc[c] = "check"
  /\ pc' = [pc EXCEPT ![c] = IF csock[c] = "open" THEN "keys" ELSE "connect"]
  /\ UNCHANGED <<netVars, thread, work, posted, stopped>>

Mut_JoinFirst ==
  [leave |-> "join", join |-> "close", close |-> "stop", stop |-> "release"]

Mut_NoJoin == [leave |-> "close", close |-> "stop", stop |-> "release", join |-> "release"]

\* The order of Disconnect.
Then == [leave |-> "close", close |-> "stop", stop |-> "join", join |-> "release"]

\* The key loop ends with key 0 or with "Server Down"; after a countdown main()
\* returns and the client's destructor disconnects.
KeyZero(c) ==
  /\ pc[c] = "keys"
  /\ pc' = [pc EXCEPT ![c] = Then.leave]
  /\ UNCHANGED <<netVars, thread, work, posted, stopped>>

ServerDown(c) ==
  /\ pc[c] = "keys" /\ csock[c] # "open"
  /\ pc' = [pc EXCEPT ![c] = Then.leave]
  /\ UNCHANGED <<netVars, thread, work, posted, stopped>>

\* Disconnect: a connected client's socket is to be closed by the asio thread,
\* which is told to stop at once and then joined.
PostClose(c) ==
  /\ pc[c] = "close"
  /\ posted' = [posted EXCEPT ![c] = csock[c] = "open"]
  /\ pc' = [pc EXCEPT ![c] = Then.close]
  /\ UNCHANGED <<netVars, thread, work, stopped>>

StopContext(c) ==
  /\ pc[c] = "stop"
  /\ stopped' = [stopped EXCEPT ![c] = TRUE]
  /\ pc' = [pc EXCEPT ![c] = Then.stop]
  /\ UNCHANGED <<netVars, thread, work, posted>>

JoinThread(c) ==
  /\ pc[c] = "join" /\ thread[c] # "running"
  /\ thread' = [thread EXCEPT ![c] = "joined"]
  /\ pc' = [pc EXCEPT ![c] = Then.join]
  /\ UNCHANGED <<netVars, work, posted, stopped>>

\* The connection is released, never deleted; its socket is closed with the
\* context, and what was posted or pending is gone.
Release(c) ==
  /\ pc[c] = "release"
  /\ csock' = [csock EXCEPT ![c] = "closed"]
  /\ work' = [work EXCEPT ![c] = "none"]
  /\ posted' = [posted EXCEPT ![c] = FALSE]
  /\ pc' = [pc EXCEPT ![c] = "gone"]
  /\ UNCHANGED <<listening, tcp, ssock, thread, stopped>>

-----------------------------------------------------------------------------
\* The asio thread.  A handler may still run while the context is being stopped.

Connected(c) ==
  /\ thread[c] = "running" /\ work[c] = "connect" /\ tcp[c] \in {"backlog", "accepted"}
  /\ work' = [work EXCEPT ![c] = "read"]
  /\ UNCHANGED <<netVars, pc, thread, posted, stopped>>

Mut_ConnectRefused(c) ==
  /\ thread[c] = "running" /\ work[c] = "connect" /\ tcp[c] = "refused"
  /\ work' = [work EXCEPT ![c] = "none"]
  /\ csock' = [csock EXCEPT ![c] = "closed"]
  /\ UNCHANGED <<listening, tcp, ssock, pc, thread, posted, stopped>>

\* The handler of async_connect has no branch for an error.
ConnectRefused(c) ==
  /\ thread[c] = "running" /\ work[c] = "connect" /\ tcp[c] = "refused"
  /\ work' = [work EXCEPT ![c] = "none"]
  /\ UNCHANGED <<netVars, pc, thread, posted, stopped>>

\* Has the server closed its end, or never taken it over before it died?
ServerGone(c) == ssock[c] = "closed" \/ (ssock[c] = "none" /\ ~listening)

Mut_ClientReadFails(c) ==
  /\ thread[c] = "running" /\ work[c] = "read" /\ ServerGone(c)
  /\ work' = [work EXCEPT ![c] = "none"]
  /\ UNCHANGED <<netVars, pc, thread, posted, stopped>>

\* The handler of the pending read, with an error.
ClientReadFails(c) ==
  /\ thread[c] = "running" /\ work[c] = "read" /\ ServerGone(c)
  /\ work' = [work EXCEPT ![c] = "none"]
  /\ csock' = [csock EXCEPT ![c] = "closed"]
  /\ UNCHANGED <<listening, tcp, ssock, pc, thread, posted, stopped>>

\* The posted close ends the pending operation.
RunClose(c) ==
  /\ thread[c] = "running" /\ posted[c]
  /\ posted' = [posted EXCEPT ![c] = FALSE]
  /\ csock' = [csock EXCEPT ![c] = "closed"]
  /\ work' = [work EXCEPT ![c] = "none"]
  /\ UNCHANGED <<listening, tcp, ssock, pc, thread, stopped>>

\* run() returns when the context is stopped or has nothing left to do.
ThreadEnds(c) ==
  /\ thread[c] = "running"
  /\ stopped[c] \/ (work[c] = "none" /\ ~posted[c])
  /\ thread' = [thread EXCEPT ![c] = "done"]
  /\ UNCHANGED <<netVars, pc, work, posted, stopped>>

-----------------------------------------------------------------------------
ClientAsio(c) ==
  Connected(c) \/ ConnectRefused(c) \/ ClientReadFails(c) \/ RunClose(c) \/ ThreadEnds(c)

\* What the main thread does without the user.
ClientMain(c) ==
  \/ ConnectAgain(c) \/ CheckConnected(c) \/ ServerDown(c)
  \/ PostClose(c) \/ StopContext(c) \/ JoinThread(c) \/ Release(c)

ClientNext == \E c \in Clients : Connect(c) \/ KeyZero(c) \/ ClientMain(c) \/ ClientAsio(c)

ClientTypeOK ==
  /\ pc \in [Clients -> {"connect", "check", "keys", "close", "stop", "join",
                         "release", "gone", "terminated"}]
  /\ thread \in [Clients -> {"none", "running", "done", "joined"}]
  /\ work \in [Clients -> {"none", "connect", "read"}]
  /\ posted \in [Clients -> BOOLEAN]
  /\ stopped \in [Clients -> BOOLEAN]

\* No handler runs on objects that are being destroyed: once Disconnect lets the
\* connection go the asio thread has ended.
NoHandlerAfterExit ==
  \A c \in Clients : pc[c] \in {"release", "gone"} => thread[c] = "joined"
=============================================================================
