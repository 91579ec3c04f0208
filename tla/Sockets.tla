------------------------------ MODULE Sockets ------------------------------
(***************************************************************************)
(* What the two ends of the network library share: the server's port and,  *)
(* for each client process, its TCP connection and the sockets at both     *)
(* ends of it.  The steps here are the kernel's.                           *)
(***************************************************************************)

CONSTANT Clients  \* client processes, each with one client_interface

VARIABLES
  listening, \* does the server's port take connections?
  tcp,       \* "none", "connecting", "backlog", "accepted" or "refused"
  csock,     \* the client's socket: "none", "open" or "closed"
  ssock      \* the server's socket for it

netVars == <<listening, tcp, csock, ssock>>

NetInit ==
  /\ listening = FALSE
  /\ tcp = [c \in Clients |-> "none"]
  /\ csock = [c \in Clients |-> "none"]
  /\ ssock = [c \in Clients |-> "none"]

\* TCP's handshake succeeds while the port is open, before anybody calls accept.
Reach(c) ==
  /\ tcp[c] = "connecting" /\ csock[c] = "open" /\ listening
  /\ tcp' = [tcp EXCEPT ![c] = "backlog"]
  /\ UNCHANGED <<listening, csock, ssock>>

\* Nobody listens, the backlog is full, or the attempt times out.
Refuse(c) ==
  /\ tcp[c] = "connecting"
  /\ tcp' = [tcp EXCEPT ![c] = "refused"]
  /\ UNCHANGED <<listening, csock, ssock>>

NetTypeOK ==
  /\ listening \in BOOLEAN
  /\ tcp \in [Clients -> {"none", "connecting", "backlog", "accepted", "refused"}]
  /\ csock \in [Clients -> {"none", "open", "closed"}]
  /\ ssock \in [Clients -> {"none", "open", "closed"}]
=============================================================================
