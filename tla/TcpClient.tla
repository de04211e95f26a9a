----------------------------- MODULE TcpClient -----------------------------
(***************************************************************************)
(* The client side of src/src/tcp_engine.c: one descriptor, whose server_fd *)
(* is the number of the last socket made for it, and the session the       *)
(* application made last with spd_tcp_session_client_create, connected with *)
(* spd_tcp_session_client_start and may close.  The rest of the program     *)
(* opens and closes files between the calls.                               *)
(*                                                                         *)
(* The application starts a session once, and gives up the session it has   *)
(* when it makes another.                                                   *)
(*                                                                         *)
(* A definition that stands before another one and is used nowhere is that *)
(* other with a mistake in it; the properties are tried against these.     *)
(***************************************************************************)
EXTENDS Integers, FiniteSets

CONSTANTS
  Peers, NoPeer,  \* addresses, and the null address
  NumFds,         \* the size of the table of files
  MaxSockets      \* bound: sockets a behaviour opens

Fds == 1 .. NumFds
NoFd == -1
Free == <<"free">>
Other == <<"other">>
Socket(n) == <<"socket", n>>

VARIABLES
  oldaddr, server_fd,  \* the descriptor
  session,  \* the last session: "none" (or freed), "created", "open" or "closed" by its
            \* owner; its peer, and the number it knows
  sockets,  \* how many were made: the last is Socket(sockets)
  files,
  behind,   \* history: server_fd was closed by the owner of the session, or by fdopen's failure
  strange   \* history: the engine has closed a number that was not its socket, though
            \* nobody had closed that one behind it

vars == <<oldaddr, server_fd, session, sockets, files, behind, strange>>

NoSession == [at |-> "none", peer |-> NoPeer, fd |-> NoFd]

Init ==
  /\ oldaddr = NoPeer /\ server_fd = NoFd
  /\ session = NoSession
  /\ sockets = 0
  /\ files = [f \in Fds |-> Free]
  /\ behind = FALSE /\ strange = FALSE

Closed(fs, f) == [fs EXCEPT ![f] = Free]
Lowest(fs) ==
  LET free == {f \in Fds : fs[f] = Free}
  IN  IF free = {} THEN NoFd ELSE CHOOSE f \in free : \A g \in free : f <= g

\* The engine closes server_fd, which it takes to be its last socket.
Mistaken == files[server_fd] # Socket(sockets) /\ ~behind

----------------------------------------------------------------------------
(* spd_tcp_session_client_create. *)

\* What is left of the last socket, and the number the next one gets.
Left == IF server_fd = NoFd THEN files ELSE Closed(files, server_fd)
NewFd == Lowest(Left)

CloseLast == strange' = (strange \/ (server_fd # NoFd /\ Mistaken))

\* For the same peer there is "Nothing change", also when the session before could not be
\* connected, or is closed.
Changes(p) == p # oldaddr

Create(p) ==
  /\ Changes(p)
  /\ NewFd # NoFd /\ sockets < MaxSockets
  /\ CloseLast
  /\ sockets' = sockets + 1
  /\ server_fd' = NewFd
  /\ files' = [Left EXCEPT ![NewFd] = Socket(sockets + 1)]
  /\ session' = [at |-> "created", peer |-> p, fd |-> NewFd]
  /\ oldaddr' = p
  /\ behind' = FALSE

\* There is no socket, or bind or calloc fails and the socket is closed again.
CreateFails(p) ==
  /\ Changes(p)
  /\ CloseLast
  /\ files' = Left
  /\ server_fd' = NoFd
  /\ session' = NoSession
  /\ oldaddr' = NoPeer
  /\ behind' = FALSE
  /\ UNCHANGED sockets

----------------------------------------------------------------------------
(* spd_tcp_session_client_start, and the owner of a session. *)

Connect ==
  /\ session.at = "created"
  /\ session' = [session EXCEPT !.at = "open"]
  /\ UNCHANGED <<oldaddr, server_fd, sockets, files, behind, strange>>

\* oldaddr keeps the peer that could not be reached.
ConnectFailsKeepsNumber ==
  /\ session.at = "created"
  /\ files' = Closed(files, server_fd)
  /\ strange' = (strange \/ Mistaken)
  /\ session' = NoSession
  /\ UNCHANGED <<oldaddr, server_fd, sockets, behind>>
ConnectFails ==
  /\ session.at = "created"
  /\ files' = Closed(files, server_fd)
  /\ strange' = (strange \/ Mistaken)
  /\ server_fd' = NoFd
  /\ session' = NoSession
  /\ UNCHANGED <<oldaddr, sockets, behind>>

\* handle_tcp_connection closes the number of the session it gives up, and the
\* descriptor still has it.
StreamFails ==
  /\ session.at = "created"
  /\ files' = Closed(files, session.fd)
  /\ session' = NoSession
  /\ behind' = TRUE
  /\ UNCHANGED <<oldaddr, server_fd, sockets, strange>>

OwnerCloses ==
  /\ session.at = "open"
  /\ files' = Closed(files, session.fd)
  /\ session' = [session EXCEPT !.at = "closed"]
  /\ behind' = TRUE
  /\ UNCHANGED <<oldaddr, server_fd, sockets, strange>>

OtherOpens ==
  /\ Lowest(files) # NoFd
  /\ files' = [files EXCEPT ![Lowest(files)] = Other]
  /\ UNCHANGED <<oldaddr, server_fd, session, sockets, behind, strange>>

OtherCloses(f) ==
  /\ files[f] = Other
  /\ files' = Closed(files, f)
  /\ UNCHANGED <<oldaddr, server_fd, session, sockets, behind, strange>>

Next ==
  \/ \E p \in Peers : Create(p) \/ CreateFails(p)
  \/ Connect \/ ConnectFails \/ StreamFails \/ OwnerCloses
  \/ OtherOpens \/ \E f \in Fds : OtherCloses(f)

Spec == Init /\ [][Next]_vars

----------------------------------------------------------------------------
(* Properties. *)

\* Whatever fails, and whatever numbers the rest of the program gets in between: the
\* engine closes another's file only when the session's socket was closed behind it, by
\* its owner or after fdopen (tcp_engine.c:47, 117, 155); it leaves no socket open that
\* the descriptor does not have; a session that is not closed has its own socket, to the
\* peer another create of which is refused (tcp_engine.c:40).
ClientsKeepTheirs ==
  /\ ~strange
  /\ \A f \in Fds, n \in 1 .. MaxSockets :
       files[f] = Socket(n) => f = server_fd /\ n = sockets
  /\ session.at \in {"created", "open"} =>
       /\ files[session.fd] = Socket(sockets)
       /\ session.peer = oldaddr
=============================================================================
