----------------------------- MODULE TcpServer -----------------------------
(***************************************************************************)
(* The server side of src/src/tcp_engine.c: one descriptor (struct         *)
(* spd_tcp_session_arg) that the application starts and stops, the thread  *)
(* that accepts on its socket, which a stop or a restart cancels and joins,*)
(* and one detached thread by connection.                                  *)
(*                                                                         *)
(* All of them share the process's table of file descriptors with the rest *)
(* of the program.  The system gives out the lowest free number, so that a *)
(* number closed by one of them soon means another one's file.             *)
(*                                                                         *)
(* A definition that stands before another one and is used nowhere is that *)
(* other with a mistake in it; the properties are tried against these.     *)
(***************************************************************************)
EXTENDS Integers, Sequences, FiniteSets, SequencesExt

CONSTANTS
  Addrs, Null,  \* addresses to serve, and the null address
  Clients,      \* each connects once
  NumFds,       \* the size of the table of files
  Faults,       \* \subseteq {"socket", "listen", "session", "stream"}
  MaxCalls      \* bound: calls of spd_tcp_server_start and spd_tcp_server_stop

ASSUME ConstantsAssumption ==
  /\ Null \notin Addrs
  /\ NumFds \in Nat \ {0} /\ MaxCalls \in Nat

Fds == 1 .. NumFds
NoFd == -1
Free == <<"free">>
Socket == <<"socket">>
Listening(a) == <<"listen", a>>
Connection(c) == <<"connection", c>>
Other == <<"other">>

VARIABLES
  \* the descriptor
  oldaddr, server_fd,
  master,     \* "null", or "thread": the thread last created, joined or not
  \* the application
  app,        \* the call it makes or last made: where it is, and whether it failed
  calls,
  \* the accepting thread
  mpc,        \* "none" (never created, or joined), "poll", "accept", "inhand", "giveup",
              \* "dead"
  client_fd,
  cancelled,  \* pthread_cancel has been called on it
  \* the system
  files, queue,   \* by number: what is open, and who waits to be accepted
  \* connections
  peer,       \* "away", "queued", "accepted", "failed" (no session for it), "gone"
  session,    \* by client: the thread that has it, and the number it knows
  strange     \* history: somebody has closed a number that was not his file

desc == <<oldaddr, server_fd, master>>
thread == <<mpc, client_fd, cancelled>>
fs == <<files, queue, strange>>
vars == <<desc, app, calls, thread, fs, peer, session>>

Init ==
  /\ oldaddr = Null /\ server_fd = NoFd /\ master = "null"
  /\ app = [at |-> "idle", op |-> "stop", addr |-> Null, ok |-> TRUE]
  /\ calls = 0
  /\ mpc = "none" /\ client_fd = NoFd /\ cancelled = FALSE
  /\ files = [f \in Fds |-> Free]
  /\ queue = [f \in Fds |-> <<>>]
  /\ peer = [c \in Clients |-> "away"]
  /\ session = [c \in Clients |-> [pc |-> "none", fd |-> NoFd]]
  /\ strange = FALSE

----------------------------------------------------------------------------
(* Files. *)

FreeFds == {f \in Fds : files[f] = Free}
NewFd == IF FreeFds = {} THEN NoFd ELSE CHOOSE f \in FreeFds : \A g \in FreeFds : f <= g

Open(f, what) == files' = [files EXCEPT ![f] = what]

\* Somebody closes number f, which he takes to be one of his files: who waits on it is
\* refused.
Close(f, his) ==
  /\ Open(f, Free)
  /\ queue' = [queue EXCEPT ![f] = <<>>]
  /\ strange' = (strange \/ files[f] \notin his)

Refused(f) ==
  peer' = [c \in Clients |-> IF c \in Range(queue[f]) THEN "gone" ELSE peer[c]]

----------------------------------------------------------------------------
(* spd_tcp_server_start and spd_tcp_server_stop.                             *)

Return(ok) == app' = [app EXCEPT !.at = "idle", !.ok = ok]
GoTo(at) == app' = [app EXCEPT !.at = at]

\* A start that shuts the server down and starts no other leaves the thread it has
\* joined in the descriptor, and perhaps the number it has closed.  Nobody may call
\* again with such a descriptor: it would cancel and join a thread that is gone.
Usable == master = "null" \/ mpc # "none"

Call(op, addr) ==
  /\ app.at = "idle" /\ calls < MaxCalls
  /\ calls' = calls + 1

\* pthread_cancel and pthread_kill, if there is a thread.
ShutDownNoJoin(op, addr) ==
  /\ app' = [at |-> "close", op |-> op, addr |-> addr, ok |-> TRUE]
  /\ cancelled' = (master = "thread")
ShutDown(op, addr) ==
  /\ app' = [at |-> IF master = "thread" THEN "join" ELSE "close",
             op |-> op, addr |-> addr, ok |-> TRUE]
  /\ cancelled' = (master = "thread")

StartSame(a) ==
  /\ Call("start", a)
  /\ a = oldaddr
  /\ app' = [at |-> "idle", op |-> "start", addr |-> a, ok |-> TRUE]
  /\ UNCHANGED <<desc, thread, fs, peer, session>>

Start(a) ==
  /\ Call("start", a)
  /\ a # oldaddr
  /\ Usable
  /\ oldaddr' = Null
  /\ ShutDown("start", a)
  /\ UNCHANGED <<server_fd, master, mpc, client_fd, fs, peer, session>>

Stop ==
  /\ Call("stop", Null)
  /\ Usable
  /\ ShutDown("stop", Null)
  /\ UNCHANGED <<desc, mpc, client_fd, fs, peer, session>>

\* pthread_join.  Only a stop forgets the thread.
Join ==
  /\ app.at = "join" /\ mpc = "dead"
  /\ mpc' = "none"
  /\ master' = IF app.op = "stop" THEN "null" ELSE master
  /\ GoTo("close")
  /\ UNCHANGED <<oldaddr, server_fd, calls, client_fd, cancelled, fs, peer, session>>

Servers == {Listening(a) : a \in Addrs}

CloseServerSocket ==
  IF server_fd = NoFd THEN UNCHANGED <<fs, peer>>
  ELSE Close(server_fd, Servers) /\ Refused(server_fd)

\* A stop forgets the number it has closed, a start does not.
Forget == server_fd' = IF app.op = "stop" THEN NoFd ELSE server_fd

CloseServer ==
  /\ app.at = "close"
  /\ CloseServerSocket
  /\ Forget
  /\ IF app.op = "stop" \/ app.addr = Null THEN Return(TRUE) ELSE GoTo("socket")
  /\ UNCHANGED <<oldaddr, master, calls, thread, session>>

OpenSocket ==
  /\ app.at = "socket"
  /\ \/ /\ NewFd # NoFd
        /\ server_fd' = NewFd
        /\ Open(NewFd, Socket)
        /\ GoTo("listen")
     \/ /\ NewFd = NoFd \/ "socket" \in Faults
        /\ server_fd' = NoFd
        /\ files' = files
        /\ Return(FALSE)
  /\ UNCHANGED <<oldaddr, master, calls, thread, queue, strange, peer, session>>

\* bind, listen and pthread_create.
Listen ==
  /\ app.at = "listen"
  /\ Open(server_fd, Listening(app.addr))
  /\ mpc' = "poll" /\ master' = "thread" /\ cancelled' = FALSE
  /\ oldaddr' = app.addr
  /\ Return(TRUE)
  /\ UNCHANGED <<server_fd, calls, client_fd, queue, strange, peer, session>>

\* One of them fails.
ListenFails ==
  /\ app.at = "listen" /\ "listen" \in Faults
  /\ Close(server_fd, {Socket})
  /\ server_fd' = NoFd
  /\ Return(FALSE)
  /\ UNCHANGED <<oldaddr, master, calls, thread, peer, session>>

----------------------------------------------------------------------------
(* spd_tcp_server_mainloop.  It is cancelled in poll, in accept, and where it *)
(* logs and closes a connection it has no session for; nowhere else.          *)

CancellationPointsNotInPoll == {"accept", "giveup"}
CancellationPointsToo == {"poll", "accept", "inhand", "giveup"}
CancellationPoints == {"poll", "accept", "giveup"}

Dying == cancelled /\ mpc \in CancellationPoints

Cancel ==
  /\ Dying
  /\ mpc' = "dead"
  /\ UNCHANGED <<desc, app, calls, client_fd, cancelled, fs, peer, session>>

\* A timeout leads back to the poll.
Poll ==
  /\ mpc = "poll" /\ ~Dying
  /\ server_fd # NoFd /\ queue[server_fd] # <<>>
  /\ mpc' = "accept"
  /\ UNCHANGED <<desc, app, calls, client_fd, cancelled, fs, peer, session>>

\* Nobody is there any more, or there is no number left: the loop goes on.
AcceptFailed == queue[server_fd] = <<>> \/ NewFd = NoFd

Accept ==
  /\ mpc = "accept" /\ ~Dying
  /\ server_fd # NoFd
  /\ IF AcceptFailed
     THEN mpc' = "poll" /\ UNCHANGED <<client_fd, files, queue, peer>>
     ELSE LET c == Head(queue[server_fd]) IN
          /\ mpc' = "inhand"
          /\ client_fd' = NewFd
          /\ Open(NewFd, Connection(c))
          /\ queue' = [queue EXCEPT ![server_fd] = Tail(@)]
          /\ peer' = [peer EXCEPT ![c] = "accepted"]
  /\ UNCHANGED <<desc, app, calls, cancelled, strange, session>>

\* The connection the thread has in its hands.
InHand == CHOOSE c \in Clients : files[client_fd] = Connection(c)

\* The session is made and given to a thread of its own.
HandOver ==
  /\ mpc = "inhand" /\ ~Dying
  /\ session' = [session EXCEPT ![InHand] = [pc |-> "new", fd |-> client_fd]]
  /\ mpc' = "poll"
  /\ client_fd' = NoFd
  /\ UNCHANGED <<desc, app, calls, cancelled, fs, peer>>

\* There is no memory or no thread for it.
NoSession ==
  /\ mpc = "inhand" /\ ~Dying /\ "session" \in Faults
  /\ mpc' = "giveup"
  /\ peer' = [peer EXCEPT ![InHand] = "failed"]
  /\ UNCHANGED <<desc, app, calls, client_fd, cancelled, fs, session>>

AfterGiveUpReturns == "dead"
AfterGiveUp == "poll"

GiveUp ==
  /\ mpc = "giveup" /\ ~Dying
  /\ Close(client_fd, {Connection(InHand)})
  /\ mpc' = AfterGiveUp
  /\ client_fd' = NoFd
  /\ UNCHANGED <<desc, app, calls, cancelled, peer, session>>

Mainloop == Cancel \/ Poll \/ Accept \/ HandOver \/ NoSession \/ GiveUp

----------------------------------------------------------------------------
(* handle_tcp_connection, and the work function, which closes its session.    *)

HandleConnection(c) ==
  /\ session[c].pc = "new"
  /\ session' = [session EXCEPT ![c].pc = "working"]
  /\ UNCHANGED <<desc, app, calls, thread, fs, peer>>

CloseSession(c) ==
  /\ Close(session[c].fd, {Connection(c)})
  /\ session' = [session EXCEPT ![c].pc = "done"]
  /\ peer' = [peer EXCEPT ![c] = "gone"]
  /\ UNCHANGED <<desc, app, calls, thread>>

HandleFails(c) == session[c].pc = "new" /\ "stream" \in Faults /\ CloseSession(c)
WorkDone(c) == session[c].pc = "working" /\ CloseSession(c)

----------------------------------------------------------------------------
(* Clients, and the rest of the program. *)

Connect(c) ==
  /\ peer[c] = "away"
  /\ \E f \in Fds : files[f] \in Servers /\ queue' = [queue EXCEPT ![f] = Append(@, c)]
  /\ peer' = [peer EXCEPT ![c] = "queued"]
  /\ UNCHANGED <<desc, app, calls, thread, files, strange, session>>

Abort(c) ==
  /\ \E f \in Fds : \E i \in DOMAIN queue[f] :
       queue[f][i] = c /\ queue' = [queue EXCEPT ![f] = RemoveAt(@, i)]
  /\ peer' = [peer EXCEPT ![c] = "gone"]
  /\ UNCHANGED <<desc, app, calls, thread, files, strange, session>>

OtherOpens ==
  /\ NewFd # NoFd
  /\ Open(NewFd, Other)
  /\ UNCHANGED <<desc, app, calls, thread, queue, strange, peer, session>>

OtherCloses(f) ==
  /\ files[f] = Other
  /\ Open(f, Free)
  /\ UNCHANGED <<desc, app, calls, thread, queue, strange, peer, session>>

----------------------------------------------------------------------------
InCall == Join \/ CloseServer \/ OpenSocket \/ Listen \/ ListenFails

Next ==
  \/ \E a \in Addrs \cup {Null} : StartSame(a) \/ Start(a)
  \/ Stop
  \/ InCall
  \/ Mainloop
  \/ \E c \in Clients : \/ HandleConnection(c) \/ HandleFails(c) \/ WorkDone(c)
                        \/ Connect(c) \/ Abort(c)
  \/ OtherOpens \/ \E f \in Fds : OtherCloses(f)

Spec == Init /\ [][Next]_vars

(* The threads run: nobody is obliged to call, to connect, or to finish a    *)
(* session.                                                                  *)
LiveSpec ==
  /\ Spec
  /\ WF_vars(InCall) /\ WF_vars(Mainloop)
  /\ \A c \in Clients : WF_vars(HandleConnection(c) \/ HandleFails(c))

----------------------------------------------------------------------------
(* Properties. *)

\* Every variable keeps its type; no number stands for a failed call where one is used.
TypeOK ==
  /\ oldaddr \in Addrs \cup {Null}
  /\ server_fd \in Fds \cup {NoFd} /\ master \in {"null", "thread"}
  /\ app \in [at : {"idle", "join", "close", "socket", "listen"}, op : {"start", "stop"},
              addr : Addrs \cup {Null}, ok : BOOLEAN]
  /\ calls \in 0 .. MaxCalls
  /\ mpc \in {"none", "poll", "accept", "inhand", "giveup", "dead"}
  /\ client_fd \in Fds \cup (IF mpc \in {"inhand", "giveup"} THEN {} ELSE {NoFd})
  /\ cancelled \in BOOLEAN /\ strange \in BOOLEAN
  /\ files \in [Fds -> {Free, Socket, Other} \cup {Listening(a) : a \in Addrs}
                              \cup {Connection(c) : c \in Clients}]
  /\ queue \in [Fds -> Seq(Clients)]
  /\ peer \in [Clients -> {"away", "queued", "accepted", "failed", "gone"}]
  /\ session \in [Clients -> [pc : {"none", "new", "working", "done"}, fd : Fds \cup {NoFd}]]

\* Nobody closes a number he no longer owns, which may be another one's file by then:
\* spd_tcp_server_stop forgets the number it has closed (322) and start (307) the one
\* it could not use.
NoStrangerClosed == ~strange

\* While the accepting thread lives it is the descriptor's, and the number it polls and
\* accepts on is its socket: a restart joins it before it closes the socket.
AcceptsOnItsSocket ==
  mpc \notin {"none", "dead"} =>
    master = "thread" /\ server_fd # NoFd /\ files[server_fd] \in Servers

\* Both, while the server is restarted and numbers are given out again (tcp_engine.c:242-327).
OwnFilesOnly == TypeOK /\ NoStrangerClosed /\ AcceptsOnItsSocket

\* A connection that was accepted, and for which there was a session to have, has at
\* every moment one thread to close it, and that thread knows its number: to cancel the
\* accepting thread loses none.
ConnectionsHeld ==
  \A c \in Clients :
    LET inHand == mpc = "inhand" /\ files[client_fd] = Connection(c)
        handed == /\ session[c].pc \in {"new", "working"}
                  /\ files[session[c].fd] = Connection(c)
    IN  /\ peer[c] = "accepted" => inHand \/ handed
        /\ ~(inHand /\ handed)
        /\ session[c].pc \in {"new", "working"} => handed

\* A call of spd_tcp_server_start or spd_tcp_server_stop returns: the thread it joins
\* comes to a cancellation point.
CallsReturn == app.at # "idle" ~> app.at = "idle"

\* Who waits to be accepted is accepted or refused, provided that from some moment on
\* there are numbers to give out: no failure ends the loop.
QueueServed ==
  <>[](FreeFds # {}) =>
    \A c \in Clients : peer[c] = "queued" ~> peer[c] # "queued"

\* tcp_engine.h:36-38: spd_tcp_server_start "first verifies if an instance of the service
\* is active, and in case shuts it down. Then, if the service must be started, creates a
\* socket and a thread": a start that reports no failure leaves an instance that serves
\* the address.
StartedServes ==
  app.at = "idle" /\ app.op = "start" /\ app.ok /\ app.addr # Null =>
    mpc # "none" /\ server_fd # NoFd /\ files[server_fd] = Listening(app.addr)
=============================================================================
