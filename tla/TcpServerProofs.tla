-------------------------- MODULE TcpServerProofs --------------------------
(***************************************************************************)
(* Theorems about TcpServer, for every number of addresses, clients, files *)
(* and calls and every choice of failures.                                 *)
(***************************************************************************)
EXTENDS TcpServer, Basics, SequenceTheorems, TLAPS

----------------------------------------------------------------------------
(* The inductive invariant.                                                *)

Owns(f, c) == f \in Fds /\ files[f] = Connection(c)
InHands(c) == mpc = "inhand" /\ Owns(client_fd, c)
Handed(c) == session[c].pc \in {"new", "working"} /\ Owns(session[c].fd, c)
Waits(c) == \E f \in Fds : c \in Range(queue[f])

\* While there is an accepting thread to join, dead or alive, its socket is open and no
\* call is past the join.
ThreadHasSocket ==
  mpc # "none" =>
    /\ master = "thread"
    /\ server_fd \in Fds /\ files[server_fd] \in Servers
    /\ app.at \in {"idle", "join"}

\* The number in the descriptor, where a call will use it, is that of the server's socket.
SocketIsOurs ==
  /\ app.at = "join" => mpc # "none"
  /\ app.at = "close" /\ server_fd # NoFd => files[server_fd] \in Servers
  /\ app.at = "listen" => server_fd \in Fds /\ files[server_fd] = Socket
  /\ app.at \in {"socket", "listen"} => app.addr \in Addrs
  /\ master = "null" /\ (app.at = "idle" \/ (app.at = "close" /\ app.op = "start")) =>
       server_fd = NoFd

\* The accepting thread knows the connection it has in its hands.
HandsAreOurs ==
  /\ mpc = "inhand" => \E c \in Clients : InHands(c) /\ peer[c] = "accepted"
  /\ mpc = "giveup" => \E c \in Clients : Owns(client_fd, c) /\ peer[c] = "failed"
  /\ \A c \in Clients : session[c].pc \in {"new", "working"} => Handed(c) /\ peer[c] = "accepted"

\* Who connects has one number, after he has waited at one place in one queue.
OneNumber ==
  /\ \A c \in Clients : \A f, g \in Fds : Owns(f, c) /\ Owns(g, c) => f = g
  /\ \A c \in Clients : \A f \in Fds : Owns(f, c) => peer[c] \in {"accepted", "failed"}
  /\ \A f \in Fds : \A i \in 1 .. Len(queue[f]) : peer[queue[f][i]] = "queued"
  /\ \A f, g \in Fds : \A i \in 1 .. Len(queue[f]), j \in 1 .. Len(queue[g]) :
       queue[f][i] = queue[g][j] => f = g /\ i = j

\* A session is made once, for a connection that was accepted and given up by nobody.
OneSession ==
  \A c \in Clients :
    /\ peer[c] \in {"away", "queued", "failed"} => session[c].pc = "none"
    /\ InHands(c) => session[c].pc = "none"
    /\ peer[c] = "accepted" => InHands(c) \/ Handed(c)

IInv ==
  /\ TypeOK
  /\ NoStrangerClosed
  /\ ThreadHasSocket
  /\ SocketIsOurs
  /\ HandsAreOurs
  /\ OneNumber
  /\ OneSession

----------------------------------------------------------------------------
(* Files.                                                                  *)

Files == {Free, Socket, Other} \cup {Listening(a) : a \in Addrs}
                               \cup {Connection(c) : c \in Clients}

\* What a number may stand for: no two of these are one.
LEMMA KindsDiffer ==
  /\ Servers \subseteq Files /\ {Free, Socket, Other} \subseteq Files
  /\ \A c \in Clients : Connection(c) \in Files
  /\ Free # Socket /\ Free # Other /\ Socket # Other
  /\ Free \notin Servers /\ Socket \notin Servers /\ Other \notin Servers
  /\ \A c \in Clients : Connection(c) \notin Servers \cup {Free, Socket, Other}
  /\ \A c, d \in Clients : Connection(c) = Connection(d) => c = d
  /\ NoFd \notin Fds
  BY ConstantsAssumption DEF Files, Servers, Free, Socket, Other, Listening, Connection, NoFd, Fds

\* The types the steps below rest on.
LEMMA Types ==
  ASSUME TypeOK
  PROVE  /\ files \in [Fds -> Files]
         /\ queue \in [Fds -> Seq(Clients)]
         /\ peer \in [Clients -> {"away", "queued", "accepted", "failed", "gone"}]
         /\ session \in [Clients -> [pc : {"none", "new", "working", "done"}, fd : Fds \cup {NoFd}]]
         /\ server_fd \in Fds \cup {NoFd}
         /\ mpc \in {"none", "poll", "accept", "inhand", "giveup", "dead"}
         /\ master \in {"null", "thread"}
         /\ client_fd \in Fds \cup {NoFd}
         /\ (mpc \in {"inhand", "giveup"} => client_fd \in Fds)
         /\ cancelled \in BOOLEAN
         /\ app \in [at : {"idle", "join", "close", "socket", "listen"}, op : {"start", "stop"},
                     addr : Addrs \cup {Null}, ok : BOOLEAN]
  BY DEF TypeOK, Files

\* A step that leaves the descriptor and the application alone.
LEMMA TypesKept ==
  ASSUME TypeOK,
         UNCHANGED <<oldaddr, server_fd, master, app, calls, cancelled>>,
         strange' \in BOOLEAN,
         mpc' \in {"none", "poll", "accept", "inhand", "giveup", "dead"},
         client_fd' \in Fds \cup (IF mpc' \in {"inhand", "giveup"} THEN {} ELSE {NoFd}),
         files' \in [Fds -> Files],
         queue' \in [Fds -> Seq(Clients)],
         peer' \in [Clients -> {"away", "queued", "accepted", "failed", "gone"}],
         session' \in [Clients -> [pc : {"none", "new", "working", "done"}, fd : Fds \cup {NoFd}]]
  PROVE  TypeOK'
  <1>1. /\ oldaddr \in Addrs \cup {Null}
        /\ server_fd \in Fds \cup {NoFd} /\ master \in {"null", "thread"}
        /\ app \in [at : {"idle", "join", "close", "socket", "listen"}, op : {"start", "stop"},
                    addr : Addrs \cup {Null}, ok : BOOLEAN]
        /\ calls \in 0 .. MaxCalls /\ cancelled \in BOOLEAN
    BY DEF TypeOK
  <1>2. files' \in [Fds -> {Free, Socket, Other} \cup {Listening(a) : a \in Addrs}
                                                 \cup {Connection(c) : c \in Clients}]
    BY DEF Files
  <1>3. QED BY <1>1, <1>2 DEF TypeOK

\* The system gives out a number that is free.
LEMMA NewFdIsFree ==
  ASSUME NewFd # NoFd
  PROVE  NewFd \in Fds /\ files[NewFd] = Free
  <1>1. FreeFds # {}
    BY DEF NewFd
  <1>2. FreeFds \subseteq Nat
    BY ConstantsAssumption DEF FreeFds, Fds
  <1>3. \E f \in FreeFds : \A g \in FreeFds : f <= g
    BY <1>1, <1>2, LeastNumber
  <1>4. NewFd \in FreeFds
    BY <1>1, <1>3 DEF NewFd
  <1>5. QED BY <1>4 DEF FreeFds

----------------------------------------------------------------------------
(* Parts of the invariant under the steps of the others.                   *)

\* A step that changes nothing of the descriptor, of the application, or of a socket, and
\* ends no thread and starts none.
LEMMA ServerKept ==
  ASSUME TypeOK, ThreadHasSocket, SocketIsOurs,
         UNCHANGED <<server_fd, master, app>>,
         mpc' = "none" <=> mpc = "none",
         \A f \in Fds : files[f] \in Servers \cup {Socket} => files'[f] = files[f]
  PROVE  ThreadHasSocket' /\ SocketIsOurs'
  <1>1. server_fd \in Fds \cup {NoFd} /\ Servers' = Servers
    BY Types DEF Servers
  <1>2. ThreadHasSocket'
    BY <1>1 DEF ThreadHasSocket
  <1>3. SocketIsOurs'
    BY <1>1 DEF SocketIsOurs
  <1>4. QED BY <1>2, <1>3

Connected ==
  /\ HandsAreOurs
  /\ OneNumber
  /\ OneSession

\* A step that opens and closes no connection: it may refuse those who wait in a queue.
LEMMA ConnectionsKept ==
  ASSUME TypeOK, Connected,
         UNCHANGED <<client_fd, session>>,
         mpc' = mpc \/ (mpc \notin {"inhand", "giveup"} /\ mpc' \notin {"inhand", "giveup"}),
         \A c \in Clients : \A f \in Fds : Owns(f, c)' <=> Owns(f, c),
         \A f \in Fds : queue'[f] = queue[f] \/ queue'[f] = <<>>,
         \A c \in Clients :
           \/ peer'[c] = peer[c]
           \/ /\ peer[c] = "queued" /\ peer'[c] = "gone"
              /\ \A f \in Fds : c \in Range(queue[f]) => queue'[f] = <<>>
  PROVE  Connected'
  <1>1. \A c \in Clients : /\ InHands(c)' <=> InHands(c)
                           /\ Handed(c)' <=> Handed(c)
                           /\ Owns(client_fd, c)' <=> Owns(client_fd, c)
    <2>1. \A f \in Fds \cup {NoFd}, c \in Clients :
            f \notin Fds => ~Owns(f, c) /\ ~(f \in Fds /\ files'[f] = Connection(c))
      BY DEF Owns
    <2>2. client_fd \in Fds \cup {NoFd} /\ \A c \in Clients : session[c].fd \in Fds \cup {NoFd}
      BY Types
    <2>3. QED BY <2>1, <2>2 DEF InHands, Handed, Owns
  <1>2. HandsAreOurs'
    <2>1. \A c \in Clients : peer[c] \in {"accepted", "failed"} => peer'[c] = peer[c]
      OBVIOUS
    <2>2. QED BY <1>1, <2>1 DEF Connected, HandsAreOurs
  <1>3. OneSession'
    BY <1>1 DEF Connected, OneSession
  <1>4. OneNumber'
    <2>1. \A c \in Clients : \A f, g \in Fds : (Owns(f, c) /\ Owns(g, c))' => f = g
      BY DEF Connected, OneNumber
    <2>2. \A c \in Clients : \A f \in Fds : Owns(f, c)' => peer'[c] \in {"accepted", "failed"}
      BY DEF Connected, OneNumber
    <2>3. \A f \in Fds : queue'[f] # queue[f] => Len(queue'[f]) = 0
      OBVIOUS
    <2>4. ASSUME NEW f \in Fds, NEW i \in 1 .. Len(queue'[f])
          PROVE  /\ queue'[f] = queue[f] /\ queue[f][i] \in Clients
                 /\ peer'[queue'[f][i]] = "queued"
      <3>1. queue'[f] = queue[f] /\ queue'[f] # <<>>
        <4>1. CASE queue'[f] = <<>>
          BY <4>1
        <4>2. QED BY <4>1
      <3>2. queue[f] \in Seq(Clients)
        BY Types
      <3>3. queue[f][i] \in Clients /\ queue[f][i] \in Range(queue[f])
        BY <3>1, <3>2 DEF Range
      <3>4. peer[queue[f][i]] = "queued"
        BY <3>1 DEF Connected, OneNumber
      <3>5. QED BY <3>1, <3>3, <3>4
    <2>5. \A f, g \in Fds : \A i \in 1 .. Len(queue'[f]), j \in 1 .. Len(queue'[g]) :
            queue'[f][i] = queue'[g][j] => f = g /\ i = j
      BY <2>4 DEF Connected, OneNumber
    <2>6. QED BY <2>1, <2>2, <2>4, <2>5 DEF OneNumber
  <1>5. QED BY <1>2, <1>3, <1>4 DEF Connected

----------------------------------------------------------------------------
(* The application.                                                        *)

\* A call begins: where it may be made, there is a thread to join, or neither a thread nor
\* a socket.
LEMMA CallKeeps ==
  ASSUME IInv, (\E a \in Addrs \cup {Null} : StartSame(a) \/ Start(a)) \/ Stop
  PROVE  IInv'
  <1>1. TypeOK /\ NoStrangerClosed /\ ThreadHasSocket /\ SocketIsOurs /\ Connected
    BY DEF IInv, Connected
  <1>2. /\ UNCHANGED <<server_fd, master, mpc, client_fd, files, queue, strange, peer, session>>
        /\ app.at = "idle"
        /\ oldaddr' \in {oldaddr, Null}
        /\ calls < MaxCalls /\ calls' = calls + 1
        /\ cancelled' \in BOOLEAN
    BY <1>1, Types DEF StartSame, Start, Stop, Call, ShutDown, desc, thread, fs
  <1>3. PICK op \in {"start", "stop"}, a \in Addrs \cup {Null} :
          \/ app' = [at |-> "idle", op |-> op, addr |-> a, ok |-> TRUE]
          \/ /\ Usable
             /\ app' = [at |-> IF master = "thread" THEN "join" ELSE "close",
                        op |-> op, addr |-> a, ok |-> TRUE]
    BY DEF StartSame, Start, Stop, ShutDown
  <1>4. TypeOK'
    <2>1. calls' \in 0 .. MaxCalls
      BY <1>1, <1>2, ConstantsAssumption DEF TypeOK
    <2>2. PICK at \in {"idle", "join", "close"} : app' = [at |-> at, op |-> op, addr |-> a, ok |-> TRUE]
      BY <1>3
    <2>3. app' \in [at : {"idle", "join", "close", "socket", "listen"}, op : {"start", "stop"},
                    addr : Addrs \cup {Null}, ok : BOOLEAN]
      BY <2>2
    <2>4. QED BY <1>1, <1>2, <2>1, <2>3 DEF TypeOK
  <1>5. ThreadHasSocket' /\ SocketIsOurs'
    <2>1. CASE app' = [at |-> "idle", op |-> op, addr |-> a, ok |-> TRUE]
      BY <1>1, <1>2, <2>1 DEF ThreadHasSocket, SocketIsOurs, Servers
    <2>2. CASE /\ Usable /\ master = "thread"
               /\ app' = [at |-> "join", op |-> op, addr |-> a, ok |-> TRUE]
      BY <1>1, <1>2, <2>2 DEF ThreadHasSocket, SocketIsOurs, Servers, Usable
    <2>3. CASE /\ master = "null"
               /\ app' = [at |-> "close", op |-> op, addr |-> a, ok |-> TRUE]
      <3>1. server_fd = NoFd /\ mpc = "none"
        BY <1>1, <1>2, <2>3 DEF ThreadHasSocket, SocketIsOurs
      <3>2. QED BY <1>2, <2>3, <3>1 DEF ThreadHasSocket, SocketIsOurs
    <2>4. QED BY <1>1, <1>3, <2>1, <2>2, <2>3, Types
  <1>6. Connected'
    BY <1>1, <1>2, ConnectionsKept DEF Owns
  <1>7. QED BY <1>1, <1>2, <1>4, <1>5, <1>6 DEF IInv, Connected, NoStrangerClosed

\* The join ends the thread, and nothing else.
LEMMA JoinKeeps ==
  ASSUME IInv, Join
  PROVE  IInv'
  <1>1. TypeOK /\ NoStrangerClosed /\ ThreadHasSocket /\ SocketIsOurs /\ Connected
    BY DEF IInv, Connected
  <1>2. /\ app.at = "join" /\ mpc = "dead" /\ mpc' = "none"
        /\ master' = IF app.op = "stop" THEN "null" ELSE master
        /\ app' = [app EXCEPT !.at = "close"]
        /\ UNCHANGED <<oldaddr, server_fd, calls, client_fd, cancelled, files, queue, strange,
                       peer, session>>
    BY DEF Join, GoTo, fs
  <1>3. app'.at = "close" /\ app'.op = app.op
    BY <1>1, <1>2, Types
  <1>4. TypeOK'
    BY <1>1, <1>2 DEF TypeOK
  <1>5. ThreadHasSocket' /\ SocketIsOurs'
    BY <1>1, <1>2, <1>3 DEF ThreadHasSocket, SocketIsOurs, Servers
  <1>6. Connected'
    BY <1>1, <1>2, ConnectionsKept DEF Owns
  <1>7. QED BY <1>1, <1>2, <1>4, <1>5, <1>6 DEF IInv, Connected, NoStrangerClosed

\* The socket that is closed is the server's, and those who wait on it are refused.
LEMMA CloseServerKeeps ==
  ASSUME IInv, CloseServer
  PROVE  IInv'
  <1>1. TypeOK /\ NoStrangerClosed /\ ThreadHasSocket /\ SocketIsOurs /\ Connected
    BY DEF IInv, Connected
  <1>2. /\ app.at = "close" /\ mpc = "none"
        /\ UNCHANGED <<oldaddr, master, calls, mpc, client_fd, cancelled, session>>
        /\ server_fd' = IF app.op = "stop" THEN NoFd ELSE server_fd
    BY <1>1 DEF CloseServer, Forget, thread, ThreadHasSocket
  <1>3. /\ app' \in [at : {"idle", "join", "close", "socket", "listen"}, op : {"start", "stop"},
                     addr : Addrs \cup {Null}, ok : BOOLEAN]
        /\ app'.op = app.op
        /\ app'.at \in {"idle", "socket"}
        /\ app.op = "stop" => app'.at = "idle"
        /\ app'.at = "socket" => app'.addr \in Addrs
    BY <1>1, Types DEF CloseServer, Return, GoTo
  <1>4. /\ \A f \in Fds : f # server_fd => files'[f] = files[f] /\ queue'[f] = queue[f]
        /\ \A f \in Fds : f = server_fd => /\ files[f] \in Servers /\ files'[f] = Free
                                           /\ queue'[f] = <<>>
        /\ files' \in [Fds -> Files] /\ queue' \in [Fds -> Seq(Clients)]
        /\ strange' = strange
    <2>1. CASE server_fd = NoFd
      BY <1>1, <2>1, Types, KindsDiffer DEF CloseServer, CloseServerSocket, fs
    <2>2. CASE server_fd # NoFd
      <3>1. server_fd \in Fds /\ files[server_fd] \in Servers
        BY <1>1, <1>2, <2>2, Types DEF SocketIsOurs
      <3>2. /\ files' = [files EXCEPT ![server_fd] = Free]
            /\ queue' = [queue EXCEPT ![server_fd] = <<>>]
            /\ strange' = (strange \/ files[server_fd] \notin Servers)
        BY <2>2 DEF CloseServer, CloseServerSocket, Close, Open
      <3>3. strange' = strange
        <4>1. strange = FALSE
          BY <1>1 DEF NoStrangerClosed, TypeOK
        <4>2. QED BY <3>1, <3>2, <4>1
      <3>4. QED BY <1>1, <3>1, <3>2, <3>3, Types, KindsDiffer
    <2>3. QED BY <2>1, <2>2
  <1>5. \A c \in Clients :
           \/ peer'[c] = peer[c]
           \/ /\ peer[c] = "queued" /\ peer'[c] = "gone"
              /\ \A f \in Fds : c \in Range(queue[f]) => queue'[f] = <<>>
    <2>1. CASE server_fd = NoFd
      BY <2>1 DEF CloseServer, CloseServerSocket
    <2>2. CASE server_fd # NoFd
      <3>1. server_fd \in Fds
        BY <1>1, <2>2, Types
      <3>2. peer' = [c \in Clients |-> IF c \in Range(queue[server_fd]) THEN "gone" ELSE peer[c]]
        BY <2>2 DEF CloseServer, CloseServerSocket, Refused
      <3>3. ASSUME NEW c \in Clients, c \in Range(queue[server_fd])
            PROVE  /\ peer[c] = "queued"
                   /\ \A f \in Fds : c \in Range(queue[f]) => f = server_fd
        <4>1. \A f \in Fds : c \in Range(queue[f]) => \E i \in 1 .. Len(queue[f]) : queue[f][i] = c
          <5>1. ASSUME NEW f \in Fds, c \in Range(queue[f])
                PROVE  \E i \in 1 .. Len(queue[f]) : queue[f][i] = c
            <6>1. queue[f] \in Seq(Clients)
              BY <1>1, Types
            <6>2. QED BY <5>1, <6>1 DEF Range
          <5>2. QED BY <5>1
        <4>2. QED BY <1>1, <3>1, <3>3, <4>1 DEF Connected, OneNumber
      <3>4. QED BY <1>4, <3>1, <3>2, <3>3
    <2>3. QED BY <2>1, <2>2
  <1>6. TypeOK'
    <2>1. peer' \in [Clients -> {"away", "queued", "accepted", "failed", "gone"}]
      BY <1>1, Types DEF CloseServer, CloseServerSocket, Refused
    <2>2. QED BY <1>1, <1>2, <1>3, <1>4, <2>1 DEF TypeOK, Files
  <1>7. ThreadHasSocket' /\ SocketIsOurs'
    BY <1>1, <1>2, <1>3, Types DEF ThreadHasSocket, SocketIsOurs
  <1>8. Connected'
    <2>1. \A c \in Clients : \A f \in Fds : Owns(f, c)' <=> Owns(f, c)
      BY <1>4, KindsDiffer DEF Owns
    <2>2. \A f \in Fds : queue'[f] = queue[f] \/ queue'[f] = <<>>
      BY <1>4
    <2>3. QED BY <1>1, <1>2, <1>5, <2>1, <2>2, ConnectionsKept
  <1>9. QED BY <1>1, <1>4, <1>6, <1>7, <1>8 DEF IInv, Connected, NoStrangerClosed

\* socket, and bind, listen and pthread_create.
LEMMA OpenServerKeeps ==
  ASSUME IInv, OpenSocket \/ Listen \/ ListenFails
  PROVE  IInv'
  <1>1. TypeOK /\ NoStrangerClosed /\ ThreadHasSocket /\ SocketIsOurs /\ Connected
    BY DEF IInv, Connected
  <1>2. mpc = "none" /\ UNCHANGED <<calls, client_fd, peer, session>> /\ app.at \in {"socket", "listen"}
    BY <1>1 DEF OpenSocket, Listen, ListenFails, thread, ThreadHasSocket
  <1>3. CASE OpenSocket
    <2>1. /\ UNCHANGED <<oldaddr, master, mpc, cancelled, queue, strange>>
          /\ \/ /\ NewFd # NoFd /\ server_fd' = NewFd
                /\ files' = [files EXCEPT ![NewFd] = Socket]
                /\ app' = [app EXCEPT !.at = "listen"]
             \/ /\ server_fd' = NoFd /\ files' = files
                /\ app' = [app EXCEPT !.at = "idle", !.ok = FALSE]
      BY <1>3 DEF OpenSocket, GoTo, Return, Open, thread
    <2>2. NewFd # NoFd => NewFd \in Fds /\ files[NewFd] = Free
      BY NewFdIsFree
    <2>3. /\ files' \in [Fds -> Files]
          /\ \A f \in Fds : files'[f] = files[f] \/ (files[f] = Free /\ files'[f] = Socket)
          /\ server_fd' \in Fds \cup {NoFd}
          /\ app'.at = "listen" => server_fd' \in Fds /\ files'[server_fd'] = Socket
          /\ app'.at = "idle" => server_fd' = NoFd
          /\ app'.at \in {"listen", "idle"}
          /\ app' \in [at : {"idle", "join", "close", "socket", "listen"}, op : {"start", "stop"},
                       addr : Addrs \cup {Null}, ok : BOOLEAN]
          /\ app'.addr \in Addrs
      <3>1. app.addr \in Addrs
        BY <1>1, <1>2 DEF SocketIsOurs
      <3>2. CASE /\ NewFd # NoFd /\ server_fd' = NewFd
                 /\ files' = [files EXCEPT ![NewFd] = Socket]
                 /\ app' = [app EXCEPT !.at = "listen"]
        <4>1. /\ app'.at = "listen" /\ app'.addr = app.addr
              /\ app' \in [at : {"idle", "join", "close", "socket", "listen"},
                           op : {"start", "stop"}, addr : Addrs \cup {Null}, ok : BOOLEAN]
          BY <1>1, <3>2, Types
        <4>2. /\ files' \in [Fds -> Files] /\ files'[NewFd] = Socket
              /\ \A f \in Fds : files'[f] = files[f] \/ (files[f] = Free /\ files'[f] = Socket)
          BY <1>1, <2>2, <3>2, Types, KindsDiffer
        <4>3. QED BY <2>2, <3>1, <3>2, <4>1, <4>2
      <3>3. CASE /\ server_fd' = NoFd /\ files' = files
                 /\ app' = [app EXCEPT !.at = "idle", !.ok = FALSE]
        <4>1. /\ app'.at = "idle" /\ app'.addr = app.addr
              /\ app' \in [at : {"idle", "join", "close", "socket", "listen"},
                           op : {"start", "stop"}, addr : Addrs \cup {Null}, ok : BOOLEAN]
          BY <1>1, <3>3, Types
        <4>2. files' \in [Fds -> Files]
          BY <1>1, <3>3, Types
        <4>3. QED BY <3>1, <3>3, <4>1, <4>2
      <3>4. QED BY <2>1, <3>2, <3>3
    <2>4. TypeOK'
      BY <1>1, <1>2, <2>1, <2>3 DEF TypeOK, Files
    <2>5. ThreadHasSocket' /\ SocketIsOurs'
      BY <1>2, <2>1, <2>3 DEF ThreadHasSocket, SocketIsOurs
    <2>6. Connected'
      <3>1. \A c \in Clients : \A f \in Fds : Owns(f, c)' <=> Owns(f, c)
        BY <2>3, KindsDiffer DEF Owns
      <3>2. QED BY <1>1, <1>2, <2>1, <3>1, ConnectionsKept
    <2>7. QED BY <1>1, <2>1, <2>4, <2>5, <2>6 DEF IInv, Connected, NoStrangerClosed
  <1>4. CASE Listen
    <2>1. /\ files' = [files EXCEPT ![server_fd] = Listening(app.addr)]
          /\ mpc' = "poll" /\ master' = "thread" /\ cancelled' = FALSE
          /\ oldaddr' = app.addr
          /\ app' = [app EXCEPT !.at = "idle", !.ok = TRUE]
          /\ UNCHANGED <<server_fd, queue, strange>>
          /\ app.at = "listen"
      BY <1>4 DEF Listen, Open, Return
    <2>2. /\ server_fd \in Fds /\ files[server_fd] = Socket
      BY <1>1, <2>1 DEF SocketIsOurs
    <2>3. app.addr \in Addrs
      BY <1>1, <2>1 DEF SocketIsOurs
    <2>4. Listening(app.addr) \in Servers
      BY <2>3 DEF Servers
    <2>5. /\ files' \in [Fds -> Files]
          /\ \A f \in Fds : files'[f] = files[f] \/ (files[f] = Socket /\ files'[f] \in Servers)
          /\ files'[server_fd'] \in Servers
          /\ app'.at = "idle"
          /\ app' \in [at : {"idle", "join", "close", "socket", "listen"}, op : {"start", "stop"},
                       addr : Addrs \cup {Null}, ok : BOOLEAN]
      BY <1>1, <2>1, <2>2, <2>4, Types, KindsDiffer
    <2>6. TypeOK'
      BY <1>1, <1>2, <2>1, <2>2, <2>3, <2>5 DEF TypeOK, Files
    <2>7. ThreadHasSocket' /\ SocketIsOurs'
      BY <2>1, <2>2, <2>5 DEF ThreadHasSocket, SocketIsOurs, Servers
    <2>8. Connected'
      <3>1. \A c \in Clients : \A f \in Fds : Owns(f, c)' <=> Owns(f, c)
        BY <2>5, KindsDiffer DEF Owns
      <3>2. QED BY <1>1, <1>2, <2>1, <3>1, ConnectionsKept
    <2>9. QED BY <1>1, <2>1, <2>6, <2>7, <2>8 DEF IInv, Connected, NoStrangerClosed
  <1>5. CASE ListenFails
    <2>1. /\ files' = [files EXCEPT ![server_fd] = Free]
          /\ queue' = [queue EXCEPT ![server_fd] = <<>>]
          /\ strange' = (strange \/ files[server_fd] \notin {Socket})
          /\ server_fd' = NoFd
          /\ app' = [app EXCEPT !.at = "idle", !.ok = FALSE]
          /\ UNCHANGED <<oldaddr, master, mpc, cancelled>>
          /\ app.at = "listen"
      BY <1>5 DEF ListenFails, Close, Open, Return, thread
    <2>2. server_fd \in Fds /\ files[server_fd] = Socket
      BY <1>1, <2>1 DEF SocketIsOurs
    <2>3. /\ files' \in [Fds -> Files] /\ queue' \in [Fds -> Seq(Clients)]
          /\ \A f \in Fds : files'[f] = files[f] \/ (files[f] = Socket /\ files'[f] = Free)
          /\ \A f \in Fds : queue'[f] = queue[f] \/ queue'[f] = <<>>
          /\ strange' = FALSE
          /\ app'.at = "idle"
          /\ app' \in [at : {"idle", "join", "close", "socket", "listen"}, op : {"start", "stop"},
                       addr : Addrs \cup {Null}, ok : BOOLEAN]
      <3>1. /\ files' \in [Fds -> Files] /\ queue' \in [Fds -> Seq(Clients)]
            /\ \A f \in Fds : files'[f] = files[f] \/ (files[f] = Socket /\ files'[f] = Free)
            /\ \A f \in Fds : queue'[f] = queue[f] \/ queue'[f] = <<>>
        BY <1>1, <2>1, <2>2, Types, KindsDiffer
      <3>2. strange' = FALSE
        <4>1. strange = FALSE
          BY <1>1 DEF NoStrangerClosed, TypeOK
        <4>2. QED BY <2>1, <2>2, <4>1
      <3>3. /\ app'.at = "idle"
            /\ app' \in [at : {"idle", "join", "close", "socket", "listen"},
                         op : {"start", "stop"}, addr : Addrs \cup {Null}, ok : BOOLEAN]
        BY <1>1, <2>1, Types
      <3>4. QED BY <3>1, <3>2, <3>3
    <2>4. TypeOK'
      BY <1>1, <1>2, <2>1, <2>3 DEF TypeOK, Files
    <2>5. ThreadHasSocket' /\ SocketIsOurs'
      BY <1>2, <2>1, <2>3 DEF ThreadHasSocket, SocketIsOurs
    <2>6. Connected'
      <3>1. \A c \in Clients : \A f \in Fds : Owns(f, c)' <=> Owns(f, c)
        BY <2>3, KindsDiffer DEF Owns
      <3>2. QED BY <1>1, <1>2, <2>1, <2>3, <3>1, ConnectionsKept
    <2>7. QED BY <2>3, <2>4, <2>5, <2>6 DEF IInv, Connected, NoStrangerClosed
  <1>6. QED BY <1>3, <1>4, <1>5

----------------------------------------------------------------------------
(* The accepting thread.                                                   *)

\* It is cancelled or goes on to its accept, with nothing in its hands that is not given up.
LEMMA WaitingKeeps ==
  ASSUME IInv, Cancel \/ Poll
  PROVE  IInv'
  <1>1. TypeOK /\ NoStrangerClosed /\ ThreadHasSocket /\ SocketIsOurs /\ Connected
    BY DEF IInv, Connected
  <1>2. /\ mpc \in {"poll", "accept", "giveup"} /\ mpc' \in {"dead", "accept"}
        /\ UNCHANGED <<desc, app, calls, client_fd, cancelled, fs, peer, session>>
    BY DEF Cancel, Poll, Dying, CancellationPoints
  <1>3. UNCHANGED <<oldaddr, server_fd, master, files, queue, strange>>
    BY <1>2 DEF desc, fs
  <1>4. TypeOK'
    <2>1. client_fd' \in Fds \cup (IF mpc' \in {"inhand", "giveup"} THEN {} ELSE {NoFd})
      BY <1>1, <1>2, Types
    <2>2. mpc' \in {"none", "poll", "accept", "inhand", "giveup", "dead"}
      BY <1>2
    <2>3. QED BY <1>1, <1>2, <1>3, <2>1, <2>2 DEF TypeOK
  <1>5. ThreadHasSocket' /\ SocketIsOurs'
    BY <1>1, <1>2, <1>3, ServerKept
  <1>6. Connected'
    BY <1>1, <1>2, <1>3 DEF Connected, HandsAreOurs, OneNumber, OneSession, Owns, InHands, Handed
  <1>7. QED BY <1>1, <1>3, <1>4, <1>5, <1>6 DEF IInv, Connected, NoStrangerClosed

\* accept: who was first in the queue has the new number, and nobody else does.
LEMMA AcceptKeeps ==
  ASSUME IInv, Accept
  PROVE  IInv'
  <1>1. TypeOK /\ NoStrangerClosed /\ ThreadHasSocket /\ SocketIsOurs /\ Connected
    BY DEF IInv, Connected
  <1>2. /\ mpc = "accept" /\ server_fd # NoFd
        /\ UNCHANGED <<oldaddr, server_fd, master, app, calls, cancelled, strange, session>>
    BY DEF Accept, desc
  <1>3. CASE AcceptFailed
    <2>1. mpc' = "poll" /\ UNCHANGED <<client_fd, files, queue, peer>>
      BY <1>3 DEF Accept
    <2>2. TypeOK'
      BY <1>1, <1>2, <2>1 DEF TypeOK
    <2>3. ThreadHasSocket' /\ SocketIsOurs'
      BY <1>1, <1>2, <2>1, ServerKept
    <2>4. Connected'
      BY <1>1, <1>2, <2>1, ConnectionsKept DEF Owns
    <2>5. QED BY <1>1, <1>2, <2>2, <2>3, <2>4 DEF IInv, Connected, NoStrangerClosed
  <1>4. CASE ~AcceptFailed
    <2>1. /\ server_fd \in Fds /\ queue[server_fd] # <<>> /\ queue[server_fd] \in Seq(Clients)
          /\ NewFd # NoFd
      BY <1>1, <1>2, <1>4, Types DEF AcceptFailed
    <2>2. PICK new \in Fds : new = NewFd /\ files[new] = Free
      BY <2>1, NewFdIsFree
    <2>3. PICK c \in Clients : c = Head(queue[server_fd]) /\ c = queue[server_fd][1]
      BY <2>1
    <2>4. /\ mpc' = "inhand" /\ client_fd' = new
          /\ files' = [files EXCEPT ![new] = Connection(c)]
          /\ queue' = [queue EXCEPT ![server_fd] = Tail(@)]
          /\ peer' = [peer EXCEPT ![c] = "accepted"]
      BY <1>4, <2>2, <2>3 DEF Accept, Open
    <2>5. /\ files' \in [Fds -> Files] /\ queue' \in [Fds -> Seq(Clients)]
          /\ \A f \in Fds : files'[f] = IF f = new THEN Connection(c) ELSE files[f]
          /\ \A f \in Fds : f # server_fd => queue'[f] = queue[f]
          /\ queue'[server_fd] = Tail(queue[server_fd])
          /\ \A d \in Clients : peer'[d] = IF d = c THEN "accepted" ELSE peer[d]
      BY <1>1, <2>1, <2>4, Types, KindsDiffer
    <2>6. peer[c] = "queued" /\ session[c].pc = "none" /\ \A f \in Fds : ~Owns(f, c)
      <3>1. 1 \in 1 .. Len(queue[server_fd])
        BY <2>1
      <3>2. peer[c] = "queued"
        BY <1>1, <2>1, <2>3, <3>1 DEF Connected, OneNumber
      <3>3. QED BY <1>1, <3>2 DEF Connected, OneNumber, OneSession
    <2>7. \A f \in Fds : \A d \in Clients :
            Owns(f, d)' <=> (Owns(f, d) \/ (f = new /\ d = c))
      BY <2>2, <2>5, KindsDiffer DEF Owns
    <2>8. \A d \in Clients : /\ InHands(d)' <=> d = c
                             /\ Handed(d)' <=> Handed(d)
                             /\ ~InHands(d)
      <3>1. \A d \in Clients : InHands(d)' <=> d = c
        BY <2>4, <2>5, KindsDiffer DEF InHands, Owns
      <3>2. \A d \in Clients : Handed(d)' <=> Handed(d)
        BY <1>2, <2>2, <2>5, <2>6, KindsDiffer DEF Handed, Owns
      <3>3. QED BY <1>2, <3>1, <3>2 DEF InHands
    <2>9. TypeOK'
      <3>1. peer' \in [Clients -> {"away", "queued", "accepted", "failed", "gone"}]
        BY <1>1, <2>4, Types
      <3>2. QED BY <1>1, <1>2, <2>4, <2>5, <3>1 DEF TypeOK, Files
    <2>10. ThreadHasSocket' /\ SocketIsOurs'
      <3>1. \A f \in Fds : files[f] \in Servers \cup {Socket} => files'[f] = files[f]
        BY <2>2, <2>5, KindsDiffer
      <3>2. QED BY <1>1, <1>2, <2>4, <3>1, ServerKept
    <2>11. HandsAreOurs'
      BY <1>1, <1>2, <2>4, <2>5, <2>6, <2>8 DEF Connected, HandsAreOurs
    <2>12. OneSession'
      BY <1>1, <1>2, <2>5, <2>6, <2>8 DEF Connected, OneSession
    <2>13. OneNumber'
      <3>1. \A d \in Clients : \A f, g \in Fds : (Owns(f, d) /\ Owns(g, d))' => f = g
        BY <1>1, <2>6, <2>7 DEF Connected, OneNumber
      <3>2. \A d \in Clients : \A f \in Fds : Owns(f, d)' => peer'[d] \in {"accepted", "failed"}
        BY <1>1, <2>5, <2>7 DEF Connected, OneNumber
      <3> DEFINE up(f, i) == IF f = server_fd THEN i + 1 ELSE i
      <3>3. ASSUME NEW f \in Fds, NEW i \in 1 .. Len(queue'[f])
            PROVE  /\ up(f, i) \in 1 .. Len(queue[f])
                   /\ queue'[f][i] = queue[f][up(f, i)]
                   /\ queue[f][up(f, i)] \in Clients
                   /\ queue[f][up(f, i)] # c
        <4>1. queue[f] \in Seq(Clients)
          BY <1>1, Types
        <4>2. up(f, i) \in 1 .. Len(queue[f]) /\ queue'[f][i] = queue[f][up(f, i)]
          <5>1. CASE f = server_fd
            <6>1. queue'[f] = Tail(queue[f]) /\ queue[f] # <<>>
              BY <2>1, <2>5, <5>1
            <6>2. Len(queue'[f]) = Len(queue[f]) - 1 /\ Len(queue[f]) \in Nat
              BY <4>1, <6>1
            <6>3. i \in Nat /\ i + 1 \in 1 .. Len(queue[f]) /\ i \in 1 .. Len(queue[f]) - 1
              BY <6>2
            <6>4. queue'[f][i] = queue[f][i + 1]
              BY <4>1, <6>1, <6>3
            <6>5. QED BY <5>1, <6>3, <6>4
          <5>2. CASE f # server_fd
            BY <2>5, <5>2
          <5>3. QED BY <5>1, <5>2
        <4>3. ~(f = server_fd /\ up(f, i) = 1)
          OBVIOUS
        <4>4. 1 \in 1 .. Len(queue[server_fd])
          BY <2>1
        <4>5. queue[f][up(f, i)] # queue[server_fd][1]
          BY <1>1, <2>1, <4>2, <4>3, <4>4 DEF Connected, OneNumber
        <4>6. QED BY <2>3, <4>1, <4>2, <4>5
      <3>4. \A f \in Fds : \A i \in 1 .. Len(queue'[f]) : peer'[queue'[f][i]] = "queued"
        BY <1>1, <2>5, <3>3 DEF Connected, OneNumber
      <3>5. ASSUME NEW f \in Fds, NEW g \in Fds,
                   NEW i \in 1 .. Len(queue'[f]), NEW j \in 1 .. Len(queue'[g]),
                   queue'[f][i] = queue'[g][j]
            PROVE  f = g /\ i = j
        <4>1. /\ up(f, i) \in 1 .. Len(queue[f]) /\ queue'[f][i] = queue[f][up(f, i)]
              /\ up(g, j) \in 1 .. Len(queue[g]) /\ queue'[g][j] = queue[g][up(g, j)]
          BY <3>3
        <4> HIDE DEF up
        <4>2. queue[f][up(f, i)] = queue[g][up(g, j)]
          BY <3>5, <4>1
        <4>3. f = g /\ up(f, i) = up(g, j)
          BY <1>1, <4>1, <4>2 DEF Connected, OneNumber
        <4>4. QED BY <4>3 DEF up
      <3>6. QED BY <3>1, <3>2, <3>4, <3>5 DEF OneNumber
    <2>14. QED BY <1>1, <1>2, <2>9, <2>10, <2>11, <2>12, <2>13 DEF IInv, NoStrangerClosed
  <1>5. QED BY <1>3, <1>4

\* The connection in hand is one, and nobody else's.
LEMMA InHandIs ==
  ASSUME IInv, NEW c \in Clients, Owns(client_fd, c)
  PROVE  InHand = c
  <1>1. \A d \in Clients : files[client_fd] = Connection(d) => d = c
    BY KindsDiffer DEF Owns
  <1>2. QED BY <1>1 DEF InHand, Owns

\* The session is handed over, or cannot be had.
LEMMA HandOverKeeps ==
  ASSUME IInv, HandOver \/ NoSession
  PROVE  IInv'
  <1>1. TypeOK /\ NoStrangerClosed /\ ThreadHasSocket /\ SocketIsOurs /\ Connected
    BY DEF IInv, Connected
  <1>2. mpc = "inhand"
    BY DEF HandOver, NoSession
  <1>3. PICK c \in Clients : Owns(client_fd, c) /\ peer[c] = "accepted" /\ InHands(c)
    BY <1>1, <1>2 DEF Connected, HandsAreOurs, InHands
  <1>4. InHand = c /\ session[c].pc = "none"
    BY <1>1, <1>3, InHandIs DEF Connected, OneSession
  <1>5. UNCHANGED <<oldaddr, server_fd, master, app, calls, cancelled, files, queue, strange>>
    BY DEF HandOver, NoSession, desc, fs
  <1>6. \A f \in Fds \cup {NoFd}, d \in Clients : Owns(f, d) => f = client_fd \/ d # c
    BY <1>1, <1>3 DEF Connected, OneNumber, Owns
  <1>7. CASE HandOver
    <2>1. /\ session' = [session EXCEPT ![c] = [pc |-> "new", fd |-> client_fd]]
          /\ mpc' = "poll" /\ client_fd' = NoFd /\ peer' = peer
      BY <1>4, <1>7 DEF HandOver
    <2>2. /\ \A d \in Clients : d # c => session'[d] = session[d]
          /\ session'[c].pc = "new" /\ session'[c].fd = client_fd
          /\ session' \in [Clients -> [pc : {"none", "new", "working", "done"}, fd : Fds \cup {NoFd}]]
      BY <1>1, <2>1, Types
    <2>3. \A d \in Clients : /\ Handed(d)' <=> (Handed(d) \/ d = c)
                             /\ ~InHands(d)' /\ (d # c => ~InHands(d))
      <3>1. \A d \in Clients : d # c => (Handed(d)' <=> Handed(d))
        BY <1>5, <2>2 DEF Handed, Owns
      <3>2. Handed(c)'
        BY <1>3, <1>5, <2>2 DEF Handed, Owns
      <3>3. \A d \in Clients : ~InHands(d)'
        BY <2>1 DEF InHands
      <3>4. \A d \in Clients : d # c => ~InHands(d)
        BY <1>3, KindsDiffer DEF InHands, Owns
      <3>5. QED BY <3>1, <3>2, <3>3, <3>4
    <2>4. TypeOK'
      BY <1>1, <1>5, <2>1, <2>2 DEF TypeOK
    <2>5. ThreadHasSocket' /\ SocketIsOurs'
      BY <1>1, <1>2, <1>5, <2>1, ServerKept
    <2>6. HandsAreOurs'
      BY <1>1, <1>3, <2>1, <2>2, <2>3 DEF Connected, HandsAreOurs
    <2>7. OneSession'
      BY <1>1, <1>3, <2>1, <2>2, <2>3 DEF Connected, OneSession
    <2>8. OneNumber'
      BY <1>1, <1>5, <2>1 DEF Connected, OneNumber, Owns
    <2>9. QED BY <1>1, <1>5, <2>4, <2>5, <2>6, <2>7, <2>8 DEF IInv, NoStrangerClosed
  <1>8. CASE NoSession
    <2>1. /\ peer' = [peer EXCEPT ![c] = "failed"] /\ mpc' = "giveup"
          /\ UNCHANGED <<client_fd, session>>
      BY <1>4, <1>8 DEF NoSession
    <2>2. /\ \A d \in Clients : peer'[d] = IF d = c THEN "failed" ELSE peer[d]
          /\ peer' \in [Clients -> {"away", "queued", "accepted", "failed", "gone"}]
      BY <1>1, <2>1, Types
    <2>3. \A d \in Clients : /\ Handed(d)' <=> Handed(d)
                             /\ ~InHands(d)' /\ (d # c => ~InHands(d))
      <3>1. \A d \in Clients : Handed(d)' <=> Handed(d)
        BY <1>5, <2>1 DEF Handed, Owns
      <3>2. \A d \in Clients : ~InHands(d)'
        BY <2>1 DEF InHands
      <3>3. \A d \in Clients : d # c => ~InHands(d)
        BY <1>3, KindsDiffer DEF InHands, Owns
      <3>4. QED BY <3>1, <3>2, <3>3
    <2>4. TypeOK'
      BY <1>1, <1>2, <1>5, <2>1, <2>2 DEF TypeOK
    <2>5. ThreadHasSocket' /\ SocketIsOurs'
      BY <1>1, <1>2, <1>5, <2>1, ServerKept
    <2>6. HandsAreOurs'
      <3>1. Owns(client_fd, c)'
        BY <1>3, <1>5, <2>1 DEF Owns
      <3>2. \A d \in Clients : session[d].pc \in {"new", "working"} => d # c
        BY <1>4
      <3>3. QED BY <1>1, <2>1, <2>2, <2>3, <3>1, <3>2 DEF Connected, HandsAreOurs
    <2>7. OneSession'
      BY <1>1, <1>4, <2>1, <2>2, <2>3 DEF Connected, OneSession
    <2>8. OneNumber'
      <3>1. \A f \in Fds : \A d \in Clients : Owns(f, d)' <=> Owns(f, d)
        BY <1>5 DEF Owns
      <3>2. ASSUME NEW f \in Fds, NEW i \in 1 .. Len(queue[f]) PROVE peer'[queue[f][i]] = "queued"
        <4>1. queue[f][i] \in Clients /\ peer[queue[f][i]] = "queued"
          BY <1>1, Types DEF Connected, OneNumber
        <4>2. QED BY <1>3, <2>2, <4>1
      <3>3. QED BY <1>1, <1>5, <2>2, <3>1, <3>2 DEF Connected, OneNumber
    <2>9. QED BY <1>1, <1>5, <2>4, <2>5, <2>6, <2>7, <2>8 DEF IInv, NoStrangerClosed
  <1>9. QED BY <1>7, <1>8

\* The number that is closed is the connection's, and so nobody waits there.
LEMMA GiveUpKeeps ==
  ASSUME IInv, GiveUp
  PROVE  IInv'
  <1>1. TypeOK /\ NoStrangerClosed /\ ThreadHasSocket /\ SocketIsOurs /\ Connected
    BY DEF IInv, Connected
  <1>2. mpc = "giveup" /\ mpc' = "poll" /\ client_fd' = NoFd
        /\ UNCHANGED <<oldaddr, server_fd, master, app, calls, cancelled, peer, session>>
    BY DEF GiveUp, AfterGiveUp, desc
  <1>3. PICK c \in Clients : Owns(client_fd, c) /\ peer[c] = "failed"
    BY <1>1, <1>2 DEF Connected, HandsAreOurs
  <1>4. InHand = c
    BY <1>3, InHandIs
  <1>5. PICK n \in Fds : n = client_fd /\ files[n] = Connection(c)
    BY <1>3 DEF Owns
  <1>6. /\ files' = [files EXCEPT ![n] = Free]
        /\ queue' = [queue EXCEPT ![n] = <<>>]
        /\ strange' = (strange \/ files[n] \notin {Connection(c)})
    BY <1>4, <1>5 DEF GiveUp, Close, Open
  <1>7. strange = FALSE /\ strange' = FALSE
    <2>1. strange = FALSE
      BY <1>1 DEF NoStrangerClosed, TypeOK
    <2>2. QED BY <1>5, <1>6, <2>1
  <1>8. /\ files' \in [Fds -> Files] /\ queue' \in [Fds -> Seq(Clients)]
        /\ \A f \in Fds : files'[f] = IF f = n THEN Free ELSE files[f]
        /\ \A f \in Fds : queue'[f] = IF f = n THEN <<>> ELSE queue[f]
    BY <1>1, <1>6, Types, KindsDiffer
  <1>9. \A f \in Fds : \A d \in Clients : Owns(f, d)' <=> (Owns(f, d) /\ f # n)
    BY <1>8, KindsDiffer DEF Owns
  <1>10. \A d \in Clients : /\ Handed(d)' <=> Handed(d)
                            /\ ~InHands(d)' /\ ~InHands(d)
    <2>1. \A d \in Clients : ~InHands(d)' /\ ~InHands(d)
      BY <1>2 DEF InHands
    <2>2. ASSUME NEW d \in Clients PROVE Handed(d)' <=> Handed(d)
      <3>1. session[d].pc \in {"new", "working"} => peer[d] = "accepted" /\ Handed(d)
        BY <1>1 DEF Connected, HandsAreOurs
      <3>2. Handed(d) => session[d].fd \in Fds /\ session[d].fd # n
        BY <1>3, <1>5, <3>1, KindsDiffer DEF Handed, Owns
      <3>3. Handed(d) => Handed(d)'
        BY <1>2, <1>8, <3>2 DEF Handed, Owns
      <3>4. Handed(d)' => Handed(d)
        BY <1>2, <3>1 DEF Handed
      <3>5. QED BY <3>3, <3>4
    <2>3. QED BY <2>1, <2>2
  <1>11. TypeOK'
    BY <1>1, <1>2, <1>7, <1>8 DEF TypeOK, Files
  <1>12. ThreadHasSocket' /\ SocketIsOurs'
    <2>1. \A f \in Fds : files[f] \in Servers \cup {Socket} => files'[f] = files[f]
      BY <1>5, <1>8, KindsDiffer
    <2>2. QED BY <1>1, <1>2, <2>1, ServerKept
  <1>13. HandsAreOurs'
    BY <1>1, <1>2, <1>10 DEF Connected, HandsAreOurs
  <1>14. OneSession'
    BY <1>1, <1>2, <1>10 DEF Connected, OneSession
  <1>15. OneNumber'
    <2>1. \A d \in Clients : \A f, g \in Fds : (Owns(f, d) /\ Owns(g, d))' => f = g
      BY <1>1, <1>9 DEF Connected, OneNumber
    <2>2. \A d \in Clients : \A f \in Fds : Owns(f, d)' => peer'[d] \in {"accepted", "failed"}
      BY <1>1, <1>2, <1>9 DEF Connected, OneNumber
    <2>3. ASSUME NEW f \in Fds, NEW i \in 1 .. Len(queue'[f])
          PROVE  queue'[f] = queue[f] /\ peer'[queue'[f][i]] = "queued"
      <3>1. queue'[f] = queue[f]
        BY <1>8
      <3>2. QED BY <1>1, <1>2, <3>1 DEF Connected, OneNumber
    <2>4. \A f, g \in Fds : \A i \in 1 .. Len(queue'[f]), j \in 1 .. Len(queue'[g]) :
            queue'[f][i] = queue'[g][j] => f = g /\ i = j
      BY <1>1, <2>3 DEF Connected, OneNumber
    <2>5. QED BY <2>1, <2>2, <2>3, <2>4 DEF OneNumber
  <1>16. QED BY <1>7, <1>11, <1>12, <1>13, <1>14, <1>15 DEF IInv, NoStrangerClosed

----------------------------------------------------------------------------
(* Sessions.                                                               *)

\* The thread of a session begins its work.
LEMMA HandleConnectionKeeps ==
  ASSUME IInv, NEW c \in Clients, HandleConnection(c)
  PROVE  IInv'
  <1>1. TypeOK /\ NoStrangerClosed /\ ThreadHasSocket /\ SocketIsOurs /\ Connected
    BY DEF IInv, Connected
  <1>2. /\ session[c].pc = "new"
        /\ session' = [session EXCEPT ![c].pc = "working"]
        /\ UNCHANGED <<oldaddr, server_fd, master, app, calls, mpc, client_fd, cancelled,
                       files, queue, strange, peer>>
    BY DEF HandleConnection, desc, thread, fs
  <1>3. /\ session' \in [Clients -> [pc : {"none", "new", "working", "done"}, fd : Fds \cup {NoFd}]]
        /\ \A d \in Clients : session'[d].fd = session[d].fd
        /\ session'[c].pc = "working"
        /\ \A d \in Clients : d # c => session'[d].pc = session[d].pc
    BY <1>1, <1>2, Types
  <1>4. \A d \in Clients : /\ Handed(d)' <=> Handed(d)
                           /\ InHands(d)' <=> InHands(d)
                           /\ session'[d].pc = "none" <=> session[d].pc = "none"
                           /\ session'[d].pc \in {"new", "working"} <=>
                                session[d].pc \in {"new", "working"}
    <2>1. ASSUME NEW d \in Clients
          PROVE  /\ session'[d].pc = "none" <=> session[d].pc = "none"
                 /\ session'[d].pc \in {"new", "working"} <=> session[d].pc \in {"new", "working"}
      BY <1>2, <1>3
    <2>2. QED BY <1>2, <1>3, <2>1 DEF Handed, InHands, Owns
  <1>5. TypeOK'
    <2>1. client_fd' \in Fds \cup (IF mpc' \in {"inhand", "giveup"} THEN {} ELSE {NoFd})
      BY <1>1, <1>2 DEF TypeOK
    <2>2. strange' \in BOOLEAN
      BY <1>1, <1>2 DEF TypeOK
    <2>3. QED BY <1>1, <1>2, <1>3, <2>1, <2>2, Types, TypesKept
  <1>6. ThreadHasSocket' /\ SocketIsOurs'
    BY <1>1, <1>2, ServerKept
  <1>7. HandsAreOurs'
    BY <1>1, <1>2, <1>4 DEF Connected, HandsAreOurs, Owns
  <1>8. OneSession'
    BY <1>1, <1>2, <1>4 DEF Connected, OneSession
  <1>9. OneNumber'
    BY <1>1, <1>2 DEF Connected, OneNumber, Owns
  <1>10. QED BY <1>1, <1>2, <1>5, <1>6, <1>7, <1>8, <1>9 DEF IInv, NoStrangerClosed

\* A session closes its own number, once.
LEMMA CloseSessionKeeps ==
  ASSUME IInv, NEW c \in Clients, HandleFails(c) \/ WorkDone(c)
  PROVE  IInv'
  <1>1. TypeOK /\ NoStrangerClosed /\ ThreadHasSocket /\ SocketIsOurs /\ Connected
    BY DEF IInv, Connected
  <1>2. session[c].pc \in {"new", "working"} /\ CloseSession(c)
    BY DEF HandleFails, WorkDone
  <1>3. Handed(c) /\ peer[c] = "accepted"
    BY <1>1, <1>2 DEF Connected, HandsAreOurs
  <1>4. PICK n \in Fds : n = session[c].fd /\ files[n] = Connection(c)
    BY <1>3 DEF Handed, Owns
  <1>5. /\ files' = [files EXCEPT ![n] = Free]
        /\ queue' = [queue EXCEPT ![n] = <<>>]
        /\ strange' = (strange \/ files[n] \notin {Connection(c)})
        /\ session' = [session EXCEPT ![c].pc = "done"]
        /\ peer' = [peer EXCEPT ![c] = "gone"]
        /\ UNCHANGED <<oldaddr, server_fd, master, app, calls, mpc, client_fd, cancelled>>
    BY <1>2, <1>4 DEF CloseSession, Close, Open, desc, thread
  <1>6. strange = FALSE /\ strange' = FALSE
    <2>1. strange = FALSE
      BY <1>1 DEF NoStrangerClosed, TypeOK
    <2>2. QED BY <1>4, <1>5, <2>1
  <1>7. /\ files' \in [Fds -> Files] /\ queue' \in [Fds -> Seq(Clients)]
        /\ \A f \in Fds : files'[f] = IF f = n THEN Free ELSE files[f]
        /\ \A f \in Fds : queue'[f] = IF f = n THEN <<>> ELSE queue[f]
    BY <1>1, <1>5, Types, KindsDiffer
  <1>8. /\ session' \in [Clients -> [pc : {"none", "new", "working", "done"}, fd : Fds \cup {NoFd}]]
        /\ \A d \in Clients : d # c => session'[d] = session[d]
        /\ session'[c].pc = "done"
    BY <1>1, <1>5, Types
  <1>9. /\ peer' \in [Clients -> {"away", "queued", "accepted", "failed", "gone"}]
        /\ \A d \in Clients : peer'[d] = IF d = c THEN "gone" ELSE peer[d]
    BY <1>1, <1>5, Types
  <1>10. /\ \A f \in Fds : \A d \in Clients : Owns(f, d)' <=> (Owns(f, d) /\ f # n)
         /\ \A f \in Fds : Owns(f, c) => f = n
         /\ \A d \in Clients : Owns(n, d) => d = c
    <2>1. \A f \in Fds : \A d \in Clients : Owns(f, d)' <=> (Owns(f, d) /\ f # n)
      BY <1>7, KindsDiffer DEF Owns
    <2>2. \A f \in Fds : Owns(f, c) => f = n
      BY <1>1, <1>4 DEF Connected, OneNumber, Owns
    <2>3. \A d \in Clients : Owns(n, d) => d = c
      BY <1>4, KindsDiffer DEF Owns
    <2>4. QED BY <2>1, <2>2, <2>3
  <1>11. /\ ~InHands(c)
         /\ \A d \in Clients : d # c => /\ Handed(d)' <=> Handed(d)
                                        /\ Owns(client_fd, d)' <=> Owns(client_fd, d)
         /\ ~Handed(c)' /\ ~Owns(client_fd, c)'
    <2>1. ~InHands(c)
      BY <1>1, <1>2 DEF Connected, OneSession
    <2>2. ASSUME NEW d \in Clients, d # c, NEW f \in Fds \cup {NoFd}
          PROVE  Owns(f, d) <=> f \in Fds /\ files'[f] = Connection(d)
      BY <1>10, <2>2 DEF Owns
    <2>3. \A d \in Clients : d # c => /\ Handed(d)' <=> Handed(d)
                                      /\ Owns(client_fd, d)' <=> Owns(client_fd, d)
      <3>1. client_fd \in Fds \cup {NoFd} /\ \A d \in Clients : session[d].fd \in Fds \cup {NoFd}
        BY <1>1, Types
      <3>2. QED BY <1>5, <1>8, <2>2, <3>1 DEF Handed, Owns
    <2>4. ~Handed(c)'
      BY <1>8 DEF Handed
    <2>5. ~Owns(client_fd, c)'
      BY <1>5, <1>10 DEF Owns
    <2>6. QED BY <2>1, <2>3, <2>4, <2>5
  <1>12. TypeOK'
    <2>1. client_fd' \in Fds \cup (IF mpc' \in {"inhand", "giveup"} THEN {} ELSE {NoFd})
      BY <1>1, <1>5 DEF TypeOK
    <2>2. QED BY <1>1, <1>5, <1>6, <1>7, <1>8, <1>9, <2>1, Types, TypesKept
  <1>13. ThreadHasSocket' /\ SocketIsOurs'
    <2>1. \A f \in Fds : files[f] \in Servers \cup {Socket} => files'[f] = files[f]
      BY <1>4, <1>7, KindsDiffer
    <2>2. QED BY <1>1, <1>5, <2>1, ServerKept
  <1>14. HandsAreOurs'
    <2>1. \A d \in Clients : d # c => (InHands(d)' <=> InHands(d))
      BY <1>5, <1>11 DEF InHands
    <2>2. mpc = "inhand" => \E d \in Clients : d # c /\ InHands(d) /\ peer[d] = "accepted"
      BY <1>1, <1>11 DEF Connected, HandsAreOurs
    <2>3. mpc = "giveup" => \E d \in Clients : d # c /\ Owns(client_fd, d) /\ peer[d] = "failed"
      BY <1>1, <1>3 DEF Connected, HandsAreOurs
    <2>4. mpc' = "inhand" => \E d \in Clients : InHands(d)' /\ peer'[d] = "accepted"
      BY <1>5, <1>9, <2>1, <2>2
    <2>5. mpc' = "giveup" => \E d \in Clients : Owns(client_fd, d)' /\ peer'[d] = "failed"
      BY <1>5, <1>9, <1>11, <2>3
    <2>6. \A d \in Clients : session'[d].pc \in {"new", "working"} => Handed(d)' /\ peer'[d] = "accepted"
      BY <1>1, <1>8, <1>9, <1>11 DEF Connected, HandsAreOurs
    <2>7. QED BY <2>4, <2>5, <2>6 DEF HandsAreOurs
  <1>15. OneSession'
    <2>1. ASSUME NEW d \in Clients
          PROVE  /\ peer'[d] \in {"away", "queued", "failed"} => session'[d].pc = "none"
                 /\ InHands(d)' => session'[d].pc = "none"
                 /\ peer'[d] = "accepted" => InHands(d)' \/ Handed(d)'
      <3>1. CASE d = c
        BY <1>9, <1>11, <3>1 DEF InHands
      <3>2. CASE d # c
        <4>1. InHands(d)' <=> InHands(d)
          BY <1>5, <1>11, <3>2 DEF InHands
        <4>2. QED BY <1>1, <1>8, <1>9, <1>11, <3>2, <4>1 DEF Connected, OneSession
      <3>3. QED BY <3>1, <3>2
    <2>2. QED BY <2>1 DEF OneSession
  <1>16. OneNumber'
    <2>1. \A d \in Clients : \A f, g \in Fds : (Owns(f, d) /\ Owns(g, d))' => f = g
      BY <1>1, <1>10 DEF Connected, OneNumber
    <2>2. \A d \in Clients : \A f \in Fds : Owns(f, d)' => peer'[d] \in {"accepted", "failed"}
      BY <1>1, <1>9, <1>10 DEF Connected, OneNumber
    <2>3. ASSUME NEW f \in Fds, NEW i \in 1 .. Len(queue'[f])
          PROVE  queue'[f] = queue[f] /\ peer'[queue'[f][i]] = "queued"
      <3>1. f # n /\ queue'[f] = queue[f]
        BY <1>7
      <3>2. queue[f][i] \in Clients
        BY <1>1, <3>1, Types
      <3>3. peer[queue[f][i]] = "queued"
        BY <1>1, <3>1 DEF Connected, OneNumber
      <3>4. QED BY <1>3, <1>9, <3>1, <3>2, <3>3
    <2>4. \A f, g \in Fds : \A i \in 1 .. Len(queue'[f]), j \in 1 .. Len(queue'[g]) :
            queue'[f][i] = queue'[g][j] => f = g /\ i = j
      BY <1>1, <2>3 DEF Connected, OneNumber
    <2>5. QED BY <2>1, <2>2, <2>3, <2>4 DEF OneNumber
  <1>17. QED BY <1>6, <1>12, <1>13, <1>14, <1>15, <1>16 DEF IInv, NoStrangerClosed

----------------------------------------------------------------------------
(* Clients, and the rest of the program.                                   *)

\* A client that has no number comes or goes: the connections of the others are what they
\* were.
LEMMA ClientKeeps ==
  ASSUME TypeOK, Connected, NEW c \in Clients, peer[c] \in {"away", "queued"},
         NEW s \in {"queued", "gone"},
         peer' = [peer EXCEPT ![c] = s],
         UNCHANGED <<mpc, client_fd, files, session>>
  PROVE  /\ HandsAreOurs' /\ OneSession'
         /\ \A d \in Clients : \A f, g \in Fds : (Owns(f, d) /\ Owns(g, d))' => f = g
         /\ \A d \in Clients : \A f \in Fds : Owns(f, d)' => peer'[d] \in {"accepted", "failed"}
  <1>1. \A d \in Clients : peer'[d] = IF d = c THEN s ELSE peer[d]
    BY Types
  <1>2. \A f \in Fds \cup {NoFd}, d \in Clients : Owns(f, d)' <=> Owns(f, d)
    BY DEF Owns
  <1>3. \A d \in Clients : /\ InHands(d)' <=> InHands(d)
                           /\ Handed(d)' <=> Handed(d)
                           /\ Owns(client_fd, d)' <=> Owns(client_fd, d)
    BY DEF InHands, Handed, Owns
  <1>4. HandsAreOurs'
    BY <1>1, <1>3 DEF Connected, HandsAreOurs
  <1>5. OneSession'
    BY <1>1, <1>3 DEF Connected, OneSession
  <1>6. QED BY <1>1, <1>2, <1>4, <1>5 DEF Connected, OneNumber

\* Who connects waits in one queue, at its end.
LEMMA ConnectKeeps ==
  ASSUME IInv, NEW c \in Clients, Connect(c)
  PROVE  IInv'
  <1>1. TypeOK /\ NoStrangerClosed /\ ThreadHasSocket /\ SocketIsOurs /\ Connected
    BY DEF IInv, Connected
  <1>2. /\ peer[c] = "away" /\ peer' = [peer EXCEPT ![c] = "queued"]
        /\ UNCHANGED <<oldaddr, server_fd, master, app, calls, mpc, client_fd, cancelled,
                       files, strange, session>>
    BY DEF Connect, desc, thread
  <1>3. PICK f \in Fds : queue' = [queue EXCEPT ![f] = Append(@, c)]
    BY DEF Connect
  <1>4. queue[f] \in Seq(Clients)
    BY <1>1, Types
  <1>5. /\ queue' \in [Fds -> Seq(Clients)]
        /\ \A g \in Fds : g # f => queue'[g] = queue[g]
        /\ queue'[f] = Append(queue[f], c)
    BY <1>1, <1>3, <1>4, Types
  <1>6. /\ peer' \in [Clients -> {"away", "queued", "accepted", "failed", "gone"}]
        /\ \A d \in Clients : peer'[d] = IF d = c THEN "queued" ELSE peer[d]
    BY <1>1, <1>2, Types
  <1>7. ASSUME NEW g \in Fds, NEW i \in 1 .. Len(queue'[g])
        PROVE  \/ g = f /\ i = Len(queue[f]) + 1 /\ queue'[g][i] = c
               \/ /\ i \in 1 .. Len(queue[g]) /\ queue'[g][i] = queue[g][i]
                  /\ queue[g][i] \in Clients /\ peer[queue[g][i]] = "queued" /\ queue[g][i] # c
    <2>1. queue[g] \in Seq(Clients)
      BY <1>1, Types
    <2>2. ASSUME i \in 1 .. Len(queue[g])
          PROVE  queue[g][i] \in Clients /\ peer[queue[g][i]] = "queued" /\ queue[g][i] # c
      <3>1. peer[queue[g][i]] = "queued"
        BY <1>1, <2>2 DEF Connected, OneNumber
      <3>2. QED BY <1>2, <2>1, <2>2, <3>1
    <2>3. CASE g # f
      BY <1>5, <2>2, <2>3
    <2>4. CASE g = f
      <3>1. Len(queue'[g]) = Len(queue[f]) + 1 /\ Len(queue[f]) \in Nat
        BY <1>4, <1>5, <2>4
      <3>2. CASE i = Len(queue[f]) + 1
        BY <1>4, <1>5, <2>4, <3>2
      <3>3. CASE i # Len(queue[f]) + 1
        <4>1. i \in 1 .. Len(queue[g])
          BY <2>4, <3>1, <3>3
        <4>2. queue'[g][i] = queue[g][i]
          BY <1>4, <1>5, <2>4, <4>1
        <4>3. QED BY <2>2, <4>1, <4>2
      <3>4. QED BY <3>2, <3>3
    <2>5. QED BY <2>3, <2>4
  <1>8. TypeOK'
    <2>1. client_fd' \in Fds \cup (IF mpc' \in {"inhand", "giveup"} THEN {} ELSE {NoFd})
      BY <1>1, <1>2 DEF TypeOK
    <2>2. strange' \in BOOLEAN
      BY <1>1, <1>2 DEF TypeOK
    <2>3. QED BY <1>1, <1>2, <1>5, <1>6, <2>1, <2>2, Types, TypesKept
  <1>9. ThreadHasSocket' /\ SocketIsOurs'
    BY <1>1, <1>2, ServerKept
  <1>10. /\ HandsAreOurs' /\ OneSession'
         /\ \A d \in Clients : \A g, h \in Fds : (Owns(g, d) /\ Owns(h, d))' => g = h
         /\ \A d \in Clients : \A g \in Fds : Owns(g, d)' => peer'[d] \in {"accepted", "failed"}
    BY <1>1, <1>2, ClientKeeps
  <1>11. \A g \in Fds : \A i \in 1 .. Len(queue'[g]) : peer'[queue'[g][i]] = "queued"
    BY <1>6, <1>7
  <1>12. \A g, h \in Fds : \A i \in 1 .. Len(queue'[g]), j \in 1 .. Len(queue'[h]) :
           queue'[g][i] = queue'[h][j] => g = h /\ i = j
    <2>1. SUFFICES ASSUME NEW g \in Fds, NEW h \in Fds,
                          NEW i \in 1 .. Len(queue'[g]), NEW j \in 1 .. Len(queue'[h]),
                          queue'[g][i] = queue'[h][j]
                   PROVE  g = h /\ i = j
      OBVIOUS
    <2>2. \/ g = f /\ i = Len(queue[f]) + 1 /\ h = f /\ j = Len(queue[f]) + 1
          \/ /\ i \in 1 .. Len(queue[g]) /\ j \in 1 .. Len(queue[h])
             /\ queue[g][i] = queue[h][j]
      BY <1>7, <2>1
    <2>3. QED BY <1>1, <2>2 DEF Connected, OneNumber
  <1>13. OneNumber'
    BY <1>10, <1>11, <1>12 DEF OneNumber
  <1>14. QED BY <1>1, <1>2, <1>8, <1>9, <1>10, <1>13 DEF IInv, NoStrangerClosed

\* Who goes away before he was accepted leaves the one queue he is in.
LEMMA AbortKeeps ==
  ASSUME IInv, NEW c \in Clients, Abort(c)
  PROVE  IInv'
  <1>1. TypeOK /\ NoStrangerClosed /\ ThreadHasSocket /\ SocketIsOurs /\ Connected
    BY DEF IInv, Connected
  <1>2. /\ peer' = [peer EXCEPT ![c] = "gone"]
        /\ UNCHANGED <<oldaddr, server_fd, master, app, calls, mpc, client_fd, cancelled,
                       files, strange, session>>
    BY DEF Abort, desc, thread
  <1>a. PICK f \in Fds : \E k \in DOMAIN queue[f] :
          queue[f][k] = c /\ queue' = [queue EXCEPT ![f] = RemoveAt(@, k)]
    BY DEF Abort
  <1>3. PICK k \in DOMAIN queue[f] :
          queue[f][k] = c /\ queue' = [queue EXCEPT ![f] = RemoveAt(@, k)]
    BY <1>a
  <1>4. queue[f] \in Seq(Clients) /\ k \in 1 .. Len(queue[f]) /\ Len(queue[f]) \in Nat
    BY <1>1, <1>3, Types
  <1>5. /\ RemoveAt(queue[f], k) \in Seq(Clients)
        /\ Len(RemoveAt(queue[f], k)) = Len(queue[f]) - 1
        /\ \A j \in 1 .. Len(queue[f]) - 1 :
             RemoveAt(queue[f], k)[j] = queue[f][IF j < k THEN j ELSE j + 1]
    BY <1>4, RemovedAt
  <1>6. /\ queue' \in [Fds -> Seq(Clients)]
        /\ \A g \in Fds : g # f => queue'[g] = queue[g]
        /\ queue'[f] = RemoveAt(queue[f], k)
    BY <1>1, <1>3, <1>5, Types
  <1>7. /\ peer' \in [Clients -> {"away", "queued", "accepted", "failed", "gone"}]
        /\ \A d \in Clients : peer'[d] = IF d = c THEN "gone" ELSE peer[d]
    BY <1>1, <1>2, Types
  <1>8. peer[c] = "queued"
    BY <1>1, <1>3, <1>4 DEF Connected, OneNumber
  <1> DEFINE up(g, i) == IF g = f /\ ~(i < k) THEN i + 1 ELSE i
  <1>9. ASSUME NEW g \in Fds, NEW i \in 1 .. Len(queue'[g])
        PROVE  /\ up(g, i) \in 1 .. Len(queue[g]) /\ queue'[g][i] = queue[g][up(g, i)]
               /\ queue[g][up(g, i)] \in Clients /\ queue[g][up(g, i)] # c
    <2>1. queue[g] \in Seq(Clients)
      BY <1>1, Types
    <2>2. /\ up(g, i) \in 1 .. Len(queue[g]) /\ queue'[g][i] = queue[g][up(g, i)]
          /\ ~(g = f /\ up(g, i) = k)
      <3>1. CASE g # f
        BY <1>6, <3>1
      <3>2. CASE g = f
        <4>1. i \in 1 .. Len(queue[f]) - 1
          BY <1>5, <1>6, <3>2
        <4>2. queue'[g][i] = queue[f][IF i < k THEN i ELSE i + 1]
          BY <1>5, <1>6, <3>2, <4>1
        <4>3. i \in Nat /\ k \in Nat
          BY <1>4, <4>1
        <4>4. QED BY <1>4, <3>2, <4>1, <4>2, <4>3
      <3>3. QED BY <3>1, <3>2
    <2> HIDE DEF up
    <2>3. queue[g][up(g, i)] \in Clients
      BY <2>1, <2>2
    <2>4. queue[g][up(g, i)] # queue[f][k]
      BY <1>1, <1>4, <2>2 DEF Connected, OneNumber
    <2>5. QED BY <1>3, <2>2, <2>3, <2>4
  <1>10. \A g \in Fds : \A i, j \in 1 .. Len(queue'[g]) : up(g, i) = up(g, j) => i = j
    <2>1. \A g \in Fds : Len(queue'[g]) \in Nat
      BY <1>6
    <2>2. k \in Nat
      BY <1>4
    <2>3. QED BY <2>1, <2>2
  <1> HIDE DEF up
  <1>11. TypeOK'
    <2>1. client_fd' \in Fds \cup (IF mpc' \in {"inhand", "giveup"} THEN {} ELSE {NoFd})
      BY <1>1, <1>2 DEF TypeOK
    <2>2. strange' \in BOOLEAN
      BY <1>1, <1>2 DEF TypeOK
    <2>3. QED BY <1>1, <1>2, <1>6, <1>7, <2>1, <2>2, Types, TypesKept
  <1>12. ThreadHasSocket' /\ SocketIsOurs'
    BY <1>1, <1>2, ServerKept
  <1>13. /\ HandsAreOurs' /\ OneSession'
         /\ \A d \in Clients : \A g, h \in Fds : (Owns(g, d) /\ Owns(h, d))' => g = h
         /\ \A d \in Clients : \A g \in Fds : Owns(g, d)' => peer'[d] \in {"accepted", "failed"}
    BY <1>1, <1>2, <1>8, ClientKeeps
  <1>14. ASSUME NEW g \in Fds, NEW i \in 1 .. Len(queue'[g])
         PROVE  peer'[queue'[g][i]] = "queued"
    <2>1. peer[queue[g][up(g, i)]] = "queued"
      BY <1>1, <1>9 DEF Connected, OneNumber
    <2>2. QED BY <1>7, <1>9, <2>1
  <1>15. ASSUME NEW g \in Fds, NEW h \in Fds,
                NEW i \in 1 .. Len(queue'[g]), NEW j \in 1 .. Len(queue'[h]),
                queue'[g][i] = queue'[h][j]
         PROVE  g = h /\ i = j
    <2>1. queue[g][up(g, i)] = queue[h][up(h, j)]
      BY <1>9, <1>15
    <2>2. up(g, i) \in 1 .. Len(queue[g]) /\ up(h, j) \in 1 .. Len(queue[h])
      BY <1>9
    <2>3. g = h /\ up(g, i) = up(h, j)
      BY <1>1, <2>1, <2>2 DEF Connected, OneNumber
    <2>4. QED BY <1>10, <2>3
  <1>16. OneNumber'
    BY <1>13, <1>14, <1>15 DEF OneNumber
  <1>17. QED BY <1>1, <1>2, <1>11, <1>12, <1>13, <1>16 DEF IInv, NoStrangerClosed

\* The rest of the program opens free numbers and closes its own.
LEMMA OtherKeeps ==
  ASSUME IInv, OtherOpens \/ \E f \in Fds : OtherCloses(f)
  PROVE  IInv'
  <1>1. TypeOK /\ NoStrangerClosed /\ ThreadHasSocket /\ SocketIsOurs /\ Connected
    BY DEF IInv, Connected
  <1>2. UNCHANGED <<oldaddr, server_fd, master, app, calls, mpc, client_fd, cancelled,
                    queue, strange, peer, session>>
    BY DEF OtherOpens, OtherCloses, desc, thread
  <1>3. PICK f \in Fds, what \in {Free, Other} :
          /\ files[f] \in {Free, Other}
          /\ files' = [files EXCEPT ![f] = what]
    BY NewFdIsFree DEF OtherOpens, OtherCloses, Open
  <1>4. /\ files' \in [Fds -> Files]
        /\ \A g \in Fds : files'[g] = files[g] \/ (files[g] \in {Free, Other} /\ files'[g] \in {Free, Other})
    BY <1>1, <1>3, Types, KindsDiffer
  <1>5. TypeOK'
    <2>1. client_fd' \in Fds \cup (IF mpc' \in {"inhand", "giveup"} THEN {} ELSE {NoFd})
      BY <1>1, <1>2 DEF TypeOK
    <2>2. strange' \in BOOLEAN
      BY <1>1, <1>2 DEF TypeOK
    <2>3. QED BY <1>1, <1>2, <1>4, <2>1, <2>2, Types, TypesKept
  <1>6. ThreadHasSocket' /\ SocketIsOurs'
    <2>1. \A g \in Fds : files[g] \in Servers \cup {Socket} => files'[g] = files[g]
      BY <1>4, KindsDiffer
    <2>2. QED BY <1>1, <1>2, <2>1, ServerKept
  <1>7. Connected'
    <2>1. \A c \in Clients : \A g \in Fds : Owns(g, c)' <=> Owns(g, c)
      BY <1>4, KindsDiffer DEF Owns
    <2>2. QED BY <1>1, <1>2, <2>1, ConnectionsKept
  <1>8. QED BY <1>1, <1>2, <1>5, <1>6, <1>7 DEF IInv, Connected, NoStrangerClosed

----------------------------------------------------------------------------
(* The theorems.                                                           *)

LEMMA InitIInv ==
  ASSUME Init
  PROVE  IInv
  <1>1. TypeOK
    <2>1. /\ files \in [Fds -> Files] /\ queue \in [Fds -> Seq(Clients)]
          /\ calls \in 0 .. MaxCalls
      BY ConstantsAssumption, KindsDiffer DEF Init
    <2>2. app \in [at : {"idle", "join", "close", "socket", "listen"}, op : {"start", "stop"},
                   addr : Addrs \cup {Null}, ok : BOOLEAN]
      BY DEF Init
    <2>3. QED BY <2>1, <2>2 DEF Init, TypeOK, Files
  <1>2. NoStrangerClosed /\ ThreadHasSocket /\ SocketIsOurs
    BY DEF Init, NoStrangerClosed, ThreadHasSocket, SocketIsOurs
  <1>3. \A f \in Fds : \A c \in Clients : ~Owns(f, c)
    BY KindsDiffer DEF Init, Owns
  <1>4. \A f \in Fds : Len(queue[f]) = 0
    BY DEF Init
  <1>5. HandsAreOurs /\ OneSession
    BY DEF Init, HandsAreOurs, OneSession, InHands
  <1>6. OneNumber
    BY <1>3, <1>4 DEF OneNumber
  <1>7. QED BY <1>1, <1>2, <1>5, <1>6 DEF IInv

LEMMA StepIInv ==
  ASSUME IInv, [Next]_vars
  PROVE  IInv'
  <1>1. CASE (\E a \in Addrs \cup {Null} : StartSame(a) \/ Start(a)) \/ Stop
    BY <1>1, CallKeeps
  <1>2. CASE InCall
    BY <1>2, JoinKeeps, CloseServerKeeps, OpenServerKeeps DEF InCall
  <1>3. CASE Mainloop
    BY <1>3, WaitingKeeps, AcceptKeeps, HandOverKeeps, GiveUpKeeps DEF Mainloop
  <1>4. ASSUME NEW c \in Clients,
               HandleConnection(c) \/ HandleFails(c) \/ WorkDone(c) \/ Connect(c) \/ Abort(c)
        PROVE  IInv'
    BY <1>4, HandleConnectionKeeps, CloseSessionKeeps, ConnectKeeps, AbortKeeps
  <1>5. CASE OtherOpens \/ \E f \in Fds : OtherCloses(f)
    BY <1>5, OtherKeeps
  <1>6. CASE UNCHANGED vars
    <2>1. UNCHANGED <<oldaddr, server_fd, master, app, calls, mpc, client_fd, cancelled,
                      files, queue, strange, peer, session>>
      BY <1>6 DEF vars, desc, thread, fs
    <2>2. TypeOK'
      <3>1. TypeOK
        BY DEF IInv
      <3>2. /\ client_fd' \in Fds \cup (IF mpc' \in {"inhand", "giveup"} THEN {} ELSE {NoFd})
            /\ strange' \in BOOLEAN
        BY <2>1, <3>1 DEF TypeOK
      <3>3. oldaddr' = oldaddr
        BY <1>6 DEF vars, desc
      <3>4. QED BY <2>1, <3>1, <3>2, <3>3, Types, TypesKept
    <2>3. NoStrangerClosed' /\ ThreadHasSocket' /\ SocketIsOurs'
      BY <2>1 DEF IInv, NoStrangerClosed, ThreadHasSocket, SocketIsOurs, Servers
    <2>4. \A c \in Clients : /\ InHands(c)' <=> InHands(c)
                             /\ Handed(c)' <=> Handed(c)
                             /\ \A f : Owns(f, c)' <=> Owns(f, c)
      BY <2>1 DEF InHands, Handed, Owns
    <2>5. HandsAreOurs' /\ OneSession'
      BY <2>1, <2>4 DEF IInv, HandsAreOurs, OneSession, Owns
    <2>6. OneNumber'
      BY <2>1 DEF IInv, OneNumber, Owns
    <2>7. QED BY <2>2, <2>3, <2>5, <2>6 DEF IInv
  <1>7. QED BY <1>1, <1>2, <1>3, <1>4, <1>5, <1>6 DEF Next

LEMMA Invariant == Spec => []IInv
  BY InitIInv, StepIInv, PTL DEF Spec

\* Whatever is started, stopped, cancelled or out of numbers, nobody closes a number that has
\* become another one's file, and the accepting thread accepts on the server's socket.
THEOREM OwnFilesOnlyAlways == Spec => []OwnFilesOnly
  <1>1. IInv => OwnFilesOnly
    <2>1. SUFFICES ASSUME IInv PROVE OwnFilesOnly
      OBVIOUS
    <2>2. ThreadHasSocket
      BY <2>1 DEF IInv
    <2>3. AcceptsOnItsSocket
      BY <2>2, KindsDiffer DEF ThreadHasSocket, AcceptsOnItsSocket
    <2>4. QED BY <2>1, <2>3 DEF IInv, OwnFilesOnly
  <1>2. QED BY <1>1, Invariant, PTL

\* A connection that was accepted has at every moment one thread that will close it: a stop or
\* a restart that cancels the accepting thread loses none.
THEOREM ConnectionsHeldAlways == Spec => []ConnectionsHeld
  <1>1. IInv => ConnectionsHeld
    <2>1. SUFFICES ASSUME IInv, NEW c \in Clients
                   PROVE  LET inHand == mpc = "inhand" /\ files[client_fd] = Connection(c)
                              handed == /\ session[c].pc \in {"new", "working"}
                                        /\ files[session[c].fd] = Connection(c)
                          IN  /\ peer[c] = "accepted" => inHand \/ handed
                              /\ ~(inHand /\ handed)
                              /\ session[c].pc \in {"new", "working"} => handed
      BY DEF ConnectionsHeld
    <2>2. mpc = "inhand" => client_fd \in Fds
      BY <2>1, Types DEF IInv
    <2>3. session[c].pc \in {"new", "working"} => Handed(c)
      BY <2>1 DEF IInv, HandsAreOurs
    <2>4. /\ peer[c] = "accepted" => InHands(c) \/ Handed(c)
          /\ InHands(c) => session[c].pc = "none"
      BY <2>1 DEF IInv, OneSession
    <2>5. QED BY <2>2, <2>3, <2>4 DEF InHands, Handed, Owns
  <1>2. QED BY <1>1, Invariant, PTL
=============================================================================
