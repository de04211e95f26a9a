------------------------------ MODULE Console ------------------------------
(***************************************************************************)
(* The remote consoles of src/src/spider.c: the slots of consoles[], the   *)
(* thread that accepts clients and fills slots, one thread by console that *)
(* executes the client's commands (module Cli) and forwards log lines, and *)
(* the fan-out of a line to every slot, which takes no lock.               *)
(*                                                                         *)
(* The process's table of files is explicit, as in TcpServer: the lowest   *)
(* free number is given out, and other parts of the program use numbers    *)
(* too.  SIGPIPE is not caught: a write to a peer that has gone ends the   *)
(* process.                                                                *)
(***************************************************************************)
EXTENDS Cli

CONSTANTS
  NumSlots,   \* SPD_MAX_CONNECTS
  Clients,    \* each connects once
  NoClient,
  NumFds,     \* the size of the table of files
  Mute,       \* spd_opt_mute
  Listener,   \* the thread that accepts
  Registrars  \* the threads of the program that register commands

Slots == 1 .. NumSlots
Fds == 1 .. NumFds
NoFd == -1

ASSUME ConsoleAssumption ==
  /\ NumSlots \in Nat \ {0} /\ NumFds \in Nat
  /\ Threads = Slots \cup Registrars
  /\ NoClient \notin Clients /\ Listener \notin Slots

VARIABLES
  files,      \* by number: what is open
  strange,    \* history: somebody has closed a number that was not his file
  others,     \* the file of the rest of the program: "away", "open", "closed"
  con,        \* consoles[]: fd and the pair p
  peer,       \* by client: "away", "queued", "accepted", "gone" (closed by the server)
  left,       \* the clients that have hung up
  spoke,      \* the clients that have sent their command
  lines,      \* the clients whose pair holds a line to forward
  listen,     \* the listener: its place, the slot it looks at, the number and client at hand
  serve,      \* by slot: the thread's place, its client, what poll has reported
  fan,        \* by thread that announces: the slot it looks at, 0 if it does not announce,
              \* whether it is about to write, and to whose console
  strayed,    \* history: a line for a console that was being served went elsewhere
  verbose     \* option_verbose > 2: connections are announced

conVars == <<files, strange, others, con, peer, left, spoke, lines, listen, serve, fan, strayed, verbose>>
vars == <<cliVars, conVars>>

Free == <<"free">>
Conn(c) == <<"conn", c>>
P0(c) == <<"p0", c>>
P1(c) == <<"p1", c>>
Other == <<"other">>

Announcers == Slots \cup {Listener}
Silent == [slot |-> 0, write |-> FALSE, to |-> NoClient]

\* The start of an instance in which "done" calls of the registry are used up, the
\* clients in "out" have come and gone, those in "queued" wait to be accepted, and those in
\* "quiet" do not type; if there are any, the rest of the program opens no file.
InitWith(done, out, queued, quiet) ==
  /\ CliInit /\ regs = done /\ verbose \in BOOLEAN
  /\ files = [n \in Fds |-> Free] /\ strange = FALSE
  /\ others = IF quiet = {} THEN "away" ELSE "closed"
  /\ con = [x \in Slots |-> [fd |-> NoFd, p0 |-> 0, p1 |-> 0]]
  /\ peer = [c \in Clients |->
               IF c \in out THEN "gone" ELSE IF c \in queued THEN "queued" ELSE "away"]
  /\ left = {} /\ spoke = quiet /\ lines = {}
  /\ listen = [at |-> "poll", slot |-> 1, fd |-> NoFd, client |-> NoClient]
  /\ serve = [x \in Slots |-> [at |-> "none", client |-> NoClient, ev |-> {}]]
  /\ fan = [w \in Announcers |-> Silent] /\ strayed = FALSE

Init == InitWith(0, {}, {}, {})

----------------------------------------------------------------------------
(* Files.                                                                  *)

FreeFds == {n \in Fds : files[n] = Free}
Lowest(S) == CHOOSE n \in S : \A m \in S : n <= m
NewFd == Lowest(FreeFds)

FileAt(n) == IF n \in Fds THEN files[n] ELSE Free
IsOpen(what) == \E n \in Fds : files[n] = what

\* Somebody closes number n, which he takes to be his file.
Close(n, his) ==
  /\ files' = [m \in Fds |-> IF m = n THEN Free ELSE files[m]]
  /\ strange' = (strange \/ FileAt(n) # his)

OtherOpens ==
  /\ ~dead /\ others = "away" /\ FreeFds # {}
  /\ others' = "open"
  /\ files' = [files EXCEPT ![NewFd] = Other]
  /\ UNCHANGED <<cliVars, strange, con, peer, left, spoke, lines, listen, serve, fan, strayed, verbose>>

OtherCloses ==
  /\ ~dead /\ others = "open"
  /\ others' = "closed"
  /\ \E n \in Fds : files[n] = Other /\ Close(n, Other)
  /\ UNCHANGED <<cliVars, con, peer, left, spoke, lines, listen, serve, fan, strayed, verbose>>

----------------------------------------------------------------------------
(* Clients.                                                                *)

Connect(c) ==
  /\ ~dead /\ peer[c] = "away"
  /\ peer' = [peer EXCEPT ![c] = "queued"]
  /\ UNCHANGED <<cliVars, files, strange, others, con, left, spoke, lines, listen, serve,
                 fan, strayed, verbose>>

Hangup(c) ==
  /\ ~dead /\ peer[c] = "accepted" /\ c \notin left
  /\ left' = left \cup {c}
  /\ UNCHANGED <<cliVars, files, strange, others, con, peer, spoke, lines, listen, serve,
                 fan, strayed, verbose>>

\* fdprint to a client: SIGPIPE if he has gone.
Tell(c) == dead' = (c \in left)

----------------------------------------------------------------------------
(* listener_thread.                                                        *)

Listens(at) == ~dead /\ listen.at = at

\* The length given to accept is not initialised, so that accept may fail after it has
\* taken the client from the queue.  A failure for want of a number changes nothing.
Accept(c) ==
  /\ Listens("poll") /\ fan[Listener] = Silent
  /\ peer[c] = "queued" /\ FreeFds # {}
  /\ \/ /\ peer' = [peer EXCEPT ![c] = "accepted"]
        /\ files' = [files EXCEPT ![NewFd] = Conn(c)]
        /\ listen' = [at |-> "scan", slot |-> 1, fd |-> NewFd, client |-> c]
     \/ /\ peer' = [peer EXCEPT ![c] = "gone"]
        /\ UNCHANGED <<files, listen>>
  /\ UNCHANGED <<cliVars, strange, others, con, left, spoke, lines, serve, fan, strayed, verbose>>

ScanBusy ==
  /\ Listens("scan") /\ listen.slot \in Slots
  /\ con[listen.slot].fd >= 0
  /\ listen' = [listen EXCEPT !.slot = @ + 1]
  /\ UNCHANGED <<cliVars, files, strange, others, con, peer, left, spoke, lines, serve,
                 fan, strayed, verbose>>

Listening == [at |-> "poll", slot |-> 1, fd |-> NoFd, client |-> NoClient]

\* The client is told that there is no slot, or no pair, and closed.
Refuse ==
  /\ Tell(listen.client)
  /\ Close(listen.fd, Conn(listen.client))
  /\ peer' = [peer EXCEPT ![listen.client] = "gone"]
  /\ listen' = Listening
  /\ UNCHANGED <<registryVars, call, others, left, spoke, lines, serve, fan, strayed, verbose>>

ScanFull ==
  /\ Listens("scan") /\ listen.slot \notin Slots
  /\ Refuse
  /\ UNCHANGED con

FreeSlot == Listens("scan") /\ listen.slot \in Slots /\ con[listen.slot].fd < 0

\* socketpair, then the slot is taken by setting its fd.
MakePair ==
  /\ FreeSlot /\ Cardinality(FreeFds) >= 2
  /\ LET a == NewFd
         b == Lowest(FreeFds \ {a})
     IN  /\ files' = [files EXCEPT ![a] = P0(listen.client), ![b] = P1(listen.client)]
         /\ con' = [con EXCEPT ![listen.slot].p0 = a, ![listen.slot].p1 = b]
  /\ listen' = [listen EXCEPT !.at = "take"]
  /\ UNCHANGED <<cliVars, strange, others, peer, left, spoke, lines, serve, fan, strayed, verbose>>

PairFails ==
  /\ FreeSlot
  /\ con' = [con EXCEPT ![listen.slot].fd = NoFd]
  /\ Refuse

TakeSlot ==
  /\ Listens("take")
  /\ con' = [con EXCEPT ![listen.slot].fd = listen.fd]
  /\ listen' = [listen EXCEPT !.at = "spawn"]
  /\ UNCHANGED <<cliVars, files, strange, others, peer, left, spoke, lines, serve, fan, strayed, verbose>>

Spawn ==
  /\ Listens("spawn")
  /\ serve' = [serve EXCEPT ![listen.slot] =
                 [at |-> "greet", client |-> listen.client, ev |-> {}]]
  /\ listen' = [listen EXCEPT !.at = "announce"]
  /\ UNCHANGED <<cliVars, files, strange, others, con, peer, left, spoke, lines, fan, strayed, verbose>>

\* The two ends of the pair, then the slot and the client.
SpawnFails ==
  /\ Listens("spawn")
  /\ LET c == listen.client  x == listen.slot IN
     /\ files' = [n \in Fds |-> IF n \in {con[x].p0, con[x].p1} THEN Free ELSE files[n]]
     /\ strange' = (strange \/ FileAt(con[x].p0) # P0(c) \/ FileAt(con[x].p1) # P1(c))
  /\ listen' = [listen EXCEPT !.at = "giveup"]
  /\ UNCHANGED <<cliVars, others, con, peer, left, spoke, lines, serve, fan, strayed, verbose>>

GiveUp ==
  /\ Listens("giveup")
  /\ con' = [con EXCEPT ![listen.slot].fd = NoFd]
  /\ Close(listen.fd, Conn(listen.client))
  /\ peer' = [peer EXCEPT ![listen.client] = "gone"]
  /\ listen' = Listening
  /\ lines' = lines \ {listen.client}
  /\ UNCHANGED <<cliVars, others, left, spoke, serve, fan, strayed, verbose>>

\* The slot's fd is read again: the console may be over already.
Announce ==
  /\ Listens("announce")
  /\ listen' = Listening
  /\ fan' = [fan EXCEPT ![Listener] =
               IF verbose /\ con[listen.slot].fd > 0 THEN [@ EXCEPT !.slot = 1] ELSE @]
  /\ UNCHANGED <<cliVars, files, strange, others, con, peer, left, spoke, lines, serve, strayed, verbose>>

----------------------------------------------------------------------------
(* netconsole_thread.                                                      *)

At(x, at) == ~dead /\ serve[x].at = at /\ fan[x] = Silent
Move(x, at) == serve' = [serve EXCEPT ![x].at = at]

Greet(x) ==
  /\ At(x, "greet")
  /\ Tell(serve[x].client)
  /\ Move(x, "poll")
  /\ UNCHANGED <<registryVars, call, files, strange, others, con, peer, left, spoke, lines,
                 listen, fan, strayed, verbose>>

\* What poll reports; the client's hangup and his command both make him readable.
Poll(x) ==
  /\ At(x, "poll")
  /\ LET c == serve[x].client IN
     \E ev \in SUBSET {"client", "pair"} :
       /\ ev # {}
       /\ "pair" \in ev <=> c \in lines
       /\ IF c \in left THEN "client" \in ev ELSE "client" \in ev => c \notin spoke
       /\ serve' = [serve EXCEPT ![x].at = "client", ![x].ev = ev]
  /\ UNCHANGED <<cliVars, files, strange, others, con, peer, left, spoke, lines, listen,
                 fan, strayed, verbose>>

\* read returns 0: the loop is left, whatever else poll has reported.  A command that
\* was sent before the hangup is read first.
ClientLeftGoesOn(x) ==
  /\ At(x, "client") /\ "client" \in serve[x].ev
  /\ serve[x].client \in left
  /\ Move(x, "pair")
  /\ UNCHANGED <<cliVars, files, strange, others, con, peer, left, spoke, lines, listen,
                 fan, strayed, verbose>>
ClientLeft(x) ==
  /\ At(x, "client") /\ "client" \in serve[x].ev
  /\ serve[x].client \in left
  /\ Move(x, "end")
  /\ UNCHANGED <<cliVars, files, strange, others, con, peer, left, spoke, lines, listen,
                 fan, strayed, verbose>>

\* spd_cli_command, which the module Cli goes on with.
ClientSpeaks(x) ==
  /\ At(x, "client") /\ "client" \in serve[x].ev
  /\ serve[x].client \notin spoke
  /\ spoke' = spoke \cup {serve[x].client}
  /\ \E cmd \in Commands : Execute(x, cmd)
  /\ Move(x, "command")
  /\ UNCHANGED <<files, strange, others, con, peer, left, lines, listen, fan, strayed, verbose>>

NoInput(x) ==
  /\ At(x, "client") /\ "client" \notin serve[x].ev
  /\ Move(x, "pair")
  /\ UNCHANGED <<cliVars, files, strange, others, con, peer, left, spoke, lines, listen,
                 fan, strayed, verbose>>

\* The command is over; what it printed, if anything, went to the client.
CommandDone(x) ==
  /\ At(x, "command") /\ call[x].at = "idle"
  /\ dead' \in {FALSE, serve[x].client \in left}
  /\ Move(x, "pair")
  /\ UNCHANGED <<registryVars, call, files, strange, others, con, peer, left, spoke, lines,
                 listen, fan, strayed, verbose>>

\* The lines read from the pair are written to the client.
Forward(x) ==
  /\ At(x, "pair")
  /\ IF "pair" \in serve[x].ev
     THEN Tell(serve[x].client) /\ lines' = lines \ {serve[x].client}
     ELSE UNCHANGED <<dead, lines>>
  /\ Move(x, "poll")
  /\ UNCHANGED <<registryVars, call, files, strange, others, con, peer, left, spoke, listen,
                 fan, strayed, verbose>>

\* The end is announced, to this console as well, before anything is closed.
End(x) ==
  /\ At(x, "end")
  /\ Move(x, "closefd")
  /\ fan' = IF verbose THEN [fan EXCEPT ![x].slot = 1] ELSE fan
  /\ UNCHANGED <<cliVars, files, strange, others, con, peer, left, spoke, lines, listen, strayed, verbose>>

\* The client's number is free for another while the slot still names it.
CloseFdAndClear(x) ==
  /\ At(x, "closefd")
  /\ con' = [con EXCEPT ![x].fd = NoFd]
  /\ Close(con[x].fd, Conn(serve[x].client))
  /\ peer' = [peer EXCEPT ![serve[x].client] = "gone"]
  /\ Move(x, "closep0")
  /\ UNCHANGED <<cliVars, others, left, spoke, lines, listen, fan, strayed, verbose>>
ClosePairFirst(x) ==
  /\ At(x, "closefd")
  /\ Close(con[x].p1, P1(serve[x].client))
  /\ Move(x, "closep0")
  /\ UNCHANGED <<cliVars, others, con, peer, left, spoke, lines, listen, fan, strayed, verbose>>
CloseFd(x) ==
  /\ At(x, "closefd")
  /\ Close(con[x].fd, Conn(serve[x].client))
  /\ peer' = [peer EXCEPT ![serve[x].client] = "gone"]
  /\ Move(x, "closep0")
  /\ UNCHANGED <<cliVars, others, con, left, spoke, lines, listen, fan, strayed, verbose>>

CloseP0(x) ==
  /\ At(x, "closep0")
  /\ Close(con[x].p0, P0(serve[x].client))
  /\ Move(x, "closep1")
  /\ UNCHANGED <<cliVars, others, con, peer, left, spoke, lines, listen, fan, strayed, verbose>>

CloseP1(x) ==
  /\ At(x, "closep1")
  /\ Close(con[x].p1, P1(serve[x].client))
  /\ Move(x, "clear")
  /\ lines' = lines \ {serve[x].client}
  /\ UNCHANGED <<cliVars, others, con, peer, left, spoke, listen, fan, strayed, verbose>>

ClearSlot(x) ==
  /\ At(x, "clear")
  /\ con' = [con EXCEPT ![x].fd = NoFd]
  /\ serve' = [serve EXCEPT ![x] = [at |-> "none", client |-> NoClient, ev |-> {}]]
  /\ UNCHANGED <<cliVars, files, strange, others, peer, left, spoke, lines, listen, fan, strayed, verbose>>

----------------------------------------------------------------------------
(* spd_network_puts_mutable, called for each line by spd_verbose.          *)

\* History only: whose console a slot is.
Occupant(x) ==
  IF serve[x].at # "none" THEN serve[x].client
  ELSE IF listen.slot = x THEN listen.client ELSE NoClient

\* The test of one slot's fd; the line is written by a later step.
FanTest(w) ==
  /\ ~dead /\ fan[w].slot > 0 /\ ~fan[w].write
  /\ LET x == fan[w].slot IN
     fan' = [fan EXCEPT ![w] =
       IF x \notin Slots THEN Silent
       ELSE IF ~Mute /\ con[x].fd > -1
       THEN [@ EXCEPT !.write = TRUE, !.to = Occupant(x)]
       ELSE [@ EXCEPT !.slot = x + 1]]
  /\ UNCHANGED <<cliVars, files, strange, others, con, peer, left, spoke, lines, listen,
                 serve, strayed, verbose>>

\* SIGPIPE if the other end has gone.  A full pair drops the line.
Broken(f) ==
  \/ f[1] = "conn" /\ f[2] \in left
  \/ f[1] = "p1" /\ ~IsOpen(P0(f[2]))
  \/ f[1] = "p0" /\ ~IsOpen(P1(f[2]))

FanWrite(w) ==
  /\ ~dead /\ fan[w].write
  /\ LET f == FileAt(con[fan[w].slot].p1)
         to == fan[w].to
     IN  /\ dead' = Broken(f)
         /\ lines' = IF f[1] = "p1" THEN lines \cup {f[2]} ELSE lines
         /\ strayed' = (strayed \/ (/\ to # NoClient /\ IsOpen(Conn(to)) /\ listen.at # "giveup"
                                    /\ f # P1(to)))
  /\ fan' = [fan EXCEPT ![w].slot = @ + 1, ![w].write = FALSE, ![w].to = NoClient]
  /\ UNCHANGED <<registryVars, call, files, strange, others, con, peer, left, spoke, listen,
                 serve, verbose>>

----------------------------------------------------------------------------
Rest == UNCHANGED conVars

ListenerStep ==
  \/ \E c \in Clients : Accept(c)
  \/ ScanBusy \/ ScanFull \/ MakePair \/ PairFails \/ TakeSlot \/ Spawn \/ SpawnFails
  \/ GiveUp \/ Announce

ConsoleStep(x) ==
  \/ Greet(x) \/ ClientLeft(x) \/ ClientSpeaks(x) \/ NoInput(x) \/ CommandDone(x)
  \/ Forward(x) \/ End(x) \/ CloseFd(x) \/ CloseP0(x) \/ CloseP1(x) \/ ClearSlot(x)
  \/ Caller(x) /\ Rest

\* poll returns when something is there, for the client need not say anything.
PollReady(x) ==
  (serve[x].client \in left \/ serve[x].client \in lines) /\ Poll(x)

FanStep(w) == FanTest(w) \/ FanWrite(w)

Next ==
  \/ ListenerStep
  \/ \E x \in Slots : ConsoleStep(x) \/ Poll(x)
  \/ \E w \in Announcers : FanStep(w)
  \/ \E t \in Registrars : (Caller(t) \/ Registrar(t)) /\ Rest
  \/ \E c \in Clients : Connect(c) \/ Hangup(c)
  \/ OtherOpens \/ OtherCloses

Spec == Init /\ [][Next]_vars

\* Every thread is scheduled; nobody need connect, hang up, type or register.
Fairness ==
  /\ WF_vars(ListenerStep \/ FanStep(Listener))
  /\ \A x \in Slots : WF_vars(ConsoleStep(x) \/ PollReady(x) \/ FanStep(x))
  /\ \A t \in Registrars : WF_vars(Caller(t) /\ Rest)

LiveSpec == Spec /\ Fairness

----------------------------------------------------------------------------
(* Properties.                                                             *)

Kinds == {"conn", "p0", "p1"}

TypeOK ==
  /\ CliTypeOK
  /\ files \in [Fds -> {Free, Other} \cup (Kinds \X Clients)]
  /\ con \in [Slots -> [fd : Fds \cup {NoFd}, p0 : Fds \cup {0}, p1 : Fds \cup {0}]]
  /\ peer \in [Clients -> {"away", "queued", "accepted", "gone"}]
  /\ left \subseteq Clients /\ spoke \subseteq Clients /\ lines \subseteq Clients
  /\ listen \in [at : {"poll", "scan", "take", "spawn", "giveup", "announce"},
                slot : 1 .. NumSlots + 1, fd : Fds \cup {NoFd}, client : Clients \cup {NoClient}]
  /\ serve \in [Slots -> [at : {"none", "greet", "poll", "client", "command", "pair", "end",
                                "closefd", "closep0", "closep1", "clear"},
                          client : Clients \cup {NoClient}, ev : SUBSET {"client", "pair"}]]
  /\ fan \in [Announcers -> [slot : 0 .. NumSlots + 1, write : BOOLEAN,
                             to : Clients \cup {NoClient}]]
  /\ others \in {"away", "open", "closed"}
  /\ strange \in BOOLEAN /\ strayed \in BOOLEAN /\ verbose \in BOOLEAN

Serving(x) == serve[x].at \notin {"none", "closep0", "closep1", "clear"}
Held(c) ==
  \/ listen.client = c /\ listen.at \in {"scan", "take", "spawn", "giveup"}
  \/ \E x \in Slots : serve[x].client = c

\* While the listener fills slots and console threads empty them, with numbers reused at
\* once: nobody closes another's file, the three numbers in a slot are its client's until
\* its thread closes them, no client has two slots, no file and no slot is left to nobody
\* (spider.c:445-448, 478-520).
FilesOwned ==
  /\ TypeOK /\ ~strange
  /\ \A x \in Slots :
       /\ Serving(x) => LET c == serve[x].client IN
                         /\ files[con[x].fd] = Conn(c)
                         /\ files[con[x].p0] = P0(c) /\ files[con[x].p1] = P1(c)
                         /\ \A y \in Slots \ {x} : serve[y].client # c
       /\ con[x].fd >= 0 => \/ serve[x].at # "none"
                            \/ listen.slot = x /\ listen.at \in {"take", "spawn", "giveup"}
  /\ \A n \in Fds : files[n][1] \in Kinds => Held(files[n][2])

\* The fan-out tests a slot's fd and later writes to its pair, without a lock: the line
\* may go to another's file only if the console it was meant for is being closed
\* (spider.c:268).
LinesStayHome == ~strayed

\* A client who hangs up is closed and his slot is free for another in the end, if the
\* process lives and nobody keeps the registry locked for ever (spider.c:423, cli.c:334).
SlotReturned ==
  []<>(writer = NoThread) =>
    \A c \in Clients : c \in left ~> dead \/ (peer[c] = "gone" /\ ~Held(c))

=============================================================================
