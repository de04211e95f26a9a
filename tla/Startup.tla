------------------------------ MODULE Startup ------------------------------
(***************************************************************************)
(* Starts of the program (main of src/src/spider.c), each a process, that   *)
(* share the socket's path and the pid file: the options, spd_tryconn, the  *)
(* pid file of a start that goes to the background, start_domainserver, and *)
(* "spider -k".  A process may die at any moment and leaves its files; its  *)
(* number is then free for another, a start or a process of some other     *)
(* program.                                                                *)
(*                                                                         *)
(* spd_tryconn never connects, since it does not set sun_family, and main   *)
(* would ignore it if it did: every start takes the socket's path from the  *)
(* one that has it.                                                         *)
(*                                                                         *)
(* A definition that stands before another one and is used nowhere is that *)
(* other with a mistake in it; the properties are tried against these.     *)
(***************************************************************************)
EXTENDS FiniteSets

CONSTANTS
  Starts,       \* each a start of the program
  NoStart,
  Pids, NoPid,  \* the numbers of processes
  StartFaults   \* \subseteq {"fork", "pidfile", "socket", "listen", "death"}

VARIABLES
  pc,        \* where each start is; "up", "inuse" (bind found the path taken) and "failed"
             \* are the loop of main; "gone" is a process that ended
  daemon,    \* the starts that go to the background
  path,      \* the start whose socket spd_config_SPD_SOCKET names
  pidFile,   \* the file spd_config_SPD_PID names: that of the start that made it
  opened,    \* by start: the file it has open to write its number
  number,    \* by file: the number in it
  pid,       \* by start: the number of its process, the last one if that has ended
  others,    \* the numbers that processes of other programs have
  \* history
  author,    \* by file: the start that wrote its number
  missed,    \* starts in whose place "spider -k" has sent another process SIGTERM
  latest,    \* the start that began last
  alone      \* it began when no other was under way

vars ==
  <<pc, daemon, path, pidFile, opened, number, pid, others, author, missed, latest, alone>>
files == <<pidFile, opened, number, author>>
processes == <<pid, others, missed>>

Init ==
  /\ pc = [s \in Starts |-> "none"]
  /\ daemon = {} /\ missed = {} /\ others = {}
  /\ path = NoStart /\ pidFile = NoStart
  /\ opened = [s \in Starts |-> NoStart]
  /\ number = [s \in Starts |-> NoPid] /\ author = [s \in Starts |-> NoStart]
  /\ pid = [s \in Starts |-> NoPid]
  /\ latest = NoStart /\ alone = TRUE

Looping == {"up", "inuse", "failed"}
Settled(s) == pc[s] \in Looping \cup {"none", "gone"}
Fails(fault) == fault \in StartFaults
GoTo(s, at) == pc' = [pc EXCEPT ![s] = at]

Living(s) == pc[s] \notin {"none", "gone"}
Holders(p) == {s \in Starts : Living(s) /\ pid[s] = p}
Free(p) == p \notin others /\ Holders(p) = {}
NewPid(s) == \E p \in Pids : Free(p) /\ pid' = [pid EXCEPT ![s] = p]

----------------------------------------------------------------------------
(* main. *)

\* The options, and the attempt to reach a running daemon.
Begin(s) ==
  /\ pc[s] = "none"
  /\ \/ GoTo(s, "fork") /\ daemon' = daemon \cup {s}
     \/ GoTo(s, "unlink") /\ daemon' = daemon
  /\ NewPid(s)
  /\ latest' = s
  /\ alone' = \A r \in Starts : Settled(r)
  /\ UNCHANGED <<path, files, others, missed>>

\* deamonize: the start goes on as a process with another number, and the first one ends.
\* What a fork that fails returns is not 0 either, and the program exits.
Fork(s) ==
  /\ pc[s] = "fork"
  /\ \/ NewPid(s) /\ GoTo(s, "unlinkpid")
     \/ Fails("fork") /\ GoTo(s, "gone") /\ UNCHANGED pid
  /\ UNCHANGED <<daemon, path, files, others, missed, latest, alone>>

UnlinkPid(s) ==
  /\ pc[s] = "unlinkpid"
  /\ pidFile' = NoStart
  /\ GoTo(s, "openpid")
  /\ UNCHANGED <<daemon, path, opened, number, author, processes, latest, alone>>

\* fopen with "w" makes the file, or empties the one another start has just made.
OpenPid(s) ==
  /\ pc[s] = "openpid"
  /\ LET file == IF pidFile = NoStart THEN s ELSE pidFile IN
       /\ pidFile' = file
       /\ opened' = [opened EXCEPT ![s] = file]
       /\ number' = [number EXCEPT ![file] = NoPid]
  /\ GoTo(s, "writepid")
  /\ UNCHANGED <<daemon, path, author, processes, latest, alone>>

OpenPidFails(s) ==
  /\ pc[s] = "openpid" /\ Fails("pidfile")
  /\ GoTo(s, "unlink")
  /\ UNCHANGED <<daemon, path, files, processes, latest, alone>>

\* fclose writes it, into a file that may have no name any more.
WritePid(s) ==
  /\ pc[s] = "writepid"
  /\ number' = [number EXCEPT ![opened[s]] = pid[s]]
  /\ author' = [author EXCEPT ![opened[s]] = s]
  /\ GoTo(s, "unlink")
  /\ UNCHANGED <<daemon, path, pidFile, opened, processes, latest, alone>>

\* start_domainserver.
UnlinkSocketKeptByDaemon(s) ==
  /\ pc[s] = "unlink"
  /\ path' = IF path \in daemon THEN path ELSE NoStart
  /\ GoTo(s, "bind")
  /\ UNCHANGED <<daemon, files, processes, latest, alone>>
UnlinkSocket(s) ==
  /\ pc[s] = "unlink"
  /\ path' = NoStart
  /\ GoTo(s, "bind")
  /\ UNCHANGED <<daemon, files, processes, latest, alone>>

Bind(s) ==
  /\ pc[s] = "bind"
  /\ path' = IF path = NoStart THEN s ELSE path
  /\ GoTo(s, IF path = NoStart THEN "listen" ELSE "inuse")
  /\ UNCHANGED <<daemon, files, processes, latest, alone>>

Listen(s) ==
  /\ pc[s] = "listen"
  /\ GoTo(s, "up")
  /\ UNCHANGED <<daemon, path, files, processes, latest, alone>>

\* socket or listen fails; the path stays, and main goes on without a server.
ServerFails(s) ==
  /\ \/ pc[s] = "bind" /\ Fails("socket")
     \/ pc[s] = "listen" /\ Fails("listen")
  /\ GoTo(s, "failed")
  /\ UNCHANGED <<daemon, path, files, processes, latest, alone>>

----------------------------------------------------------------------------
(* "spider -k", and what else ends a process. *)

\* Whatever process has the number now is sent SIGTERM.  term_handler, which a start sets
\* before it does anything here, only logs; a process of another program may end.
Kill ==
  /\ pidFile # NoStart
  /\ number[pidFile] # NoPid
  /\ LET p == number[pidFile]
         by == author[pidFile]
     IN  /\ others' \in {others, others \ {p}}
         /\ missed' = IF p \in others \/ Holders(p) \ {by} # {} THEN missed \cup {by} ELSE missed
  /\ UNCHANGED <<pc, daemon, path, files, pid, latest, alone>>

OtherBegins ==
  /\ \E p \in Pids : Free(p) /\ others' = others \cup {p}
  /\ UNCHANGED <<pc, daemon, path, files, pid, missed, latest, alone>>

OtherEnds ==
  /\ \E p \in others : others' = others \ {p}
  /\ UNCHANGED <<pc, daemon, path, files, pid, missed, latest, alone>>

Death(s) ==
  /\ pc[s] \notin {"none", "gone"} /\ Fails("death")
  /\ GoTo(s, "gone")
  /\ UNCHANGED <<daemon, path, files, processes, latest, alone>>

Next ==
  \/ \E s \in Starts :
       \/ Begin(s) \/ Fork(s)
       \/ UnlinkPid(s) \/ OpenPid(s) \/ OpenPidFails(s) \/ WritePid(s)
       \/ UnlinkSocket(s) \/ Bind(s) \/ Listen(s) \/ ServerFails(s)
       \/ Death(s)
  \/ Kill \/ OtherBegins \/ OtherEnds

Spec == Init /\ [][Next]_vars

----------------------------------------------------------------------------
(* Properties. *)

\* The start that began last, if it began when no other was under way, has the socket's
\* path, whoever had it before and however that one ended; one in the background has the
\* pid file too, unless it could not open it, and "spider -k" reaches it and nobody else.
LatestServes ==
  alone /\ latest # NoStart /\ pc[latest] \in {"up", "inuse"} =>
    /\ pc[latest] = "up"
    /\ path = latest
    /\ latest \in daemon =>
         IF opened[latest] = NoStart THEN pidFile = NoStart
         ELSE /\ pidFile = latest
              /\ Holders(number[pidFile]) = {latest} /\ number[pidFile] \notin others

\* Of starts that race for the path one gets it: a server that lost it, to one that took
\* it away or was there first, lost it to a start that is about to bind, has the path, died,
\* or has no server.
SomeoneServes ==
  \A s \in Starts : pc[s] \in {"up", "inuse"} /\ path # s =>
    \E r \in Starts \ {s} :
      \/ path = r
      \/ pc[r] \in {"bind", "gone", "failed"}

\* "spider -k" sends a signal to a process other than the start that wrote the number only
\* after that start has ended: nothing takes its number out of the file then.
OthersOnlyAfterDeath == \A s \in missed : pc[s] = "gone"

\* All of them, with starts that race and die (spider.c:224-251, 524-582, 684-706).
StartsServe == LatestServes /\ SomeoneServes /\ OthersOnlyAfterDeath
=============================================================================
