----------------------------- MODULE MCLibraries -----------------------------
(***************************************************************************)
(* Instances for TLC of the components that share nothing with each other: *)
(* each initial state is one of a component, and "of" says whose steps it  *)
(* takes.                                                                  *)
(***************************************************************************)
EXTENDS Integers, Sequences, FiniteSets

CONSTANTS
  Components,   \* \subseteq AllComponents: those of a run
  \* Config
  SectionNames, VarNames, Values, MaxSections, MaxVariables, MaxOps,
  \* LinkedList
  Heads, Links, NoLink,
  \* Logger and TestEngine
  Threads, Main, Verbosers, Logged, MaxLines, Tests, Names, MaxTests, MaxTestCalls,
  \* DynStr and TimedWrite
  InitLen, Lengths, Limits, MaxStrCalls, Bytes, TimeoutMs, TicksPerMs, FlushTicks,
  \* Text and CliWords
  Letters, MaxNest, MaxLen, Words, Commands, NoEntry, MaxTyped, MaxArgs, MaxChars,
  \* Addresses and Clock
  Hosts, Ports, HostPrefixes, MappedPrefix, Flows, ByteWidth, Thousand, MaxSec,
  \* Engines
  EngineSet, NoEngine, Callers, MaxEngineCalls,
  \* TcpClient
  Peers, NoPeer, NumFds, MaxSockets,
  \* Startup
  Starts, NoStart, Pids, NoPid, StartFaults

VARIABLES
  of,
  conf, cat, ops,
  file, temp, at, had, lossy,
  head, next, iter,
  chains, verbs, writer, readers, stack, started, logged, nested,
  list, lock, run, results, report, testCalls,
  dyn, str, before, strCalls,
  call, pc, now, pollStart, pollMs, escap, elapsed, len, sent, result, flushStart,
  input, typed, pair, clock,
  first, after, config_lock, engineCall, engineCalls, registered, dragged,
  oldaddr, server_fd, session, sockets, files, behind, strange,
  startPc, daemon, path, pidFile, opened, number, pid, others, author, missed, latest, alone

mcVars ==
  <<of, conf, cat, ops, file, temp, at, had, lossy, head, next, iter,
    chains, verbs, writer, readers, stack, started, logged, nested,
    list, lock, run, results, report, testCalls, dyn, str, before, strCalls,
    call, pc, now, pollStart, pollMs, escap, elapsed, len, sent, result, flushStart, input, typed,
    pair, clock, first, after, config_lock, engineCall, engineCalls, registered, dragged,
    oldaddr, server_fd, session, sockets, files, behind, strange,
    startPc, daemon, path, pidFile, opened, number, pid, others, author, missed, latest, alone>>

ASSUME WriteAssumption ==
  Bytes \in Nat /\ TimeoutMs \in Nat /\ TicksPerMs \in Nat \ {0} /\ FlushTicks \in Nat
ASSUME StringAssumption == InitLen \in Nat \ {0} /\ Lengths \subseteq Nat /\ Limits \subseteq Nat
ASSUME ClientAssumption == NumFds \in Nat /\ MaxSockets \in Nat /\ NoPeer \notin Peers
ASSUME EngineAssumption == IsFiniteSet(EngineSet) /\ NoEngine \notin EngineSet
ASSUME LinkAssumption == IsFiniteSet(Links) /\ NoLink \notin Links
ASSUME StartAssumption == NoStart \notin Starts /\ NoPid \notin Pids

Index(x, seq) == CHOOSE i \in DOMAIN seq : seq[i] = x

\* A file, a console that takes two levels, and syslog.
Channels == {[line |-> 1, channel |-> "file", levels |-> {1, 4}],
             [line |-> 2, channel |-> "console", levels |-> {0, 1}],
             [line |-> 3, channel |-> "syslog", levels |-> {1}]}

\* A category, one below it and another one.
CategoryOf == [t \in Tests |-> CASE t = "p" -> <<"a">> [] t = "q" -> <<"a", "b">> [] OTHER -> <<"c">>]
CategoryRank == [c \in {<<"a">>, <<"a", "b">>, <<"c">>} |-> Index(c, <<<<"a">>, <<"a", "b">>, <<"c">>>>)]

\* Two entries that sort alike.
LinkRank == [e \in Links |-> CASE e = "e1" -> 1 [] e = "e4" -> 3 [] OTHER -> 2]

\* Commands that begin alike, one that begins others and has a handler that completes, and
\* one with alternatives.
PatternOf ==
  LET plain(w) == [kind |-> "word", of |-> <<w>>]
  IN  [e \in Commands |->
         CASE e = "c show" -> <<plain("core"), plain("show")>>
           [] e = "c stop" -> <<plain("core"), plain("stop")>>
           [] e = "c" -> <<plain("core")>>
           [] e = "c show stop" -> <<plain("core"), plain("show"), plain("stop")>>
           [] OTHER -> <<[kind |-> "one", of |-> <<"core", "show">>], [kind |-> "any", of |-> <<>>],
                         [kind |-> "opt", of |-> <<"show", "stop">>]>>]
OffersOf == [e \in Commands |-> IF e = "c" THEN <<"show">> ELSE <<>>]

Conf == INSTANCE Config
Save == INSTANCE ConfigSave
Link == INSTANCE LinkedList WITH Entries <- Links, Nil <- NoLink, Rank <- LinkRank
Log == INSTANCE Logger WITH Confs <- {{}, Channels}
Test == INSTANCE TestEngine WITH Category <- CategoryOf, Rank <- CategoryRank,
          MaxCalls <- MaxTestCalls, calls <- testCalls
Str == INSTANCE DynStr WITH MaxCalls <- MaxStrCalls, calls <- strCalls
Wr == INSTANCE TimedWrite
Tx == INSTANCE Text
Cw == INSTANCE CliWords WITH Entries <- Commands, Pattern <- PatternOf, Offers <- OffersOf,
        Rank <- [w \in Words |-> Index(w, <<"core", "show", "stop">>)],
        StartOf <- {<<"s", "show">>, <<"s", "stop">>, <<"c", "core">>}

Ad == INSTANCE Addresses WITH Prefixes <- HostPrefixes
Ck == INSTANCE Clock
En == INSTANCE Engines WITH call <- engineCall
Cl == INSTANCE TcpClient
Up == INSTANCE Startup WITH pc <- startPc

\* A program begins with no configuration or with one from a file: a section and a template.
OneFile ==
  <<Conf!HeaderLine("general", <<>>), Conf!VariableLine("x", "1"), Conf!VariableLine("y", "1"),
    Conf!HeaderLine("b", <<"!">>), Conf!VariableLine("x", "2")>>
ConfInit ==
  \/ Conf!Init
  \/ of = "config" /\ conf = Conf!Load(OneFile).c /\ cat = Conf!NotLoading /\ ops = MaxOps - 2

AllComponents ==
  {"config", "save", "list", "log", "test", "str", "write", "text", "cli",
   "address", "clock", "engine", "client", "start"}

ASSUME ComponentsAssumption == Components \subseteq AllComponents

MCInit ==
  /\ of \in Components
  /\ ConfInit /\ Save!Init /\ Link!Init /\ Log!Init /\ Test!Init
  /\ Str!Init /\ Wr!Init /\ Tx!Init /\ Cw!Init
  /\ Ad!Init /\ Ck!Init /\ En!Init /\ Cl!Init /\ Up!Init
  \* one state of those that do not move
  /\ of # "save" => file = "old"
  /\ of # "write" => call = "write"

Keep(c, v) == IF of = c THEN TRUE ELSE UNCHANGED v

\* A step of one component.
By(c, A) ==
  /\ of = c /\ UNCHANGED of
  /\ A
  /\ Keep("config", <<conf, cat, ops>>)
  /\ Keep("save", <<file, temp, at, had, lossy>>)
  /\ Keep("list", <<head, next, iter>>)
  /\ Keep("log", <<chains, verbs, writer, readers, stack, started, logged, nested>>)
  /\ Keep("test", <<list, lock, run, results, report, testCalls>>)
  /\ Keep("str", <<dyn, str, before, strCalls>>)
  /\ Keep("write", <<call, pc, now, pollStart, pollMs, escap, elapsed, len, sent, result,
                  flushStart>>)
  /\ Keep("text", input)
  /\ Keep("cli", typed)
  /\ Keep("address", pair)
  /\ Keep("clock", clock)
  /\ Keep("engine", <<first, after, config_lock, engineCall, engineCalls, registered, dragged>>)
  /\ Keep("client", <<oldaddr, server_fd, session, sockets, files, behind, strange>>)
  /\ Keep("start", <<startPc, daemon, path, pidFile, opened, number, pid, others, author, missed,
                  latest, alone>>)

ConfNext ==
  \/ By("config", Conf!AppendVariable) \/ By("config", Conf!UpdateVariable)
  \/ By("config", Conf!DeleteOne) \/ By("config", Conf!DeleteNamed)
  \/ By("config", Conf!DetachVariables) \/ By("config", Conf!DeleteSection)
  \/ By("config", Conf!RenameSection) \/ By("config", Conf!SetCurrent)
  \/ By("config", Conf!BrowseSections)
  \/ By("config", Conf!StartLoad) \/ By("config", Conf!EndLoad)
  \/ \E n \in SectionNames, o \in Conf!Options : By("config", Conf!ReadHeader(n, o))
  \/ \E n \in VarNames, x \in Values : By("config", Conf!ReadVariable(n, x))

SaveNext ==
  \/ By("save", Save!Create) \/ By("save", Save!Write) \/ By("save", Save!CloseStream)
  \/ By("save", Save!Remove) \/ By("save", Save!Link) \/ By("save", Save!Cleanup)
  \/ By("save", Save!Crash)

LinkNext ==
  \/ By("list", Link!Insert) \/ By("list", Link!RemoveHead) \/ By("list", Link!RemoveEntry)
  \/ By("list", Link!AppendList) \/ By("list", Link!InsertListAfter)
  \/ By("list", Link!Begin) \/ By("list", Link!Advance)
  \/ By("list", Link!RemoveCurrent) \/ By("list", Link!InsertBeforeCurrent)

LogNext ==
  \/ By("log", Log!InitLogger)
  \/ \E t \in Threads :
       \/ \E level \in Logged : By("log", Log!Log(t, level))
       \/ By("log", Log!LogTest(t)) \/ By("log", Log!LogLock(t)) \/ By("log", Log!LogHeader(t))
       \/ By("log", Log!LogText(t)) \/ By("log", Log!LogUnlock(t)) \/ By("log", Log!Signal(t))
       \/ By("log", Log!VerboseLine(t)) \/ By("log", Log!VerboseLock(t)) \/ By("log", Log!VerboseFails(t))
       \/ By("log", Log!Call(t)) \/ By("log", Log!VerboseUnlock(t))
       \/ By("log", Log!Register(t)) \/ By("log", Log!Unregister(t))

TestNext ==
  \E t \in Threads :
    \/ \E cb \in Tests : By("test", Test!Register(t, cb)) \/ By("test", Test!Unregister(t, cb))
    \/ By("test", Test!Run(t)) \/ By("test", Test!RunOne(t)) \/ By("test", Test!RunReturns(t))

StrNext ==
  \/ By("str", Str!BuildDyn) \/ By("str", Str!BuildFails) \/ By("str", Str!BuildStr)
  \/ By("str", Str!CopySubstring) \/ By("str", Str!Truncate) \/ By("str", Str!Mend)

WriteNext ==
  \/ By("write", Wr!Loop) \/ By("write", Wr!LoopEnds) \/ By("write", Wr!PollReady)
  \/ By("write", Wr!PollTimesOut) \/ By("write", Wr!PollInterrupted) \/ By("write", Wr!PollFails)
  \/ \E n \in 0 .. Bytes : By("write", Wr!Bounded /\ Wr!Write(n)) \/ By("write", Wr!Bounded /\ Wr!Fwrite(n))
  \/ By("write", Wr!WriteFails)
  \/ By("write", Wr!FlushEnds) \/ By("write", Wr!FlushAgain) \/ By("write", Wr!FlushFails)

EngineNext ==
  \E t \in Callers :
    \/ \E e \in EngineSet : By("engine", En!Register(t, e)) \/ By("engine", En!Deregister(t, e))
    \/ By("engine", En!Load(t)) \/ By("engine", En!FindEngine(t))

ClientNext ==
  \/ \E p \in Peers : By("client", Cl!Create(p)) \/ By("client", Cl!CreateFails(p))
  \/ By("client", Cl!Connect) \/ By("client", Cl!ConnectFails) \/ By("client", Cl!StreamFails)
  \/ By("client", Cl!OwnerCloses)
  \/ By("client", Cl!OtherOpens) \/ \E f \in Cl!Fds : By("client", Cl!OtherCloses(f))

StartNext ==
  \/ \E s \in Starts :
       \/ By("start", Up!Begin(s)) \/ By("start", Up!Fork(s))
       \/ By("start", Up!UnlinkPid(s)) \/ By("start", Up!OpenPid(s)) \/ By("start", Up!OpenPidFails(s))
       \/ By("start", Up!WritePid(s))
       \/ By("start", Up!UnlinkSocket(s)) \/ By("start", Up!Bind(s)) \/ By("start", Up!Listen(s))
       \/ By("start", Up!ServerFails(s)) \/ By("start", Up!Death(s))
  \/ By("start", Up!Kill) \/ By("start", Up!OtherBegins) \/ By("start", Up!OtherEnds)

MCNext ==
  \/ ConfNext \/ SaveNext \/ LinkNext \/ LogNext \/ TestNext \/ StrNext \/ WriteNext
  \/ EngineNext \/ ClientNext \/ StartNext
  \/ By("text", Tx!Try) \/ By("cli", Cw!TryLine) \/ By("cli", Cw!TryArguments)
  \/ By("address", Ad!Try) \/ By("clock", Ck!Try)

MCSpec == MCInit /\ [][MCNext]_mcVars

(***************************************************************************)
(* What each component promises, while it is the one that moves.           *)
(***************************************************************************)

\* config.c: the lists of sections and variables are those the calls and the files make.
SectionsKept == Conf!SectionsKept
\* config.c: browsing, looking up, saving and loading again see what the lists hold.
SeenAndSaved == of = "config" => Conf!SeenAndSaved
\* config.c: a save that fails or a crash leaves a file that is whole.
FileSurvives == of = "save" => Save!FileSurvives
\* linkedlist.h: heads and links implement sequences, also under the loop that removes.
ListsAreSequences == Link!ListsAreSequences
\* logger.c: lines arrive whole, once, where they belong.
LinesDelivered == of = "log" => Log!LinesDelivered
\* test_engine.c: a report counts the tests that ran.
TestsAddUp == of = "test" => Test!TestsAddUp
\* str.c, threadprivdata.c: a string that grows or fails to keeps its text.
StringsKept == of = "str" => Str!StringsKept
\* utils.c, poll.c: a write with a time limit ends in time and says what it did.
WriteSettles == of = "write" => Wr!WriteSettles
\* config.c: the list of engines is that of the engines registered.
EnginesListed == of = "engine" => En!EnginesListed
\* tcp_engine.c: clients close what is theirs, and lose nothing.
ClientsKeepTheirs == of = "client" => Cl!ClientsKeepTheirs
\* spider.c: starts of the program that race or die leave one that serves.
StartsServe == of = "start" => Up!StartsServe
\* config.c, strings.c, socket.c, utils.c, cli.c: what is typed or read in a line is taken
\* apart as it was meant: comments, host and port, words, colours, completion, arguments.
LinesAgree == (of = "text" => Tx!TextAgrees) /\ (of = "cli" => Cw!WordsAgree)
\* socket.c, times.h, utils.c: addresses and times are compared in an order, and what is
\* converted or carried loses nothing.
ValuesAgree == (of = "address" => Ad!AddressesAgree) /\ (of = "clock" => Ck!ClockAgrees)

=============================================================================
