\* Four calls on a configuration of three sections and four variables, four entries in two
\* lists, two lines of two threads, four calls of the test engine, three of the strings, five
\* of the engines; two starts of the program, each perhaps in the background, and three
\* numbers of processes.
CONSTANTS
  Components = {"config", "save", "list", "log", "test", "str", "write", "text", "cli", "address", "clock", "engine", "client", "start"}
  SectionNames = {"general", "b"}
  VarNames = {"x", "y"}
  Values = {"1", "2"}
  MaxSections = 3
  MaxVariables = 4
  MaxOps = 4
  Heads = {"h1", "h2"}
  Links = {"e1", "e2", "e3", "e4"}
  NoLink = "nil"
  Threads = {"main", "t"}
  Main = "main"
  Verbosers = {"v"}
  Logged = {1, 3}
  MaxLines = 2
  Tests = {"p", "q", "r"}
  Names = {"p"}
  MaxTests = 3
  MaxTestCalls = 4
  InitLen = 8
  Lengths = {0, 1, 3, 8}
  Limits = {0, 3, 9}
  MaxStrCalls = 3
  Bytes = 2
  TimeoutMs = 3
  TicksPerMs = 3
  FlushTicks = 4
  Letters = {"a"}
  MaxNest = 3
  MaxLen = 2
  Words = {"core", "show", "stop"}
  Commands = {"c", "c show", "c stop", "c show stop", "any"}
  NoEntry = "none"
  MaxTyped = 2
  MaxArgs = 4
  MaxChars = 1
  Hosts = {0, 1}
  Ports = {0, 1, 5}
  HostPrefixes = {0, 1, 2}
  MappedPrefix = 1
  Flows = {0, 1}
  ByteWidth = 4
  Thousand = 3
  MaxSec = 1
  EngineSet = {"e1", "e2", "e3"}
  NoEngine = "none"
  Callers = {"t1", "t2"}
  MaxEngineCalls = 5
  Peers = {"p", "q"}
  NoPeer = "null"
  NumFds = 3
  MaxSockets = 3
  Starts = {"s1", "s2"}
  NoStart = "none"
  Pids = {1, 2, 3}
  NoPid = 0
  StartFaults = {"fork", "pidfile", "socket", "listen", "death"}
SPECIFICATION MCSpec
INVARIANTS
  SeenAndSaved
  FileSurvives
  TestsAddUp
  StringsKept
  WriteSettles
  LinesAgree
  ValuesAgree
  LinesDelivered
  StartsServe
  EnginesListed
  ClientsKeepTheirs
PROPERTIES
  SectionsKept
  ListsAreSequences
CHECK_DEADLOCK FALSE
