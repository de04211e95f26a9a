\* One slot fewer than clients, and numbers for two consoles and one other file.
CONSTANTS
  Words <- MCWords
  Rank <- MCRank
  StartOf <- MCPrefixes
  Entries = {"shows", "anys"}
  Pattern <- MCPattern
  Offers <- MCOffers
  NoEntry = "none"
  Threads <- MCThreads
  NoThread = NoThread
  Commands <- MCCommands
  Walks = {TRUE, FALSE}
  CliFaults = {}
  MaxRegs = 3
  NumSlots = 2
  Clients = {c1, c2, c3}
  NoClient = NoClient
  NumFds = 7
  Mute = FALSE
  Listener = listener
  Registrars = {main}
SPECIFICATION MCSpec
INVARIANTS
  FilesOwned
  LinesStayHome
  HandlersCounted
  ListedIsFound
PROPERTIES
  SlotReturned
CHECK_DEADLOCK FALSE
