\* A revert that leaves another author's text out of the note.
SPECIFICATION SpaceSpec
CONSTANTS
  m1 = m1  m2 = m2  w1 = w1  w2 = w2
  title = title  stub = stub  hub = hub
  b1 = b1  b2 = b2  b3 = b3  page1 = page1
  x = x  y = y  z = z  target = target
  letter = letter  hi1 = hi1  hi2 = hi2  lo1 = lo1  lo2 = lo2
  n1 = n1  n2 = n2  p1 = p1  t1 = t1
  Parts = {"revert"}
  GateNotes = {m1, m2}
  Slots = {w1, w2}
  Shapes <- MCShapes
  AllSettings <- MCSettings
  MaxCalls = 3
  MaxAdmin = 2
  IndexNotes = {page1}
  IndexTitles = {title}
  StubOf <- MCStubOf
  Links <- MCLinks
  MaxChanges = 2
  MaxDrops = 2
  Actors = {w1, w2}
  Server = hub
  MaxRows = 3
  MaxTime = 2
  Hashes = {b1, b2, b3}
  Size <- MCSize
  Pages = {page1}
  Uploads = {w1, w2}
  MaxBlobBytes = 2
  BlobBudget = 3
  MaxPuts = 3
  Notes = {x, y, z, target}
  Stubs = {target}
  Tokens <- MCTokens
  Fixed = 1
  Graphs <- MCGraphs
  Rankings <- MCRankings
  IncludeDraftNotes = FALSE
  Hops = 2
  Seeds = 2
  Budget = 7
  Plain = {letter}
  High = {hi1, hi2}
  Low = {lo1, lo2}
  MaxLength = 2
  Keys = {x}
  Capacity = 4
  Token = 3
  Jumps <- MCJumps
  MaxClock = 6
  Ids <- MCVaultIds
  Titles <- MCTitles
  NoteNames <- MCNames
  FileNames <- MCNames
  PathId <- MCPathId
  WithFragment <- MCWithFragment
  WithId <- MCWithId
  NewIds = {n1, n2}
  None = None
  IncludeDrafts = TRUE
  Policy = "brain"
  MaxEdits = 3
  MaxCrashes = 1
  MaxQuiet = 5
CHECK_DEADLOCK FALSE
INVARIANT OthersSurvive
