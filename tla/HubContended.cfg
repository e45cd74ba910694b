\* Two clients, three notes, room for one resident: loads and evictions beside
\* other handlers.  It stops when both clients have sent what they may.
SPECIFICATION FairSpec
CONSTANTS
  Notes = {k1, k2, k3}
  Clients = {a, b}
  Agents = {}
  Capped = {b}
  Objs <- MCObjs
  None = None
  MaxLoadedDocs = 1
  SnapshotEvery = 1
  MaxNotes = 0
  MaxSends = 1
  Workload = {"edit", "secret"}
PROPERTY HandlersEnd
CHECK_DEADLOCK FALSE
