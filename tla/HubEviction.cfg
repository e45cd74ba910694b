\* Eviction with concurrent handlers loses a committed delta.
SPECIFICATION Spec
CONSTANTS
  Notes = {k1, k2}
  Clients = {a, b}
  Agents = {}
  Capped = {}
  Objs <- MCObjs
  None = None
  MaxLoadedDocs = 1
  SnapshotEvery = 1
  MaxNotes = 0
  MaxSends = 2
  Workload = {"edit", "open"}
PROPERTY NothingLost
