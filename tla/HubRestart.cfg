\* Concurrent handlers with crashes and graceful shutdowns.
SPECIFICATION Spec
CONSTANTS
  Notes = {k1}
  Clients = {a, b}
  Agents = {}
  Capped = {}
  Objs <- MCObjs
  None = None
  MaxLoadedDocs = 0
  SnapshotEvery = 2
  MaxNotes = 0
  MaxSends = 1
  Workload = {"edit", "patch", "delete", "open", "crash", "shutdown"}
INVARIANT ResidentLacksNothing
INVARIANT NoGap
PROPERTY OnlyLateSavesLose
