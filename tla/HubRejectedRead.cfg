\* A rejected delta is read before it is rolled back.
SPECIFICATION Spec
CONSTANTS
  Notes = {k1}
  Clients = {a, b}
  Agents = {}
  Capped = {b}
  Objs <- MCObjs
  None = None
  MaxLoadedDocs = 0
  SnapshotEvery = 2
  MaxNotes = 0
  MaxSends = 1
  Workload = {"edit", "secret", "open"}
INVARIANT RejectedNeverServed
