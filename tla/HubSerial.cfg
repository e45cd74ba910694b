\* One client, two notes, room for one resident: eviction, purge and crashes.
SPECIFICATION Spec
CONSTANTS
  Notes = {k1, k2}
  Clients = {a}
  Agents = {}
  Capped = {}
  Objs <- MCObjs
  None = None
  MaxLoadedDocs = 1
  SnapshotEvery = 2
  MaxNotes = 1
  MaxSends = 3
  Workload = {"edit", "patch", "delete", "open", "purge", "crash"}
INVARIANT ResidentExact
PROPERTY OnlyTheWriterPersists
PROPERTY LogSpec
