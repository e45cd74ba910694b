\* A load in flight brings a purged note back.
SPECIFICATION Spec
CONSTANTS
  Notes = {k1}
  Clients = {a, b}
  Agents = {}
  Capped = {}
  Objs <- MCObjs
  None = None
  MaxLoadedDocs = 0
  SnapshotEvery = 1
  MaxNotes = 0
  MaxSends = 2
  Workload = {"edit", "open", "purge", "crash"}
PROPERTY OnlyTheWriterPersists
