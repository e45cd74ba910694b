\* Concurrent handlers on one note: an editor and a gated agent, no eviction.
SPECIFICATION FairSpec
CONSTANTS
  Notes = {k1}
  Clients = {a, b}
  Agents = {b}
  Capped = {b}
  Objs <- MCObjs
  None = None
  MaxLoadedDocs = 0
  SnapshotEvery = 2
  MaxNotes = 0
  MaxSends = 2
  Workload = {"edit", "secret", "delete", "open"}
INVARIANT TypeOK
INVARIANT OneWriterPerNote
INVARIANT ResidentExact
INVARIANT RejectedNotDurable
INVARIANT FannedIsDurable
INVARIANT NoGap
INVARIANT AgentNotesGated
PROPERTY OnlyTheWriterPersists
PROPERTY LogSpec
PROPERTY HandlersEnd
