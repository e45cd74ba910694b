\* Two hubs that compact the note they both write; the broker is perfect.
SPECIFICATION Spec
CONSTANTS
  h1 = h1
  h2 = h2
  a = a
  b = b
  Hubs = {h1, h2}
  Clients = {a, b}
  Home <- OnTwoHubs
  Readers = {}
  None = None
  SnapshotEvery = 1
  Faults = {}
  MaxSends <- OneEach
  MaxFaults = 0
CHECK_DEADLOCK FALSE
INVARIANT CommittedIsStored
