\* Two hubs, a client each, over a broker that loses, repeats and reorders.
SPECIFICATION FairSpec
CONSTANTS
  h1 = h1
  h2 = h2
  a = a
  b = b
  Hubs = {h1, h2}
  Clients = {a, b}
  Home <- OnTwoHubs
  Readers = {b}
  None = None
  SnapshotEvery = 9
  Faults = {"lose", "repeat", "reorder", "restart"}
  MaxSends <- Sends
  MaxFaults = 1
CHECK_DEADLOCK FALSE
INVARIANT TypeOK
INVARIANT FannedOnce
INVARIANT StaleExplained
INVARIANT ClientsMirrorHub
PROPERTY LogSpec
PROPERTY Converges
