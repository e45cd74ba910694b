\* Clients of two kinds at a time.
SPECIFICATION FairSpec
CONSTANTS
  arm = arm
  editor = editor
  page = page
  mcp = mcp
  Arms = {arm}
  Editors = {editor}
  Tabs = {page}
  Watchers = {mcp}
  Crews <- Pairs
  MaxEdits = 1
  MaxFaults = 2
CHECK_DEADLOCK FALSE
INVARIANT TypeOK
INVARIANT CarriedUp
INVARIANT CarriedDown
PROPERTY Delivered
