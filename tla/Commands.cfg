CONSTANTS
  c1 = c1
  c2 = c2
  Clients <- Two
  Ops = {"step", "events", "lua"}
  NodeCounts = {0, 1}
  InitEvents = 1
  MaxCommands = 3
  MaxStepEvents = 2
SPECIFICATION FairSpec
INVARIANTS OutputIsPaired EventsSavedInOrder
PROPERTY NobodyHangs
