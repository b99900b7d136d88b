CONSTANTS
  p1 = p1
  n1 = n1
  Pixmaps = {p1}
  Nodes = {n1}
  Fences = {p1, n1}
  NoPixmap = NoPixmap
  Faults = {"submit", "wait"}
  MaxFence = 2
SPECIFICATION FairSpec
CHECK_DEADLOCK FALSE
INVARIANTS
  FencedAfterLast
  RefcntExact
PROPERTY
  EventuallyRetired
