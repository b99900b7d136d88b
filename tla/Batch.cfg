CONSTANTS
  Counts = {1, 100, 700}
  GC320 = TRUE
  PE20 = TRUE
SPECIFICATION FairSpec
INVARIANTS
  BatchFits
  BoxesDrawnOnce
PROPERTY CallEnds
