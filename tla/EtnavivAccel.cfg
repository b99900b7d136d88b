CONSTANTS
  p1 = p1
  p2 = p2
  n1 = n1
  Pixmaps = {p1, p2}
  Nodes = {n1}
  Fences = {p1, p2, n1}
  NoPixmap = NoPixmap
  Faults = {}
  MaxFence = 2
SPECIFICATION Spec
SYMMETRY PixmapSymmetry
CHECK_DEADLOCK FALSE
INVARIANTS
  FenceListsOK
  NoUseAfterFree
  CpuGpuExclusion
PROPERTY RetireWhenIdle
