CONSTANTS
  Crtcs = {c1, c2}
  Fbs = {f1, f2, f3, f4}
  NoFb = NoFb
  Bos = {b1, b2}
  NoBo = NoBo
  NoEvent = NULL
  Events = {e1, e2}
  PartialFailure = FALSE
  OneAtATime = TRUE
  Screens = {s1, s2}
  This = s1
  MaxGenerations = 2
SPECIFICATION Spec
CHECK_DEADLOCK FALSE
INVARIANTS
  EventKept
  FbsExact
  OnVT
