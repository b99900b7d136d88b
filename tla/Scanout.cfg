CONSTANTS
  Crtcs = {c1, c2}
  NoCrtc = NoCrtc
  Bos = {b1, b2, b3, b4}
  NoBo = NoBo
  Fbs = {1, 2, 3, 4, 5}
  NoFb = 0
  Pixmaps = {p1}
  Screen = Screen
SYMMETRY Symmetry
SPECIFICATION Spec
INVARIANTS
  HeldExactly
  ShowsWhatIsDrawn
  ScansRight
CHECK_DEADLOCK FALSE
