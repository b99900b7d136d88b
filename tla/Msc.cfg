CONSTANTS
  Crtcs = {c1, c2}
  NoCrtc = NoCrtc
  FrameRequests <- SmallRequests
  MaxFrame = 2
SPECIFICATION MscSpec
SYMMETRY Symmetry
CHECK_DEADLOCK FALSE
INVARIANTS
  WaitForTarget
  SwapForRemainder
PROPERTY MscNeverBack
