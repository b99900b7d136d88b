CONSTANTS
  Crtcs = {c1, c2}
  Fbs = {f1, f2, f3}
  NoFb = NoFb
  Bos = {b1, b2, b3}
  NoBo = NoBo
  NoEvent = NULL
  Events = {w1, w2}
  PartialFailure = FALSE
  OneAtATime = FALSE
  Clients = {k1}
  NoClient = NoClient
  Drawables = {d1}
  NoDrawable = NoDrawable
  Buffers = {x1, x2}
  NoBuffer = NoBuffer
  Screen = screen
  Freed = freed
SPECIFICATION FairSpec
CHECK_DEADLOCK FALSE
INVARIANTS
  WaitsTracked
  BufferRefs
  ShownIsFront
  SwapsAnswered
  ScannedFbExists
PROPERTY EveryWaitEnds
