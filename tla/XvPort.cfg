CONSTANTS
  o1 = o1
  o2 = o2
  o3 = o3
  Bos = {o1, o2, o3}
  Buckets = {8192, 16384}
  Sizes = {5000}
  NoBucket = NoBucket
  h1 = h1
  h2 = h2
  h3 = h3
  Handles = {h1, h2, h3}
  NoHandle = NoHandle
  Interval = 1
  MaxAge = 1
  MaxTime = 1
  NoBo = NoBo
  Images <- MCImages
  Heights = {32, 100, 200}
  PageSize = 4096
  BitsPerPixel = 32
  PE20 = FALSE
SPECIFICATION XvSpec
SYMMETRY Symmetry
CHECK_DEADLOCK FALSE
INVARIANTS
  CacheOK
  HandlesExact
  SharedNotReused
  BlitsInside
