CONSTANTS
  Events = {e1, e2, e3, e4}
  Ids = {i1, i2}
  Bos = {b1, b2, b3}
  NoBo = NoBo
  Own = {o1}
  Foreign = {f1}
  NoObject = NoObject
  MaxRef = 2
SPECIFICATION CheckSpec
INVARIANTS
  HeapIsPending
  TablesExact
PROPERTIES
  AnsweredOnce
  MemoryStays
