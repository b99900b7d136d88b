CONSTANTS
  o1 = o1
  o2 = o2
  Bos = {o1, o2}
  NumBuffers = 2
  BufferSize = 9
  Begin = 2
  End = 1
  OpSizes = {2, 3}
  PipeSize = 2
  WaitFails = TRUE
  MaxFence = 3
SPECIFICATION Spec
INVARIANTS
  OffsetInBuffer
  CommandsNotOverwritten
  RelocsOK
  RefsExact
