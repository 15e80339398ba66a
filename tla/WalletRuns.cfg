SPECIFICATION Spec
CONSTANTS
  tick = tick
  user = user
  swap = swap
  Ticks <- OneTick
  Calls <- TwoCalls
  AllWindows <- Every
  Lookback = 1
  Chunk = 1
  Unlock = 1
  MaxInputs = 2
  TickChunks = 1
  CallChunks = 3
  Deposits <- One
  Amounts <- Two
  MaxBlocks = 3
  MaxSends = 2
INVARIANTS
  NoRespend
  Complete
CHECK_DEADLOCK FALSE
