SPECIFICATION Spec
CONSTANTS
  wA = wA
  wB = wB
  rA = rA
  rB = rB
  x = x
  None = None
  Accesses = {rA, x}
  AccPort <- BusPort
  AccRead <- BusRead
  AccAddr <- BusAddr
  AccSize <- BusSize
  Ports = {0, 1}
  Size = 2
  ReadyMode = FALSE
  ReadOnInvalid = FALSE
  WriteOnValid = TRUE
  ResetOnScratchpadRead = FALSE
  ResetSpm = FALSE
INVARIANT
  RetryIsAwaited
