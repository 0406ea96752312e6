SPECIFICATION FairSpec
CONSTANTS
  wA = wA
  wB = wB
  rA = rA
  rB = rB
  x = x
  None = None
  Accesses = {wA, wB, rA, x}
  AccPort <- BusPort
  AccRead <- BusRead
  AccAddr <- BusAddr
  AccSize <- BusSize
  Ports = {0, 1}
  Size = 2
  ReadyMode = TRUE
  ReadOnInvalid = TRUE
  WriteOnValid = TRUE
  ResetOnScratchpadRead = FALSE
  ResetSpm = TRUE
INVARIANTS
  TypeOK
  RetryPromised
  NoLostResponse
PROPERTIES
  EveryAccessAnswered
