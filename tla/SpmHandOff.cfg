SPECIFICATION Spec
CONSTANTS
  wA = wA
  wB = wB
  rA = rA
  rB = rB
  x = x
  None = None
  Accesses = {wA, wB, rA, rB, x}
  AccPort <- HandPort
  AccRead <- HandRead
  AccAddr <- HandAddr
  AccSize <- HandSize
  Ports = {0, 1, 2}
  Size = 3
  ReadyMode = TRUE
  ReadOnInvalid = FALSE
  WriteOnValid = FALSE
  ResetOnScratchpadRead = TRUE
  ResetSpm = FALSE
INVARIANTS
  NoPanic
  HandOff
