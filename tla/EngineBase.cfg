SPECIFICATION Spec
CONSTANTS
  p = p
  q = q
  iv = iv
  jv = jv
  x = x
  y = y
  z = z
  w = w
  entry = entry
  loop = loop
  exit = exit
  None = None
  Regs <- MCRegs
  Blocks <- MCBlocks
  Units <- MCUnits
  Entry = entry
  Addr <- Addresses
  Code <- PointerLoop
  Configs <- JustUnlimited
  Threshold = 100
  MaxBlocks = 3
CHECK_DEADLOCK FALSE
INVARIANTS BaseIsFetched
