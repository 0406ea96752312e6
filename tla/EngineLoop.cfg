SPECIFICATION FairSpec
CONSTANTS
  p = p
  q = q
  iv = iv
  jv = jv
  x = x
  y = y
  z = z
  w = w
  entry = entry
  loop = loop
  exit = exit
  None = None
  Regs <- MCRegs
  Blocks <- MCBlocks
  Units <- MCUnits
  Entry = entry
  Addr <- Addresses
  Code <- Loop
  Configs <- MCConfigs
  Threshold = 5
  MaxBlocks = 4
CHECK_DEADLOCK FALSE
INVARIANTS TypeOK OperandsInProgramOrder ProgramInOrder SequentialResults ActiveParentsExact FinishedMeansDone
PROPERTIES RegisterWritesInOrder EngineFinishes
