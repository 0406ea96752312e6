SPECIFICATION FairSpec
CONSTANTS
  r1 = r1
  r2 = r2
  w1 = w1
  None = None
  Reqs = {r1, r2, w1}
  ReadReqs = {r1, r2}
  ReqAddr <- MixedAddr
  ReqLen <- MixedLen
  Ports = {1, 2, 3}
  PortClass <- MixedClass
  PortRange <- MixedRange
  LineSize = 2
  UseInt = TRUE
  HostWrites <- DriverWrites
INVARIANTS
  TypeOK
  ChunksTileRequest
  CommitComplete
  ContinuationFirst
  NoLostTick
  DoneMeansQuiet
PROPERTIES
  ImplementsService
  EveryRequestCommits
  StartIsSeen
