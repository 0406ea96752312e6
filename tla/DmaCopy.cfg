SPECIFICATION FairSpec
CONSTANTS
  MaxReqSize = 2
  FifoSize = 4
  MaxPending = 2
  MemSize = 20
  AccAddrs = {10, 11, 12, 13, 14, 15, 16, 17, 18, 19}
  Srcs = {0, 10}
  Dsts = {5}
  Lens = {5}
  None = None
INVARIANTS
  TypeOK
  IdleMeansDrained
  PipelineInOrder
  NoOverrun
  InterruptTracksDone
PROPERTIES
  DoneOnlyWhenCopied
  ImplementsCopy
  TransferEnds
