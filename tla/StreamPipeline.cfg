SPECIFICATION FairSpec
CONSTANTS
  MaxReqSize = 2
  FifoSize = 3
  MaxPending = 2
  FrameSize <- MCFrameSize
  NumFrames <- MCNumFrames
  FrameBuffSize <- MCFrameBuffSize
  IntFrames <- MCIntFrames
  BufferSize = 3
  Stages = 2
  InSize <- MCInSize
  OutSize <- MCOutSize
  Depth = 2
  Base <- MCBase
  MaxStarts = 2
CHECK_DEADLOCK FALSE
INVARIANTS StreamIntact RefusedIsRetried NoOverrun IdleMeansWritten
PROPERTIES HostProceeds
