SPECIFICATION FairSpec
CONSTANTS
  Configs <- AllConfigs
  SendSizes = {1, 2}
  RecvSize = 3
  FifoThresh = 1
  OneChunk = 2
  ChunkSize = 1
  MaxCalls = 2
  MaxAir = 2
INVARIANTS TypeOK DoneMeansSent ReceivedWhole Armed
PROPERTIES CallReturns
CHECK_DEADLOCK FALSE
