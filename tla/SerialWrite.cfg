CONSTANTS
  ChunkSize = 2
  MaxRetries = 3
  MaxFaults = 3
  Messages <- MCMessages
  LogWrites <- MCLogWrites
SPECIFICATION Spec
INVARIANTS
  TypeOK
  SuccessMeansSent
  NestingNeedsFaults
  OverflowEnds
