CONSTANTS
  ChunkSize = 2
  MaxRetries = 3
  MaxFaults = 1
  Messages <- MCPackets
  LogWrites <- MCLogWrites
SPECIFICATION Spec
INVARIANTS
  PacketsIntact
