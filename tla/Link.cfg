CONSTANTS
  MaxTries = 3
  Chunks = 3
  SeqMod = 3
  Capacity = 2
  SyncReplies = {"ACK", "SYNC_ACK"}
SPECIFICATION FairSpec
INVARIANTS
  TypeOK
  CompletedMeansTaken
  ErrorStateExplained
PROPERTIES
  TakenInOrder
  TakenOnce
  Delivered
  OperationEnds
  OperationBounded
