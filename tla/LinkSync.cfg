CONSTANTS
  MaxTries = 2
  Chunks = 1
  SeqMod = 3
  Capacity = 2
  SyncReplies = {"ACK"}
SPECIFICATION Spec
PROPERTY
  AnswerEndsSync
