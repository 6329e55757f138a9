CONSTANTS
  SeqMod = 4
  HeapBlocks = 6
  HardwareAnswers = {TRUE}
  DisplayAnswers = {TRUE}
SPECIFICATION Spec
INVARIANTS
  TypeOK
  LoopSeesIdleOrError
PROPERTIES
  SessionSpec
CHECK_DEADLOCK FALSE
