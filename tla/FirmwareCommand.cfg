CONSTANTS
  SeqMod = 4
  HeapBlocks = 6
  HardwareAnswers = {TRUE}
  DisplayAnswers = {TRUE}
SPECIFICATION FairSpec
PROPERTIES
  CommandIsProcessed
CHECK_DEADLOCK FALSE
