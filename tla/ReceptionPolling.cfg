CONSTANTS
  Bytes = {126, 92, 94, 32, 10}
  HeaderSize = 2
  CheckSize = 2
  Lengths = {0, 1, 2}
  MaxPayload = 1
  Timeout = 2
  FifoSize = 2
SPECIFICATION Spec
PROPERTIES
  NoByteDropped
