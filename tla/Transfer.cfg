CONSTANTS
  SeqMod = 4
  ImageSize = 4
  Sizes = {0, 3, 4, 5}
  Lengths = {0, 1, 2}
  MaxRetries = 2
  ErrorBound = 4
  PanelOutcomes = {"not_ready", "write_fails", "end_fails", "shown"}
SPECIFICATION Spec
INVARIANTS
  TypeOK
  BufferHoldsReceived
  NoResidue
  PanelShowsReceived
PROPERTIES
  ImageDelivered
  GivingUpEnds
