CONSTANTS
  SeqMod = 4
  ImageSize = 4
  Sizes = {4}
  Lengths = {1, 2}
  MaxRetries = 2
  ErrorBound = 4
  PanelOutcomes = {"not_ready", "write_fails", "end_fails", "shown"}
SPECIFICATION Spec
INVARIANTS
  FailedChunkAwaited
