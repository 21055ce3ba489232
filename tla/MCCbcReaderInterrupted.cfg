SPECIFICATION RetrySpec
CONSTANTS
  Block = 3
  BufferSize = 6
  MaxFile = 16
  OutLens <- MCOutLens
  ShortReads = FALSE
  Faults = {"Interrupted", "Other"}
INVARIANTS
  NeverRepeats
  GarbageOnlyAfterError
