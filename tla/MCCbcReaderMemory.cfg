SPECIFICATION Spec
CONSTANTS
  Block = 3
  BufferSize = 9
  MaxFile = 21
  OutLens <- MCOutLens
  ShortReads = FALSE
  Faults = {}
INVARIANTS
  HoldsTwoBlocks
