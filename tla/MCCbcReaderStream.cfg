SPECIFICATION FairSpec
CONSTANTS
  Block = 3
  BufferSize = 6
  MaxFile = 16
  OutLens <- MCOutLensNonempty
  ShortReads = FALSE
  Faults = {"Other"}
PROPERTIES
  ImplementsPlainStream
  Drains
