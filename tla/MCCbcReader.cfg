SPECIFICATION Spec
CONSTANTS
  Block = 3
  BufferSize = 6
  MaxFile = 16
  OutLens <- MCOutLens
  ShortReads = FALSE
  Faults = {}
INVARIANTS
  TypeOK
  PlaintextInOrder
  StreamAgreesWithOneShot
  DecryptsWhatWasEncrypted
PROPERTIES
  ImplementsPlainStream
