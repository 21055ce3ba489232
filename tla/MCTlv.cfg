CONSTANTS
  Base = 2
  TagSize = 1
  Widths = {16, 4096}
  Writings <- MCWritings
CHECK_DEADLOCK FALSE
SPECIFICATION Spec
INVARIANT TypeOK
PROPERTIES
  ImplementsBlockSource
  Ends
