SPECIFICATION Spec
CONSTANTS
  a = a
  b = b
  c = c
  i1 = i1
  i2 = i2
  i3 = i3
  Sessions = {a, b}
  Encrypted = {a, b}
  Inodes = {i1, i2, i3}
  DbLen <- MCDbLen
  MaxLen = 2
  Faults = {}
  Hole = Hole
  NoFile = NoFile
INVARIANTS
  QueriesSeeOwnDb
