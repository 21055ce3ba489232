SPECIFICATION Spec
CONSTANTS
  a = a
  b = b
  c = c
  i1 = i1
  i2 = i2
  i3 = i3
  Sessions = {a, b, c}
  Encrypted = {a, b}
  Inodes = {i1, i2, i3}
  DbLen <- MCDbLen
  MaxLen = 2
  Faults <- MCFaults
  Hole = Hole
  NoFile = NoFile
INVARIANTS
  TypeOK
  AloneSeesOwnDb
  NoStaleRows
  NoLitterWithoutFault
PROPERTIES
  ImplementsPrivateDb
