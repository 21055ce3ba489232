SPECIFICATION BackupSpec
CONSTANTS
  a = a
  b = b
  i1 = i1
  i2 = i2
  Sessions = {a, b}
  Encrypted = {a, b}
  Inodes = {i1, i2}
  DbLen <- MCDbLen
  MaxLen = 2
  Faults <- MCFaults
  Hole = Hole
  NoFile = NoFile
  BackupOf <- MCBackupOf
  FileIds <- MCFileIds
  PieceOf <- MCPieceOf
  Record <- MCRecord
  Stored <- MCStored
  Unlocked <- MCUnlocked
  ShortIds <- MCShortIds
  ClassRange = 8
  IntRange = 16
  Block = 3
  Users = {a}
  NoEntry = NoEntry
  NoRow = NoRow
  NoKey = NoKey
  NoStoredFile = NoStoredFile
SYMMETRY MCInodesAlike
INVARIANTS
  BackupTypeOK
  OwnPlaintextOnly
  BothWaysAgree
  OwnEntriesDecrypt
