------------------------------- MODULE MCBackup -------------------------------
(* Backups A and B hold files of the same names under class numbers of the same
   values, with other keys; A's files are each odd in a way of their own, and A
   is the one that is used. *)
EXTENDS Backup, TLC

CONSTANTS a, b, i1, i2

MCDbLen == [s \in Sessions |-> IF s = a THEN 2 ELSE 1]
MCFaults == {"crash"}
MCInodesAlike == Permutations({i1, i2})

MCBackupOf == [s \in Sessions |-> IF s = a THEN "A" ELSE "B"]

MCFileIds == 1..10
MCPieceOf == [f \in MCFileIds |-> IF f <= 4 THEN 1 ELSE 2]
MCUnlocked == [d \in {"A", "B"} |-> {2, 3}]
MCShortIds == {9}

(* The objects of an archive: the root, which says that its key is at an index,
   and the key, among others. *)
Nil == Archived!String
RootOf(class, key) ==
  Archived!Dictionary(
    [k \in Archived!Required \cup {"GroupID", "EncryptionKey"} |->
       IF k = "EncryptionKey" THEN key
       ELSE IF k = "ProtectionClass" THEN Archived!Integer(class)
       ELSE IF k = "GroupID" THEN Archived!Integer(-2) ELSE Archived!Integer(0)])
Blob(d, f, class, n) ==
  Archived!Dictionary([k \in {"NS.data"} |->
    Archived!Data([len |-> n, kek |-> <<d, class>>, key |-> <<d, f>>])])
ArchiveOf(root, objects) ==
  Archived!Dictionary([k \in {"$top", "$objects"} |->
    IF k = "$objects" THEN Archived!Array(objects)
    ELSE Archived!Dictionary([r \in {"root"} |-> Archived!Uid(root)])])

RootFirst(class, blob) == ArchiveOf(1, <<Nil, RootOf(class, Archived!Uid(2)), blob>>)
KeyFirst(class, blob) == ArchiveOf(2, <<Nil, blob, RootOf(class, Archived!Uid(1))>>)

(* A class beyond u32, a class that is not unlocked, a key that is no reference,
   a key of another class, a key of 16 bytes. *)
RowOfA(f) ==
  CASE f = 2 -> KeyFirst(3 + 8, Blob("A", f, 3, 44))
    [] f = 3 -> RootFirst(4, Blob("A", f, 4, 44))
    [] f = 4 -> ArchiveOf(1, <<Nil, RootOf(2, Nil)>>)
    [] f = 5 -> RootFirst(2, Blob("A", f, 3, 44))
    [] f = 6 -> KeyFirst(2, Blob("A", f, 2, 28))
    [] f = 10 -> KeyFirst(2, Blob("A", f, 2, 44))
    [] f = 7 -> KeyFirst(3, Blob("A", f, 3, 44))
    [] OTHER -> RootFirst(3, Blob("A", f, 3, 44))

(* A key blob that is too short, no row, an index that leads nowhere. *)
RowOfB(f) ==
  CASE f = 2 -> RootFirst(3, Blob("B", f, 3, 3))
    [] f = 3 -> NoRow
    [] f = 4 -> ArchiveOf(1, <<Nil, RootOf(3, Archived!Uid(2))>>)
    [] OTHER -> RootFirst(3, Blob("B", f, 3, 44))

MCRecord ==
  [d \in {"A", "B"} |-> [f \in MCFileIds |->
     IF d = "A" THEN RowOfA(f) ELSE RowOfB(f)]]

(* File 5 is missing, 7 is shorter than a block, the padding of 8 is broken. *)
MCStored ==
  [d \in {"A", "B"} |-> [f \in MCFileIds |->
     IF f = 5 THEN NoStoredFile
     ELSE [key |-> <<d, f>>, len |-> IF f = 7 THEN 2 ELSE 3 * f,
           pad |-> IF f \in {7, 8} THEN 0 ELSE 2]]]
=============================================================================
