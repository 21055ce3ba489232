-------------------------------- MODULE Archive --------------------------------
(***************************************************************************)
(* MBFile::from_plist and FileKeyPair::new (src/backup/models/file.rs).     *)
(* The database has of each file an NSKeyedArchiver archive: an array of    *)
(* objects in any order, which refer to each other by index, and the index  *)
(* of the root among them.                                                  *)
(*                                                                         *)
(* A key blob is [len, kek, key]: its bytes, the key it is wrapped with, and *)
(* the key inside.                                                          *)
(***************************************************************************)
EXTENDS Sequences, Plist

CONSTANTS
  IntRange,     \* 2^63: the integers from here on are no i64
  NoKey         \* None: encryption_key

(* objects.get(uid): an index counts from 0. *)
Objects(p) == p.dict["$objects"].array
IsObject(p, uid) == uid < Len(Objects(p)) /\ IsDictionary(Objects(p)[uid + 1])
Object(p, uid) == Objects(p)[uid + 1].dict

HasRoot(p) ==
  /\ IsDictionary(p) /\ Has(p.dict, "$top", "dictionary")
  /\ Has(p.dict["$top"].dict, "root", "uid")
RootUid(p) == p.dict["$top"].dict["root"].uid
Root(p) == Object(p, RootUid(p))

(* An EncryptionKey that is no reference is as good as none. *)
HasKey(p) == Has(Root(p), "EncryptionKey", "uid")
KeyUid(p) == Root(p)["EncryptionKey"].uid
KeyBlob(p) == Object(p, KeyUid(p))["NS.data"].data

Resolves(p) ==
  /\ HasRoot(p) /\ Has(p.dict, "$objects", "array") /\ IsObject(p, RootUid(p))
  /\ HasKey(p) => IsObject(p, KeyUid(p)) /\ Has(Object(p, KeyUid(p)), "NS.data", "data")

Required ==
  {"LastModified", "Flags", "LastStatusChange", "Birth", "Size", "Mode", "InodeNumber",
   "ProtectionClass"}
HasFields(root) == HasInt(root, "GroupID", IntRange) /\ \A k \in Required : HasUint(root, k)

(* split_at(4) wants four bytes for the class number, and panics before any
   field is looked at. *)
Outcome(p) ==
  IF ~Resolves(p) THEN "error"
  ELSE IF HasKey(p) /\ KeyBlob(p).len < 4 THEN "panic"
  ELSE IF HasFields(Root(p)) THEN "entry" ELSE "error"

(* What becomes of an archive that yields an entry: its ProtectionClass, and
   its wrapped key without the class number that comes before it. *)
Class(p) == Root(p)["ProtectionClass"].integer

(* Mutant: the class number is taken for a part of the wrapped key. *)
FileKeyWhole(p) == IF HasKey(p) THEN KeyBlob(p) ELSE NoKey

FileKey(p) ==
  IF HasKey(p)
  THEN [len |-> KeyBlob(p).len - 4, kek |-> KeyBlob(p).kek, key |-> KeyBlob(p).key]
  ELSE NoKey
=============================================================================
