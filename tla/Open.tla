---------------------------------- MODULE Open ----------------------------------
(***************************************************************************)
(* Backup::open (src/backup/mod.rs) and get_device_basic_info               *)
(* (src/backup/device.rs) over the files of a backup, any of which may      *)
(* disappear while the call is at work: the checks of the directory and of  *)
(* Manifest.plist, ManifestData::from_plist, Manifest::from_manifest_data   *)
(* (module Manifest), and ManifestDb::new up to the decryption of           *)
(* Manifest.db, which module ManifestDb takes from there.                   *)
(***************************************************************************)
EXTENDS Manifest, Plist

CONSTANTS
  Plists,       \* bound: the contents of Manifest.plist
  LossPoints    \* bound: what the call is about to do when files disappear

(* The length of the data that a ManifestKey is, in bytes. *)
ASSUME OpenAssumption ==
  \A p \in Plists :
    IsDictionary(p) /\ Has(p.dict, "ManifestKey", "data") => p.dict["ManifestKey"].data.len \in Nat

VARIABLES
  call,         \* "open" or "info"
  plist,        \* what Manifest.plist says
  files,        \* "dir", "plist": which of them there are
  db,           \* Manifest.db: "absent", "written", "cut" (no first cipher block
                \* can be read) or "fresh", an empty database that SQLite created
  at,           \* what the call does next
  returned,     \* "" until the call returns, then what it returned
  lostSeen      \* Manifest.db disappeared after exists() had seen it

disk == <<plist, files, db, lostSeen>>
manifestVars == vars
openVars == <<manifestVars, call, disk, at, returned>>

(* ManifestData::from_plist: what is not a boolean is false. *)
IsEncrypted(p) ==
  /\ IsDictionary(p) /\ Has(p.dict, "IsEncrypted", "boolean")
  /\ p.dict["IsEncrypted"].boolean
BagOf(p) ==
  IF IsDictionary(p) /\ Has(p.dict, "BackupKeyBag", "data")
  THEN p.dict["BackupKeyBag"].data ELSE <<>>

OpenInit ==
  /\ plist \in Plists /\ bag = BagOf(plist) /\ encrypted = IsEncrypted(plist)
  /\ ManifestInit
  /\ call \in {"open", "info"} /\ (call = "info" => auth.kind = "none")
  /\ at = IF call = "open" THEN "root" ELSE "plist"
  /\ files = {"dir", "plist"} /\ db \in {"written", "cut"}
  /\ returned = "" /\ lostSeen = FALSE

-----------------------------------------------------------------------------
Go(to) == at' = to /\ UNCHANGED <<call, disk, returned>>
Give(what) == at' = "returned" /\ returned' = what /\ UNCHANGED <<call, disk>>

CheckRoot ==
  /\ at = "root" /\ UNCHANGED manifestVars
  /\ IF "dir" \in files THEN Go("plist") ELSE Give("InvalidBackupRoot")

CheckPlist ==
  /\ at = "plist" /\ UNCHANGED manifestVars
  /\ IF "plist" \in files THEN Go("read") ELSE Give("ManifestPlistNotFound")

ReadPlist ==
  /\ at = "read" /\ UNCHANGED manifestVars
  /\ IF "plist" \notin files THEN Give("ManifestPlistNotFound")
     ELSE IF IsDictionary(plist) /\ (encrypted => Has(plist.dict, "BackupKeyBag", "data"))
     THEN Go("bag") ELSE Give("PlistParseError")

ReadBag == at = "bag" /\ ParseBag /\ Go("bag")
BagIsBad == at = "bag" /\ BagFails /\ Give(phase)

(* filter_map: an application that cannot be read is left out. *)
Apps ==
  LET all == plist.dict["Applications"].dict
  IN  {a \in DOMAIN all : IsApplication(all[a])}

(* Mutant: collect() into a Result, which one application can spoil. *)
AskedAllApps ==
  LET d == plist.dict
  IN  << [ok |-> encrypted => Has(d, "ManifestKey", "data"), error |-> "PlistParseError"],
         [ok |-> "Lockdown" \in DOMAIN d, error |-> "MissingPlistKey"],
         [ok |-> "Lockdown" \in DOMAIN d => IsLockdown(d["Lockdown"]), error |-> "PlistParseError"],
         [ok |-> "Applications" \in DOMAIN d, error |-> "MissingPlistKey"],
         [ok |-> Has(d, "Applications", "dictionary") /\ Apps = DOMAIN d["Applications"].dict,
          error |-> "PlistParseError"] >>

(* What from_plist asks for after the key bag, in its order. *)
Asked ==
  LET d == plist.dict
  IN  << [ok |-> encrypted => Has(d, "ManifestKey", "data"), error |-> "PlistParseError"],
         [ok |-> "Lockdown" \in DOMAIN d, error |-> "MissingPlistKey"],
         [ok |-> "Lockdown" \in DOMAIN d => IsLockdown(d["Lockdown"]), error |-> "PlistParseError"],
         [ok |-> "Applications" \in DOMAIN d, error |-> "MissingPlistKey"],
         [ok |-> Has(d, "Applications", "dictionary"), error |-> "PlistParseError"] >>

ReadFields ==
  /\ at = "bag" /\ (encrypted => phase = "parsed") /\ UNCHANGED manifestVars
  /\ LET refused == {i \in DOMAIN Asked : ~Asked[i].ok}
     IN  IF refused # {} THEN Give(Asked[Min(refused)].error)
         ELSE IF call = "open" THEN Go("keys") ELSE Give("info")

(* Mutant: the result of from_manifest_data is not looked at. *)
GetKeysAnyway ==
  /\ at = "keys" /\ FromManifestData
  /\ IF outcome' = "" THEN Go("keys") ELSE Go("db")

GetKeys ==
  /\ at = "keys" /\ FromManifestData
  /\ IF outcome' = "" THEN Go("keys") ELSE IF outcome' = "open" THEN Go("db") ELSE Give(outcome')

-----------------------------------------------------------------------------
(* ManifestDb::new *)

(* Mutant: it is not asked whether there is a database. *)
CheckDbNot == at = "db" /\ Go("connect") /\ UNCHANGED manifestVars

CheckDb ==
  /\ at = "db" /\ UNCHANGED manifestVars
  /\ IF db = "absent" THEN Give("ManifestDbNotFound") ELSE Go("connect")

(* Connection::open creates a database where there is none. *)
ConnectPlain ==
  /\ at = "connect" /\ ~encrypted /\ UNCHANGED <<manifestVars, call, plist, files, lostSeen>>
  /\ db' = IF db = "absent" /\ "dir" \in files THEN "fresh" ELSE db
  /\ returned' = IF "dir" \in files THEN "open" ELSE "Database"
  /\ at' = "returned"

(* The class and the wrapped key that a ManifestKey consists of. *)
ManifestKey == plist.dict["ManifestKey"].data

(* Mutant: the class is read with its high byte first. *)
KeyClassBigEndian == ManifestKey.class * 16777216

(* from_le_bytes *)
KeyClass == ManifestKey.class
ClassKey == unlocked[KeyClass]
DbKey == Wrapped[ManifestKey.wrapped.val].key

(* FileKeyPair::new, get_class_key, aes_kw_unwrap, File::open and the first block
   that AesCbcDecryptReader::from reads: the first that fails decides. *)
DbSteps ==
  << [ok |-> ManifestKey.len >= 4, error |-> "panic"],
     [ok |-> KeyClass \in DOMAIN unlocked, error |-> "Crypto"],
     [ok |-> KeyClass \in DOMAIN unlocked => Unwraps(ClassKey, ManifestKey.wrapped),
      error |-> "KeyUnwrapFailed"],
     [ok |-> db # "absent", error |-> "Io"],
     [ok |-> Len(DbKey) = KeyLen, error |-> "InvalidCryptoDataLength"],
     [ok |-> db # "cut", error |-> "Crypto"] >>

(* Mutant: a key that cannot be unwrapped is no reason to stop. *)
DecryptDbAnyway ==
  /\ at = "connect" /\ encrypted /\ UNCHANGED manifestVars
  /\ LET failed == {i \in DOMAIN DbSteps \ {2, 3} : ~DbSteps[i].ok}
     IN  IF failed = {} THEN Go("copy") ELSE Give(DbSteps[Min(failed)].error)

DecryptDb ==
  /\ at = "connect" /\ encrypted /\ UNCHANGED manifestVars
  /\ LET failed == {i \in DOMAIN DbSteps : ~DbSteps[i].ok}
     IN  IF failed = {} THEN Go("copy") ELSE Give(DbSteps[Min(failed)].error)

(* What may go wrong with the temporary file, when it is created, written and
   opened (module ManifestDb): the variants Io, Crypto and Database, told apart
   here from those of what comes before. *)
CopyErrors == {"TmpIo", "TmpCrypto", "TmpDatabase"}

CopyDb ==
  /\ at = "copy" /\ UNCHANGED manifestVars
  /\ \E result \in CopyErrors \cup {"open"} : Give(result)

(* The caller comes again with the text of the key. *)
OpenAgain ==
  /\ at = "returned" /\ returned = "open" /\ Reopen
  /\ at' = "root" /\ returned' = "" /\ UNCHANGED <<call, disk>>

(* Somebody removes a file, or the backup: before the call or during it. *)
Lose(f) ==
  /\ at \in LossPoints /\ f \in files \cup {"db"} /\ (f = "db" => db # "absent")
  /\ files' = IF f = "dir" THEN {} ELSE files \ {f}
  /\ db' = IF f \in {"dir", "db"} THEN "absent" ELSE db
  /\ lostSeen' = (lostSeen \/ (at = "connect" /\ db' # db))
  /\ UNCHANGED <<manifestVars, call, plist, at, returned>>

Step ==
  \/ CheckRoot \/ CheckPlist \/ ReadPlist \/ ReadBag \/ BagIsBad \/ ReadFields \/ GetKeys
  \/ CheckDb \/ ConnectPlain \/ DecryptDb \/ CopyDb

OpenNext == Step \/ OpenAgain \/ \E f \in {"dir", "plist", "db"} : Lose(f)

(* The call runs on; nobody has to remove a file or to open the backup again. *)
OpenSpec == OpenInit /\ [][OpenNext]_openVars /\ WF_openVars(Step)

-----------------------------------------------------------------------------
PlistErrors == {"PlistParseError", "MissingPlistKey"}

OpenTypeOK ==
  /\ ManifestTypeOK
  /\ bag = BagOf(plist) /\ encrypted = IsEncrypted(plist)
  /\ call \in {"open", "info"} /\ files \in {{}, {"dir"}, {"dir", "plist"}}
  /\ db \in {"absent", "written", "cut", "fresh"}
  /\ at \in {"root", "plist", "read", "bag", "keys", "db", "connect", "copy", "returned"}
  /\ at = "returned" <=> returned # ""
  /\ at \in {"db", "connect", "copy"} => outcome = "open"

(* A Manifest.plist that is all it should be, its applications apart. *)
SoundPlist ==
  /\ IsDictionary(plist)
  /\ encrypted => Has(plist.dict, "BackupKeyBag", "data") /\ Has(plist.dict, "ManifestKey", "data")
  /\ Has(plist.dict, "Lockdown", "dictionary") /\ IsLockdown(plist.dict["Lockdown"])
  /\ Has(plist.dict, "Applications", "dictionary")

(* Whether the plist is accepted is decided by the plist: both calls refuse the
   same ones, with whatever authentication, however its fields are damaged or
   missing, and an application that cannot be read is no reason to refuse it
   (device.rs:40 reads the whole of it for the sake of the lockdown fields). *)
PlistDecides ==
  /\ returned \in PlistErrors => ~SoundPlist
  /\ (at \in {"keys", "db", "connect", "copy"} \/ returned = "info") => SoundPlist
  /\ call = "info" => returned \in PlistErrors \cup {"", "info", "ManifestPlistNotFound", "error", "panic"}

(* A backup as its writer left it, sealed under pw. *)
Intact == files = {"dir", "plist"} /\ db = "written" /\ SoundPlist
KeySealed ==
  LET class == ManifestKey.class
      wpky == Written(bag)[class].wpky
  IN  /\ ManifestKey.len >= 4 /\ class \in Classes(bag) /\ Protected(Written(bag)[class])
      /\ Unwraps(Wrapped[wpky.val].key, ManifestKey.wrapped)
      /\ Len(DbKey) = KeyLen

Knows(pw) ==
  \/ auth.kind = "password" /\ auth.pw = pw
  \/ auth.kind = "key" /\ Spells(auth.text, SealKey(pw))

(* From end to end: an encrypted backup that is whole opens for whoever has its
   password, or any spelling of the key that follows from it, unless something
   goes wrong with the temporary file, when all keys have been found; and for
   nobody else. *)
OpensForItsKeyOnly ==
  call = "open" /\ encrypted /\ phase = "parsed" /\ returned # "" /\ Intact /\ outcome # "" =>
    \A pw \in Passwords :
      SealedBy(pw) /\ KeySealed =>
        IF Knows(pw) THEN returned \in CopyErrors \cup {"open"}
        ELSE returned \in {"PasswordOrKeyRequired", "PasswordOrKeyIncorrect", "HexDecode", "panic"}

(* However damaged the backup is, an encrypted one that opens did so with a key
   that unwraps a class key that unwraps the ManifestKey: a password that nothing
   in the key bag contradicts, because no class of it is protected, does not
   open it. *)
NeverOpensUnlocked ==
  encrypted /\ returned = "open" =>
    \E c \in DOMAIN classKeys :
      /\ Protected(classKeys[c]) /\ Wrapped[classKeys[c].wpky.val].kek = master
      /\ Wrapped[ManifestKey.wrapped.val].kek = Wrapped[classKeys[c].wpky.val].key

(* Backup::open and get_device_basic_info panic in four cases and in no other: the
   text of a key with a character of several bytes in the middle of a pair
   (hex.rs:24), a ManifestKey shorter than its class (file.rs:28), a class record
   without a class (keyring.rs:92, 125), and, where a usize has 32 bits, a key bag
   whose last block would end beyond what it can count (tlv.rs:47). *)
PanicsExplained ==
  returned = "panic" =>
    \/ auth.kind = "key" /\ \E i \in DOMAIN auth.text : i % 2 = 1 /\ auth.text[i] = Cont
    \/ SoundPlist /\ ManifestKey.len < 4
    \/ \E i \in Records(bag) : Last(bag, i, "CLAS") = Absent
    \/ Named(bag, "OVER") # {}

(* "ManifestDbNotFound if the DB file is missing" (manifest_db.rs:48): an empty
   database takes the place of a missing one only if it went missing after
   exists() had seen it, and never in an encrypted backup. *)
FreshOnlyIfLostInBetween == db = "fresh" => lostSeen /\ ~encrypted

(* Whatever the files say and whenever they disappear, the call returns. *)
Returns == at # "returned" ~> at = "returned"
=============================================================================
