------------------------------ MODULE OpenProofs ------------------------------
(***************************************************************************)
(* What TLAPS proves of Open, for every Manifest.plist, authentication and  *)
(* moment at which files disappear: the plist alone decides whether the     *)
(* plist is accepted, an encrypted backup opens for its key and not without *)
(* one, and the panics are the ones that PanicsExplained lists.             *)
(***************************************************************************)
EXTENDS Open, ManifestProofs

(* The steps of DbSteps that are decided by what the key bag unlocked. *)
KeyFits ==
  /\ ManifestKey.len >= 4 /\ ManifestKey.class \in DOMAIN unlocked
  /\ Unwraps(ClassKey, ManifestKey.wrapped) /\ Len(DbKey) = KeyLen

Tried == CopyErrors \cup {"open"}

-----------------------------------------------------------------------------
(* The inductive invariant, besides Manifest's. *)

FilesFit ==
  /\ plist \in Plists
  /\ bag = BagOf(plist) /\ encrypted = IsEncrypted(plist)
  /\ call \in {"open", "info"} /\ files \in {{}, {"dir"}, {"dir", "plist"}}
  /\ db \in {"absent", "written", "cut", "fresh"}
  /\ at \in {"root", "plist", "read", "bag", "keys", "db", "connect", "copy", "returned"}
  /\ at = "returned" <=> returned # ""

(* How far the call is, and how far from_manifest_data is. *)
StageFits ==
  /\ at \in {"root", "plist", "read", "bag", "keys"} => outcome = ""
  /\ at \in {"db", "connect", "copy"} => outcome = "open"
  /\ outcome \notin {"", "open"} => at = "returned" /\ returned = outcome
  /\ call = "info" => at \in {"plist", "read", "bag", "returned"}

PlistFits ==
  /\ at = "bag" => IsDictionary(plist) /\ (encrypted => Has(plist.dict, "BackupKeyBag", "data"))
  /\ PlistDecides

(* A database is missing when it is connected to only if it was lost. *)
DbFits ==
  /\ at = "connect" /\ db = "absent" => lostSeen
  /\ FreshOnlyIfLostInBetween

(* The database is decrypted only with a key that fits, and nothing but a key
   that does not fit keeps a database that is there from being decrypted. *)
KeyFollows ==
  encrypted =>
    /\ at = "copy" => KeyFits
    /\ returned = "open" => outcome = "open" /\ KeyFits
    /\ returned # "" /\ outcome = "open" /\ db = "written" => returned \in Tried \/ ~KeyFits

OInv == MInv /\ FilesFit /\ StageFits /\ PlistFits /\ DbFits /\ KeyFollows /\ PanicsExplained

-----------------------------------------------------------------------------
(* What the call does to the part of it that is Manifest's. *)

(* A step that leaves the manifest alone leaves alone what is said of it. *)
LEMMA QuietSteps ==
  ASSUME OInv, UNCHANGED manifestVars, UNCHANGED <<plist, call>>
  PROVE  /\ MInv'
         /\ bag' = bag /\ (encrypted' <=> encrypted) /\ auth' = auth /\ outcome' = outcome
      /\ phase' = phase /\ (SoundPlist' <=> SoundPlist) /\ (KeyFits' <=> KeyFits)
      /\ ManifestKey' = ManifestKey
         /\ bag' = BagOf(plist') /\ encrypted' = IsEncrypted(plist')
<1>1. MInv'
  BY ManifestInductive DEF OInv, manifestVars
<1>2. UNCHANGED <<bag, encrypted, auth, outcome, phase, unlocked>>
  BY DEF manifestVars, vars, parseVars, authVars
<1>3. UNCHANGED <<SoundPlist, KeyFits, ManifestKey>>
  BY <1>2 DEF SoundPlist, KeyFits, ManifestKey, KeyClass, ClassKey, DbKey
<1> QED BY <1>1, <1>2, <1>3 DEF OInv, FilesFit

(* A step that goes on to the next stage... *)
LEMMA GoInv ==
  ASSUME OInv, UNCHANGED manifestVars, at # "returned", NEW to, Go(to),
         to \in {"plist", "read", "bag", "keys", "db", "connect", "copy"},
         to \in {"plist", "read", "bag", "keys"} => outcome = "",
         to \in {"db", "connect", "copy"} => outcome = "open",
         call = "info" => to \in {"plist", "read", "bag"},
         to = "bag" => IsDictionary(plist)
                       /\ (encrypted => Has(plist.dict, "BackupKeyBag", "data")),
         to \in {"keys", "db", "connect", "copy"} => SoundPlist,
         to = "connect" => db # "absent",
         to = "copy" /\ encrypted => KeyFits
  PROVE  OInv'
<1>1. /\ at' = to /\ call' = call /\ plist' = plist /\ files' = files /\ db' = db
      /\ (lostSeen' <=> lostSeen) /\ returned' = returned
  BY DEF Go, disk
<1>2. /\ MInv'
      /\ bag' = bag /\ (encrypted' <=> encrypted) /\ auth' = auth /\ outcome' = outcome
      /\ phase' = phase /\ (SoundPlist' <=> SoundPlist) /\ (KeyFits' <=> KeyFits)
      /\ ManifestKey' = ManifestKey
      /\ bag' = BagOf(plist') /\ encrypted' = IsEncrypted(plist')
  BY <1>1, QuietSteps
<1>3. returned = "" /\ outcome \in {"", "open"}
  BY DEF OInv, FilesFit, StageFits
<1>4. FilesFit' /\ StageFits'
  BY <1>1, <1>2, <1>3 DEF OInv, FilesFit, StageFits
<1>5. PlistFits'
  BY <1>1, <1>2, <1>3 DEF PlistFits, PlistDecides, PlistErrors
<1>6. DbFits'
  BY <1>1, <1>2 DEF OInv, DbFits, FreshOnlyIfLostInBetween
<1>7. KeyFollows'
  BY <1>1, <1>2, <1>3 DEF KeyFollows
<1>8. PanicsExplained'
  BY <1>1, <1>3 DEF PanicsExplained
<1> QED BY <1>2, <1>4, <1>5, <1>6, <1>7, <1>8 DEF OInv

(* ...and one that returns. *)
LEMMA GiveInv ==
  ASSUME OInv, UNCHANGED manifestVars, at # "returned", NEW what, Give(what), what # "",
         what \in PlistErrors => ~SoundPlist,
         what = "info" => SoundPlist,
         call = "info" => what \in PlistErrors \cup {"info", "ManifestPlistNotFound"},
         what = "panic" => SoundPlist /\ ManifestKey.len < 4,
         encrypted => /\ what = "open" => outcome = "open" /\ KeyFits
                      /\ outcome = "open" /\ db = "written" => what \in Tried \/ ~KeyFits
  PROVE  OInv'
<1>1. /\ at' = "returned" /\ returned' = what /\ call' = call /\ plist' = plist
      /\ files' = files /\ db' = db /\ (lostSeen' <=> lostSeen)
  BY DEF Give, disk
<1>2. /\ MInv'
      /\ bag' = bag /\ (encrypted' <=> encrypted) /\ auth' = auth /\ outcome' = outcome
      /\ phase' = phase /\ (SoundPlist' <=> SoundPlist) /\ (KeyFits' <=> KeyFits)
      /\ ManifestKey' = ManifestKey
      /\ bag' = BagOf(plist') /\ encrypted' = IsEncrypted(plist')
  BY <1>1, QuietSteps
<1>3. outcome \in {"", "open"}
  BY DEF OInv, StageFits
<1>4. FilesFit' /\ StageFits'
  BY <1>1, <1>2, <1>3 DEF OInv, FilesFit, StageFits
<1>5. PlistFits'
  BY <1>1, <1>2 DEF PlistFits, PlistDecides
<1>6. DbFits'
  BY <1>1, <1>2 DEF OInv, DbFits, FreshOnlyIfLostInBetween
<1>7. KeyFollows'
  BY <1>1, <1>2 DEF KeyFollows
<1>8. PanicsExplained'
  BY <1>1, <1>2 DEF PanicsExplained
<1> QED BY <1>2, <1>4, <1>5, <1>6, <1>7, <1>8 DEF OInv

LEMMA ChecksInv == OInv /\ (CheckRoot \/ CheckPlist \/ ReadPlist \/ CheckDb) => OInv'
<1> SUFFICES ASSUME OInv, CheckRoot \/ CheckPlist \/ ReadPlist \/ CheckDb PROVE OInv'
  OBVIOUS
<1>1. (at \in {"root", "plist", "read"} => outcome = "") /\ (at = "db" => outcome = "open" /\ SoundPlist)
      /\ (call = "info" => at \notin {"root", "db"})
  BY DEF OInv, StageFits, PlistFits, PlistDecides
<1>2. CASE CheckRoot
  <2>1. at = "root" /\ UNCHANGED manifestVars /\ (Go("plist") \/ Give("InvalidBackupRoot"))
    BY <1>2 DEF CheckRoot
  <2> QED BY <1>1, <2>1, GoInv, GiveInv DEF PlistErrors
<1>3. CASE CheckPlist
  <2>1. at = "plist" /\ UNCHANGED manifestVars /\ (Go("read") \/ Give("ManifestPlistNotFound"))
    BY <1>3 DEF CheckPlist
  <2> QED BY <1>1, <2>1, GoInv, GiveInv DEF PlistErrors
<1>4. CASE ReadPlist
  <2> DEFINE good == IsDictionary(plist) /\ (encrypted => Has(plist.dict, "BackupKeyBag", "data"))
  <2>1. at = "read" /\ UNCHANGED manifestVars
        /\ (Give("ManifestPlistNotFound") \/ (good /\ Go("bag")) \/ (~good /\ Give("PlistParseError")))
    BY <1>4 DEF ReadPlist
  <2>2. ~good => ~SoundPlist
    BY DEF SoundPlist
  <2> QED BY <1>1, <2>1, <2>2, GoInv, GiveInv DEF PlistErrors
<1>5. CASE CheckDb
  <2>1. at = "db" /\ UNCHANGED manifestVars
        /\ ((db = "absent" /\ Give("ManifestDbNotFound")) \/ (db # "absent" /\ Go("connect")))
    BY <1>5 DEF CheckDb
  <2> QED BY <1>1, <2>1, GoInv, GiveInv DEF PlistErrors
<1> QED BY <1>2, <1>3, <1>4, <1>5

LEMMA ReadFieldsInv == OInv /\ ReadFields => OInv'
<1> SUFFICES ASSUME OInv, ReadFields PROVE OInv'
  OBVIOUS
<1> DEFINE refused == {i \in DOMAIN Asked : ~Asked[i].ok}
<1>1. /\ at = "bag" /\ UNCHANGED manifestVars
      /\ IF refused # {} THEN Give(Asked[Min(refused)].error)
         ELSE IF call = "open" THEN Go("keys") ELSE Give("info")
  BY DEF ReadFields
<1>2. outcome = "" /\ IsDictionary(plist) /\ (encrypted => Has(plist.dict, "BackupKeyBag", "data"))
      /\ call \in {"open", "info"}
  BY <1>1 DEF OInv, FilesFit, StageFits, PlistFits
<1>3. DOMAIN Asked = 1..5 /\ \A i \in 1..5 : Asked[i].error \in PlistErrors
  BY DEF Asked, PlistErrors
<1>4. refused = {} <=> SoundPlist
  <2>1. (\A i \in 1..5 : Asked[i].ok) <=>
          /\ encrypted => Has(plist.dict, "ManifestKey", "data")
          /\ "Lockdown" \in DOMAIN plist.dict
          /\ "Lockdown" \in DOMAIN plist.dict => IsLockdown(plist.dict["Lockdown"])
          /\ "Applications" \in DOMAIN plist.dict
          /\ Has(plist.dict, "Applications", "dictionary")
    <3>1. /\ Asked[1].ok <=> (encrypted => Has(plist.dict, "ManifestKey", "data"))
          /\ Asked[2].ok <=> "Lockdown" \in DOMAIN plist.dict
          /\ Asked[3].ok <=> ("Lockdown" \in DOMAIN plist.dict => IsLockdown(plist.dict["Lockdown"]))
          /\ Asked[4].ok <=> "Applications" \in DOMAIN plist.dict
          /\ Asked[5].ok <=> Has(plist.dict, "Applications", "dictionary")
      BY DEF Asked
    <3> HIDE DEF Asked
    <3>2. \A i \in 1..5 : i = 1 \/ i = 2 \/ i = 3 \/ i = 4 \/ i = 5
      OBVIOUS
    <3> QED BY <3>1, <3>2
  <2>2. refused = {} <=> \A i \in 1..5 : Asked[i].ok
    BY <1>3
  <2>3. IsLockdown(plist.dict["Lockdown"]) => plist.dict["Lockdown"].type = "dictionary"
    BY DEF IsLockdown, IsDictionary
  <2> QED BY <1>2, <2>1, <2>2, <2>3 DEF SoundPlist, Has
<1>5. CASE refused # {}
  <2>1. refused \in SUBSET Nat
    BY <1>3
  <2>2. Min(refused) \in refused
    <3> HIDE DEF refused
    <3> QED BY <1>5, <2>1, LeastNumber
  <2>3. Asked[Min(refused)].error \in PlistErrors
    BY <1>3, <2>2
  <2> DEFINE what == Asked[Min(refused)].error
  <2>4. Give(what) /\ ~SoundPlist
    BY <1>1, <1>4, <1>5
  <2> HIDE DEF what, refused
  <2>5. what \in {"PlistParseError", "MissingPlistKey"}
    BY <2>3 DEF what, PlistErrors
  <2> QED BY <1>1, <1>2, <2>4, <2>5, GiveInv DEF PlistErrors
<1>6. CASE refused = {}
  <2>1. SoundPlist /\ ((call = "open" /\ Go("keys")) \/ Give("info"))
    BY <1>1, <1>4, <1>6
  <2> QED BY <1>1, <1>2, <2>1, GoInv, GiveInv DEF PlistErrors
<1> QED BY <1>5, <1>6

(* All that DecryptDb asks of the key is asked of the key that the class of the
   ManifestKey has. *)
LEMMA DbStepsOk ==
  /\ DOMAIN DbSteps = 1..6
  /\ \A i \in 1..6 : DbSteps[i].error \in {"panic", "Crypto", "KeyUnwrapFailed", "Io",
                                           "InvalidCryptoDataLength"}
  /\ \A i \in 1..6 : DbSteps[i].error = "panic" => i = 1
  /\ DbSteps[1].ok <=> ManifestKey.len >= 4
  /\ (\A i \in {1, 2, 3, 5} : DbSteps[i].ok) <=> KeyFits
  /\ db = "written" => DbSteps[4].ok /\ DbSteps[6].ok
<1>1. /\ DOMAIN DbSteps = 1..6
      /\ DbSteps[1].error = "panic" /\ DbSteps[2].error = "Crypto"
      /\ DbSteps[3].error = "KeyUnwrapFailed" /\ DbSteps[4].error = "Io"
      /\ DbSteps[5].error = "InvalidCryptoDataLength" /\ DbSteps[6].error = "Crypto"
  BY DEF DbSteps
<1>2. /\ DbSteps[1].ok <=> ManifestKey.len >= 4
      /\ DbSteps[2].ok <=> ManifestKey.class \in DOMAIN unlocked
      /\ DbSteps[3].ok <=> (ManifestKey.class \in DOMAIN unlocked =>
                               Unwraps(ClassKey, ManifestKey.wrapped))
      /\ DbSteps[4].ok <=> db # "absent"
      /\ DbSteps[5].ok <=> Len(DbKey) = KeyLen
      /\ DbSteps[6].ok <=> db # "cut"
  BY DEF DbSteps, KeyClass
<1> HIDE DEF DbSteps
<1>3. \A i \in 1..6 : i = 1 \/ i = 2 \/ i = 3 \/ i = 4 \/ i = 5 \/ i = 6
  OBVIOUS
<1> QED BY <1>1, <1>2, <1>3 DEF KeyFits

LEMMA DecryptDbInv == OInv /\ DecryptDb => OInv'
<1> SUFFICES ASSUME OInv, DecryptDb PROVE OInv'
  OBVIOUS
<1> DEFINE failed == {i \in DOMAIN DbSteps : ~DbSteps[i].ok}
<1>1. /\ at = "connect" /\ encrypted /\ UNCHANGED manifestVars
      /\ IF failed = {} THEN Go("copy") ELSE Give(DbSteps[Min(failed)].error)
  BY DEF DecryptDb
<1>2. outcome = "open" /\ SoundPlist /\ call # "info"
  BY <1>1 DEF OInv, StageFits, PlistFits, PlistDecides
<1>3. CASE failed = {}
  <2>1. KeyFits
    BY <1>3, DbStepsOk
  <2> QED BY <1>1, <1>2, <1>3, <2>1, GoInv
<1>4. CASE failed # {}
  <2>1. failed \in SUBSET Nat
    BY DbStepsOk
  <2>2. Min(failed) \in failed
    <3> HIDE DEF failed
    <3> QED BY <1>4, <2>1, LeastNumber
  <2> DEFINE m == Min(failed)
             what == DbSteps[m].error
  <2>3. m \in 1..6 /\ ~DbSteps[m].ok /\ Give(what)
    BY <1>1, <1>4, <2>2, DbStepsOk
  <2> HIDE DEF m
  <2>4. what \in {"panic", "Crypto", "KeyUnwrapFailed", "Io", "InvalidCryptoDataLength"}
    BY <2>3, DbStepsOk
  <2>5. what = "panic" => ManifestKey.len < 4
    <3>1. what = "panic" => ~(ManifestKey.len >= 4)
      BY <2>3, DbStepsOk
    <3>2. ManifestKey.len \in Nat
      BY <1>1, <1>2, OpenAssumption DEF ManifestKey, SoundPlist, OInv, FilesFit
    <3> QED BY <3>1, <3>2
  <2>6. db = "written" => ~KeyFits
    <3>1. db = "written" => m # 4 /\ m # 6
      BY <2>3, DbStepsOk
    <3>2. m \in {1, 2, 3, 5} => ~KeyFits
      BY <2>3, DbStepsOk
    <3> QED BY <2>3, <3>1, <3>2
  <2> HIDE DEF what
  <2> QED BY <1>1, <1>2, <2>3, <2>4, <2>5, <2>6, GiveInv DEF PlistErrors
<1> QED BY <1>3, <1>4

LEMMA CopyDbInv == OInv /\ CopyDb => OInv'
<1> SUFFICES ASSUME OInv, CopyDb PROVE OInv'
  OBVIOUS
<1>1. at = "copy" /\ UNCHANGED manifestVars
  BY DEF CopyDb
<1>2. PICK result \in Tried : Give(result)
  BY DEF CopyDb, Tried
<1>3. outcome = "open" /\ SoundPlist /\ call # "info" /\ (encrypted => KeyFits)
  BY <1>1 DEF OInv, StageFits, PlistFits, PlistDecides, KeyFollows
<1>4. result # "" /\ result \notin PlistErrors /\ result # "panic" /\ result # "info"
  BY DEF Tried, CopyErrors, PlistErrors
<1> QED BY <1>1, <1>2, <1>3, <1>4, GiveInv

LEMMA ConnectPlainInv == OInv /\ ConnectPlain => OInv'
<1> SUFFICES ASSUME OInv, ConnectPlain PROVE OInv'
  OBVIOUS
<1>1. /\ at = "connect" /\ ~encrypted /\ UNCHANGED manifestVars
      /\ call' = call /\ plist' = plist /\ files' = files /\ (lostSeen' <=> lostSeen)
      /\ db' = (IF db = "absent" /\ "dir" \in files THEN "fresh" ELSE db)
      /\ returned' = (IF "dir" \in files THEN "open" ELSE "Database") /\ at' = "returned"
  BY DEF ConnectPlain
<1>2. /\ MInv'
      /\ bag' = bag /\ (encrypted' <=> encrypted) /\ auth' = auth /\ outcome' = outcome
      /\ (SoundPlist' <=> SoundPlist)
      /\ bag' = BagOf(plist') /\ encrypted' = IsEncrypted(plist')
  BY <1>1, QuietSteps
<1>3. outcome = "open" /\ SoundPlist /\ call = "open" /\ (db = "absent" => lostSeen)
  BY <1>1 DEF OInv, FilesFit, StageFits, PlistFits, PlistDecides, DbFits
<1>4. FilesFit' /\ StageFits' /\ PlistFits'
  BY <1>1, <1>2, <1>3 DEF OInv, FilesFit, StageFits, PlistFits, PlistDecides, PlistErrors
<1>5. DbFits'
  BY <1>1, <1>2, <1>3 DEF OInv, DbFits, FreshOnlyIfLostInBetween
<1>6. KeyFollows' /\ PanicsExplained'
  BY <1>1, <1>2 DEF KeyFollows, PanicsExplained
<1> QED BY <1>2, <1>4, <1>5, <1>6 DEF OInv

LEMMA LoseInv == ASSUME OInv, NEW f \in {"dir", "plist", "db"}, Lose(f) PROVE OInv'
<1>1. /\ UNCHANGED manifestVars
      /\ call' = call /\ plist' = plist /\ at' = at /\ returned' = returned
      /\ files' = (IF f = "dir" THEN {} ELSE files \ {f})
      /\ db' \in {db, "absent"}
      /\ lostSeen' <=> (lostSeen \/ (at = "connect" /\ db' # db))
  BY DEF Lose
<1>2. /\ MInv'
      /\ bag' = bag /\ (encrypted' <=> encrypted) /\ auth' = auth /\ outcome' = outcome
      /\ phase' = phase /\ (SoundPlist' <=> SoundPlist) /\ (KeyFits' <=> KeyFits)
      /\ ManifestKey' = ManifestKey
      /\ bag' = BagOf(plist') /\ encrypted' = IsEncrypted(plist')
  BY <1>1, QuietSteps
<1>3. files' \in {{}, {"dir"}, {"dir", "plist"}}
  BY <1>1 DEF OInv, FilesFit
<1>4. FilesFit' /\ StageFits'
  BY <1>1, <1>2, <1>3 DEF OInv, FilesFit, StageFits
<1>5. PlistFits'
  BY <1>1, <1>2 DEF OInv, PlistFits, PlistDecides
<1>6. DbFits'
  BY <1>1, <1>2 DEF OInv, DbFits, FreshOnlyIfLostInBetween
<1>7. KeyFollows'
  BY <1>1, <1>2 DEF OInv, KeyFollows
<1>8. PanicsExplained'
  BY <1>1, <1>2 DEF OInv, PanicsExplained
<1> QED BY <1>2, <1>4, <1>5, <1>6, <1>7, <1>8 DEF OInv

LEMMA ReadBagInv == OInv /\ ReadBag => OInv'
<1> SUFFICES ASSUME OInv, ReadBag PROVE OInv'
  OBVIOUS
<1>1. /\ at = "bag" /\ at' = "bag" /\ call' = call /\ plist' = plist /\ files' = files
      /\ db' = db /\ (lostSeen' <=> lostSeen) /\ returned' = returned
      /\ ParseBag /\ (encrypted' <=> encrypted) /\ auth' = auth /\ outcome' = outcome
  BY DEF ReadBag, Go, disk, ParseBag, authVars
<1>2. MInv'
  BY <1>1, ManifestInductive DEF OInv, Next
<1>3. bag' = bag /\ encrypted' = encrypted
  BY <1>1, KeptByAll DEF OInv, ParseBag, authVars
<1>4. SoundPlist' <=> SoundPlist
  BY <1>1 DEF SoundPlist
<1>5. returned = ""
  BY <1>1 DEF OInv, FilesFit
<1>6. FilesFit' /\ StageFits'
  BY <1>1, <1>3 DEF OInv, FilesFit, StageFits
<1>7. PlistFits'
  BY <1>1, <1>4 DEF OInv, PlistFits, PlistDecides
<1>8. DbFits'
  BY <1>1 DEF OInv, DbFits, FreshOnlyIfLostInBetween
<1>9. KeyFollows' /\ PanicsExplained'
  BY <1>1, <1>5 DEF KeyFollows, PanicsExplained
<1> QED BY <1>2, <1>6, <1>7, <1>8, <1>9 DEF OInv

LEMMA BagIsBadInv == OInv /\ BagIsBad => OInv'
<1> SUFFICES ASSUME OInv, BagIsBad PROVE OInv'
  OBVIOUS
<1>1. /\ at = "bag" /\ at' = "returned" /\ returned' = phase /\ outcome' = phase
      /\ call' = call /\ plist' = plist /\ files' = files /\ db' = db /\ (lostSeen' <=> lostSeen)
      /\ phase \in {"error", "panic"} /\ BagFails
      /\ bag' = bag /\ encrypted' = encrypted /\ (encrypted' <=> encrypted) /\ auth' = auth
  BY DEF BagIsBad, BagFails, Return, Give, disk, parseVars
<1>2. MInv'
  BY <1>1, ManifestInductive DEF OInv, Next
<1>3. FilesFit' /\ StageFits'
  BY <1>1 DEF OInv, FilesFit, StageFits
<1>4. PlistFits'
  BY <1>1 DEF PlistFits, PlistDecides, PlistErrors
<1>5. DbFits'
  BY <1>1 DEF OInv, DbFits, FreshOnlyIfLostInBetween
<1>6. KeyFollows'
  BY <1>1 DEF KeyFollows
<1>7. PanicsExplained'
  <2>1. phase = "panic" => \/ \E i \in Records(bag) : Last(bag, i, "CLAS") = Absent
                           \/ Named(bag, "OVER") # {}
    BY NoOtherPanic DEF OInv, MInv, PanicsOnlyWithoutClass
  <2> QED BY <1>1, <2>1 DEF PanicsExplained
<1> QED BY <1>2, <1>3, <1>4, <1>5, <1>6, <1>7 DEF OInv

LEMMA GetKeysInv == OInv /\ GetKeys => OInv'
<1> SUFFICES ASSUME OInv, GetKeys PROVE OInv'
  OBVIOUS
<1>1. /\ at = "keys" /\ FromManifestData
      /\ call' = call /\ plist' = plist /\ files' = files /\ db' = db /\ (lostSeen' <=> lostSeen)
      /\ \/ outcome' \in {"", "open"} /\ returned' = returned
            /\ at' = IF outcome' = "" THEN "keys" ELSE "db"
         \/ outcome' \notin {"", "open"} /\ returned' = outcome' /\ at' = "returned"
  BY DEF GetKeys, Go, Give, disk
<1>2. UNCHANGED <<parseVars, encrypted, auth>> /\ (encrypted => phase = "parsed")
  <2>1. ASSUME NEW c \in todo PROVE phase = "parsed"
    BY ReadBefore DEF OInv, MInv, LoopFollows
  <2>2. master # NoKeys => phase = "parsed"
    BY ReadBefore DEF OInv
  <2> QED BY <1>1, <2>1, <2>2
             DEF FromManifestData, OpenPlain, NoAuth, NotHex, Authenticate, SkipClass, UnwrapClass,
                 FailClass, Unlocked, Return, Ready
<1>3. bag' = bag /\ encrypted' = encrypted /\ (encrypted' <=> encrypted) /\ auth' = auth
      /\ phase' = phase
  BY <1>2 DEF parseVars
<1>4. MInv'
  BY <1>1, ManifestInductive DEF OInv, Next
<1>5. /\ returned = "" /\ call # "info" /\ SoundPlist
      /\ SoundPlist' <=> SoundPlist
  BY <1>1, <1>3 DEF OInv, FilesFit, StageFits, PlistFits, PlistDecides, SoundPlist
<1>6. outcome' \in {"", "open", "error", "panic", "NotEncrypted", "HexDecode",
                    "PasswordOrKeyRequired", "PasswordOrKeyIncorrect"}
  BY <1>4 DEF MInv, OutcomeFollows
<1>7. FilesFit' /\ StageFits'
  BY <1>1, <1>3, <1>5, <1>6 DEF OInv, FilesFit, StageFits
<1>8. PlistFits'
  BY <1>1, <1>5, <1>6 DEF PlistFits, PlistDecides, PlistErrors
<1>9. DbFits'
  BY <1>1, <1>3 DEF OInv, DbFits, FreshOnlyIfLostInBetween
<1>10. KeyFollows'
  BY <1>1, <1>5 DEF KeyFollows
<1>11. PanicsExplained'
  <2> SUFFICES ASSUME outcome' = "panic"
               PROVE  auth.kind = "key" /\ \E i \in DOMAIN auth.text : i % 2 = 1 /\ auth.text[i] = Cont
    BY <1>1, <1>3, <1>5 DEF PanicsExplained
  <2>1. encrypted' /\ phase' = "parsed" /\ master' = NoKeys
    BY <1>2, <1>3, <1>4 DEF MInv, OutcomeFollows
  <2>2. auth'.kind = "key" /\ Decoded'.result = "panic"
    BY <1>4, <2>1 DEF MInv, OutcomeFollows
  <2>3. auth.kind = "key" /\ HexDecode(auth.text).result = "panic"
    BY <1>3, <2>2 DEF Decoded
  <2>4. auth.text \in Text
    BY <2>3 DEF OInv, MInv, AuthType
  <2> QED BY <2>3, <2>4, HexPanics
<1> QED BY <1>4, <1>7, <1>8, <1>9, <1>10, <1>11 DEF OInv

LEMMA OpenAgainInv == OInv /\ OpenAgain => OInv'
<1> SUFFICES ASSUME OInv, OpenAgain PROVE OInv'
  OBVIOUS
<1>1. /\ at = "returned" /\ returned = "open" /\ at' = "root" /\ returned' = ""
      /\ call' = call /\ plist' = plist /\ files' = files /\ db' = db /\ (lostSeen' <=> lostSeen)
      /\ outcome' = "" /\ bag' = bag /\ encrypted' = encrypted /\ (encrypted' <=> encrypted) /\ Reopen
  BY DEF OpenAgain, Reopen, disk
<1>2. MInv'
  BY <1>1, ManifestInductive DEF OInv, Next
<1>3. call # "info"
  BY <1>1 DEF OInv, PlistFits, PlistDecides, PlistErrors
<1>4. FilesFit' /\ StageFits' /\ PlistFits'
  BY <1>1, <1>3 DEF OInv, FilesFit, StageFits, PlistFits, PlistDecides, PlistErrors
<1>5. DbFits'
  BY <1>1 DEF OInv, DbFits, FreshOnlyIfLostInBetween
<1>6. KeyFollows' /\ PanicsExplained'
  BY <1>1 DEF KeyFollows, PanicsExplained
<1> QED BY <1>2, <1>4, <1>5, <1>6 DEF OInv

LEMMA OpenInitInv == OpenInit => OInv
<1> SUFFICES ASSUME OpenInit PROVE OInv
  OBVIOUS
<1>1. MInv
  BY ManifestInitInv DEF OpenInit
<1>2. outcome = "" /\ returned = "" /\ at \in {"root", "plist"} /\ (call = "info" => at = "plist")
  BY DEF OpenInit, ManifestInit
<1> QED BY <1>1, <1>2 DEF OpenInit, OInv, FilesFit, StageFits, PlistFits, PlistDecides, PlistErrors,
                          DbFits, FreshOnlyIfLostInBetween, KeyFollows, PanicsExplained

LEMMA OpenInductive == OInv /\ [OpenNext]_openVars => OInv'
<1> SUFFICES ASSUME OInv, [OpenNext]_openVars PROVE OInv'
  OBVIOUS
<1>1. CASE UNCHANGED openVars
  <2>1. /\ UNCHANGED manifestVars
        /\ call' = call /\ plist' = plist /\ at' = at /\ returned' = returned
        /\ files' = files /\ db' = db /\ (lostSeen' <=> lostSeen)
    BY <1>1 DEF openVars, disk
  <2>2. /\ MInv'
        /\ bag' = bag /\ (encrypted' <=> encrypted) /\ auth' = auth /\ outcome' = outcome
        /\ phase' = phase /\ (SoundPlist' <=> SoundPlist) /\ (KeyFits' <=> KeyFits)
        /\ ManifestKey' = ManifestKey
        /\ bag' = BagOf(plist') /\ encrypted' = IsEncrypted(plist')
    BY <2>1, QuietSteps
  <2>3. FilesFit' /\ StageFits'
    BY <2>1, <2>2 DEF OInv, FilesFit, StageFits
  <2>4. PlistFits' /\ DbFits'
    BY <2>1, <2>2 DEF OInv, PlistFits, PlistDecides, DbFits, FreshOnlyIfLostInBetween
  <2>5. KeyFollows' /\ PanicsExplained'
    BY <2>1, <2>2 DEF OInv, KeyFollows, PanicsExplained
  <2> QED BY <2>2, <2>3, <2>4, <2>5 DEF OInv
<1>2. CASE OpenNext
  BY <1>2, ChecksInv, ReadFieldsInv, DecryptDbInv, CopyDbInv, ConnectPlainInv, LoseInv, ReadBagInv,
     BagIsBadInv, GetKeysInv, OpenAgainInv DEF OpenNext, Step
<1> QED BY <1>1, <1>2

LEMMA OpenInvariant == OpenSpec => []OInv
BY OpenInitInv, OpenInductive, PTL DEF OpenSpec

-----------------------------------------------------------------------------
(* What follows from it. *)

LEMMA OpenTypes == OInv => OpenTypeOK
BY ManifestTypes DEF OInv, FilesFit, StageFits, OpenTypeOK

(* A key that fits is that of a protected class whose own key is wrapped with the
   master key. *)
LEMMA KeyIsUnlocked ==
  ASSUME MInv, encrypted, outcome = "open", KeyFits
  PROVE  LET ck == classKeys[ManifestKey.class]
         IN  /\ ManifestKey.class \in DOMAIN classKeys /\ Protected(ck)
             /\ Wrapped[ck.wpky.val].kek = master
             /\ Wrapped[ManifestKey.wrapped.val].kek = Wrapped[ck.wpky.val].key
<1> DEFINE c == ManifestKey.class
<1>1. master # NoKeys /\ todo = {}
  BY DEF MInv, OutcomeFollows
<1>2. /\ unlocked = UnlockedOf(classKeys, DOMAIN classKeys)
      /\ \A x \in DOMAIN classKeys : ~StuckUnder(master, classKeys[x])
  BY <1>1 DEF MInv, LoopFollows
<1>3. c \in DOMAIN unlocked /\ Wrapped[ManifestKey.wrapped.val].kek = unlocked[c]
  BY DEF KeyFits, Unwraps, ClassKey, KeyClass
<1>4. /\ c \in DOMAIN classKeys /\ Protected(classKeys[c])
      /\ unlocked[c] = Wrapped[classKeys[c].wpky.val].key
  BY <1>2, <1>3 DEF UnlockedOf
<1>5. Wrapped[classKeys[c].wpky.val].kek = master
  BY <1>2, <1>4 DEF StuckUnder, Protected, Unwraps
<1> QED BY <1>3, <1>4, <1>5

LEMMA OpensWithAKey == OInv => NeverOpensUnlocked
<1> SUFFICES ASSUME OInv, encrypted, returned = "open" PROVE NeverOpensUnlocked
  BY DEF NeverOpensUnlocked
<1>1. outcome = "open" /\ KeyFits /\ MInv
  BY DEF OInv, KeyFollows
<1> QED BY <1>1, KeyIsUnlocked DEF NeverOpensUnlocked

(* Who knows the password, or a spelling of the key, has the master key that the
   bag is sealed with, and nobody else has. *)
LEMMA KnowsMaster ==
  ASSUME MInv, encrypted, phase = "parsed", outcome # "", NEW pw \in Passwords, SealedBy(pw)
  PROVE  Knows(pw) <=> master # NoKeys /\ master = SealKey(pw)
<1>1. pw \in Byte
  BY ManifestAssumption DEF Passwords
<1>2. \A p : Derive(p) = SealKey(p)
  BY ReadAsSealed DEF MInv, SealedBy
<1>3. SealKey(pw) \in Seq(Byte) /\ Len(SealKey(pw)) = KeyLen
  BY <1>1, <1>2, DerivedType DEF MInv
<1>4. CASE auth.kind = "none"
  BY <1>4 DEF Knows, MInv, MasterFollows
<1>5. CASE auth.kind = "password"
  <2>1. master # NoKeys
    BY <1>5 DEF MInv, OutcomeFollows
  <2>2. master = SealKey(auth.pw)
    BY <1>2, <1>5, <2>1 DEF MInv, MasterFollows, MasterKey
  <2>3. SealKey(auth.pw) = SealKey(pw) <=> auth.pw = pw
    BY DEF SealKey
  <2> QED BY <1>5, <2>1, <2>2, <2>3 DEF Knows
<1>6. CASE auth.kind = "key"
  <2>1. Knows(pw) <=> Decoded.result = "bytes" /\ Decoded.bytes = SealKey(pw)
    BY <1>3, <1>6, DecodesSpellings DEF Knows, Decoded, MInv, AuthType
  <2>2. MasterKey = Decoded.bytes
    BY <1>6 DEF MasterKey
  <2>3. master # NoKeys => master = Decoded.bytes /\ Decoded.result = "bytes"
    BY <1>6, <2>2 DEF MInv, MasterFollows
  <2>4. master = NoKeys => ~(Decoded.result = "bytes" /\ Len(Decoded.bytes) = KeyLen)
    BY <1>6, <2>2 DEF MInv, OutcomeFollows
  <2> QED BY <1>3, <2>1, <2>3, <2>4
<1> QED BY <1>4, <1>5, <1>6 DEF MInv, AuthType

LEMMA OpensForKey == OInv => OpensForItsKeyOnly
<1> SUFFICES ASSUME OInv, call = "open", encrypted, phase = "parsed", returned # "", Intact,
                    outcome # "", NEW pw \in Passwords, SealedBy(pw), KeySealed
             PROVE  IF Knows(pw) THEN returned \in CopyErrors \cup {"open"}
                    ELSE returned \in {"PasswordOrKeyRequired", "PasswordOrKeyIncorrect",
                                      "HexDecode", "panic"}
  BY DEF OpensForItsKeyOnly
<1>1. MInv /\ db = "written"
  BY DEF OInv, Intact
<1>2. Knows(pw) <=> master # NoKeys /\ master = SealKey(pw)
  BY <1>1, KnowsMaster
<1>3. master # NoKeys => (outcome = "open" <=> master = SealKey(pw))
  BY <1>1, SealedOpens
<1>4. master = NoKeys => outcome # "open"
  BY <1>1 DEF MInv, OutcomeFollows
<1>5. CASE Knows(pw)
  <2>1. outcome = "open" /\ todo = {}
    BY <1>1, <1>2, <1>3, <1>5 DEF MInv, OutcomeFollows
  <2>2. KeyFits
    <3>1. unlocked = UnlockedOf(classKeys, DOMAIN classKeys)
      BY <1>1, <1>2, <1>5, <2>1 DEF MInv, LoopFollows
    <3>2. classKeys = Written(bag) /\ DOMAIN classKeys = Classes(bag)
      BY <1>1, ReadAsSealed DEF MInv, SealedBy
    <3>3. /\ ManifestKey.len >= 4 /\ ManifestKey.class \in DOMAIN classKeys
          /\ Protected(classKeys[ManifestKey.class])
          /\ Unwraps(Wrapped[classKeys[ManifestKey.class].wpky.val].key, ManifestKey.wrapped)
          /\ Len(DbKey) = KeyLen
      BY <3>2 DEF KeySealed
    <3>4. /\ ManifestKey.class \in DOMAIN unlocked
          /\ unlocked[ManifestKey.class] = Wrapped[classKeys[ManifestKey.class].wpky.val].key
      BY <3>1, <3>3 DEF UnlockedOf
    <3> QED BY <3>3, <3>4 DEF KeyFits, ClassKey, KeyClass
  <2>3. returned \in Tried
    BY <1>1, <2>1, <2>2 DEF OInv, KeyFollows
  <2> QED BY <1>5, <2>3 DEF Tried
<1>6. CASE ~Knows(pw)
  <2>1. outcome # "open"
    BY <1>2, <1>3, <1>4, <1>6
  <2>2. returned = outcome
    BY <2>1 DEF OInv, StageFits
  <2>3. CASE master = NoKeys
    <3>1. auth.kind = "key" => Decoded.result \in {"bytes", "HexDecode", "panic"}
      BY <1>1, DecodedType DEF MInv, AuthType, Decoded
    <3> QED BY <1>1, <1>6, <2>2, <2>3, <3>1 DEF MInv, OutcomeFollows
  <2>4. CASE master # NoKeys
    BY <1>1, <1>6, <2>1, <2>2, <2>4 DEF MInv, OutcomeFollows
  <2> QED BY <2>3, <2>4
<1> QED BY <1>5, <1>6

-----------------------------------------------------------------------------
(* The stages of the call, what from_manifest_data has returned and what the call
   has returned fit together. *)
THEOREM OpeningTypes == OpenSpec => []OpenTypeOK
BY OpenInvariant, OpenTypes, PTL

(* Both calls accept the same Manifest.plist, and why they refuse one can be seen
   from it. *)
THEOREM PlistAloneDecides == OpenSpec => []PlistDecides
<1>1. OInv => PlistDecides
  BY DEF OInv, PlistFits
<1> QED BY <1>1, OpenInvariant, PTL

(* An empty database takes the place of a missing one only if it went missing
   between the check and the connection. *)
THEOREM FreshOnlyIfLost == OpenSpec => []FreshOnlyIfLostInBetween
<1>1. OInv => FreshOnlyIfLostInBetween
  BY DEF OInv, DbFits
<1> QED BY <1>1, OpenInvariant, PTL

(* No encrypted backup opens without a chain of keys from the master key to the
   database's. *)
THEOREM KeysChainToTheDatabase == OpenSpec => []NeverOpensUnlocked
BY OpenInvariant, OpensWithAKey, PTL

(* There are four causes of a panic of Backup::open and of get_device_basic_info. *)
THEOREM NoOtherPanics == OpenSpec => []PanicsExplained
<1>1. OInv => PanicsExplained
  BY DEF OInv
<1> QED BY <1>1, OpenInvariant, PTL

(* For its password and the key that follows from it, in any spelling, a whole
   backup gets past all that depends on a key, and what may still fail is the
   temporary file; with nothing else does it open. *)
THEOREM OnlyItsKeyOpens == OpenSpec => []OpensForItsKeyOnly
BY OpenInvariant, OpensForKey, PTL

(* What is proved of the key bag's parser and of the unlocking holds of the call
   that they are part of. *)
THEOREM OpeningKeepsItsParts ==
  OpenSpec => [](/\ TypeOK /\ ClassKeysAsWritten /\ PanicsOnlyWithoutClass
                 /\ ManifestTypeOK /\ AllProtectedOrNone /\ PasswordDecides
                 /\ DerivedKeyOpensTheSame)
<1>1. OInv => /\ TypeOK /\ ClassKeysAsWritten /\ PanicsOnlyWithoutClass
              /\ ManifestTypeOK /\ AllProtectedOrNone /\ PasswordDecides
              /\ DerivedKeyOpensTheSame
  BY ParsedIsWritten, NoOtherPanic, ManifestTypes, UnlocksAllOrNone, PasswordsDecide, DerivedKeyOpens
     DEF OInv, MInv, KInv
<1> QED BY <1>1, OpenInvariant, PTL
=============================================================================
