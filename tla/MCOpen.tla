-------------------------------- MODULE MCOpen --------------------------------
(* Manifest.plist around each of MCKeyRing's bags, and around one of them with
   each of its fields missing, of another type or damaged. *)
EXTENDS Open, MCManifest

ManifestKeyOf(n, class, len, val) ==
  Data([len |-> n, class |-> class, wrapped |-> [len |-> len, val |-> val]])

(* 13: the database's key under the class key that class 1 has in most bags;
   14: under another one; 15: a key that is no AES-256 key. *)
MCWrapped ==
  MasterWrapped \o << [kek |-> KeyOf(1), key |-> <<1, 2, 3, 4, 5>>],
                      [kek |-> KeyOf(2), key |-> <<1, 2, 3, 4, 5>>],
                      [kek |-> KeyOf(1), key |-> <<1, 2>>] >>

LockdownOf(keys) == Dictionary([k \in keys |-> String])
AnApp == Dictionary([k \in {"ContainerContentClass", "Path"} |-> String])
BadApp == Dictionary([k \in {"CFBundleVersion"} |-> String])
AppsOf(app) == Dictionary([a \in {"a"} |-> app])

(* A function with a field replaced, or removed. *)
Set(d, k, v) == [x \in DOMAIN d \cup {k} |-> IF x = k THEN v ELSE d[x]]
Drop(d, k) == [x \in DOMAIN d \ {k} |-> d[x]]

Whole(b) ==
  [k \in {"IsEncrypted", "BackupKeyBag", "ManifestKey", "Lockdown", "Applications"} |->
     CASE k = "IsEncrypted" -> Boolean(TRUE)
       [] k = "BackupKeyBag" -> Data(b)
       [] k = "ManifestKey" -> ManifestKeyOf(44, 1, 40, 13)
       [] k = "Lockdown" -> LockdownOf(LockdownKeys)
       [] k = "Applications" -> AppsOf(AnApp)]

GoodBag ==
  <<Block("TYPE", 4, 1), Uuid(0), WrapOf(1), Block("SALT", 20, 2), Block("DPIC", 4, 2)>> \o Rest
    \o <<Uuid(1), Block("CLAS", 4, 1), WrapOf(2), Block("WPKY", 40, 1)>>

Changes ==
  LET w == Whole(GoodBag)
  IN  { Drop(w, k) : k \in DOMAIN w } \cup { Set(w, k, String) : k \in DOMAIN w }
        \cup { Set(w, "ManifestKey", m) :
                 m \in { ManifestKeyOf(3, 0, 0, 13), ManifestKeyOf(44, 9, 40, 13),
                         ManifestKeyOf(44, 1, 40, 14), ManifestKeyOf(12, 1, 8, 13),
                         ManifestKeyOf(28, 1, 24, 15) } }
        \cup { Set(w, "Lockdown", LockdownOf(LockdownKeys \ {k})) : k \in LockdownKeys }
        \cup { Set(w, "Applications", AppsOf(a)) : a \in {BadApp, String} }
        \cup { Set(w, "IsEncrypted", Boolean(FALSE)) }

(* One header for the bags of two records. *)
OneHeader == CHOOSE h \in Headers : h[1].tag = "VERS"
FewerBags ==
  {h \o r : h \in Headers, r \in RecordSet \cup OddRecords}
    \cup {h \o r : h \in OddHeaders, r \in RecordSet}
    \cup {OneHeader \o r \o q : r \in RecordSet, q \in RecordSet \cup OddRecords}
    \cup {OneHeader \o r \o q : r \in OddRecords, q \in RecordSet}
    \cup Cut(Headers \cup {OneHeader \o r : r \in RecordSet \cup OddRecords})

MCPlists ==
  { Dictionary(Whole(b)) : b \in FewerBags } \cup { Dictionary(c) : c \in Changes }
    \cup { String, Dictionary([k \in {"Lockdown", "Applications"} |->
                                 IF k = "Lockdown" THEN LockdownOf(LockdownKeys) ELSE AppsOf(AnApp)]) }

MCOpenBags == FewerBags \cup {<<>>, GoodBag}
MCLossPoints == {"root", "plist", "read", "db", "connect"}
=============================================================================
