------------------------------- MODULE Manifest -------------------------------
(***************************************************************************)
(* Manifest::from_manifest_data                                             *)
(* (src/backup/models/manifest/manifest_plist.rs) and                       *)
(* unlock_keys_from_manifest (src/backup/crypto.rs): the key bag of a       *)
(* backup is parsed, the caller's authentication gives the master key, and  *)
(* the class keys are unwrapped with it in the order of a HashMap, which is *)
(* any.  A backup that opened can be opened again with the text of the key  *)
(* that decryption_key_hex() returned.                                      *)
(*                                                                         *)
(* Cryptography is ideal: PBKDF2 maps different passwords and parameters to *)
(* different keys, and AES key wrap refuses every key but its own.          *)
(***************************************************************************)
EXTENDS KeyRing, Hex

CONSTANTS
  Auths,        \* bound: the authentications a caller comes with
  Wrapped       \* what a wrapped key wraps, [kek, key]: a key, and the key
                \* it is wrapped with

(* A key is derived from bytes: a password, and each parameter of the header,
   stand for one of them. *)
Params == {"DPSL", "DPIC", "SALT", "ITER"}

ASSUME ManifestAssumption ==
  /\ \A a \in Auths :
       /\ a.kind \in {"none", "password", "key"}
       /\ a.kind = "password" => a.pw \in Byte
       /\ a.kind = "key" => a.text \in Text
  /\ \A b \in Bags : \A i \in DOMAIN b : b[i].tag \in Params => b[i].val \in Byte

VARIABLES
  encrypted,    \* IsEncrypted, false when the plist does not say
  auth,
  master,       \* main_decryption_key
  todo,         \* the classes the loop has still to visit
  unlocked,     \* unlocked_class_keys
  outcome,      \* "" until from_manifest_data returns, then what it returned
  earlier       \* what an earlier opening of the same backup unlocked

authVars == <<auth, master, todo, unlocked, outcome, earlier>>
vars == <<parseVars, encrypted, authVars>>

KeyLen == 5   \* the bytes of a key (32), one for each thing it is derived from

(* None: unlocked_class_keys, main_decryption_key.  No class has this number. *)
NoKeys == [c \in {-1} |-> <<>>]

ManifestInit ==
  /\ Init
  /\ encrypted \in BOOLEAN
  /\ auth \in Auths
  /\ master = NoKeys /\ todo = {} /\ unlocked = NoKeys /\ outcome = ""
  /\ earlier = NoKeys

-----------------------------------------------------------------------------
(* ManifestData::from_plist reads the key bag only if the backup is encrypted. *)
ParseBag == encrypted /\ Parse /\ UNCHANGED <<encrypted, authVars>>

Return(what) ==
  /\ outcome' = what
  /\ UNCHANGED <<parseVars, encrypted, auth, master, todo, unlocked, earlier>>

(* Not encrypted: only no authentication at all is right. *)
OpenPlain ==
  /\ ~encrypted /\ outcome = ""
  /\ Return(IF auth.kind = "none" THEN "open" ELSE "NotEncrypted")

BagFails ==
  /\ phase \in {"error", "panic"} /\ outcome = ""
  /\ Return(phase)

Ready == encrypted /\ phase = "parsed" /\ outcome = "" /\ master = NoKeys

NoAuth == Ready /\ auth.kind = "none" /\ Return("PasswordOrKeyRequired")

Decoded == HexDecode(auth.text)
NotHex ==
  /\ Ready /\ auth.kind = "key" /\ Decoded.result # "bytes"
  /\ Return(Decoded.result)

(* Mutant: the second pass does without the salt of the bag. *)
DeriveUnsalted(pw) == <<pw, head["DPSL"].val, head["DPIC"].val, 0, head["ITER"].val>>

(* derive_key_from_password: both PBKDF2 passes. *)
Derive(pw) == <<pw, head["DPSL"].val, head["DPIC"].val, head["SALT"].val, head["ITER"].val>>

MasterKey == IF auth.kind = "password" THEN Derive(auth.pw) ELSE Decoded.bytes

Authenticate ==
  /\ Ready /\ auth.kind \in {"password", "key"}
  /\ auth.kind = "key" => Decoded.result = "bytes"
  /\ IF Len(MasterKey) = KeyLen
     THEN /\ master' = MasterKey /\ todo' = DOMAIN classKeys /\ unlocked' = NoMap
          /\ UNCHANGED outcome
     ELSE /\ outcome' = "PasswordOrKeyIncorrect"
          /\ UNCHANGED <<master, todo, unlocked>>
  /\ UNCHANGED <<parseVars, encrypted, auth, earlier>>

-----------------------------------------------------------------------------
HasBoth(ck) == ck.wpky # Absent /\ ck.wrap # Absent
PasscodeBit(n) == (n \div 2) % 2 = 1             \* wrap_val & 0x02

(* A class whose key is wrapped with the master key. *)
Protected(ck) == HasBoth(ck) /\ ck.wrap.len = 4 /\ PasscodeBit(ck.wrap.val)

(* aes_kw_unwrap *)
Unwraps(kek, wrapped) == wrapped.len > 8 /\ Wrapped[wrapped.val].kek = kek

(* The class the loop visits stops it. *)
Stuck(ck) ==
  HasBoth(ck) /\ (ck.wrap.len # 4 \/ (Protected(ck) /\ ~Unwraps(master, ck.wpky)))

Visiting(c) == outcome = "" /\ c \in todo

SkipClass(c) ==
  /\ Visiting(c) /\ ~Protected(classKeys[c]) /\ ~Stuck(classKeys[c])
  /\ todo' = todo \ {c}
  /\ UNCHANGED <<parseVars, encrypted, auth, master, unlocked, outcome, earlier>>

UnwrapClass(c) ==
  /\ Visiting(c) /\ Protected(classKeys[c]) /\ Unwraps(master, classKeys[c].wpky)
  /\ unlocked' = Put(unlocked, c, Wrapped[classKeys[c].wpky.val].key)
  /\ todo' = todo \ {c}
  /\ UNCHANGED <<parseVars, encrypted, auth, master, outcome, earlier>>

(* Mutant: a class that does not unwrap is passed over. *)
FailClassSkips(c) ==
  /\ Visiting(c) /\ Stuck(classKeys[c])
  /\ todo' = todo \ {c}
  /\ UNCHANGED <<parseVars, encrypted, auth, master, unlocked, outcome, earlier>>

(* Mutant: a class that does not unwrap is tried again. *)
FailClassRetries(c) ==
  /\ Visiting(c) /\ Stuck(classKeys[c])
  /\ UNCHANGED vars

(* KeyUnwrapFailed, which the caller turns into PasswordOrKeyIncorrect. *)
FailClass(c) ==
  /\ Visiting(c) /\ Stuck(classKeys[c])
  /\ Return("PasswordOrKeyIncorrect")

Unlocked ==
  /\ master # NoKeys /\ outcome = "" /\ todo = {}
  /\ Return("open")

(* Mutant: the class keys of the first opening are kept. *)
ReopenKeeps ==
  /\ outcome = "open" /\ encrypted /\ auth.kind = "password"
  /\ auth' = [kind |-> "key", text |-> HexEncode(master)]
  /\ earlier' = unlocked
  /\ master' = NoKeys /\ todo' = {} /\ outcome' = ""
  /\ pos' = 1 /\ head' = NoHead /\ phase' = "reading"
  /\ attrs' = NoMap /\ current' = NoMap /\ classKeys' = NoMap
  /\ UNCHANGED <<bag, encrypted, unlocked>>

(* The caller opens the backup again with the text that decryption_key_hex()
   makes of the key; the bag is read anew. *)
Reopen ==
  /\ outcome = "open" /\ encrypted /\ auth.kind = "password"
  /\ auth' = [kind |-> "key", text |-> HexEncode(master)]
  /\ earlier' = unlocked
  /\ master' = NoKeys /\ todo' = {} /\ unlocked' = NoKeys /\ outcome' = ""
  /\ pos' = 1 /\ head' = NoHead /\ phase' = "reading"
  /\ attrs' = NoMap /\ current' = NoMap /\ classKeys' = NoMap
  /\ UNCHANGED <<bag, encrypted>>

FromManifestData ==
  \/ OpenPlain \/ NoAuth \/ NotHex \/ Authenticate
  \/ \E c \in todo : SkipClass(c) \/ UnwrapClass(c) \/ FailClass(c)
  \/ Unlocked

Next == ParseBag \/ BagFails \/ FromManifestData \/ Reopen

ManifestSpec == ManifestInit /\ [][Next]_vars

-----------------------------------------------------------------------------
ManifestTypeOK ==
  /\ TypeOK
  /\ encrypted \in BOOLEAN
  /\ auth.kind \in {"none", "password", "key"}
  /\ todo \subseteq DOMAIN classKeys
  /\ unlocked # NoKeys => DOMAIN unlocked \subseteq DOMAIN classKeys \ todo
  /\ outcome \in {"", "open", "error", "panic", "NotEncrypted", "HexDecode",
                  "PasswordOrKeyRequired", "PasswordOrKeyIncorrect"}
  /\ outcome = "open" => (unlocked = NoKeys <=> ~encrypted)

(* What opens is decided by the bag and the key, never by the order in which
   the map yields the classes: either each class that is protected is unlocked,
   with its own key, and no other class, or opening fails, and then because of
   some class. *)
AllProtectedOrNone ==
  encrypted /\ master # NoKeys =>
    LET protected == {c \in DOMAIN classKeys : Protected(classKeys[c])}
    IN  /\ outcome = "open" =>
             unlocked = [c \in protected |-> Wrapped[classKeys[c].wpky.val].key]
        /\ (\E c \in DOMAIN classKeys : Stuck(classKeys[c])) =>
             outcome \in {"", "PasswordOrKeyIncorrect"}
        /\ outcome = "PasswordOrKeyIncorrect" =>
             \E c \in DOMAIN classKeys : Stuck(classKeys[c])

(* The bag as its writer sealed it under pw: the header is complete, and the
   keys of the protected classes are wrapped with what its parameters derive. *)
SealKey(pw) ==
  <<pw, HeaderField(bag, "DPSL").val, HeaderField(bag, "DPIC").val,
    HeaderField(bag, "SALT").val, HeaderField(bag, "ITER").val>>
Sealed(ck, pw) ==
  HasBoth(ck) =>
    /\ ck.wrap.len = 4
    /\ PasscodeBit(ck.wrap.val) => ck.wpky.len > 8 /\ Wrapped[ck.wpky.val].kek = SealKey(pw)
SealedBy(pw) ==
  /\ HeaderHas(bag, Numbers \cup Blobs)
  /\ \A c \in Classes(bag) : Sealed(Written(bag)[c], pw)
  /\ \E c \in Classes(bag) : Protected(Written(bag)[c])

Passwords == {a.pw : a \in {x \in Auths : x.kind = "password"}}

(* A well-formed bag with at least one protected class opens with the password
   it was sealed under and refuses every other, from whatever order of blocks
   header and keys had to be recovered. *)
PasswordDecides ==
  outcome # "" /\ encrypted /\ auth.kind = "password" /\ phase = "parsed" =>
    \A pw \in Passwords :
      SealedBy(pw) => (outcome = "open" <=> auth.pw = pw)

(* The key that an opened backup hands out opens it again, to the same keys
   (README.md:63: "Pre-derived keys bypass the expensive key derivation
   process"). *)
DerivedKeyOpensTheSame ==
  earlier # NoKeys =>
    /\ outcome \in {"", "open"}
    /\ outcome = "open" => unlocked = earlier
=============================================================================
