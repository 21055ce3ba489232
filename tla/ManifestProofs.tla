---------------------------- MODULE ManifestProofs ----------------------------
(***************************************************************************)
(* What TLAPS proves of Manifest (and of Hex, which it uses), for every key *)
(* bag, authentication and way the keys are wrapped: unlocking is all or    *)
(* nothing in whatever order the classes come, the password decides, and    *)
(* the key that an open backup hands out opens it again to the same keys.   *)
(***************************************************************************)
EXTENDS Manifest, KeyRingProofs

(* Stuck, for any master key. *)
StuckUnder(key, ck) ==
  HasBoth(ck) /\ (ck.wrap.len # 4 \/ (Protected(ck) /\ ~Unwraps(key, ck.wpky)))

(* What unwrapping gives for the protected ones among some classes. *)
UnlockedOf(keys, classes) ==
  [c \in {x \in classes : Protected(keys[x])} |-> Wrapped[keys[c].wpky.val].key]

IsKey(key) == key \in Seq(Byte) /\ Len(key) = KeyLen

-----------------------------------------------------------------------------
(* Hex. *)

LEMMA Digit ==
  ASSUME NEW n \in Byte
  PROVE  /\ n \div Radix \in 0..(Radix - 1) /\ n % Radix \in 0..(Radix - 1)
         /\ n = (n \div Radix) * Radix + (n % Radix)
<1>1. n \in Nat /\ n < Radix * Radix /\ Radix \in Nat /\ Radix > 1
  BY HexAssumption DEF Byte
<1>2. n \div Radix \in Nat /\ n % Radix \in 0..(Radix - 1) /\ n = Radix * (n \div Radix) + (n % Radix)
  BY <1>1
<1> DEFINE q == n \div Radix
<1>3. Radix * q < Radix * Radix
  BY <1>1, <1>2
<1> HIDE DEF q
<1>4. q \in Nat => q < Radix
  BY <1>1, <1>3
<1> QED BY <1>1, <1>2, <1>4 DEF q

LEMMA TwoDigits ==
  ASSUME NEW a \in 0..(Radix - 1), NEW b \in 0..(Radix - 1)
  PROVE  /\ a * Radix + b \in Byte
         /\ (a * Radix + b) % Radix = b /\ (a * Radix + b) \div Radix = a
<1>1. Radix \in Nat /\ Radix > 1 /\ a \in Nat /\ b \in Nat /\ a <= Radix - 1 /\ b < Radix
  BY HexAssumption
<1>2. a * Radix \in Nat /\ a * Radix <= (Radix - 1) * Radix /\ (Radix - 1) * Radix = Radix * Radix - Radix
  BY <1>1
<1>3. a * Radix + b \in Byte
  BY <1>1, <1>2 DEF Byte
<1>4. (a * Radix + b) % Radix = b /\ (a * Radix + b) \div Radix = a
  BY <1>1
<1> QED BY <1>3, <1>4

(* A digit of either case has a value. *)
LEMMA Lowered ==
  ASSUME NEW c \in Digits
  PROVE  c % Radix \in 0..(Radix - 1) /\ c \in Nat /\ LowerCase(c) = c % Radix
BY HexAssumption DEF Digits, LowerCase

LEMMA PairIsByte ==
  ASSUME NEW a, NEW b, IsByte(a, b)
  PROVE  ByteOf(a, b) \in Byte
<1>1. b % Radix \in 0..(Radix - 1)
  BY Lowered DEF IsByte
<1>2. CASE a = Plus
  <2>1. 0 \in 0..(Radix - 1) /\ 0 * Radix + (b % Radix) = b % Radix
    BY <1>1, HexAssumption
  <2>2. b % Radix \in Byte
    BY <1>1, <2>1, TwoDigits
  <2> QED BY <1>2, <2>2 DEF ByteOf
<1>3. CASE a # Plus
  <2>1. a % Radix \in 0..(Radix - 1)
    BY <1>3, Lowered DEF IsByte
  <2>2. (a % Radix) * Radix + (b % Radix) \in Byte
    BY <1>1, <2>1, TwoDigits
  <2> QED BY <1>3, <2>2 DEF ByteOf
<1> QED BY <1>2, <1>3

(* What hex_decode accepts it makes bytes of. *)
LEMMA DecodedType ==
  ASSUME NEW text \in Text
  PROVE  /\ HexDecode(text).result \in {"bytes", "HexDecode", "panic"}
         /\ HexDecode(text).bytes \in Seq(Byte)
         /\ HexDecode(text).result = "bytes" =>
              /\ Len(text) % 2 = 0 /\ BadPairs(text) = {} /\ HexDecode(text) = Decodes(text)
<1> DEFINE n == Len(text) \div 2
<1>1. Len(text) \in Nat /\ n \in Nat /\ Len(text) % 2 \in {0, 1}
  BY DEF Text
<1>2. ASSUME BadPairs(text) = {} PROVE Decodes(text).bytes \in Seq(Byte)
  <2>1. \A k \in 1..n : ByteOf(text[2 * k - 1], text[2 * k]) \in Byte
    BY <1>2, PairIsByte DEF BadPairs
  <2> HIDE DEF n
  <2>2. [k \in 1..n |-> ByteOf(text[2 * k - 1], text[2 * k])] \in Seq(Byte)
    BY <1>1, <2>1
  <2> QED BY <2>2 DEF Decodes, n
<1>3. /\ Refuses("panic").result = "panic" /\ Refuses("HexDecode").result = "HexDecode"
      /\ \A r : Refuses(r).bytes = <<>>
      /\ Decodes(text).result = "bytes" /\ <<>> \in Seq(Byte)
  BY DEF Refuses, Decodes
<1> HIDE DEF n
<1> DEFINE d == HexDecode(text)
<1>4. CASE Len(text) % 2 = 1 \/ BadPairs(text) # {}
  <2>1. d = Refuses("panic") \/ d = Refuses("HexDecode")
    BY <1>4 DEF HexDecode
  <2> HIDE DEF d
  <2>2. d.result \in {"panic", "HexDecode"} /\ d.bytes \in Seq(Byte)
    BY <2>1, <1>3
  <2> QED BY <2>2 DEF d
<1>5. CASE Len(text) % 2 = 0 /\ BadPairs(text) = {}
  <2>1. d = Decodes(text)
    BY <1>5 DEF HexDecode
  <2> HIDE DEF d
  <2>2. d.result = "bytes" /\ d.bytes \in Seq(Byte)
    BY <2>1, <1>2, <1>3, <1>5
  <2> QED BY <1>5, <2>1, <2>2 DEF d
<1> QED BY <1>1, <1>4, <1>5

(* A pair of characters is a byte, and this one, if and only if each is one of
   the digits that hex_encode writes for it, or stands for it. *)
LEMMA PairSpells ==
  ASSUME NEW a \in 0..Cont, NEW b \in 0..Cont, NEW d \in Byte
  PROVE  (IsByte(a, b) /\ ByteOf(a, b) = d) <=>
           /\ LowerCase(a) = d \div Radix \/ (a = Plus /\ d \div Radix = 0)
           /\ LowerCase(b) = d % Radix
<1> DEFINE hi == d \div Radix
           lo == d % Radix
<1>1. hi \in 0..(Radix - 1) /\ lo \in 0..(Radix - 1) /\ d = hi * Radix + lo
  BY Digit
<1>2. \A c \in 0..Cont : c \notin Digits => LowerCase(c) = c /\ c >= 2 * Radix
  BY HexAssumption DEF Digits, LowerCase
<1>3. \A c \in 0..Cont : LowerCase(c) \in 0..(Radix - 1) <=> c \in Digits
  BY <1>2, Lowered, HexAssumption
<1>4. Plus \notin Digits
  BY HexAssumption DEF Plus, Digits
<1>5. ASSUME NEW x \in 0..(Radix - 1), NEW y \in 0..(Radix - 1)
      PROVE  x * Radix + y = d <=> x = hi /\ y = lo
  BY <1>1, TwoDigits
<1>6. 0 \in 0..(Radix - 1) /\ \A y \in 0..(Radix - 1) : 0 * Radix + y = y
  BY HexAssumption
<1>7. CASE a = Plus
  <2>1. IsByte(a, b) /\ ByteOf(a, b) = d <=> b \in Digits /\ b % Radix = d
    BY <1>7 DEF IsByte, ByteOf
  <2>2. b \in Digits => (b % Radix = d <=> hi = 0 /\ b % Radix = lo)
    <3> SUFFICES ASSUME b \in Digits PROVE b % Radix = d <=> hi = 0 /\ b % Radix = lo
      OBVIOUS
    <3>1. b % Radix \in 0..(Radix - 1)
      BY Lowered
    <3>2. 0 * Radix + (b % Radix) = b % Radix
      BY <1>6, <3>1
    <3> QED BY <1>5, <1>6, <3>1, <3>2
  <2>3. LowerCase(a) # hi
    BY <1>1, <1>3, <1>4, <1>7
  <2>4. LowerCase(b) = lo <=> b \in Digits /\ b % Radix = lo
    BY <1>1, <1>3, Lowered
  <2> QED BY <1>7, <2>1, <2>2, <2>3, <2>4
<1>8. CASE a # Plus
  <2>1. IsByte(a, b) /\ ByteOf(a, b) = d <=>
          a \in Digits /\ b \in Digits /\ (a % Radix) * Radix + (b % Radix) = d
    BY <1>8 DEF IsByte, ByteOf
  <2>2. a \in Digits /\ b \in Digits =>
          ((a % Radix) * Radix + (b % Radix) = d <=> a % Radix = hi /\ b % Radix = lo)
    BY <1>5, Lowered
  <2>3. LowerCase(a) = hi <=> a \in Digits /\ a % Radix = hi
    BY <1>1, <1>3, Lowered
  <2>4. LowerCase(b) = lo <=> b \in Digits /\ b % Radix = lo
    BY <1>1, <1>3, Lowered
  <2> QED BY <1>8, <2>1, <2>2, <2>3, <2>4
<1> QED BY <1>7, <1>8

LEMMA EncodedPairs ==
  ASSUME NEW bytes \in Seq(Byte), NEW k \in 1..Len(bytes)
  PROVE  /\ HexEncode(bytes)[2 * k - 1] = bytes[k] \div Radix
         /\ HexEncode(bytes)[2 * k] = bytes[k] % Radix
<1>1. Len(bytes) \in Nat /\ 2 * k - 1 \in 1..(2 * Len(bytes)) /\ 2 * k \in 1..(2 * Len(bytes))
  OBVIOUS
<1>2. (2 * k - 1) % 2 = 1 /\ (2 * k) % 2 = 0
  OBVIOUS
<1>3. ((2 * k - 1) + 1) \div 2 = k /\ ((2 * k) + 1) \div 2 = k
  OBVIOUS
<1> QED BY <1>1, <1>2, <1>3 DEF HexEncode

LEMMA EncodedType ==
  ASSUME NEW bytes \in Seq(Byte)
  PROVE  HexEncode(bytes) \in Text /\ Len(HexEncode(bytes)) = 2 * Len(bytes)
<1> DEFINE f == HexEncode(bytes)
           n == 2 * Len(bytes)
<1>1. n \in Nat /\ DOMAIN f = 1..n
  BY DEF HexEncode
<1>2. ASSUME NEW i \in 1..n PROVE f[i] \in 0..Cont
  <2>1. (i + 1) \div 2 \in 1..Len(bytes) /\ i \in Int
    BY <1>2
  <2>2. bytes[(i + 1) \div 2] \in Byte
    BY <2>1
  <2>3. f[i] \in 0..(Radix - 1)
    BY <1>2, <2>2, Digit DEF HexEncode
  <2> QED BY <2>3, HexAssumption DEF Cont, Plus
<1>3. f = [i \in 1..n |-> f[i]]
  BY DEF HexEncode
<1> DEFINE C == 0..Cont
<1> HIDE DEF f, n, C
<1>4. [i \in 1..n |-> f[i]] \in Seq(C) /\ Len([i \in 1..n |-> f[i]]) = n
  BY <1>1, <1>2 DEF C
<1> QED BY <1>3, <1>4 DEF f, n, C, Text

(* hex_decode takes for some bytes exactly the texts that spell them. *)
LEMMA DecodesSpellings ==
  ASSUME NEW text \in Text, NEW bytes \in Seq(Byte)
  PROVE  Spells(text, bytes) <=> HexDecode(text).result = "bytes" /\ HexDecode(text).bytes = bytes
<1> DEFINE n == Len(bytes)
           Pair(k) == IsByte(text[2 * k - 1], text[2 * k]) /\ ByteOf(text[2 * k - 1], text[2 * k]) = bytes[k]
           Ok(i) == \/ LowerCase(text[i]) = HexEncode(bytes)[i]
                    \/ text[i] = Plus /\ i % 2 = 1 /\ HexEncode(bytes)[i] = 0
<1>1. n \in Nat /\ Len(text) \in Nat /\ DOMAIN text = 1..Len(text)
      /\ \A i \in 1..Len(text) : text[i] \in 0..Cont
  <2> DEFINE C == 0..Cont
  <2>1. text \in Seq(C) /\ bytes \in Seq(Byte)
    BY DEF Text
  <2> HIDE DEF C
  <2>2. Len(text) \in Nat /\ DOMAIN text = 1..Len(text) /\ \A i \in 1..Len(text) : text[i] \in C
    BY <2>1
  <2> QED BY <2>1, <2>2 DEF C
<1>2. ASSUME Len(text) = 2 * n, NEW k \in 1..n PROVE Pair(k) <=> Ok(2 * k - 1) /\ Ok(2 * k)
  <2>1. 2 * k - 1 \in 1..Len(text) /\ 2 * k \in 1..Len(text) /\ bytes[k] \in Byte
    BY <1>1, <1>2
  <2>2. (2 * k - 1) % 2 = 1 /\ (2 * k) % 2 # 1
    BY <1>2
  <2>3. text[2 * k - 1] \in 0..Cont /\ text[2 * k] \in 0..Cont
    BY <1>1, <2>1
  <2> QED BY <2>1, <2>2, <2>3, EncodedPairs, PairSpells
<1>3. ASSUME Len(text) = 2 * n
      PROVE  (\A i \in 1..Len(text) : Ok(i)) <=> \A k \in 1..n : Ok(2 * k - 1) /\ Ok(2 * k)
  <2>1. \A k \in 1..n : 2 * k - 1 \in 1..Len(text) /\ 2 * k \in 1..Len(text)
    BY <1>1, <1>3
  <2>2. \A i \in 1..Len(text) : \E k \in 1..n : i = 2 * k - 1 \/ i = 2 * k
    <3> SUFFICES ASSUME NEW i \in 1..Len(text) PROVE \E k \in 1..n : i = 2 * k - 1 \/ i = 2 * k
      OBVIOUS
    <3>1. (i + 1) \div 2 \in 1..n /\ (i = 2 * ((i + 1) \div 2) - 1 \/ i = 2 * ((i + 1) \div 2))
      BY <1>1, <1>3
    <3> QED BY <3>1
  <2> HIDE DEF Ok
  <2> QED BY <2>1, <2>2
<1>4. Spells(text, bytes) <=> Len(text) = 2 * n /\ \A k \in 1..n : Pair(k)
  <2>1. Spells(text, bytes) <=> Len(text) = 2 * n /\ \A i \in 1..Len(text) : Ok(i)
    BY <1>1 DEF Spells
  <2> HIDE DEF Ok, Pair
  <2> QED BY <1>2, <1>3, <2>1
<1>5. ASSUME Len(text) = 2 * n, \A k \in 1..n : Pair(k)
      PROVE  HexDecode(text).result = "bytes" /\ HexDecode(text).bytes = bytes
  <2>1. Len(text) % 2 # 1 /\ Len(text) \div 2 = n
    BY <1>1, <1>5
  <2>2. ASSUME NEW k \in 1..n PROVE ~Splits(text, k)
    <3>1. Cont \notin Digits \cup {Plus}
      BY HexAssumption DEF Digits, Plus, Cont
    <3>2. 2 * k + 1 \in DOMAIN text => k + 1 \in 1..n /\ 2 * (k + 1) - 1 = 2 * k + 1
      BY <1>1, <1>5
    <3>3. text[2 * k - 1] # Cont /\ (2 * k + 1 \in DOMAIN text => text[2 * k + 1] # Cont)
      BY <1>5, <2>2, <3>1, <3>2 DEF IsByte
    <3> QED BY <3>3 DEF Splits
  <2>3. BadPairs(text) = {}
    BY <1>5, <2>1, <2>2 DEF BadPairs
  <2>4. HexDecode(text) = Decodes(text)
    BY <2>1, <2>3 DEF HexDecode
  <2>5. Decodes(text).bytes = [k \in 1..n |-> bytes[k]]
    BY <1>5, <2>1 DEF Decodes
  <2>6. [k \in 1..n |-> bytes[k]] = bytes
    OBVIOUS
  <2>7. Decodes(text).result = "bytes"
    BY DEF Decodes
  <2> QED BY <2>4, <2>5, <2>6, <2>7
<1>6. ASSUME HexDecode(text).result = "bytes", HexDecode(text).bytes = bytes
      PROVE  Len(text) = 2 * n /\ \A k \in 1..n : Pair(k)
  <2>1. Len(text) % 2 = 0 /\ BadPairs(text) = {} /\ HexDecode(text) = Decodes(text)
    BY <1>6, DecodedType
  <2> DEFINE m == Len(text) \div 2
  <2>2. m \in Nat /\ Len(text) = 2 * m
    <3>1. Len(text) \in Nat
      BY <1>1
    <3> QED BY <2>1, <3>1
  <2> HIDE DEF m
  <2>3. bytes = [k \in 1..m |-> ByteOf(text[2 * k - 1], text[2 * k])]
    BY <1>6, <2>1 DEF Decodes, m
  <2>4. n = m
    BY <2>2, <2>3
  <2>5. \A k \in 1..m : IsByte(text[2 * k - 1], text[2 * k])
    BY <2>1 DEF BadPairs, m
  <2> QED BY <2>2, <2>3, <2>4, <2>5
<1> QED BY <1>4, <1>5, <1>6

(* It panics only on a pair that begins inside a character. *)
LEMMA HexPanics ==
  ASSUME NEW text \in Text, HexDecode(text).result = "panic"
  PROVE  \E i \in DOMAIN text : i % 2 = 1 /\ text[i] = Cont
<1> DEFINE m == Min(BadPairs(text))
<1>1. Splits(text, m)
  BY DEF HexDecode, Refuses, Decodes
<1>2. BadPairs(text) # {}
  BY DEF HexDecode, Refuses, Decodes
<1>3. BadPairs(text) \in SUBSET Nat
  BY DEF BadPairs
<1>4. m \in BadPairs(text)
  BY <1>2, <1>3, LeastNumber
<1>5. m \in Nat
  BY <1>3, <1>4
<1> HIDE DEF m
<1>6. (2 * m - 1) % 2 = 1 /\ (2 * m + 1) % 2 = 1
  BY <1>5
<1> QED BY <1>1, <1>6 DEF Splits

(* What hex_encode writes, hex_decode reads. *)
LEMMA EncodedIsDecoded ==
  ASSUME NEW bytes \in Seq(Byte)
  PROVE  HexDecode(HexEncode(bytes)).result = "bytes" /\ HexDecode(HexEncode(bytes)).bytes = bytes
<1>1. HexEncode(bytes) \in Text /\ Len(HexEncode(bytes)) = 2 * Len(bytes)
  BY EncodedType
<1>2. \A i \in 1..(2 * Len(bytes)) : LowerCase(HexEncode(bytes)[i]) = HexEncode(bytes)[i]
  <2> SUFFICES ASSUME NEW i \in 1..(2 * Len(bytes))
               PROVE  LowerCase(HexEncode(bytes)[i]) = HexEncode(bytes)[i]
    OBVIOUS
  <2>1. (i + 1) \div 2 \in 1..Len(bytes)
    OBVIOUS
  <2>2. HexEncode(bytes)[i] \in 0..(Radix - 1)
    BY <2>1, Digit DEF HexEncode
  <2>3. \A c \in 0..(Radix - 1) : c % Radix = c
    BY HexAssumption
  <2> QED BY <2>2, <2>3 DEF LowerCase
<1>3. Spells(HexEncode(bytes), bytes)
  BY <1>1, <1>2 DEF Spells, HexEncode
<1> QED BY <1>1, <1>3, DecodesSpellings

-----------------------------------------------------------------------------
(* The inductive invariant. *)

AuthType ==
  /\ auth.kind \in {"none", "password", "key"}
  /\ auth.kind = "password" => auth.pw \in Byte
  /\ auth.kind = "key" => auth.text \in Text

(* Without encryption the bag is not read; with it, nothing is returned before
   it has been, and a bad bag is what is returned. *)
PhaseFits ==
  /\ ~encrypted => phase = "reading"
  /\ encrypted /\ phase = "reading" => outcome = ""
  /\ phase \in {"error", "panic"} => outcome \in {"", phase}
  /\ phase # "parsed" => master = NoKeys

(* The master key follows from the header and the authentication. *)
MasterFollows ==
  master # NoKeys =>
    /\ encrypted /\ auth.kind # "none" /\ IsKey(master) /\ master = MasterKey
    /\ auth.kind = "key" => Decoded.result = "bytes"

(* The classes visited so far let the loop go on, and those of them that are
   protected are unlocked. *)
LoopFollows ==
  /\ master = NoKeys => todo = {} /\ unlocked = NoKeys
  /\ master # NoKeys =>
       /\ todo \subseteq DOMAIN classKeys
       /\ unlocked = UnlockedOf(classKeys, DOMAIN classKeys \ todo)
       /\ \A c \in DOMAIN classKeys \ todo : ~StuckUnder(master, classKeys[c])

OutcomeFollows ==
  /\ outcome \in {"", "open", "error", "panic", "NotEncrypted", "HexDecode",
                  "PasswordOrKeyRequired", "PasswordOrKeyIncorrect"}
  /\ outcome = "open" => (encrypted => master # NoKeys /\ todo = {})
  /\ ~encrypted => outcome \in {"", "open", "NotEncrypted"}
  /\ encrypted /\ phase = "parsed" /\ master = NoKeys /\ outcome # "" =>
       \/ auth.kind = "none" /\ outcome = "PasswordOrKeyRequired"
       \/ auth.kind = "key" /\ Decoded.result # "bytes" /\ outcome = Decoded.result
       \/ auth.kind = "key" /\ Len(MasterKey) # KeyLen /\ outcome = "PasswordOrKeyIncorrect"
  /\ master # NoKeys => outcome \in {"", "open", "PasswordOrKeyIncorrect"}
  /\ master # NoKeys /\ outcome = "PasswordOrKeyIncorrect" =>
       \E c \in DOMAIN classKeys : StuckUnder(master, classKeys[c])

(* An earlier opening was successful: the bag is sound, no class of it stops the
   loop under the key whose text the caller has come back with. *)
EarlierFollows ==
  earlier # NoKeys =>
    \E key \in Seq(Byte) :
      /\ Len(key) = KeyLen /\ encrypted /\ Sound(bag)
      /\ auth.kind = "key" /\ auth.text = HexEncode(key)
      /\ LET keys == KeysOf(bag, Records(bag))
         IN  /\ earlier = UnlockedOf(keys, DOMAIN keys)
             /\ \A c \in DOMAIN keys : ~StuckUnder(key, keys[c])

MInv ==
  /\ KInv /\ encrypted \in BOOLEAN /\ AuthType /\ PhaseFits /\ MasterFollows
  /\ LoopFollows /\ OutcomeFollows /\ EarlierFollows

-----------------------------------------------------------------------------
(* Keys, and maps of them, are not NoKeys. *)

LEMMA KeyIsSome == ASSUME NEW key, IsKey(key) PROVE key # NoKeys
<1>1. 1 \in DOMAIN key /\ 1 \notin DOMAIN NoKeys
  BY DEF IsKey, KeyLen, NoKeys
<1> QED BY <1>1

LEMMA MapIsSome == ASSUME NEW f, DOMAIN f \subseteq Nat PROVE f # NoKeys
<1>1. -1 \in DOMAIN NoKeys /\ -1 \notin DOMAIN f
  BY DEF NoKeys
<1> QED BY <1>1

LEMMA UnlockedIsSome ==
  ASSUME TypeOK, NEW C \in SUBSET DOMAIN classKeys
  PROVE  DOMAIN UnlockedOf(classKeys, C) \subseteq C /\ UnlockedOf(classKeys, C) # NoKeys
<1>1. DOMAIN UnlockedOf(classKeys, C) \subseteq C
  BY DEF UnlockedOf
<1>2. DOMAIN classKeys \subseteq Nat
  BY DEF TypeOK
<1> QED BY <1>1, <1>2, MapIsSome

(* The parameters of the header are bytes, and so is what is derived of them. *)
LEMMA HeadIsBytes ==
  ASSUME KInv, NEW t \in Params
  PROVE  head[t].val \in Byte
<1> DEFINE n == pos - 1
           H == HeaderBlocks(bag, t, n)
<1>1. bag \in Bags /\ pos \in 1..(Len(bag) + 1)
  BY DEF KInv, TypeOK
<1>2. Len(bag) \in Nat /\ DOMAIN bag = 1..Len(bag)
  BY <1>1, BagType
<1>3. n \in Nat /\ n <= Len(bag)
  BY <1>1, <1>2
<1>4. head[t] = HeadOf(bag, t, n)
  BY DEF KInv, HeadFollows, Params, Numbers, Blobs
<1>5. CASE H = {}
  <2>1. head[t] = Nothing
    BY <1>4, <1>5 DEF HeadOf
  <2>2. 0 \in Byte
    BY HexAssumption DEF Byte
  <2> QED BY <2>1, <2>2 DEF Nothing
<1>6. CASE H # {}
  <2>1. head[t] = SaidAt(bag, Max(H))
    BY <1>4, <1>6 DEF HeadOf
  <2>2. H \in SUBSET Nat /\ \A h \in H : h <= n
    BY <1>3 DEF HeaderBlocks
  <2>3. Max(H) \in H
    <3> HIDE DEF H, n
    <3> QED BY <1>3, <1>6, <2>2, GreatestNumber
  <2>4. Max(H) \in DOMAIN bag /\ bag[Max(H)].tag = t
    BY <1>2, <1>3, <2>3 DEF HeaderBlocks
  <2>5. bag[Max(H)].val \in Byte
    BY <1>1, <2>4, ManifestAssumption
  <2> QED BY <2>1, <2>5 DEF SaidAt
<1> QED BY <1>5, <1>6

LEMMA DerivedType ==
  ASSUME KInv, NEW pw \in Byte
  PROVE  Derive(pw) \in Seq(Byte) /\ Len(Derive(pw)) = KeyLen
<1>1. /\ head["DPSL"].val \in Byte /\ head["DPIC"].val \in Byte
      /\ head["SALT"].val \in Byte /\ head["ITER"].val \in Byte
  BY HeadIsBytes DEF Params
<1> QED BY <1>1 DEF Derive, KeyLen

LEMMA MasterType ==
  ASSUME KInv, AuthType, auth.kind \in {"password", "key"}
  PROVE  /\ MasterKey \in Seq(Byte)
         /\ auth.kind = "password" => Len(MasterKey) = KeyLen
<1>1. CASE auth.kind = "password"
  BY <1>1, DerivedType DEF AuthType, MasterKey
<1>2. CASE auth.kind = "key"
  BY <1>2, DecodedType DEF AuthType, MasterKey, Decoded
<1> QED BY <1>1, <1>2

-----------------------------------------------------------------------------
(* The invariant holds at the beginning, and when the bag is to be read anew. *)

LEMMA FreshFollows == Init' => KInv'
BY InitFollows, PTL

LEMMA ManifestInitInv == ManifestInit => MInv
<1> SUFFICES ASSUME ManifestInit PROVE MInv
  OBVIOUS
<1>1. KInv /\ phase = "reading"
  BY InitFollows DEF ManifestInit, Init
<1>2. AuthType
  BY ManifestAssumption DEF ManifestInit, AuthType
<1> QED BY <1>1, <1>2 DEF ManifestInit, MInv, PhaseFits, MasterFollows, LoopFollows,
                          OutcomeFollows, EarlierFollows

(* What no step but Reopen disturbs. *)
LEMMA KeptByAll ==
  ASSUME MInv, [Parse]_parseVars, UNCHANGED <<encrypted, auth, earlier>>
  PROVE  KInv' /\ encrypted' \in BOOLEAN /\ AuthType' /\ EarlierFollows' /\ bag' = bag
<1>1. bag' = bag
  BY DEF Parse, ReadType, ReadHeader, BadNumber, StartRecord, StartFails, ReadIntoRecord,
         ReadOther, CutOff, EndOverflows, End, EndFails, Advance, Stop, parseVars
<1>2. KInv'
  BY ParseInductive DEF MInv
<1> QED BY <1>1, <1>2 DEF MInv, AuthType, EarlierFollows

LEMMA ParseBagInv == MInv /\ ParseBag => MInv'
<1> SUFFICES ASSUME MInv, ParseBag PROVE MInv'
  OBVIOUS
<1>1. encrypted /\ Parse /\ UNCHANGED <<encrypted, auth, master, todo, unlocked, outcome, earlier>>
  BY DEF ParseBag, authVars
<1>2. phase = "reading"
  BY <1>1 DEF Parse, ReadType, ReadHeader, BadNumber, StartRecord, StartFails, ReadIntoRecord,
              ReadOther, CutOff, EndOverflows, End, EndFails, Reads
<1>3. outcome = "" /\ master = NoKeys /\ todo = {} /\ unlocked = NoKeys
  BY <1>1, <1>2 DEF MInv, PhaseFits, LoopFollows
<1>4. KInv' /\ encrypted' \in BOOLEAN /\ AuthType' /\ EarlierFollows'
  BY <1>1, KeptByAll
<1> QED BY <1>1, <1>3, <1>4 DEF MInv, PhaseFits, MasterFollows, LoopFollows, OutcomeFollows

(* A step that only returns. *)
LEMMA ReturnInv ==
  ASSUME MInv, NEW what, Return(what),
         phase \in {"error", "panic"} => what = phase,
         encrypted => phase # "reading",
         (OutcomeFollows /\ outcome = "") => OutcomeFollows', outcome = ""
  PROVE  MInv'
<1>1. UNCHANGED <<parseVars, encrypted, auth, master, todo, unlocked, earlier>> /\ outcome' = what
  BY DEF Return
<1>2. KInv' /\ encrypted' \in BOOLEAN /\ AuthType' /\ EarlierFollows'
  BY <1>1, KeptByAll
<1>3. MasterKey' = MasterKey /\ Decoded' = Decoded
  BY <1>1 DEF MasterKey, Derive, Decoded, parseVars
<1>4. MasterFollows'
  BY <1>1, <1>3 DEF MInv, MasterFollows, IsKey
<1>5. PhaseFits' /\ LoopFollows'
  BY <1>1 DEF MInv, PhaseFits, LoopFollows, parseVars
<1> QED BY <1>2, <1>4, <1>5 DEF MInv

(* The class keys are looked at only with a key, and then the bag was read. *)
LEMMA ReadBefore ==
  ASSUME MInv, master # NoKeys
  PROVE  /\ encrypted /\ phase = "parsed"
         /\ Sound(bag) /\ classKeys = KeysOf(bag, Records(bag))
BY DEF MInv, MasterFollows, PhaseFits, KInv, KeysFollow, VerdictFollows

LEMMA ReturnsInv ==
  MInv /\ (OpenPlain \/ BagFails \/ NoAuth \/ NotHex \/ Unlocked) => MInv'
<1> SUFFICES ASSUME MInv, OpenPlain \/ BagFails \/ NoAuth \/ NotHex \/ Unlocked PROVE MInv'
  OBVIOUS
<1>1. Decoded.result # "bytes" /\ auth.kind = "key" => Decoded.result \in {"HexDecode", "panic"}
  BY DecodedType DEF MInv, AuthType, Decoded
<1>2. ASSUME NEW what, Return(what)
      PROVE  /\ outcome' = what /\ UNCHANGED <<encrypted, auth, master, todo>>
             /\ UNCHANGED <<phase, classKeys, MasterKey, Decoded>>
  BY <1>2 DEF Return, parseVars, MasterKey, Derive, Decoded
<1>3. CASE OpenPlain
  <2> DEFINE what == IF auth.kind = "none" THEN "open" ELSE "NotEncrypted"
  <2>1. Return(what) /\ ~encrypted /\ outcome = "" /\ phase = "reading" /\ master = NoKeys
    BY <1>3 DEF OpenPlain, MInv, PhaseFits, MasterFollows
  <2>2. what \in {"open", "NotEncrypted"}
    OBVIOUS
  <2> HIDE DEF what
  <2>3. OutcomeFollows'
    BY <1>2, <2>1, <2>2 DEF OutcomeFollows
  <2> QED BY <2>1, <2>3, ReturnInv
<1>4. CASE BagFails
  <2>1. Return(phase) /\ phase \in {"error", "panic"} /\ outcome = "" /\ encrypted /\ master = NoKeys
    BY <1>4 DEF BagFails, MInv, PhaseFits
  <2>2. OutcomeFollows'
    BY <1>2, <2>1 DEF OutcomeFollows
  <2> QED BY <2>1, <2>2, ReturnInv
<1>5. CASE NoAuth
  <2>1. Return("PasswordOrKeyRequired") /\ Ready /\ auth.kind = "none"
    BY <1>5 DEF NoAuth
  <2>2. outcome' = "PasswordOrKeyRequired" /\ UNCHANGED <<encrypted, auth, master>>
    BY <1>2, <2>1
  <2>3. encrypted' /\ auth'.kind = "none" /\ master' = NoKeys
    BY <2>1, <2>2 DEF Ready
  <2>4. OutcomeFollows'
    BY <2>2, <2>3 DEF OutcomeFollows
  <2> QED BY <2>1, <2>4, ReturnInv DEF Ready
<1>6. CASE NotHex
  <2>1. Return(Decoded.result) /\ Ready /\ auth.kind = "key" /\ Decoded.result # "bytes"
    BY <1>6 DEF NotHex
  <2>2. OutcomeFollows'
    BY <1>1, <1>2, <2>1 DEF OutcomeFollows, Ready
  <2> QED BY <2>1, <2>2, ReturnInv DEF Ready
<1>7. CASE Unlocked
  <2>1. Return("open") /\ master # NoKeys /\ outcome = "" /\ todo = {}
    BY <1>7 DEF Unlocked
  <2>2. encrypted /\ phase = "parsed"
    BY <2>1, ReadBefore
  <2>3. outcome' = "open" /\ UNCHANGED <<encrypted, master, todo>>
    BY <1>2, <2>1
  <2>4. OutcomeFollows'
    BY <2>1, <2>2, <2>3 DEF OutcomeFollows
  <2> QED BY <2>1, <2>2, <2>4, ReturnInv
<1> QED BY <1>3, <1>4, <1>5, <1>6, <1>7

LEMMA AuthenticateInv == MInv /\ Authenticate => MInv'
<1> SUFFICES ASSUME MInv, Authenticate PROVE MInv'
  OBVIOUS
<1>1. /\ encrypted /\ phase = "parsed" /\ outcome = "" /\ master = NoKeys
      /\ auth.kind \in {"password", "key"} /\ (auth.kind = "key" => Decoded.result = "bytes")
      /\ todo = {} /\ unlocked = NoKeys
  BY DEF Authenticate, Ready, MInv, LoopFollows
<1>2. UNCHANGED <<parseVars, encrypted, auth, earlier>>
  BY DEF Authenticate
<1>3. KInv' /\ encrypted' \in BOOLEAN /\ AuthType' /\ EarlierFollows'
  BY <1>2, KeptByAll
<1>4. UNCHANGED <<phase, classKeys, MasterKey, Decoded>>
  BY <1>2 DEF parseVars, MasterKey, Derive, Decoded
<1>5. MasterKey \in Seq(Byte) /\ (auth.kind = "password" => Len(MasterKey) = KeyLen)
  BY <1>1, MasterType DEF MInv
<1>6. CASE Len(MasterKey) = KeyLen
  <2>1. master' = MasterKey /\ todo' = DOMAIN classKeys /\ unlocked' = NoMap /\ outcome' = ""
    BY <1>1, <1>6 DEF Authenticate
  <2>2. IsKey(master') /\ master' # NoKeys
    BY <1>5, <1>6, <2>1, KeyIsSome DEF IsKey
  <2>3. MasterFollows'
    BY <1>1, <1>2, <1>4, <2>1, <2>2 DEF MasterFollows
  <2>4. UnlockedOf(classKeys, {}) = NoMap
    BY DEF UnlockedOf, NoMap
  <2>5. LoopFollows'
    BY <1>4, <2>1, <2>2, <2>4 DEF LoopFollows
  <2>6. PhaseFits' /\ OutcomeFollows'
    BY <1>1, <1>2, <1>4, <2>1 DEF PhaseFits, OutcomeFollows
  <2> QED BY <1>3, <2>3, <2>5, <2>6 DEF MInv
<1>7. CASE Len(MasterKey) # KeyLen
  <2>1. outcome' = "PasswordOrKeyIncorrect" /\ UNCHANGED <<master, todo, unlocked>>
    BY <1>7 DEF Authenticate
  <2>2. auth.kind = "key"
    BY <1>1, <1>5, <1>7
  <2> QED BY <1>1, <1>2, <1>3, <1>4, <1>7, <2>1, <2>2
             DEF MInv, PhaseFits, MasterFollows, LoopFollows, OutcomeFollows
<1> QED BY <1>6, <1>7

(* A class that the loop has visited joins those that were. *)
LEMMA VisitInv ==
  ASSUME MInv, NEW c \in todo, outcome = "", ~Stuck(classKeys[c]),
         todo' = todo \ {c}, UNCHANGED <<parseVars, encrypted, auth, master, outcome, earlier>>,
         unlocked' = IF Protected(classKeys[c])
                     THEN Put(unlocked, c, Wrapped[classKeys[c].wpky.val].key) ELSE unlocked
  PROVE  MInv'
<1>1. KInv' /\ encrypted' \in BOOLEAN /\ AuthType' /\ EarlierFollows'
  BY KeptByAll
<1>2. UNCHANGED <<phase, classKeys, MasterKey, Decoded>>
  BY DEF parseVars, MasterKey, Derive, Decoded
<1>3. master # NoKeys /\ encrypted /\ phase = "parsed"
  BY ReadBefore DEF MInv, LoopFollows
<1>4. MasterFollows' /\ PhaseFits' /\ OutcomeFollows'
  BY <1>2, <1>3 DEF MInv, MasterFollows, PhaseFits, OutcomeFollows, IsKey
<1>5. /\ c \in DOMAIN classKeys /\ todo \subseteq DOMAIN classKeys
      /\ unlocked = UnlockedOf(classKeys, DOMAIN classKeys \ todo)
      /\ \A x \in DOMAIN classKeys \ todo : ~StuckUnder(master, classKeys[x])
  BY <1>3 DEF MInv, LoopFollows
<1> DEFINE D == DOMAIN classKeys \ todo
<1>6. DOMAIN classKeys \ (todo \ {c}) = D \cup {c}
  BY <1>5
<1>7. unlocked' = UnlockedOf(classKeys, D \cup {c})
  BY <1>5 DEF UnlockedOf, Put
<1>8. ~StuckUnder(master, classKeys[c])
  BY DEF Stuck, StuckUnder
<1>9. LoopFollows'
  BY <1>2, <1>3, <1>5, <1>6, <1>7, <1>8 DEF LoopFollows
<1> QED BY <1>1, <1>4, <1>9 DEF MInv

LEMMA FailClassInv == ASSUME MInv, NEW c \in todo, FailClass(c) PROVE MInv'
<1>1. outcome = "" /\ Stuck(classKeys[c]) /\ Return("PasswordOrKeyIncorrect")
  BY DEF FailClass, Visiting
<1>2. master # NoKeys /\ encrypted /\ phase = "parsed" /\ c \in DOMAIN classKeys
  BY ReadBefore DEF MInv, LoopFollows
<1>3. StuckUnder(master, classKeys[c])
  BY <1>1 DEF Stuck, StuckUnder
<1>4. outcome' = "PasswordOrKeyIncorrect" /\ UNCHANGED <<master, classKeys, encrypted>>
  BY <1>1 DEF Return, parseVars
<1>5. OutcomeFollows'
  BY <1>2, <1>3, <1>4 DEF OutcomeFollows
<1> QED BY <1>1, <1>2, <1>5, ReturnInv

LEMMA ReopenInv == MInv /\ Reopen => MInv'
<1> SUFFICES ASSUME MInv, Reopen PROVE MInv'
  OBVIOUS
<1>1. /\ outcome = "open" /\ encrypted
      /\ auth' = [kind |-> "key", text |-> HexEncode(master)]
      /\ earlier' = unlocked
      /\ master' = NoKeys /\ todo' = {} /\ unlocked' = NoKeys /\ outcome' = ""
      /\ phase' = "reading" /\ UNCHANGED <<bag, encrypted>>
  BY DEF Reopen
<1>2. Init'
  BY DEF Reopen, Init, MInv, KInv, TypeOK
<1>3. KInv'
  BY <1>2, FreshFollows
<1>4. master # NoKeys /\ todo = {}
  BY <1>1 DEF MInv, OutcomeFollows
<1>5. master \in Seq(Byte) /\ Len(master) = KeyLen
  BY <1>4 DEF MInv, MasterFollows, IsKey
<1>6. AuthType'
  BY <1>1, <1>5, EncodedType DEF AuthType
<1>7. Sound(bag) /\ classKeys = KeysOf(bag, Records(bag))
  BY <1>4, ReadBefore
<1>8. /\ unlocked = UnlockedOf(classKeys, DOMAIN classKeys)
      /\ \A c \in DOMAIN classKeys : ~StuckUnder(master, classKeys[c])
  BY <1>4 DEF MInv, LoopFollows
<1>9. EarlierFollows'
  BY <1>1, <1>5, <1>7, <1>8 DEF EarlierFollows
<1> QED BY <1>1, <1>3, <1>6, <1>9
           DEF MInv, PhaseFits, MasterFollows, LoopFollows, OutcomeFollows

LEMMA ManifestInductive == MInv /\ [Next]_vars => MInv'
<1> SUFFICES ASSUME MInv, [Next]_vars PROVE MInv'
  OBVIOUS
<1>1. ASSUME NEW c \in todo, SkipClass(c) PROVE MInv'
  BY <1>1, VisitInv DEF SkipClass, Visiting
<1>2. ASSUME NEW c \in todo, UnwrapClass(c) PROVE MInv'
  <2>1. ~Stuck(classKeys[c])
    BY <1>2 DEF UnwrapClass, Stuck, Protected
  <2> QED BY <1>2, <2>1, VisitInv DEF UnwrapClass, Visiting
<1>3. CASE UNCHANGED vars
  <2>1. UNCHANGED <<parseVars, encrypted, auth, master, todo, unlocked, outcome, earlier>>
    BY <1>3 DEF vars, authVars
  <2>2. KInv' /\ encrypted' \in BOOLEAN /\ AuthType' /\ EarlierFollows'
    BY <2>1, KeptByAll
  <2>3. UNCHANGED <<phase, classKeys, MasterKey, Decoded>>
    BY <2>1 DEF parseVars, MasterKey, Derive, Decoded
  <2> QED BY <2>1, <2>2, <2>3
             DEF MInv, PhaseFits, MasterFollows, LoopFollows, OutcomeFollows, IsKey
<1> QED BY <1>1, <1>2, <1>3, ParseBagInv, ReturnsInv, AuthenticateInv, FailClassInv, ReopenInv
        DEF Next, FromManifestData

LEMMA ManifestInvariant == ManifestSpec => []MInv
BY ManifestInitInv, ManifestInductive, PTL DEF ManifestSpec

-----------------------------------------------------------------------------
(* What follows from it. *)

LEMMA ManifestTypes == MInv => ManifestTypeOK
<1> SUFFICES ASSUME MInv PROVE ManifestTypeOK
  OBVIOUS
<1>1. TypeOK /\ encrypted \in BOOLEAN /\ auth.kind \in {"none", "password", "key"}
  BY DEF MInv, KInv, AuthType
<1>2. CASE master = NoKeys
  <2>1. todo = {} /\ unlocked = NoKeys
    BY <1>2 DEF MInv, LoopFollows
  <2> QED BY <1>1, <1>2, <2>1 DEF MInv, OutcomeFollows, ManifestTypeOK
<1>3. CASE master # NoKeys
  <2>1. encrypted /\ todo \subseteq DOMAIN classKeys
        /\ unlocked = UnlockedOf(classKeys, DOMAIN classKeys \ todo)
    BY <1>3 DEF MInv, LoopFollows, MasterFollows
  <2>2. DOMAIN unlocked \subseteq DOMAIN classKeys \ todo /\ unlocked # NoKeys
    BY <1>1, <2>1, UnlockedIsSome
  <2> QED BY <1>1, <2>1, <2>2 DEF MInv, OutcomeFollows, ManifestTypeOK
<1> QED BY <1>2, <1>3

LEMMA UnlocksAllOrNone == MInv => AllProtectedOrNone
<1> SUFFICES ASSUME MInv, encrypted, master # NoKeys PROVE AllProtectedOrNone
  BY DEF AllProtectedOrNone
<1>1. \A ck : Stuck(ck) <=> StuckUnder(master, ck)
  BY DEF Stuck, StuckUnder
<1>2. /\ outcome \in {"", "open", "PasswordOrKeyIncorrect"}
      /\ outcome = "PasswordOrKeyIncorrect" => \E c \in DOMAIN classKeys : Stuck(classKeys[c])
  BY <1>1 DEF MInv, OutcomeFollows
<1>3. ASSUME outcome = "open"
      PROVE  /\ unlocked = UnlockedOf(classKeys, DOMAIN classKeys)
             /\ \A c \in DOMAIN classKeys : ~Stuck(classKeys[c])
  <2>1. todo = {}
    BY <1>3 DEF MInv, OutcomeFollows
  <2> QED BY <1>1, <2>1 DEF MInv, LoopFollows
<1> QED BY <1>2, <1>3 DEF AllProtectedOrNone, UnlockedOf

(* From a whole header the key is derived that the bag is sealed with, and the
   class keys are those that were written. *)
LEMMA ReadAsSealed ==
  ASSUME KInv, phase = "parsed", HeaderHas(bag, Numbers \cup Blobs)
  PROVE  /\ \A pw : Derive(pw) = SealKey(pw)
         /\ classKeys = Written(bag) /\ DOMAIN classKeys = Classes(bag)
<1>1. bag \in Seq(TlvBlock) /\ Len(bag) \in Nat
  BY BagType DEF KInv, TypeOK
<1>2. pos - 1 = Len(bag)
  BY <1>1 DEF KInv, VerdictFollows
<1>3. ASSUME NEW t \in Numbers \cup Blobs PROVE head[t] = HeaderField(bag, t)
  <2>1. HeaderAt(bag, t) # {}
    BY DEF HeaderHas
  <2>2. head[t] = HeadOf(bag, t, Len(bag))
    BY <1>2 DEF KInv, HeadFollows
  <2> QED BY <1>1, <2>1, <2>2, HeadIsWritten
<1>4. \A pw : Derive(pw) = SealKey(pw)
  BY <1>3 DEF Derive, SealKey, Numbers, Blobs
<1>5. classKeys = Written(bag)
  BY ParsedIsWritten DEF ClassKeysAsWritten, HeaderHas, Blobs
<1> QED BY <1>4, <1>5 DEF Written

(* On a bag that is sealed under pw, the loop runs through if the master key is
   the one it is sealed with, and does not if it is another. *)
LEMMA SealedOpens ==
  ASSUME MInv, encrypted, phase = "parsed", NEW pw, SealedBy(pw), master # NoKeys, outcome # ""
  PROVE  outcome = "open" <=> master = SealKey(pw)
<1>1. /\ classKeys = Written(bag) /\ DOMAIN classKeys = Classes(bag)
  BY ReadAsSealed DEF SealedBy, MInv
<1>2. /\ \A c \in DOMAIN classKeys : Sealed(classKeys[c], pw)
      /\ \E c \in DOMAIN classKeys : Protected(classKeys[c])
  BY <1>1 DEF SealedBy
<1>3. AllProtectedOrNone
  BY UnlocksAllOrNone
<1>4. outcome \in {"open", "PasswordOrKeyIncorrect"}
  BY DEF MInv, OutcomeFollows
<1>5. ASSUME master = SealKey(pw), NEW c \in DOMAIN classKeys PROVE ~Stuck(classKeys[c])
  BY <1>2, <1>5 DEF Stuck, Sealed, Protected, Unwraps
<1>6. ASSUME master # SealKey(pw) PROVE \E c \in DOMAIN classKeys : Stuck(classKeys[c])
  BY <1>2, <1>6 DEF Stuck, Sealed, Protected, Unwraps
<1> QED BY <1>3, <1>4, <1>5, <1>6 DEF AllProtectedOrNone

LEMMA PasswordsDecide == MInv => PasswordDecides
<1> SUFFICES ASSUME MInv, outcome # "", encrypted, auth.kind = "password", phase = "parsed",
                    NEW pw \in Passwords, SealedBy(pw)
             PROVE  outcome = "open" <=> auth.pw = pw
  BY DEF PasswordDecides
<1>1. master # NoKeys
  BY DEF MInv, OutcomeFollows
<1>2. master = SealKey(auth.pw)
  BY <1>1, ReadAsSealed DEF MInv, MasterFollows, MasterKey, SealedBy
<1>3. SealKey(auth.pw) = SealKey(pw) <=> auth.pw = pw
  BY DEF SealKey
<1> QED BY <1>1, <1>2, <1>3, SealedOpens

LEMMA DerivedKeyOpens == MInv => DerivedKeyOpensTheSame
<1> SUFFICES ASSUME MInv, earlier # NoKeys
             PROVE  outcome \in {"", "open"} /\ (outcome = "open" => unlocked = earlier)
  BY DEF DerivedKeyOpensTheSame
<1> DEFINE keys == KeysOf(bag, Records(bag))
<1>1. PICK key \in Seq(Byte) :
        /\ Len(key) = KeyLen /\ encrypted /\ Sound(bag)
        /\ auth.kind = "key" /\ auth.text = HexEncode(key)
        /\ earlier = UnlockedOf(keys, DOMAIN keys)
        /\ \A c \in DOMAIN keys : ~StuckUnder(key, keys[c])
  BY DEF MInv, EarlierFollows
<1>2. Decoded.result = "bytes" /\ Decoded.bytes = key
  BY <1>1, EncodedIsDecoded DEF Decoded
<1>3. MasterKey = key
  BY <1>1, <1>2 DEF MasterKey
<1>4. CASE phase # "parsed"
  <2>1. phase = "reading"
    BY <1>1, <1>4 DEF MInv, KInv, TypeOK, VerdictFollows
  <2> QED BY <1>1, <2>1 DEF MInv, PhaseFits
<1>5. CASE phase = "parsed" /\ master = NoKeys
  BY <1>1, <1>2, <1>3, <1>5 DEF MInv, OutcomeFollows
<1>6. CASE phase = "parsed" /\ master # NoKeys
  <2>1. master = key /\ classKeys = keys
    BY <1>3, <1>6, ReadBefore DEF MInv, MasterFollows
  <2>2. outcome \in {"", "open"}
    BY <1>1, <1>6, <2>1 DEF MInv, OutcomeFollows
  <2>3. outcome = "open" => unlocked = UnlockedOf(keys, DOMAIN keys)
    BY <1>1, <1>6, <2>1 DEF MInv, OutcomeFollows, LoopFollows
  <2> QED BY <1>1, <2>2, <2>3
<1> QED BY <1>4, <1>5, <1>6

-----------------------------------------------------------------------------
(* What the loop has still to visit is a set of classes of the bag, and what it
   unlocked are classes that it has visited. *)
THEOREM UnlockingTypes == ManifestSpec => []ManifestTypeOK
BY ManifestInvariant, ManifestTypes, PTL

(* In whatever order the map yields its classes, all protected ones are unlocked
   or opening fails. *)
THEOREM OrderOfClassesIsIrrelevant == ManifestSpec => []AllProtectedOrNone
BY ManifestInvariant, UnlocksAllOrNone, PTL

(* A sealed bag opens with its password and with no other. *)
THEOREM OnlyThePasswordOpens == ManifestSpec => []PasswordDecides
BY ManifestInvariant, PasswordsDecide, PTL

(* The key of an open backup, written as text and read again, opens it to the
   same class keys. *)
THEOREM KeyOpensLikePassword == ManifestSpec => []DerivedKeyOpensTheSame
BY ManifestInvariant, DerivedKeyOpens, PTL

(* hex_decode reads what hex_encode writes, in either case and with a plus sign
   for a leading zero, and no other text gives the same bytes. *)
THEOREM HexReadsWhatItWrites ==
  \A bytes \in Seq(Byte) : \A text \in Text :
    /\ HexDecode(HexEncode(bytes)).bytes = bytes
    /\ Spells(text, bytes) <=> HexDecode(text).result = "bytes" /\ HexDecode(text).bytes = bytes
BY EncodedIsDecoded, DecodesSpellings
=============================================================================
