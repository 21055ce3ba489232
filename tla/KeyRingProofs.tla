----------------------------- MODULE KeyRingProofs -----------------------------
(***************************************************************************)
(* What TLAPS proves of KeyRing, for every key bag: the parser is a function*)
(* of the bag, given here by positions and for bags of any layout (KeysOf,  *)
(* HeadOf, Sound), and on a bag whose header is whole this function is what *)
(* the bag's writer wrote.                                                  *)
(***************************************************************************)
EXTENDS KeyRing, WellFoundedInduction, TLAPS

-----------------------------------------------------------------------------
(* Min and Max of FiniteSetsExt, which are CHOOSEs, are what their names say:
   there is a least number in a set of naturals, a greatest in a bounded one, and
   a number that is one of these is the one they choose. *)

Less == {ss \in Nat \X Nat : ss[1] < ss[2]}

LEMMA LessIsWellFounded == IsWellFoundedOn(Less, Nat)
<1>1. Less = OpToRel(<, Nat)
  BY DEF Less, OpToRel
<1> QED BY <1>1, NatLessThanWellFounded

LEMMA LeastNumber ==
  ASSUME NEW S \in SUBSET Nat, S # {}
  PROVE  Min(S) \in S /\ \A n \in S : Min(S) <= n
<1>1. PICK m \in S : \A n \in S : ~(<<n, m>> \in Less)
  BY LessIsWellFounded, WFMin
<1>2. ASSUME NEW n \in S PROVE m <= n
  <2>1. m \in Nat /\ n \in Nat /\ <<n, m>> \in Nat \X Nat
    OBVIOUS
  <2>2. n < m => <<n, m>> \in Less
    BY <2>1 DEF Less
  <2> QED BY <1>1, <2>1, <2>2
<1> QED BY <1>2 DEF Min

LEMMA GreatestNumber ==
  ASSUME NEW S \in SUBSET Nat, S # {}, NEW b \in Nat, \A n \in S : n <= b
  PROVE  Max(S) \in S /\ \A n \in S : n <= Max(S)
<1> DEFINE T == {b - n : n \in S}
<1>1. T \in SUBSET Nat /\ T # {}
  <2>1. ASSUME NEW n \in S PROVE b - n \in Nat
    OBVIOUS
  <2> QED BY <2>1
<1>2. Min(T) \in T /\ \A n \in T : Min(T) <= n
  <2> HIDE DEF T
  <2> QED BY <1>1, LeastNumber
<1>3. PICK m \in S : Min(T) = b - m
  BY <1>2
<1>4. ASSUME NEW n \in S PROVE n <= m
  <2>1. b - n \in T
    OBVIOUS
  <2>2. b - m <= b - n
    BY <1>2, <1>3, <2>1
  <2> QED BY <2>2
<1> QED BY <1>4 DEF Max

LEMMA MinIs ==
  ASSUME NEW S \in SUBSET Int, NEW m \in S, \A n \in S : m <= n
  PROVE  Min(S) = m
<1>1. Min(S) \in S /\ \A n \in S : Min(S) <= n
  <2>1. \A n \in S : m <= n
    OBVIOUS
  <2> QED BY <2>1 DEF Min
<1>2. Min(S) \in Int /\ m \in Int
  BY <1>1
<1> QED BY <1>1, <1>2

LEMMA MaxIs ==
  ASSUME NEW S \in SUBSET Int, NEW m \in S, \A n \in S : n <= m
  PROVE  Max(S) = m
<1>1. Max(S) \in S /\ \A n \in S : Max(S) >= n
  <2>1. \A n \in S : m >= n
    OBVIOUS
  <2> QED BY <2>1 DEF Max
<1>2. Max(S) \in Int /\ m \in Int
  BY <1>1
<1> QED BY <1>1, <1>2

-----------------------------------------------------------------------------
(* What a bag says, by positions. *)


TlvBlock == [tag : Tags, len : Nat, val : Nat]

SaidAt(b, i) == [len |-> b[i].len, val |-> b[i].val]

(* A block that the parser takes for the header's: all before it that have its
   tag are empty. *)
OfHeader(b, i) ==
  /\ b[i].tag \in Numbers \cup Blobs
  /\ \A j \in 1..(i - 1) : b[j].tag = b[i].tag => Empty(b[i].tag, b[j])

(* Among the first n blocks, the header's of a kind; and its value so far. *)
HeaderBlocks(b, tag, n) == {i \in 1..n : b[i].tag = tag /\ OfHeader(b, i)}
HeadOf(b, tag, n) ==
  IF HeaderBlocks(b, tag, n) = {} THEN Nothing ELSE SaidAt(b, Max(HeaderBlocks(b, tag, n)))

(* Among the first n blocks, those of a kind in the record that begins at r. *)
OfRecord(b, r, tag, n) ==
  {j \in r..n : /\ b[j].tag = tag /\ ~OfHeader(b, j)
                /\ \A k \in Records(b) : k <= r \/ j < k}
RecordOfBlocks(b, r, n) ==
  [t \in {x \in RecordTags \cup {"UUID"} : OfRecord(b, r, x, n) # {}} |->
     SaidAt(b, Max(OfRecord(b, r, t, n)))]
WholeRecord(b, r) == RecordOfBlocks(b, r, Len(b))

(* The keys of the records R: of those of one class the last counts. *)
ClassIn(b, r) == WholeRecord(b, r)["CLAS"].val
OfClass(b, R, c) == {r \in R : ClassIn(b, r) = c}
KeysOf(b, R) ==
  [c \in {ClassIn(b, r) : r \in R} |-> FromMap(WholeRecord(b, Max(OfClass(b, R, c))))]

HasClass(b, r) == "CLAS" \in DOMAIN WholeRecord(b, r)
SoundRecord(b, r) == HasClass(b, r) /\ WholeRecord(b, r)["CLAS"].len = 4
SoundBlock(b, i) == b[i].tag \notin CutTags /\ (b[i].tag \in Numbers /\ OfHeader(b, i) => b[i].len = 4)

(* The bags that are accepted. *)
Sound(b) == (\A i \in DOMAIN b : SoundBlock(b, i)) /\ (\A r \in Records(b) : SoundRecord(b, r))

-----------------------------------------------------------------------------
(* The inductive invariant. *)

Begun == {r \in Records(bag) : r < pos}
Complete == {r \in Begun : \E k \in Begun : r < k}

(* A field of the header is unset as long as all its blocks were empty. *)
HeadFollows ==
  \A t \in Numbers \cup Blobs :
    /\ Unset(t) <=> \A j \in 1..(pos - 1) : bag[j].tag = t => Empty(t, bag[j])
    /\ head[t] = HeadOf(bag, t, pos - 1)

(* The record that is open is the last that has begun. *)
CurrentFollows ==
  phase = "reading" =>
    current = IF Begun = {} THEN NoMap ELSE RecordOfBlocks(bag, Max(Begun), pos - 1)

KeysFollow ==
  /\ phase = "reading" => classKeys = KeysOf(bag, Complete)
  /\ phase = "parsed" => classKeys = KeysOf(bag, Records(bag))

VerdictFollows ==
  /\ phase = "reading" =>
       /\ \A i \in 1..(pos - 1) : SoundBlock(bag, i)
       /\ \A r \in Complete : SoundRecord(bag, r)
  /\ phase = "parsed" => Sound(bag) /\ pos = Len(bag) + 1
  /\ phase \in {"error", "panic"} => ~Sound(bag)
  /\ phase = "panic" => \/ \E r \in Records(bag) : ~HasClass(bag, r)
                        \/ pos \in Named(bag, "OVER")

KInv == TypeOK /\ HeadFollows /\ CurrentFollows /\ KeysFollow /\ VerdictFollows

-----------------------------------------------------------------------------
(* Blocks of a bag and what is said of them by position. *)

LEMMA BagType ==
  ASSUME bag \in Bags
  PROVE  /\ bag \in Seq(TlvBlock) /\ Len(bag) \in Nat /\ DOMAIN bag = 1..Len(bag)
         /\ \A i \in 1..Len(bag) : bag[i].tag \in Tags /\ SaidAt(bag, i) \in Value
<1>1. bag \in Seq(TlvBlock)
  BY KeyRingAssumption DEF TlvBlock
<1>2. Len(bag) \in Nat /\ DOMAIN bag = 1..Len(bag) /\ \A i \in 1..Len(bag) : bag[i] \in TlvBlock
  BY <1>1
<1> QED BY <1>1, <1>2 DEF TlvBlock, SaidAt, Value

(* A record begins with each UUID that is not the header's. *)
LEMMA RecordBegins ==
  ASSUME NEW b \in Seq(TlvBlock)
  PROVE  Records(b) = {i \in DOMAIN b : b[i].tag = "UUID" /\ ~OfHeader(b, i)}
<1>1. Len(b) \in Nat /\ DOMAIN b = 1..Len(b)
  OBVIOUS
<1>2. ASSUME NEW i \in DOMAIN b, b[i].tag = "UUID"
      PROVE  (\E j \in Named(b, "UUID") : j < i /\ b[j].len # 0) <=> ~OfHeader(b, i)
  <2>1. OfHeader(b, i) <=> \A j \in 1..(i - 1) : b[j].tag = "UUID" => b[j].len = 0
    BY <1>2 DEF OfHeader, Numbers, Blobs, Empty
  <2> QED BY <1>1, <2>1 DEF Named
<1> QED BY <1>2 DEF Records, Named

LEMMA RecordsAreNumbers ==
  ASSUME NEW b \in Seq(TlvBlock)
  PROVE  Records(b) \in SUBSET Nat /\ \A r \in Records(b) : r \in 1..Len(b)
<1>1. Len(b) \in Nat /\ DOMAIN b = 1..Len(b)
  OBVIOUS
<1> QED BY <1>1 DEF Records, Named

(* What the next block does to the header. *)
LEMMA HeadGrows ==
  ASSUME NEW b \in Seq(TlvBlock), NEW t, NEW n \in Nat
  PROVE  HeadOf(b, t, n + 1) =
           IF b[n + 1].tag = t /\ OfHeader(b, n + 1) THEN SaidAt(b, n + 1) ELSE HeadOf(b, t, n)
<1> DEFINE H == HeaderBlocks(b, t, n)
           K == HeaderBlocks(b, t, n + 1)
<1>1. CASE b[n + 1].tag = t /\ OfHeader(b, n + 1)
  <2>1. n + 1 \in K /\ K \in SUBSET Int /\ \A k \in K : k <= n + 1
    BY <1>1 DEF HeaderBlocks
  <2>2. Max(K) = n + 1
    <3> HIDE DEF K
    <3> QED BY <2>1, MaxIs
  <2> QED BY <2>1, <2>2, <1>1 DEF HeadOf
<1>2. CASE ~(b[n + 1].tag = t /\ OfHeader(b, n + 1))
  <2>1. K = H
    BY <1>2 DEF HeaderBlocks
  <2> QED BY <2>1, <1>2 DEF HeadOf
<1> QED BY <1>1, <1>2

(* What the next block does to the record that is open... *)
LEMMA RecordGrows ==
  ASSUME NEW b \in Seq(TlvBlock), NEW r \in Records(b), NEW n \in Nat, r <= n,
         \A k \in Records(b) : k <= r \/ n + 1 < k,
         NEW m, m = RecordOfBlocks(b, r, n)
  PROVE  RecordOfBlocks(b, r, n + 1) =
           IF b[n + 1].tag \in RecordTags \cup {"UUID"} /\ ~OfHeader(b, n + 1)
           THEN Put(m, b[n + 1].tag, SaidAt(b, n + 1)) ELSE m
<1> DEFINE tag == b[n + 1].tag
           Hit(t) == t = tag /\ ~OfHeader(b, n + 1)
           O(t) == OfRecord(b, r, t, n)
           P(t) == OfRecord(b, r, t, n + 1)
           T == RecordTags \cup {"UUID"}
<1>1. r \in Nat
  BY RecordsAreNumbers
<1>2. ASSUME NEW t PROVE P(t) = O(t) \cup (IF Hit(t) THEN {n + 1} ELSE {})
  <2>1. r..(n + 1) = (r..n) \cup {n + 1}
    BY <1>1
  <2> QED BY <1>1, <2>1 DEF OfRecord
<1>3. ASSUME NEW t, Hit(t) PROVE Max(P(t)) = n + 1
  <2>1. P(t) \in SUBSET Int /\ n + 1 \in P(t) /\ \A k \in P(t) : k <= n + 1
    <3>1. n + 1 \in P(t)
      BY <1>2, <1>3
    <3> QED BY <1>1, <3>1 DEF OfRecord
  <2> HIDE DEF P
  <2> QED BY <2>1, MaxIs
<1>4. ASSUME NEW t, ~Hit(t) PROVE P(t) = O(t)
  BY <1>2, <1>4
<1>5. ASSUME NEW t, Hit(t) PROVE P(t) # {}
  BY <1>2, <1>5
<1>6. /\ m = [t \in {x \in T : O(x) # {}} |-> SaidAt(b, Max(O(t)))]
      /\ RecordOfBlocks(b, r, n + 1) = [t \in {x \in T : P(x) # {}} |-> SaidAt(b, Max(P(t)))]
  BY DEF RecordOfBlocks
<1> HIDE DEF O, P
<1>7. CASE tag \in T /\ ~OfHeader(b, n + 1)
  <2>1. {x \in T : P(x) # {}} = {x \in T : O(x) # {}} \cup {tag}
    BY <1>4, <1>5, <1>7
  <2>2. ASSUME NEW t \in {x \in T : P(x) # {}}
        PROVE  SaidAt(b, Max(P(t))) = IF t = tag THEN SaidAt(b, n + 1) ELSE SaidAt(b, Max(O(t)))
    BY <1>3, <1>4, <1>7
  <2>3. DOMAIN m = {x \in T : O(x) # {}} /\ \A t \in DOMAIN m : m[t] = SaidAt(b, Max(O(t)))
    BY <1>6
  <2> HIDE DEF T, tag
  <2>4. [t \in {x \in T : P(x) # {}} |-> SaidAt(b, Max(P(t)))]
          = [x \in DOMAIN m \cup {tag} |-> IF x = tag THEN SaidAt(b, n + 1) ELSE m[x]]
    BY <2>1, <2>2, <2>3
  <2> QED BY <2>4, <1>6, <1>7 DEF Put, tag, T
<1>8. CASE ~(tag \in T /\ ~OfHeader(b, n + 1))
  <2>1. \A x \in T : P(x) = O(x)
    BY <1>4, <1>8
  <2> QED BY <2>1, <1>6, <1>8
<1> QED BY <1>7, <1>8

(* ...and none after the one that follows it has begun. *)
LEMMA RecordEnds ==
  ASSUME NEW b \in Seq(TlvBlock), NEW r \in Records(b), NEW n \in Nat, n <= Len(b),
         n + 1 \in Records(b) \/ n = Len(b), r <= n
  PROVE  WholeRecord(b, r) = RecordOfBlocks(b, r, n)
<1>1. r \in Nat /\ Len(b) \in Nat
  BY RecordsAreNumbers
<1>2. ASSUME NEW t PROVE OfRecord(b, r, t, Len(b)) = OfRecord(b, r, t, n)
  BY <1>1 DEF OfRecord
<1> QED BY <1>2 DEF WholeRecord, RecordOfBlocks

LEMMA RecordOpens ==
  ASSUME NEW b \in Seq(TlvBlock), NEW r \in Records(b)
  PROVE  RecordOfBlocks(b, r, r) = Put(NoMap, "UUID", SaidAt(b, r))
<1>1. r \in Nat /\ b[r].tag = "UUID" /\ ~OfHeader(b, r) /\ r..r = {r}
  BY RecordsAreNumbers, RecordBegins
<1>2. ASSUME NEW t PROVE OfRecord(b, r, t, r) = IF t = "UUID" THEN {r} ELSE {}
  <2>1. \A k \in Records(b) : k <= r \/ r < k
    BY <1>1, RecordsAreNumbers
  <2> QED BY <1>1, <2>1 DEF OfRecord
<1>3. Max({r}) = r
  <2>1. {r} \in SUBSET Int /\ r \in {r} /\ \A k \in {r} : k <= r
    BY <1>1
  <2> QED BY <2>1, MaxIs
<1>4. {x \in RecordTags \cup {"UUID"} : OfRecord(b, r, x, r) # {}} = {"UUID"}
  BY <1>2
<1>5. RecordOfBlocks(b, r, r) = [t \in {"UUID"} |-> SaidAt(b, r)]
  BY <1>2, <1>3, <1>4 DEF RecordOfBlocks
<1> QED BY <1>5 DEF Put, NoMap

(* What one more record, behind the others, does to the keys. *)
LEMMA KeysGrow ==
  ASSUME NEW b \in Seq(TlvBlock), NEW R \in SUBSET Records(b), NEW r \in Records(b),
         \A k \in R : k < r
  PROVE  KeysOf(b, R \cup {r}) = Put(KeysOf(b, R), ClassIn(b, r), FromMap(WholeRecord(b, r)))
<1> DEFINE S == R \cup {r}
           new == ClassIn(b, r)
           key(k) == FromMap(WholeRecord(b, k))
<1>1. R \in SUBSET Nat /\ r \in Nat
  BY RecordsAreNumbers
<1>2. Max(OfClass(b, S, new)) = r
  <2>1. OfClass(b, S, new) \in SUBSET S /\ r \in OfClass(b, S, new)
    BY DEF OfClass
  <2>2. S \in SUBSET Int /\ \A k \in S : k <= r
    BY <1>1
  <2>3. OfClass(b, S, new) \in SUBSET Int /\ \A k \in OfClass(b, S, new) : k <= r
    BY <2>1, <2>2
  <2> HIDE DEF S, new
  <2>4. r \in OfClass(b, S, new)
    BY <2>1
  <2> QED BY <2>3, <2>4, MaxIs
<1>3. ASSUME NEW c, c # new PROVE OfClass(b, S, c) = OfClass(b, R, c)
  BY <1>3 DEF OfClass
<1>4. {ClassIn(b, k) : k \in S} = {ClassIn(b, k) : k \in R} \cup {new}
  OBVIOUS
<1>5. /\ DOMAIN KeysOf(b, R) = {ClassIn(b, k) : k \in R}
      /\ \A c \in DOMAIN KeysOf(b, R) : KeysOf(b, R)[c] = key(Max(OfClass(b, R, c)))
  BY DEF KeysOf
<1>6. KeysOf(b, S) = [c \in {ClassIn(b, k) : k \in S} |-> key(Max(OfClass(b, S, c)))]
  BY DEF KeysOf
<1> HIDE DEF S, new, key
<1>7. \A c \in {ClassIn(b, k) : k \in S} :
        key(Max(OfClass(b, S, c))) = IF c = new THEN key(r) ELSE KeysOf(b, R)[c]
  BY <1>2, <1>3, <1>4, <1>5
<1>8. KeysOf(b, S) = [c \in DOMAIN KeysOf(b, R) \cup {new} |->
                        IF c = new THEN key(r) ELSE KeysOf(b, R)[c]]
  BY <1>4, <1>5, <1>6, <1>7
<1> QED BY <1>8 DEF Put, S, new, key

-----------------------------------------------------------------------------
(* Types. *)

Fields(f) == DOMAIN f \subseteq Tags /\ \A t \in DOMAIN f : f[t] \in Value
Keys(k) == DOMAIN k = {"wpky", "wrap"} /\ \A f \in {"wpky", "wrap"} : k[f] \in Value \cup {Absent}

LEMMA PutType ==
  ASSUME NEW f, Fields(f), NEW t \in Tags, NEW v \in Value
  PROVE  Fields(Put(f, t, v))
BY DEF Fields, Put

LEMMA StoredType ==
  ASSUME TypeOK, current # NoMap, Storable
  PROVE  /\ DOMAIN Stored \subseteq Nat /\ \A c \in DOMAIN Stored : Keys(Stored[c])
<1>1. Fields(current) /\ current["CLAS"].val \in Nat
  BY DEF TypeOK, Storable, Fields, Value
<1>2. Keys(FromMap(current))
  <2>1. \A t : Get(current, t) \in Value \cup {Absent}
    BY <1>1 DEF Get, Fields
  <2>2. FromMap(current).wpky \in Value \cup {Absent} /\ FromMap(current).wrap \in Value \cup {Absent}
    BY <1>1, <2>1 DEF FromMap, Fields
  <2>3. DOMAIN FromMap(current) = {"wpky", "wrap"}
    BY DEF FromMap
  <2> HIDE DEF FromMap
  <2> QED BY <2>2, <2>3 DEF Keys
<1>3. \A c \in DOMAIN classKeys : Keys(classKeys[c])
  BY DEF TypeOK, Keys
<1>4. DOMAIN classKeys \subseteq Nat
  BY DEF TypeOK
<1> QED BY <1>1, <1>2, <1>3, <1>4 DEF Stored, Put

LEMMA InitTypes == Init => TypeOK
<1> SUFFICES ASSUME Init PROVE TypeOK
  OBVIOUS
<1>1. Len(bag) \in Nat
  BY BagType DEF Init
<1>2. \A t \in DOMAIN NoHead : NoHead[t] \in Value
  BY DEF NoHead, Nothing, Value
<1>3. DOMAIN NoMap = {}
  BY DEF NoMap
<1> QED BY <1>1, <1>2, <1>3 DEF Init, TypeOK, NoHead

LEMMA ParseTypes == TypeOK /\ [Parse]_parseVars => TypeOK'
<1> SUFFICES ASSUME TypeOK, [Parse]_parseVars PROVE TypeOK'
  OBVIOUS
<1>1. /\ Len(bag) \in Nat /\ DOMAIN bag = 1..Len(bag)
      /\ \A i \in 1..Len(bag) : bag[i].tag \in Tags /\ SaidAt(bag, i) \in Value
  BY BagType DEF TypeOK
<1>2. /\ \A t \in DOMAIN head : head[t] \in Value
      /\ Fields(attrs) /\ Fields(current) /\ (current # NoMap => "UUID" \in DOMAIN current)
      /\ DOMAIN classKeys \subseteq Nat /\ \A c \in DOMAIN classKeys : Keys(classKeys[c])
  BY DEF TypeOK, Fields, Keys
<1>3. SUFFICES /\ bag' \in Bags /\ pos' \in 1..(Len(bag') + 1)
               /\ DOMAIN head' = Numbers \cup Blobs \cup {"TYPE"}
               /\ \A t \in DOMAIN head' : head'[t] \in Value
               /\ Fields(attrs') /\ Fields(current') /\ (current' # NoMap => "UUID" \in DOMAIN current')
               /\ DOMAIN classKeys' \subseteq Nat /\ \A c \in DOMAIN classKeys' : Keys(classKeys'[c])
               /\ phase' \in {"reading", "parsed", "error", "panic"}
  BY DEF TypeOK, Fields, Keys
<1> USE DEF TypeOK
<1>4. ASSUME pos <= Len(bag) PROVE pos \in 1..Len(bag) /\ Said \in Value /\ bag[pos].tag \in Tags
  BY <1>1, <1>4 DEF Said, SaidAt
<1>5. ASSUME pos <= Len(bag), Advance PROVE bag' \in Bags /\ pos' \in 1..(Len(bag') + 1) /\ phase' = phase
  BY <1>1, <1>5 DEF Advance
<1>6. Fields(NoMap) /\ "UUID" \in Tags /\ RecordTags \subseteq Tags
  BY KeyRingAssumption DEF Fields, NoMap, RecordTags, Blobs
<1>7. CASE ReadType
  <2>1. head' = [head EXCEPT !["TYPE"] = Said] /\ Said \in Value
    BY <1>4, <1>7 DEF ReadType, Reads
  <2> QED BY <2>1, <1>2, <1>5, <1>7 DEF ReadType, Reads
<1>8. CASE ReadHeader
  <2>1. head' = [head EXCEPT ![bag[pos].tag] = Said] /\ Said \in Value
    BY <1>4, <1>8 DEF ReadHeader, Reads
  <2> QED BY <2>1, <1>2, <1>5, <1>8 DEF ReadHeader, Reads
<1>9. CASE BadNumber \/ CutOff \/ EndOverflows \/ StartFails \/ EndFails
  BY <1>2, <1>9 DEF BadNumber, CutOff, EndOverflows, StartFails, EndFails, Stop, BadRecord
<1>10. CASE StartRecord
  <2>1. Fields(current') /\ "UUID" \in DOMAIN current'
    <3>1. current' = Put(NoMap, "UUID", Said) /\ Said \in Value
      BY <1>4, <1>10 DEF StartRecord, Reads
    <3>2. "UUID" \in DOMAIN Put(NoMap, "UUID", Said)
      BY DEF Put
    <3> QED BY <3>1, <3>2, <1>6, PutType
  <2>2. DOMAIN classKeys' \subseteq Nat /\ \A c \in DOMAIN classKeys' : Keys(classKeys'[c])
    BY <1>2, <1>10, StoredType DEF StartRecord
  <2> QED BY <2>1, <2>2, <1>2, <1>5, <1>10 DEF StartRecord, Reads
<1>11. CASE ReadIntoRecord
  <2>1. Fields(current') /\ "UUID" \in DOMAIN current'
    <3>1. current' = Put(current, bag[pos].tag, Said) /\ Said \in Value /\ bag[pos].tag \in Tags
      BY <1>4, <1>11 DEF ReadIntoRecord, Reads
    <3>2. "UUID" \in DOMAIN Put(current, bag[pos].tag, Said)
      BY <1>2, <1>11 DEF Put, ReadIntoRecord
    <3> QED BY <3>1, <3>2, <1>2, PutType
  <2> QED BY <2>1, <1>2, <1>5, <1>11 DEF ReadIntoRecord, Reads
<1>12. CASE ReadOther
  <2>1. Fields(attrs')
    <3>1. attrs' = Put(attrs, bag[pos].tag, Said) /\ Said \in Value /\ bag[pos].tag \in Tags
      BY <1>4, <1>12 DEF ReadOther, Reads
    <3> QED BY <3>1, <1>2, PutType
  <2> QED BY <2>1, <1>2, <1>5, <1>12 DEF ReadOther, Reads
<1>13. CASE End
  <2>1. DOMAIN classKeys' \subseteq Nat /\ \A c \in DOMAIN classKeys' : Keys(classKeys'[c])
    BY <1>2, <1>13, StoredType DEF End
  <2> QED BY <2>1, <1>2, <1>6, <1>13 DEF End
<1>14. CASE UNCHANGED parseVars
  BY <1>2, <1>14 DEF parseVars
<1> QED BY <1>7, <1>8, <1>9, <1>10, <1>11, <1>12, <1>13, <1>14 DEF Parse

(* Every field stays in its type, whatever the bag. *)
THEOREM KeyRingTypes == Spec => []TypeOK
BY InitTypes, ParseTypes, PTL DEF Spec

-----------------------------------------------------------------------------
(* The invariant is inductive. *)

LEMMA InitFollows == Init => KInv
<1> SUFFICES ASSUME Init PROVE KInv
  OBVIOUS
<1>1. TypeOK
  BY InitTypes
<1>2. pos = 1 /\ 1..(pos - 1) = {} /\ phase = "reading" /\ bag \in Seq(TlvBlock)
  BY BagType DEF Init
<1>3. Begun = {} /\ Complete = {}
  BY <1>2, RecordsAreNumbers DEF Begun, Complete
<1>4. HeadFollows
  BY <1>2 DEF HeadFollows, HeadOf, HeaderBlocks, Init, NoHead, Unset, Empty, Nothing
<1>5. KeysOf(bag, {}) = NoMap
  BY DEF KeysOf, NoMap
<1> QED BY <1>1, <1>2, <1>3, <1>4, <1>5
           DEF KInv, Init, CurrentFollows, KeysFollow, VerdictFollows

(* Where the parser takes a block for the header's, it is. *)
LEMMA HeaderMet ==
  ASSUME KInv, pos <= Len(bag)
  PROVE  InHeader(bag[pos].tag) <=> OfHeader(bag, pos)
BY DEF KInv, HeadFollows, InHeader, OfHeader

LEMMA HeadStep ==
  ASSUME KInv, pos <= Len(bag), bag' = bag, pos' = pos + 1,
         \A t \in Numbers \cup Blobs :
           head'[t] = IF bag[pos].tag = t /\ OfHeader(bag, pos) THEN Said ELSE head[t]
  PROVE  HeadFollows'
<1>1. pos \in Nat /\ pos >= 1 /\ bag \in Seq(TlvBlock)
  BY BagType DEF KInv, TypeOK
<1>2. 1..(pos' - 1) = 1..(pos - 1) \cup {pos} /\ pos' - 1 = (pos - 1) + 1 /\ pos - 1 \in Nat
  BY <1>1
<1> SUFFICES ASSUME NEW t \in Numbers \cup Blobs
             PROVE  /\ Unset(t)' <=> \A j \in 1..(pos' - 1) : bag[j].tag = t => Empty(t, bag[j])
                    /\ head'[t] = HeadOf(bag, t, pos' - 1)
  BY DEF HeadFollows
<1>3. /\ Unset(t) <=> \A j \in 1..(pos - 1) : bag[j].tag = t => Empty(t, bag[j])
      /\ head[t] = HeadOf(bag, t, pos - 1)
  BY DEF KInv, HeadFollows
<1>4. head'[t] = HeadOf(bag, t, pos' - 1)
  BY <1>1, <1>2, <1>3, HeadGrows DEF Said, SaidAt
<1>5. Unset(t)' <=> Empty(t, head'[t])
  BY DEF Unset
<1>6. CASE bag[pos].tag = t /\ OfHeader(bag, pos)
  <2>1. Empty(t, head'[t]) <=> Empty(t, bag[pos])
    BY <1>6 DEF Empty, Said
  <2> QED BY <1>2, <1>4, <1>5, <1>6, <2>1 DEF OfHeader
<1>7. CASE bag[pos].tag = t /\ ~OfHeader(bag, pos)
  BY <1>2, <1>3, <1>4, <1>5, <1>7 DEF OfHeader, Unset
<1>8. CASE bag[pos].tag # t
  BY <1>2, <1>3, <1>4, <1>5, <1>8 DEF Unset
<1> QED BY <1>6, <1>7, <1>8

LEMMA HeadStays == ASSUME KInv, UNCHANGED <<bag, pos, head>> PROVE HeadFollows'
BY DEF KInv, HeadFollows, Unset

(* The last record that has begun, and the ones before it. *)
LEMMA LastBegun ==
  ASSUME TypeOK, Begun # {}, NEW m, m = Max(Begun)
  PROVE  /\ m \in Begun /\ m \in Records(bag) /\ m < pos
         /\ \A k \in Records(bag) : k <= m \/ pos <= k
         /\ Complete = Begun \ {m} /\ Begun = Complete \cup {m}
         /\ \A k \in Complete : k < m
<1>1. bag \in Seq(TlvBlock) /\ pos \in Nat
  BY BagType DEF TypeOK
<1>2. Begun \in SUBSET Nat /\ \A k \in Begun : k <= pos
  BY <1>1, RecordsAreNumbers DEF Begun
<1>3. m \in Begun /\ \A k \in Begun : k <= m
  BY <1>1, <1>2, GreatestNumber
<1>4. \A k \in Records(bag) : k \in Nat
  BY <1>1, RecordsAreNumbers
<1>5. m \in Records(bag) /\ m \in Nat /\ m < pos
  BY <1>3, <1>4 DEF Begun
<1>6. ASSUME NEW k \in Records(bag) PROVE k <= m \/ pos <= k
  BY <1>1, <1>3, <1>4, <1>6 DEF Begun
<1>7. ASSUME NEW k \in Begun PROVE k \in Complete <=> k # m
  BY <1>2, <1>3, <1>5, <1>7 DEF Complete
<1>8. Complete \in SUBSET Begun
  BY DEF Complete
<1>9. ASSUME NEW k \in Complete PROVE k < m
  BY <1>2, <1>3, <1>5, <1>7, <1>8, <1>9
<1> QED BY <1>3, <1>5, <1>6, <1>7, <1>8, <1>9

(* A record that has begun has its UUID at least. *)
LEMMA OpenMeansBegun ==
  ASSUME KInv, phase = "reading"
  PROVE  current = NoMap <=> Begun = {}
<1>1. ASSUME Begun # {} PROVE current # NoMap
  <2> DEFINE m == Max(Begun)
  <2>1. m \in Records(bag) /\ m < pos /\ \A k \in Records(bag) : k <= m \/ pos <= k
    BY <1>1, LastBegun DEF KInv
  <2>2. bag \in Seq(TlvBlock) /\ pos \in Nat
    BY BagType DEF KInv, TypeOK
  <2>3. m \in Nat /\ bag[m].tag = "UUID" /\ ~OfHeader(bag, m)
    BY <2>1, <2>2, RecordBegins, RecordsAreNumbers
  <2>4. \A k \in Records(bag) : k \in Nat
    BY <2>2, RecordsAreNumbers
  <2> HIDE DEF m
  <2>5. m \in OfRecord(bag, m, "UUID", pos - 1)
    BY <2>1, <2>2, <2>3, <2>4 DEF OfRecord
  <2>6. "UUID" \in DOMAIN RecordOfBlocks(bag, m, pos - 1)
    BY <2>5 DEF RecordOfBlocks
  <2>7. DOMAIN NoMap = {}
    BY DEF NoMap
  <2> QED BY <1>1, <2>6, <2>7 DEF KInv, CurrentFollows, m
<1> QED BY <1>1 DEF KInv, CurrentFollows

(* A record that is over is what the parser has of it. *)
LEMMA CurrentIsWhole ==
  ASSUME KInv, phase = "reading", Begun # {}, pos \in Records(bag) \/ pos = Len(bag) + 1,
         NEW m, m = Max(Begun)
  PROVE  /\ current = WholeRecord(bag, m)
         /\ Storable <=> SoundRecord(bag, m)
         /\ BadRecord = "panic" => ~HasClass(bag, m)
<1>1. bag \in Seq(TlvBlock) /\ pos \in Nat /\ pos - 1 \in Nat /\ Len(bag) \in Nat
      /\ pos <= Len(bag) + 1
  BY BagType DEF KInv, TypeOK
<1>2. m \in Records(bag) /\ m < pos /\ m \in Nat
  BY <1>1, LastBegun, RecordsAreNumbers DEF KInv
<1>3. pos - 1 <= Len(bag) /\ m <= pos - 1 /\ (pos - 1) + 1 = pos
  BY <1>1, <1>2
<1>4. WholeRecord(bag, m) = RecordOfBlocks(bag, m, pos - 1)
  <2>1. (pos - 1) + 1 \in Records(bag) \/ pos - 1 = Len(bag)
    BY <1>1, <1>3
  <2> QED BY <1>1, <1>2, <1>3, <2>1, RecordEnds
<1>5. current = WholeRecord(bag, m)
  BY <1>4 DEF KInv, CurrentFollows
<1> QED BY <1>5 DEF Storable, SoundRecord, HasClass, BadRecord

(* A block that begins no record. *)
LEMMA WithinStep ==
  ASSUME KInv, phase = "reading", pos <= Len(bag), pos \notin Records(bag), SoundBlock(bag, pos),
         UNCHANGED <<bag, phase, classKeys>>, pos' = pos + 1,
         current' = IF /\ bag[pos].tag \in RecordTags \cup {"UUID"} /\ ~OfHeader(bag, pos)
                       /\ current # NoMap
                    THEN Put(current, bag[pos].tag, Said) ELSE current
  PROVE  CurrentFollows' /\ KeysFollow' /\ VerdictFollows'
<1>1. bag \in Seq(TlvBlock) /\ pos \in Nat /\ pos >= 1
  BY BagType DEF KInv, TypeOK
<1>2. \A r \in Records(bag) : r \in Nat /\ r # pos
  BY <1>1, RecordsAreNumbers
<1>3. Begun' = Begun
  BY <1>1, <1>2 DEF Begun
<1>4. Complete' = Complete
  BY <1>3 DEF Complete
<1>5. CurrentFollows'
  <2>1. CASE Begun = {}
    BY <1>3, <2>1, OpenMeansBegun DEF KInv, CurrentFollows
  <2>2. CASE Begun # {}
    <3> DEFINE m == Max(Begun)
    <3>1. m \in Records(bag) /\ m < pos /\ \A k \in Records(bag) : k <= m \/ pos <= k
      BY <2>2, LastBegun DEF KInv
    <3>2. \A k \in Records(bag) : k <= m \/ pos < k
      BY <1>1, <1>2, <3>1
    <3>3. current # NoMap /\ current = RecordOfBlocks(bag, m, pos - 1)
      BY <2>2, OpenMeansBegun DEF KInv, CurrentFollows
    <3>4. pos - 1 \in Nat /\ m <= pos - 1 /\ (pos - 1) + 1 = pos /\ m \in Nat
      BY <1>1, <1>2, <3>1
    <3> HIDE DEF m
    <3>5. RecordOfBlocks(bag, m, (pos - 1) + 1)
            = IF bag[(pos - 1) + 1].tag \in RecordTags \cup {"UUID"} /\ ~OfHeader(bag, (pos - 1) + 1)
              THEN Put(current, bag[(pos - 1) + 1].tag, SaidAt(bag, (pos - 1) + 1)) ELSE current
      BY <1>1, <3>1, <3>2, <3>3, <3>4, RecordGrows
    <3>6. current' = RecordOfBlocks(bag, m, pos)
      BY <3>3, <3>4, <3>5 DEF Said, SaidAt
    <3>7. pos' - 1 = pos
      BY <1>1
    <3> QED BY <1>3, <2>2, <3>6, <3>7 DEF CurrentFollows, m
  <2> QED BY <2>1, <2>2
<1>6. KeysFollow'
  BY <1>4 DEF KInv, KeysFollow
<1>7. VerdictFollows'
  <2>1. 1..(pos' - 1) = 1..(pos - 1) \cup {pos}
    BY <1>1
  <2> QED BY <1>4, <2>1 DEF KInv, VerdictFollows
<1> QED BY <1>5, <1>6, <1>7

LEMMA ReadInv ==
  ASSUME KInv, ReadType \/ ReadHeader \/ ReadIntoRecord \/ ReadOther PROVE KInv'
<1>1. TypeOK'
  BY ParseTypes DEF KInv, Parse
<1>2. /\ bag \in Seq(TlvBlock) /\ pos <= Len(bag) /\ phase = "reading" /\ pos' = pos + 1
      /\ UNCHANGED <<bag, phase, classKeys>>
  BY BagType DEF KInv, TypeOK, ReadType, ReadHeader, ReadIntoRecord, ReadOther, Reads, Advance
<1>3. InHeader(bag[pos].tag) <=> OfHeader(bag, pos)
  BY <1>2, HeaderMet
<1>4. DOMAIN head = Numbers \cup Blobs \cup {"TYPE"}
  BY DEF KInv, TypeOK
<1>5. HeadFollows'
  <2>1. \A t \in Numbers \cup Blobs :
          head'[t] = IF bag[pos].tag = t /\ OfHeader(bag, pos) THEN Said ELSE head[t]
    <3>1. CASE ReadType
      BY <1>4, <3>1 DEF ReadType, Reads, Numbers, Blobs
    <3>2. CASE ReadHeader
      BY <1>3, <1>4, <3>2 DEF ReadHeader, Reads
    <3>3. CASE ReadIntoRecord \/ ReadOther
      BY <1>3, <3>3 DEF ReadIntoRecord, ReadOther
    <3> QED BY <3>1, <3>2, <3>3
  <2> QED BY <1>2, <2>1, HeadStep
<1>6. /\ pos \in Records(bag) <=> bag[pos].tag = "UUID" /\ ~OfHeader(bag, pos)
      /\ OfHeader(bag, pos) => bag[pos].tag \in Numbers \cup Blobs
  <2>1. pos \in DOMAIN bag
    BY <1>2, BagType DEF KInv, TypeOK
  <2> QED BY <1>2, <2>1, RecordBegins DEF OfHeader
<1>7. /\ pos \notin Records(bag) /\ SoundBlock(bag, pos)
      /\ current' = IF /\ bag[pos].tag \in RecordTags \cup {"UUID"} /\ ~OfHeader(bag, pos)
                       /\ current # NoMap
                    THEN Put(current, bag[pos].tag, Said) ELSE current
  <2>1. CASE ReadType
    BY <1>6, <2>1 DEF ReadType, Reads, SoundBlock, CutTags, Numbers, Blobs, RecordTags
  <2>2. CASE ReadHeader
    BY <1>3, <1>6, <2>2 DEF ReadHeader, Reads, SoundBlock, CutTags, Numbers, Blobs, Said
  <2>3. CASE ReadIntoRecord
    BY <1>3, <1>6, <2>3 DEF ReadIntoRecord, Reads, SoundBlock, CutTags, Numbers, RecordTags
  <2>4. CASE ReadOther
    BY <1>3, <1>6, <2>4 DEF ReadOther, Reads, SoundBlock
  <2> QED BY <2>1, <2>2, <2>3, <2>4
<1>8. CurrentFollows' /\ KeysFollow' /\ VerdictFollows'
  BY <1>2, <1>7, WithinStep
<1> QED BY <1>1, <1>5, <1>8 DEF KInv

LEMMA StartInv == ASSUME KInv, StartRecord PROVE KInv'
<1>1. TypeOK'
  BY ParseTypes DEF KInv, Parse
<1>2. /\ bag \in Seq(TlvBlock) /\ pos <= Len(bag) /\ phase = "reading" /\ pos' = pos + 1
      /\ UNCHANGED <<bag, phase, head>> /\ bag[pos].tag = "UUID" /\ ~OfHeader(bag, pos)
      /\ pos \in Nat /\ pos >= 1 /\ pos \in DOMAIN bag
  BY BagType, HeaderMet DEF KInv, TypeOK, StartRecord, Reads, Advance
<1>3. pos \in Records(bag)
  BY <1>2, RecordBegins
<1>4. HeadFollows'
  BY <1>2, HeadStep
<1>5. \A r \in Records(bag) : r \in Nat
  BY <1>2, RecordsAreNumbers
<1>6. Begun' = Begun \cup {pos} /\ Complete' = Begun /\ Begun \in SUBSET Records(bag)
  <2>1. Begun' = Begun \cup {pos}
    <3>1. Begun' = {r \in Records(bag) : r < pos + 1}
      BY <1>2 DEF Begun
    <3>2. ASSUME NEW r \in Records(bag) PROVE r < pos + 1 <=> r < pos \/ r = pos
      BY <1>2, <1>5
    <3> QED BY <1>3, <3>1, <3>2 DEF Begun
  <2>2. \A r \in Begun : r < pos
    BY DEF Begun
  <2> QED BY <1>2, <1>5, <2>1, <2>2 DEF Begun, Complete
<1>7. CurrentFollows'
  <2>1. Begun' \in SUBSET Int /\ pos \in Begun' /\ \A r \in Begun' : r <= pos
    BY <1>2, <1>5, <1>6 DEF Begun
  <2>2. Max(Begun') = pos
    BY <2>1, MaxIs
  <2>3. current' = RecordOfBlocks(bag, pos, pos)
    BY <1>2, <1>3, RecordOpens DEF StartRecord, Said, SaidAt
  <2> QED BY <1>2, <2>1, <2>2, <2>3 DEF CurrentFollows
<1>8. (current = NoMap <=> Begun = {}) /\ classKeys = KeysOf(bag, Complete)
  BY <1>2, OpenMeansBegun DEF KInv, KeysFollow
<1>9. classKeys' = KeysOf(bag, Begun) /\ \A r \in Begun : SoundRecord(bag, r)
  <2>1. CASE Begun = {}
    BY <1>8, <2>1 DEF StartRecord, Complete
  <2>2. CASE Begun # {}
    <3> DEFINE m == Max(Begun)
    <3>1. m \in Records(bag) /\ Begun = Complete \cup {m} /\ \A k \in Complete : k < m
      BY <2>2, LastBegun DEF KInv
    <3>2. Storable /\ classKeys' = Stored
      BY <1>8, <2>2 DEF StartRecord
    <3>3. current = WholeRecord(bag, m) /\ SoundRecord(bag, m)
      BY <1>2, <1>3, <2>2, <3>2, CurrentIsWhole
    <3>4. Stored = Put(classKeys, ClassIn(bag, m), FromMap(WholeRecord(bag, m)))
      BY <3>3 DEF Stored, ClassIn
    <3>5. Complete \in SUBSET Records(bag)
      BY <1>6 DEF Complete
    <3>6. KeysOf(bag, Complete \cup {m}) = Put(KeysOf(bag, Complete), ClassIn(bag, m), FromMap(WholeRecord(bag, m)))
      BY <1>2, <3>1, <3>5, KeysGrow
    <3>7. \A r \in Complete : SoundRecord(bag, r)
      BY <1>2 DEF KInv, VerdictFollows
    <3> QED BY <1>8, <3>1, <3>2, <3>3, <3>4, <3>6, <3>7
  <2> QED BY <2>1, <2>2
<1>10. KeysFollow'
  BY <1>2, <1>6, <1>9 DEF KeysFollow
<1>11. VerdictFollows'
  <2>1. 1..(pos' - 1) = 1..(pos - 1) \cup {pos} /\ SoundBlock(bag, pos)
    BY <1>2 DEF SoundBlock, CutTags, Numbers
  <2> QED BY <1>2, <1>6, <1>9, <2>1 DEF KInv, VerdictFollows
<1> QED BY <1>1, <1>4, <1>7, <1>10, <1>11 DEF KInv

LEMMA FailInv ==
  ASSUME KInv, BadNumber \/ CutOff \/ EndOverflows \/ StartFails \/ EndFails PROVE KInv'
<1>1. TypeOK'
  BY ParseTypes DEF KInv, Parse
<1>2. /\ phase = "reading" /\ UNCHANGED <<bag, pos, head>> /\ phase' \in {"error", "panic"}
      /\ bag \in Seq(TlvBlock) /\ pos \in Nat /\ pos >= 1 /\ DOMAIN bag = 1..Len(bag)
      /\ Len(bag) \in Nat /\ pos <= Len(bag) + 1
  BY BagType DEF KInv, TypeOK, BadNumber, CutOff, EndOverflows, StartFails, EndFails, Stop, Reads, BadRecord
<1>3. HeadFollows'
  BY <1>2, HeadStays
<1>4. ~Sound(bag) /\ (phase' = "panic" => \/ \E r \in Records(bag) : ~HasClass(bag, r)
                                          \/ pos \in Named(bag, "OVER"))
  <2>1. CASE BadNumber
    <3>1. pos \in DOMAIN bag /\ ~SoundBlock(bag, pos) /\ phase' = "error"
      BY <1>2, <2>1, HeaderMet DEF BadNumber, Reads, Stop, SoundBlock, Said
    <3> QED BY <3>1 DEF Sound
  <2>2. CASE CutOff
    <3>1. pos \in DOMAIN bag /\ ~SoundBlock(bag, pos) /\ phase' = "error"
      BY <1>2, <2>2 DEF CutOff, Reads, Stop, SoundBlock, CutTags
    <3> QED BY <3>1 DEF Sound
  <2>3. CASE StartFails \/ EndFails
    <3>1. current # NoMap /\ ~Storable /\ phase' = BadRecord
      BY <2>3 DEF StartFails, EndFails, Stop
    <3>2. pos \in Records(bag) \/ pos = Len(bag) + 1
      <4>1. CASE StartFails
        <5>1. pos \in DOMAIN bag /\ bag[pos].tag = "UUID" /\ ~OfHeader(bag, pos)
          BY <1>2, <4>1, HeaderMet DEF StartFails, Reads
        <5> QED BY <1>2, <5>1, RecordBegins
      <4>2. CASE EndFails
        BY <1>2, <4>2 DEF EndFails
      <4> QED BY <2>3, <4>1, <4>2
    <3>3. Begun # {}
      BY <1>2, <3>1, OpenMeansBegun
    <3>4. Max(Begun) \in Records(bag)
      BY <3>3, LastBegun DEF KInv
    <3>5. ~SoundRecord(bag, Max(Begun)) /\ (phase' = "panic" => ~HasClass(bag, Max(Begun)))
      BY <1>2, <3>1, <3>2, <3>3, CurrentIsWhole
    <3> QED BY <3>4, <3>5 DEF Sound
  <2>4. CASE EndOverflows
    <3>1. pos \in DOMAIN bag /\ ~SoundBlock(bag, pos) /\ pos \in Named(bag, "OVER")
      BY <1>2, <2>4 DEF EndOverflows, Reads, SoundBlock, CutTags, Named
    <3> QED BY <3>1 DEF Sound
  <2> QED BY <2>1, <2>2, <2>3, <2>4
<1> QED BY <1>1, <1>2, <1>3, <1>4 DEF KInv, CurrentFollows, KeysFollow, VerdictFollows

LEMMA EndInv == ASSUME KInv, End PROVE KInv'
<1>1. TypeOK'
  BY ParseTypes DEF KInv, Parse
<1>2. /\ phase = "reading" /\ phase' = "parsed" /\ UNCHANGED <<bag, pos, head>>
      /\ bag \in Seq(TlvBlock) /\ DOMAIN bag = 1..Len(bag) /\ pos = Len(bag) + 1 /\ Len(bag) \in Nat
  BY BagType DEF KInv, TypeOK, End
<1>3. HeadFollows'
  BY <1>2, HeadStays
<1>4. Begun = Records(bag)
  BY <1>2, RecordsAreNumbers DEF Begun
<1>5. (current = NoMap <=> Begun = {}) /\ classKeys = KeysOf(bag, Complete)
  BY <1>2, OpenMeansBegun DEF KInv, KeysFollow
<1>6. classKeys' = KeysOf(bag, Records(bag)) /\ \A r \in Records(bag) : SoundRecord(bag, r)
  <2>1. CASE Begun = {}
    BY <1>4, <1>5, <2>1 DEF End, Complete
  <2>2. CASE Begun # {}
    <3> DEFINE m == Max(Begun)
    <3>1. m \in Records(bag) /\ Begun = Complete \cup {m} /\ \A k \in Complete : k < m
      BY <2>2, LastBegun DEF KInv
    <3>2. Storable /\ classKeys' = Stored
      BY <1>5, <2>2 DEF End
    <3>3. current = WholeRecord(bag, m) /\ SoundRecord(bag, m)
      BY <1>2, <2>2, <3>2, CurrentIsWhole
    <3>4. Stored = Put(classKeys, ClassIn(bag, m), FromMap(WholeRecord(bag, m)))
      BY <3>3 DEF Stored, ClassIn
    <3>5. Complete \in SUBSET Records(bag)
      BY <1>4 DEF Complete
    <3>6. KeysOf(bag, Complete \cup {m}) = Put(KeysOf(bag, Complete), ClassIn(bag, m), FromMap(WholeRecord(bag, m)))
      BY <1>2, <3>1, <3>5, KeysGrow
    <3>7. \A r \in Complete : SoundRecord(bag, r)
      BY <1>2 DEF KInv, VerdictFollows
    <3> QED BY <1>4, <1>5, <3>1, <3>2, <3>3, <3>4, <3>6, <3>7
  <2> QED BY <2>1, <2>2
<1>7. \A i \in DOMAIN bag : SoundBlock(bag, i)
  BY <1>2 DEF KInv, VerdictFollows
<1> QED BY <1>1, <1>2, <1>3, <1>6, <1>7
           DEF KInv, CurrentFollows, KeysFollow, VerdictFollows, Sound

LEMMA ParseInductive == KInv /\ [Parse]_parseVars => KInv'
<1> SUFFICES ASSUME KInv, [Parse]_parseVars PROVE KInv'
  OBVIOUS
<1>1. CASE ReadType \/ ReadHeader \/ ReadIntoRecord \/ ReadOther
  BY <1>1, ReadInv
<1>2. CASE BadNumber \/ CutOff \/ EndOverflows \/ StartFails \/ EndFails
  BY <1>2, FailInv
<1>3. CASE UNCHANGED parseVars
  <2>1. HeadFollows'
    BY <1>3, HeadStays DEF parseVars
  <2>2. TypeOK'
    BY ParseTypes DEF KInv
  <2> QED BY <1>3, <2>1, <2>2
             DEF parseVars, KInv, CurrentFollows, KeysFollow, VerdictFollows, Begun, Complete
<1> QED BY <1>1, <1>2, <1>3, StartInv, EndInv DEF Parse

LEMMA ParseInvariant == Spec => []KInv
BY InitFollows, ParseInductive, PTL DEF Spec

(* For a bag of any layout, the outcome and the class keys are determined by
   where its blocks stand: a bag is accepted if and only if no block and no
   record of it is bad. *)
THEOREM ParserIsAFunction ==
  Spec => [](/\ phase = "parsed" => Sound(bag) /\ classKeys = KeysOf(bag, Records(bag))
             /\ phase \in {"error", "panic"} => ~Sound(bag))
<1>1. KInv => /\ phase = "parsed" => Sound(bag) /\ classKeys = KeysOf(bag, Records(bag))
              /\ phase \in {"error", "panic"} => ~Sound(bag)
  BY DEF KInv, KeysFollow, VerdictFollows
<1> QED BY <1>1, ParseInvariant, PTL

-----------------------------------------------------------------------------
(* The record that the parser has is the one that was written. *)

(* No WRAP of the record is taken for the header's. *)
OwnWrap(b, r) == \A j \in Named(b, "WRAP") : r <= j => ~OfHeader(b, j)

LEMMA LastIsGot ==
  ASSUME NEW b \in Seq(TlvBlock), NEW r \in Records(b),
         NEW tag \in {"CLAS", "WPKY", "PBKY", "WRAP"}, tag = "WRAP" => OwnWrap(b, r)
  PROVE  /\ Last(b, r, tag) = Get(WholeRecord(b, r), tag)
         /\ tag \in DOMAIN WholeRecord(b, r) <=> Last(b, r, tag) # Absent
<1> DEFINE js == Blocks(b, r) \cap Named(b, tag)
<1>1. r \in Nat /\ Len(b) \in Nat /\ DOMAIN b = 1..Len(b) /\ r >= 1
  BY RecordsAreNumbers
<1>2. js = OfRecord(b, r, tag, Len(b))
  <2>1. ASSUME NEW j \in r..Len(b), b[j].tag = tag PROVE ~OfHeader(b, j)
    <3>1. j \in DOMAIN b
      BY <1>1
    <3>2. CASE tag = "WRAP"
      BY <1>1, <2>1, <3>1, <3>2 DEF OwnWrap, Named
    <3>3. CASE tag # "WRAP"
      BY <2>1, <3>3 DEF OfHeader, Numbers, Blobs
    <3> QED BY <3>2, <3>3
  <2> QED BY <1>1, <2>1 DEF Blocks, Named, OfRecord
<1>3. js # {} => Max(js) \in js
  <2>1. js \in SUBSET Nat /\ \A j \in js : j <= Len(b)
    BY <1>1 DEF Named
  <2> HIDE DEF js
  <2> QED BY <1>1, <2>1, GreatestNumber
<1>4. js # {} => SaidAt(b, Max(js)) # Absent
  <2>1. ASSUME NEW j \in js PROVE SaidAt(b, j) # Absent
    <3>1. b[j] \in TlvBlock
      BY DEF Named
    <3> QED BY <3>1 DEF SaidAt, Absent, TlvBlock
  <2> QED BY <1>3, <2>1
<1>5. Last(b, r, tag) = IF js = {} THEN Absent ELSE SaidAt(b, Max(js))
  BY DEF Last, SaidAt
<1>6. /\ tag \in DOMAIN WholeRecord(b, r) <=> js # {}
      /\ js # {} => WholeRecord(b, r)[tag] = SaidAt(b, Max(js))
  BY <1>2 DEF WholeRecord, RecordOfBlocks, RecordTags
<1> QED BY <1>4, <1>5, <1>6 DEF Get

LEMMA NoOtherPanic == KInv => PanicsOnlyWithoutClass
<1> SUFFICES ASSUME KInv PROVE PanicsOnlyWithoutClass
  OBVIOUS
<1>1. bag \in Seq(TlvBlock)
  BY BagType DEF KInv, TypeOK
<1>2. \A r \in Records(bag) : HasClass(bag, r) <=> Last(bag, r, "CLAS") # Absent
  BY <1>1, LastIsGot DEF HasClass
<1> QED BY <1>2 DEF KInv, VerdictFollows, PanicsOnlyWithoutClass, Sound, SoundRecord

(* A bag without a class in one of its records is never accepted; the panic on
   such a record and the one of tlv_blocks are the only ones. *)
THEOREM PanicsOnRecordsWithoutClass == Spec => []PanicsOnlyWithoutClass
BY NoOtherPanic, ParseInvariant, PTL

LEMMA HeaderWrapComesFirst ==
  ASSUME NEW b \in Seq(TlvBlock), HeaderAt(b, "WRAP") # {}, NEW r \in Records(b)
  PROVE  OwnWrap(b, r)
<1>1. PICK i \in Named(b, "WRAP") : ~Empty("WRAP", b[i]) /\ i < r
  BY DEF HeaderAt
<1>2. r \in Nat /\ i \in Nat /\ i >= 1 /\ b[i].tag = "WRAP"
  BY RecordsAreNumbers DEF Named
<1>3. ASSUME NEW j \in Named(b, "WRAP"), r <= j PROVE ~OfHeader(b, j)
  <2>1. j \in Nat /\ b[j].tag = "WRAP" /\ i \in 1..(j - 1)
    BY <1>1, <1>2, <1>3 DEF Named
  <2> QED BY <1>1, <1>2, <2>1 DEF OfHeader
<1> QED BY <1>3 DEF OwnWrap

LEMMA KeysAreWritten ==
  ASSUME NEW b \in Seq(TlvBlock), Sound(b), HeaderAt(b, "WRAP") # {}
  PROVE  KeysOf(b, Records(b)) = Written(b)
<1>1. ASSUME NEW r \in Records(b), NEW tag \in {"CLAS", "WPKY", "PBKY", "WRAP"}
      PROVE  /\ Last(b, r, tag) = Get(WholeRecord(b, r), tag)
             /\ tag \in DOMAIN WholeRecord(b, r) <=> Last(b, r, tag) # Absent
  BY <1>1, LastIsGot, HeaderWrapComesFirst
<1>2. \A r \in Records(b) : ClassIn(b, r) = ClassOf(b, r)
  BY <1>1 DEF Sound, SoundRecord, HasClass, ClassIn, ClassOf, Get
<1>3. \A c : OfClass(b, Records(b), c) = {i \in Records(b) : ClassOf(b, i) = c}
  BY <1>2 DEF OfClass
<1>4. {ClassIn(b, r) : r \in Records(b)} = Classes(b)
  BY <1>2 DEF Classes
<1>5. ASSUME NEW r \in Records(b)
      PROVE  FromMap(WholeRecord(b, r)) =
               [wpky |-> IF Last(b, r, "WPKY") # Absent THEN Last(b, r, "WPKY") ELSE Last(b, r, "PBKY"),
                wrap |-> Last(b, r, "WRAP")]
  BY <1>1 DEF FromMap, Get
<1>6. ASSUME NEW c \in Classes(b) PROVE RecordOf(b, c) \in Records(b)
  <2> DEFINE R == {i \in Records(b) : ClassOf(b, i) = c}
  <2>1. R # {} /\ R \in SUBSET Nat /\ Len(b) \in Nat /\ \A r \in R : r <= Len(b)
    BY RecordsAreNumbers DEF Classes
  <2>2. Max(R) \in R
    <3> HIDE DEF R
    <3> QED BY <2>1, GreatestNumber
  <2> QED BY <2>2 DEF RecordOf
<1>7. KeysOf(b, Records(b)) = [c \in Classes(b) |-> FromMap(WholeRecord(b, RecordOf(b, c)))]
  BY <1>3, <1>4 DEF KeysOf, RecordOf
<1> QED BY <1>5, <1>6, <1>7 DEF Written

LEMMA ParsedIsWritten == KInv => ClassKeysAsWritten
<1> SUFFICES ASSUME KInv, phase = "parsed", HeaderHas(bag, {"UUID", "WRAP"})
             PROVE  classKeys = Written(bag)
  BY DEF ClassKeysAsWritten
<1>1. bag \in Seq(TlvBlock) /\ Sound(bag) /\ HeaderAt(bag, "WRAP") # {}
  BY BagType DEF KInv, TypeOK, VerdictFollows, HeaderHas
<1> QED BY <1>1, KeysAreWritten DEF KInv, KeysFollow

(* Whatever bag has a whole header and is accepted, each class has the keys of
   its own record, and the last record of a class counts. *)
THEOREM EveryClassHasItsKeys == Spec => []ClassKeysAsWritten
BY ParsedIsWritten, ParseInvariant, PTL

-----------------------------------------------------------------------------
(* The header that the parser has is the one that was written. *)

LEMMA HeadIsWritten ==
  ASSUME NEW b \in Seq(TlvBlock), NEW tag \in Numbers \cup Blobs, HeaderAt(b, tag) # {}
  PROVE  HeadOf(b, tag, Len(b)) = HeaderField(b, tag)
<1> DEFINE F == {i \in Named(b, tag) : ~Empty(tag, b[i])}
           f == Min(F)
           H == HeaderBlocks(b, tag, Len(b))
<1>1. Len(b) \in Nat /\ DOMAIN b = 1..Len(b)
  OBVIOUS
<1>2. F \in SUBSET Nat /\ F # {} /\ H \in SUBSET Int /\ HeaderAt(b, tag) \in SUBSET F
      /\ HeaderAt(b, tag) \in SUBSET Int
  BY <1>1 DEF HeaderAt, Named, HeaderBlocks
<1>3. f \in F /\ \A i \in F : f <= i
  <2> HIDE DEF F
  <2> QED BY <1>2, LeastNumber
<1> HIDE DEF f
<1>4. f \in 1..Len(b) /\ b[f].tag = tag /\ ~Empty(tag, b[f])
  BY <1>1, <1>3 DEF Named
<1>5. f \in H
  <2>1. \A j \in 1..(f - 1) : b[j].tag = tag => Empty(tag, b[j])
    BY <1>1, <1>3, <1>4 DEF Named
  <2> QED BY <1>4, <2>1 DEF HeaderBlocks, OfHeader
<1>6. ASSUME NEW j \in H PROVE j <= f
  BY <1>1, <1>4, <1>6 DEF HeaderBlocks, OfHeader
<1>7. Max(H) = f
  <2> HIDE DEF H
  <2> QED BY <1>2, <1>5, <1>6, MaxIs
<1>8. f \in HeaderAt(b, tag)
  <2>1. PICK i \in HeaderAt(b, tag) : TRUE
    BY <1>2
  <2>2. f <= i /\ i \in Nat /\ \A r \in Records(b) : i < r /\ r \in Nat
    BY <1>2, <1>3, <2>1, RecordsAreNumbers DEF HeaderAt
  <2> QED BY <1>3, <1>4, <2>2 DEF HeaderAt
<1>9. Min(HeaderAt(b, tag)) = f
  <2>1. \A i \in HeaderAt(b, tag) : f <= i
    BY <1>2, <1>3
  <2> QED BY <1>2, <1>8, <2>1, MinIs
<1> QED BY <1>5, <1>7, <1>9 DEF HeadOf, HeaderField, SaidAt
=============================================================================
