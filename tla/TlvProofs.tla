------------------------------- MODULE TlvProofs -------------------------------
(***************************************************************************)
(* What TLAPS proves of Tlv, for blobs of any number of blocks of any       *)
(* lengths, cut off anywhere, and for a usize of any width: the iterator    *)
(* implements BlockSource.                                                  *)
(***************************************************************************)
EXTENDS Tlv, SequenceTheorems, FiniteSetTheorems, WellFoundedInduction, TLAPS

-----------------------------------------------------------------------------
(* Induction over the naturals, for a set.                                  *)

Less == {ss \in Nat \X Nat : ss[1] < ss[2]}

LEMMA LessIsWellFounded == IsWellFoundedOn(Less, Nat)
<1>1. Less = OpToRel(<, Nat)
  BY DEF Less, OpToRel
<1> QED BY <1>1, NatLessThanWellFounded

LEMMA AllNaturals ==
  ASSUME NEW S, 0 \in S, \A n \in Nat : n \in S => n + 1 \in S
  PROVE  Nat \subseteq S
<1> DEFINE T == Nat \ S
<1>1. SUFFICES ASSUME T # {} PROVE FALSE
  OBVIOUS
<1>2. PICK m \in T : \A n \in T : ~(<<n, m>> \in Less)
  BY <1>1, LessIsWellFounded, WFMin
<1>3. m \in Nat /\ m # 0
  BY <1>2
<1>4. m - 1 \in Nat /\ <<m - 1, m>> \in Less
  BY <1>3 DEF Less
<1>5. m - 1 \in S
  BY <1>2, <1>4
<1> QED BY <1>2, <1>3, <1>4, <1>5

-----------------------------------------------------------------------------
(* FlattenSeq puts sequences one behind the other.                          *)

(* What its recursive function is on the first n of them. *)
IsFlat(f, s, n) ==
  f = [i \in 1..n |-> IF i = 1 THEN s[i] ELSE f[i - 1] \o s[i]]

LEMMA FlatExists ==
  ASSUME NEW s, NEW n \in Nat
  PROVE  \E f : IsFlat(f, s, n)
<1> DEFINE S == {k \in Nat : \E f : IsFlat(f, s, k)}
<1>1. 0 \in S
  <2>1. IsFlat(<<>>, s, 0)
    BY DEF IsFlat
  <2> QED BY <2>1
<1>2. ASSUME NEW k \in Nat, k \in S PROVE k + 1 \in S
  <2>1. PICK f : IsFlat(f, s, k)
    BY <1>2
  <2> DEFINE g == [i \in 1..(k + 1) |->
                     IF i <= k THEN f[i] ELSE IF i = 1 THEN s[i] ELSE f[i - 1] \o s[i]]
  <2>2. ASSUME NEW i \in 1..(k + 1)
        PROVE  g[i] = IF i = 1 THEN s[i] ELSE g[i - 1] \o s[i]
    <3>1. CASE i <= k
      <4>1. i \in 1..k /\ g[i] = f[i]
        BY <3>1
      <4>2. f[i] = IF i = 1 THEN s[i] ELSE f[i - 1] \o s[i]
        BY <2>1, <4>1 DEF IsFlat
      <4>3. i # 1 => g[i - 1] = f[i - 1]
        BY <4>1
      <4> QED BY <4>1, <4>2, <4>3
    <3>2. CASE ~(i <= k)
      <4>1. i # 1 => g[i - 1] = f[i - 1]
        BY <3>2
      <4> QED BY <3>2, <4>1
    <3> QED BY <3>1, <3>2
  <2>3. IsFlat(g, s, k + 1)
    BY <2>2 DEF IsFlat
  <2> QED BY <2>3
<1> HIDE DEF S
<1>3. n \in S
  BY <1>1, <1>2, AllNaturals
<1> QED BY <1>3 DEF S

LEMMA FlatIsUnique ==
  ASSUME NEW s, NEW m \in Nat, NEW n \in Nat, m <= n,
         NEW f, NEW g, IsFlat(f, s, m), IsFlat(g, s, n)
  PROVE  \A i \in 1..m : f[i] = g[i]
<1> DEFINE S == {k \in Nat : k \in 1..m => f[k] = g[k]}
<1>1. 0 \in S
  OBVIOUS
<1>2. ASSUME NEW k \in Nat, k \in S PROVE k + 1 \in S
  <2>1. SUFFICES ASSUME k + 1 \in 1..m PROVE f[k + 1] = g[k + 1]
    OBVIOUS
  <2> DEFINE j == k + 1
  <2>5. j \in 1..m /\ j \in 1..n /\ j - 1 = k
    BY <2>1
  <2> HIDE DEF j
  <2>6. /\ f[j] = IF j = 1 THEN s[j] ELSE f[j - 1] \o s[j]
        /\ g[j] = IF j = 1 THEN s[j] ELSE g[j - 1] \o s[j]
    BY <2>5 DEF IsFlat
  <2>2. f[k + 1] = IF k + 1 = 1 THEN s[k + 1] ELSE f[k] \o s[k + 1]
    BY <2>5, <2>6 DEF j
  <2>3. g[k + 1] = IF k + 1 = 1 THEN s[k + 1] ELSE g[k] \o s[k + 1]
    BY <2>5, <2>6 DEF j
  <2>4. k + 1 # 1 => f[k] = g[k]
    BY <1>2, <2>1
  <2> QED BY <2>2, <2>3, <2>4
<1> HIDE DEF S
<1>3. Nat \subseteq S
  BY <1>1, <1>2, AllNaturals
<1> QED BY <1>3 DEF S

(* The first k of the sequences in s, flattened. *)
FlatTo(s, k) == FlattenSeq(SubSeq(s, 1, k))

LEMMA FlatToIs ==
  ASSUME NEW T, NEW s \in Seq(T), NEW k \in 1..Len(s), NEW f, IsFlat(f, s, k)
  PROVE  FlatTo(s, k) = f[k]
<1> DEFINE p == SubSeq(s, 1, k)
<1>1. p \in Seq(T) /\ Len(p) = k /\ \A i \in 1..k : p[i] = s[i]
  OBVIOUS
<1>2. k \in Nat /\ k # 0
  OBVIOUS
<1> HIDE DEF p
<1> DEFINE F == CHOOSE h : h = [i \in 1..Len(p) |-> IF i = 1 THEN p[i] ELSE h[i - 1] \o p[i]]
<1>3. FlattenSeq(p) = F[Len(p)]
  BY <1>1, <1>2 DEF FlattenSeq
<1>4. IsFlat(f, p, k)
  <2>1. [i \in 1..k |-> IF i = 1 THEN p[i] ELSE f[i - 1] \o p[i]]
          = [i \in 1..k |-> IF i = 1 THEN s[i] ELSE f[i - 1] \o s[i]]
    BY <1>1
  <2> QED BY <2>1 DEF IsFlat
<1>5. IsFlat(F, p, k)
  BY <1>1, <1>4 DEF IsFlat
<1> HIDE DEF F
<1>6. F[k] = f[k]
  BY <1>2, <1>4, <1>5, FlatIsUnique
<1> QED BY <1>1, <1>3, <1>6 DEF FlatTo, p

(* One more sequence is put behind the others. *)
LEMMA FlatSteps ==
  ASSUME NEW T, NEW s \in Seq(T), NEW k \in 1..Len(s)
  PROVE  FlatTo(s, k) = IF k = 1 THEN s[1] ELSE FlatTo(s, k - 1) \o s[k]
<1>1. k \in Nat
  OBVIOUS
<1>2. PICK f : IsFlat(f, s, k)
  BY <1>1, FlatExists
<1>3. FlatTo(s, k) = f[k]
  BY <1>2, FlatToIs
<1>4. f[k] = IF k = 1 THEN s[k] ELSE f[k - 1] \o s[k]
  <2>1. k \in 1..k
    BY <1>1
  <2> QED BY <1>2, <2>1 DEF IsFlat
<1>5. ASSUME k # 1 PROVE FlatTo(s, k - 1) = f[k - 1]
  <2>1. k - 1 \in Nat /\ k - 1 \in 1..Len(s)
    BY <1>5
  <2>2. PICK g : IsFlat(g, s, k - 1)
    BY <2>1, FlatExists
  <2>3. FlatTo(s, k - 1) = g[k - 1]
    BY <2>1, <2>2, FlatToIs
  <2>4. g[k - 1] = f[k - 1]
    BY <1>1, <1>2, <2>1, <2>2, FlatIsUnique
  <2> QED BY <2>3, <2>4
<1> QED BY <1>3, <1>4, <1>5

-----------------------------------------------------------------------------
(* What a writer writes.                                                    *)

(* Blocks as TlvAssumption has them. *)
Writable(blocks) ==
  blocks \in Seq(Block) /\ \A k \in DOMAIN blocks :
    Len(blocks[k].tag) = TagSize /\ Len(blocks[k].value) < U32

LEMMA BigEndianType ==
  ASSUME NEW n \in Nat
  PROVE  BigEndian(n) \in Seq(Byte) /\ Len(BigEndian(n)) = 4
<1>1. \A m \in Nat : m \div Base \in Nat /\ m % Base \in Byte
  BY TlvAssumption DEF Byte
<1> DEFINE high == n \div Base
           higher == high \div Base
           highest == higher \div Base
<1>2. high \in Nat /\ n % Base \in Byte
  BY <1>1
<1>3. higher \in Nat /\ high % Base \in Byte
  BY <1>1, <1>2
<1>4. highest \in Nat /\ higher % Base \in Byte
  BY <1>1, <1>3
<1>5. highest % Base \in Byte
  BY <1>1, <1>4
<1>6. BigEndian(n) = <<highest % Base, higher % Base, high % Base, n % Base>>
  BY DEF BigEndian
<1> HIDE DEF high, higher, highest
<1> QED BY <1>2, <1>3, <1>4, <1>5, <1>6

(* Four bytes are enough, and big-endian is how next() reads them. *)
LEMMA BigEndianIsRead ==
  ASSUME NEW n \in Nat, n < U32, NEW b, b = BigEndian(n)
  PROVE  ((b[1] * Base + b[2]) * Base + b[3]) * Base + b[4] = n
<1>1. \A m \in Nat : /\ m \div Base \in Nat /\ m % Base \in Nat /\ m % Base < Base
                     /\ m = Base * (m \div Base) + (m % Base)
  BY TlvAssumption
<1> DEFINE high == n \div Base
           higher == high \div Base
           highest == higher \div Base
<1>2. high \in Nat /\ n % Base \in Nat /\ n % Base < Base /\ n = Base * high + (n % Base)
  BY <1>1
<1>3. /\ higher \in Nat /\ high % Base \in Nat /\ high % Base < Base
      /\ high = Base * higher + (high % Base)
  BY <1>1, <1>2
<1>4. /\ highest \in Nat /\ higher % Base \in Nat /\ higher % Base < Base
      /\ higher = Base * highest + (higher % Base)
  BY <1>1, <1>3
<1>5. b = <<highest % Base, higher % Base, high % Base, n % Base>>
  BY DEF BigEndian
<1> HIDE DEF high, higher, highest
<1>6. Base \in Nat /\ Base > 1
  BY TlvAssumption
<1>7. highest < Base
  <2>1. SUFFICES ASSUME highest >= Base PROVE FALSE
    BY <1>4, <1>6
  <2>3. Base * Base \in Nat /\ Base * Base * Base \in Nat
    BY <1>6
  <2>6. Base * highest >= Base * Base
    BY <2>1, <1>4, <1>6
  <2>2. higher >= Base * Base
    BY <2>3, <2>6, <1>4, <1>6
  <2>4. high >= Base * Base * Base
    BY <2>2, <2>3, <1>3, <1>4, <1>6
  <2>5. n >= Base * Base * Base * Base
    BY <2>3, <2>4, <1>2, <1>3, <1>6
  <2> QED BY <2>5, <2>3, <1>6 DEF U32
<1>8. highest % Base = highest
  BY <1>4, <1>6, <1>7
<1>9. b[1] = highest /\ b[2] = higher % Base /\ b[3] = high % Base /\ b[4] = n % Base
  BY <1>5, <1>8
<1>10. highest * Base + (higher % Base) = higher
  BY <1>4, <1>6
<1>11. higher * Base + (high % Base) = high
  BY <1>3, <1>4, <1>6
<1>12. high * Base + (n % Base) = n
  BY <1>2, <1>3, <1>6
<1> QED BY <1>9, <1>10, <1>11, <1>12

LEMMA Joined ==
  ASSUME NEW s \in Seq(Byte), NEW t \in Seq(Byte)
  PROVE  /\ s \o t \in Seq(Byte) /\ Len(s \o t) = Len(s) + Len(t)
         /\ \A i \in 1..Len(s) : (s \o t)[i] = s[i]
         /\ \A i \in 1..Len(t) : (s \o t)[Len(s) + i] = t[i]
         /\ Len(s) \in Nat /\ Len(t) \in Nat
OBVIOUS

LEMMA BytesAre ==
  ASSUME NEW b \in Block, Len(b.tag) = TagSize, Len(b.value) < U32
  PROVE  /\ Bytes(b) \in Seq(Byte)
         /\ Len(Bytes(b)) = Header + Len(b.value)
         /\ \A i \in 1..TagSize : Bytes(b)[i] = b.tag[i]
         /\ \A i \in 1..4 : Bytes(b)[TagSize + i] = BigEndian(Len(b.value))[i]
         /\ \A i \in 1..Len(b.value) : Bytes(b)[Header + i] = b.value[i]
         /\ Len(b.value) \in Nat
<1> DEFINE t == b.tag
           v == b.value
           l == BigEndian(Len(v))
<1>1. t \in Seq(Byte) /\ v \in Seq(Byte) /\ Len(v) \in Nat /\ Len(t) = TagSize /\ TagSize \in Nat
  BY TlvAssumption DEF Block
<1>2. l \in Seq(Byte) /\ Len(l) = 4
  BY <1>1, BigEndianType
<1>3. Bytes(b) = t \o l \o v
  BY DEF Bytes
<1> HIDE DEF t, v, l
<1>4. /\ t \o l \in Seq(Byte) /\ Len(t \o l) = Header
      /\ \A i \in 1..TagSize : (t \o l)[i] = t[i]
      /\ \A i \in 1..4 : (t \o l)[TagSize + i] = l[i]
  <2>1. /\ t \o l \in Seq(Byte) /\ Len(t \o l) = Len(t) + Len(l)
        /\ \A i \in 1..Len(t) : (t \o l)[i] = t[i]
        /\ \A i \in 1..Len(l) : (t \o l)[Len(t) + i] = l[i]
    BY <1>1, <1>2, Joined
  <2> DEFINE h == t \o l
  <2>2. /\ h \in Seq(Byte) /\ Len(h) = Len(t) + Len(l)
        /\ \A i \in 1..Len(t) : h[i] = t[i]
        /\ \A i \in 1..Len(l) : h[Len(t) + i] = l[i]
    BY <2>1
  <2> HIDE DEF h
  <2>3. /\ h \in Seq(Byte) /\ Len(h) = Header
        /\ \A i \in 1..TagSize : h[i] = t[i]
        /\ \A i \in 1..4 : h[TagSize + i] = l[i]
    BY <2>2, <1>1, <1>2 DEF Header
  <2> QED BY <2>3 DEF h
<1> DEFINE h == t \o l
<1>5. h \in Seq(Byte) /\ Len(h) = Header /\ Header \in Nat
  BY <1>1, <1>4 DEF Header
<1>6. h = t \o l
  OBVIOUS
<1> HIDE DEF h
<1>7. /\ h \o v \in Seq(Byte) /\ Len(h \o v) = Header + Len(v)
      /\ \A i \in 1..Header : (h \o v)[i] = h[i]
      /\ \A i \in 1..Len(v) : (h \o v)[Header + i] = v[i]
  BY <1>1, <1>5
<1>8. (\A i \in 1..TagSize : i \in 1..Header) /\ (\A i \in 1..4 : TagSize + i \in 1..Header)
  BY <1>1 DEF Header
<1>9. Bytes(b) = h \o v
  BY <1>3, <1>6
<1>10. /\ \A i \in 1..TagSize : Bytes(b)[i] = t[i]
       /\ \A i \in 1..4 : Bytes(b)[TagSize + i] = l[i]
  BY <1>4, <1>6, <1>7, <1>8, <1>9
<1> QED BY <1>1, <1>7, <1>9, <1>10 DEF t, v, l

LEMMA Written ==
  ASSUME NEW W, Writable(W)
  PROVE  /\ W \in Seq(Block) /\ Len(W) \in Nat /\ DOMAIN W = 1..Len(W)
         /\ \A k \in 1..Len(W) :
              /\ W[k] \in Block /\ Len(W[k].tag) = TagSize
              /\ Len(W[k].value) \in Nat /\ Len(W[k].value) < U32
              /\ Bytes(W[k]) \in Seq(Byte) /\ Len(Bytes(W[k])) = Header + Len(W[k].value)
<1>1. W \in Seq(Block) /\ Len(W) \in Nat /\ DOMAIN W = 1..Len(W)
  BY DEF Writable
<1>2. ASSUME NEW k \in 1..Len(W)
      PROVE  W[k] \in Block /\ Len(W[k].tag) = TagSize /\ Len(W[k].value) < U32
  BY <1>1 DEF Writable
<1> QED BY <1>1, <1>2, BytesAre

BlobTo(blocks, k) == Blob(SubSeq(blocks, 1, k))

LEMMA BlobSteps ==
  ASSUME NEW W, Writable(W)
  PROVE  /\ BlobTo(W, 0) = <<>>
         /\ BlobTo(W, Len(W)) = Blob(W)
         /\ \A k \in 1..Len(W) :
              BlobTo(W, k) = IF k = 1 THEN Bytes(W[1]) ELSE BlobTo(W, k - 1) \o Bytes(W[k])
<1> DEFINE s == [j \in DOMAIN W |-> Bytes(W[j])]
<1>1. W \in Seq(Block) /\ Len(W) \in Nat /\ DOMAIN W = 1..Len(W)
  BY Written
<1>2. \A j \in 1..Len(W) : Bytes(W[j]) \in Seq(Byte)
  BY Written
<1>3. s \in Seq(Seq(Byte)) /\ Len(s) = Len(W) /\ \A j \in 1..Len(W) : s[j] = Bytes(W[j])
  BY <1>1, <1>2
<1> HIDE DEF s
<1>4. ASSUME NEW k \in 1..Len(W) PROVE BlobTo(W, k) = FlatTo(s, k)
  <2> DEFINE V == SubSeq(W, 1, k)
             r == SubSeq(s, 1, k)
  <2>1. V \in Seq(Block) /\ Len(V) = k /\ DOMAIN V = 1..k /\ \A j \in 1..k : V[j] = W[j]
    BY <1>1
  <2>2. r \in Seq(Seq(Byte)) /\ Len(r) = k /\ DOMAIN r = 1..k /\ \A j \in 1..k : r[j] = s[j]
    BY <1>1, <1>3
  <2> HIDE DEF V, r
  <2>3. r = [j \in 1..k |-> r[j]]
    BY <2>2
  <2>4. \A j \in 1..k : r[j] = Bytes(V[j])
    BY <2>1, <2>2, <1>3
  <2>5. r = [j \in DOMAIN V |-> Bytes(V[j])]
    BY <2>1, <2>3, <2>4
  <2>6. Blob(V) = FlattenSeq(r)
    BY <2>5 DEF Blob
  <2> QED BY <2>6 DEF BlobTo, FlatTo, V, r
<1>5. ASSUME NEW k \in 1..Len(W)
      PROVE  BlobTo(W, k) = IF k = 1 THEN Bytes(W[1]) ELSE BlobTo(W, k - 1) \o Bytes(W[k])
  <2>1. FlatTo(s, k) = IF k = 1 THEN s[1] ELSE FlatTo(s, k - 1) \o s[k]
    BY <1>3, FlatSteps
  <2>2. k # 1 => k - 1 \in 1..Len(W)
    OBVIOUS
  <2> QED BY <2>1, <2>2, <1>3, <1>4
<1>6. BlobTo(W, 0) = <<>>
  <2> DEFINE V == SubSeq(W, 1, 0)
  <2>1. V = <<>> /\ DOMAIN V = {}
    BY <1>1
  <2> HIDE DEF V
  <2> DEFINE r == [j \in DOMAIN V |-> Bytes(V[j])]
  <2>2. r = <<>> /\ Len(r) = 0
    BY <2>1
  <2>3. Blob(V) = FlattenSeq(r)
    BY DEF Blob
  <2> HIDE DEF r
  <2>4. FlattenSeq(r) = <<>>
    BY <2>2 DEF FlattenSeq
  <2> QED BY <2>3, <2>4 DEF BlobTo, V
<1>7. SubSeq(W, 1, Len(W)) = W
  BY <1>1, SubSeqFull
<1> QED BY <1>5, <1>6, <1>7 DEF BlobTo

LEMMA BlobGrows ==
  ASSUME NEW W, Writable(W), NEW k \in 1..Len(W)
  PROVE  /\ BlobTo(W, k - 1) \in Seq(Byte) /\ BlobTo(W, k) \in Seq(Byte)
         /\ BlobTo(W, k) = BlobTo(W, k - 1) \o Bytes(W[k])
<1>1. Len(W) \in Nat /\ \A j \in 1..Len(W) : Bytes(W[j]) \in Seq(Byte)
  BY Written
<1>2. ASSUME NEW j \in 1..Len(W), BlobTo(W, j - 1) \in Seq(Byte)
      PROVE  BlobTo(W, j) = BlobTo(W, j - 1) \o Bytes(W[j]) /\ BlobTo(W, j) \in Seq(Byte)
  <2>1. CASE j = 1
    <3>1. BlobTo(W, j - 1) = <<>> /\ BlobTo(W, j) = Bytes(W[j])
      BY <2>1, BlobSteps
    <3>2. <<>> \o Bytes(W[j]) = Bytes(W[j])
      BY <1>1
    <3> QED BY <3>1, <3>2, <1>1
  <2>2. CASE j # 1
    <3>1. BlobTo(W, j) = BlobTo(W, j - 1) \o Bytes(W[j])
      BY <2>2, BlobSteps
    <3>2. Bytes(W[j]) \in Seq(Byte)
      BY <1>1
    <3> QED BY <3>1, <3>2, <1>2, Joined
  <2> QED BY <2>1, <2>2
<1> DEFINE S == {j \in Nat : j <= Len(W) => BlobTo(W, j) \in Seq(Byte)}
<1>3. 0 \in S
  <2>1. BlobTo(W, 0) = <<>> /\ <<>> \in Seq(Byte)
    BY BlobSteps
  <2> QED BY <2>1
<1>4. ASSUME NEW j \in Nat, j \in S PROVE j + 1 \in S
  <2>1. SUFFICES ASSUME j + 1 <= Len(W) PROVE BlobTo(W, j + 1) \in Seq(Byte)
    OBVIOUS
  <2>2. j + 1 \in 1..Len(W) /\ (j + 1) - 1 = j /\ BlobTo(W, j) \in Seq(Byte)
    BY <2>1, <1>1, <1>4
  <2> QED BY <2>2, <1>2
<1> HIDE DEF S
<1>5. Nat \subseteq S
  BY <1>3, <1>4, AllNaturals
<1>6. k - 1 \in Nat /\ k - 1 <= Len(W)
  BY <1>1
<1>7. BlobTo(W, k - 1) \in Seq(Byte)
  BY <1>5, <1>6 DEF S
<1> QED BY <1>2, <1>7

Reach(blocks, k) == Len(BlobTo(blocks, k))

LEMMA Layout ==
  ASSUME NEW W, Writable(W)
  PROVE  /\ Reach(W, 0) = 0 /\ Len(Blob(W)) = Reach(W, Len(W)) /\ Blob(W) \in Seq(Byte)
         /\ \A k \in 0..Len(W) : Reach(W, k) \in Nat
         /\ \A k \in 1..Len(W) : Reach(W, k) = Reach(W, k - 1) + Header + Len(W[k].value)
<1>1. Len(W) \in Nat
  BY Written
<1>2. BlobTo(W, 0) = <<>> /\ BlobTo(W, Len(W)) = Blob(W) /\ Reach(W, 0) = 0
  <2>1. BlobTo(W, 0) = <<>> /\ Len(<<>>) = 0
    BY BlobSteps
  <2> QED BY <2>1, BlobSteps DEF Reach
<1>3. ASSUME NEW k \in 1..Len(W)
      PROVE  /\ Reach(W, k) \in Nat /\ Reach(W, k - 1) \in Nat
             /\ Reach(W, k) = Reach(W, k - 1) + Header + Len(W[k].value)
             /\ BlobTo(W, k) \in Seq(Byte)
  <2> DEFINE s == BlobTo(W, k - 1)
             t == Bytes(W[k])
  <2>1. s \in Seq(Byte) /\ BlobTo(W, k) = s \o t /\ BlobTo(W, k) \in Seq(Byte)
    BY BlobGrows
  <2>2. t \in Seq(Byte) /\ Len(t) = Header + Len(W[k].value) /\ Len(W[k].value) \in Nat
    BY Written
  <2>3. Header \in Nat
    BY TlvAssumption DEF Header
  <2>4. Len(s \o t) = Len(s) + Len(t) /\ Len(s) \in Nat
    BY <2>1, <2>2, Joined
  <2> HIDE DEF s, t
  <2>5. Reach(W, k) = Len(s) + (Header + Len(W[k].value)) /\ Reach(W, k - 1) = Len(s)
    BY <2>1, <2>2, <2>4 DEF Reach, s
  <2> QED BY <2>1, <2>2, <2>3, <2>4, <2>5
<1>4. \A k \in 0..Len(W) : Reach(W, k) \in Nat /\ BlobTo(W, k) \in Seq(Byte)
  <2> SUFFICES ASSUME NEW k \in 0..Len(W)
               PROVE  Reach(W, k) \in Nat /\ BlobTo(W, k) \in Seq(Byte)
    OBVIOUS
  <2>1. CASE k = 0
    <3>1. <<>> \in Seq(Byte)
      OBVIOUS
    <3>2. BlobTo(W, k) \in Seq(Byte)
      BY <2>1, <3>1, <1>2, Zenon
    <3> QED BY <2>1, <3>2, <1>2
  <2>2. CASE k # 0
    BY <2>2, <1>1, <1>3
  <2> QED BY <2>1, <2>2
<1> QED BY <1>1, <1>2, <1>3, <1>4 DEF Reach

(* What has been written stays where it is. *)
LEMMA PrefixStays ==
  ASSUME NEW W, Writable(W), NEW j \in 0..Len(W), NEW k \in j..Len(W)
  PROVE  /\ Reach(W, j) <= Reach(W, k)
         /\ \A i \in 1..Reach(W, j) : BlobTo(W, k)[i] = BlobTo(W, j)[i]
<1>1. Len(W) \in Nat /\ j \in Nat /\ k \in Nat /\ Reach(W, j) \in Nat
  BY Written, Layout
<1> DEFINE S == {d \in Nat : j + d <= Len(W) =>
                   /\ Reach(W, j) <= Reach(W, j + d)
                   /\ \A i \in 1..Reach(W, j) : BlobTo(W, j + d)[i] = BlobTo(W, j)[i]}
<1>2. 0 \in S
  <2>1. j + 0 = j
    BY <1>1
  <2> QED BY <2>1, <1>1
<1>3. ASSUME NEW d \in Nat, d \in S PROVE d + 1 \in S
  <2>1. SUFFICES ASSUME j + (d + 1) <= Len(W)
                 PROVE  /\ Reach(W, j) <= Reach(W, j + (d + 1))
                        /\ \A i \in 1..Reach(W, j) : BlobTo(W, j + (d + 1))[i] = BlobTo(W, j)[i]
    OBVIOUS
  <2> DEFINE m == j + (d + 1)
             s == BlobTo(W, m - 1)
             t == Bytes(W[m])
  <2>2. m \in 1..Len(W) /\ m - 1 = j + d /\ j + d <= Len(W) /\ m - 1 \in 0..Len(W)
    BY <1>1, <2>1
  <2> HIDE DEF m
  <2>3. /\ Reach(W, j) <= Reach(W, m - 1)
        /\ \A i \in 1..Reach(W, j) : s[i] = BlobTo(W, j)[i]
    BY <1>3, <2>2
  <2>4. s \in Seq(Byte) /\ t \in Seq(Byte) /\ BlobTo(W, m) = s \o t
    BY <2>2, BlobGrows, Written
  <2>5. Reach(W, m - 1) = Len(s) /\ Reach(W, m - 1) \in Nat
    BY <2>2, Layout DEF Reach
  <2>6. /\ Len(s \o t) = Len(s) + Len(t) /\ Len(s) \in Nat /\ Len(t) \in Nat
        /\ \A i \in 1..Len(s) : (s \o t)[i] = s[i]
    BY <2>4, Joined
  <2> HIDE DEF s, t
  <2>7. Reach(W, m) = Len(s) + Len(t)
    BY <2>4, <2>6 DEF Reach
  <2>8. Reach(W, j) <= Reach(W, m)
    BY <2>3, <2>5, <2>6, <2>7, <1>1
  <2>9. \A i \in 1..Reach(W, j) : BlobTo(W, m)[i] = BlobTo(W, j)[i]
    BY <2>3, <2>4, <2>5, <2>6, <1>1
  <2> QED BY <2>8, <2>9 DEF m
<1> HIDE DEF S
<1>4. k - j \in Nat /\ j + (k - j) = k
  BY <1>1
<1>5. k - j \in S
  BY <1>2, <1>3, <1>4, AllNaturals
<1> QED BY <1>1, <1>4, <1>5 DEF S

(* Each block is in the blob, behind those before it. *)
LEMMA BlobHas ==
  ASSUME NEW W, Writable(W), NEW k \in 1..Len(W), NEW i \in 1..Len(Bytes(W[k]))
  PROVE  Blob(W)[Reach(W, k - 1) + i] = Bytes(W[k])[i]
<1> DEFINE s == BlobTo(W, k - 1)
           t == Bytes(W[k])
<1>1. s \in Seq(Byte) /\ t \in Seq(Byte) /\ BlobTo(W, k) = s \o t
  BY BlobGrows, Written
<1>2. Len(W) \in Nat /\ k \in 0..Len(W) /\ Len(W) \in k..Len(W)
  BY Written
<1>3. /\ \A m \in 1..Len(t) : (s \o t)[Len(s) + m] = t[m]
      /\ Len(s \o t) = Len(s) + Len(t) /\ Len(s) \in Nat /\ Len(t) \in Nat
  BY <1>1, Joined
<1>4. \A m \in 1..Reach(W, k) : Blob(W)[m] = BlobTo(W, k)[m]
  BY <1>2, PrefixStays, BlobSteps
<1>5. Reach(W, k - 1) = Len(s) /\ i \in 1..Len(t)
  BY DEF Reach
<1> HIDE DEF s, t
<1>6. Reach(W, k) = Len(s) + Len(t)
  BY <1>1, <1>3 DEF Reach
<1>7. Len(s) + i \in 1..Reach(W, k) /\ BlobTo(W, k)[Len(s) + i] = t[i]
  BY <1>1, <1>3, <1>5, <1>6
<1> QED BY <1>4, <1>5, <1>7 DEF t

-----------------------------------------------------------------------------
(* How many blocks are there in full when the blob is cut off after L bytes.  *)

Count(W, L, m) ==
  m \in 0..Len(W) /\ Reach(W, m) <= L /\ (m < Len(W) => L < Reach(W, m + 1))

Full(W, L) == {k \in DOMAIN W : Reach(W, k) <= L}

LEMMA FurtherOn ==
  ASSUME NEW W, Writable(W), NEW j \in 0..Len(W), NEW k \in 0..Len(W), j < k
  PROVE  Reach(W, j) + Header <= Reach(W, k) /\ Reach(W, j) < Reach(W, k)
<1>1. Len(W) \in Nat /\ j + 1 \in 1..Len(W) /\ j + 1 \in 0..Len(W) /\ (j + 1) - 1 = j /\ k \in (j + 1)..Len(W)
  BY Written
<1>2. Reach(W, j + 1) = Reach(W, j) + Header + Len(W[j + 1].value)
  BY <1>1, Layout
<1>3. /\ Len(W[j + 1].value) \in Nat /\ Reach(W, j) \in Nat /\ Reach(W, k) \in Nat
      /\ Reach(W, j + 1) \in Nat /\ Header \in Nat /\ Header >= 4
  BY <1>1, Written, Layout, TlvAssumption DEF Header
<1>4. Reach(W, j + 1) <= Reach(W, k)
  BY <1>1, PrefixStays
<1> QED BY <1>2, <1>3, <1>4

LEMMA CountExists ==
  ASSUME NEW W, Writable(W), NEW L \in 0..Len(Blob(W))
  PROVE  \E m : Count(W, L, m)
<1>1. Len(W) \in Nat /\ Len(Blob(W)) \in Nat /\ Reach(W, 0) = 0
  BY Written, Layout
<1> SUFFICES ASSUME ~\E m : Count(W, L, m) PROVE FALSE
  OBVIOUS
<1> DEFINE S == {k \in Nat : k <= Len(W) => Reach(W, k) <= L}
<1>2. 0 \in S
  BY <1>1
<1>3. ASSUME NEW k \in Nat, k \in S PROVE k + 1 \in S
  <2>1. SUFFICES ASSUME k + 1 <= Len(W) PROVE Reach(W, k + 1) <= L
    OBVIOUS
  <2>2. k \in 0..Len(W) /\ Reach(W, k) <= L /\ k < Len(W) /\ k + 1 \in 0..Len(W)
    BY <1>1, <1>3, <2>1
  <2>3. Reach(W, k + 1) \in Nat
    BY <2>2, Layout
  <2>4. ~(L < Reach(W, k + 1))
    BY <2>2 DEF Count
  <2> QED BY <2>3, <2>4, <1>1
<1> HIDE DEF S
<1>4. Nat \subseteq S
  BY <1>2, <1>3, AllNaturals
<1>5. Reach(W, Len(W)) <= L
  BY <1>1, <1>4 DEF S
<1> QED BY <1>1, <1>5 DEF Count

LEMMA FullIs ==
  ASSUME NEW W, Writable(W), NEW L \in Nat, NEW m, Count(W, L, m)
  PROVE  /\ Full(W, L) = 1..m /\ Cardinality(Full(W, L)) = m
         /\ m \in Nat /\ m \in 0..Len(W) /\ Len(W) \in Nat
<1>1. Len(W) \in Nat /\ DOMAIN W = 1..Len(W) /\ m \in 0..Len(W) /\ m \in Nat
  BY Written DEF Count
<1>2. ASSUME NEW k \in 1..Len(W) PROVE Reach(W, k) <= L <=> k <= m
  <2>1. Reach(W, k) \in Nat /\ Reach(W, m) \in Nat
    BY <1>1, Layout
  <2>2. CASE k <= m
    <3>1. Reach(W, k) <= Reach(W, m)
      BY <1>1, <2>2, PrefixStays
    <3> QED BY <2>1, <2>2, <3>1 DEF Count
  <2>3. CASE ~(k <= m)
    <3>1. m + 1 \in 0..Len(W) /\ k \in (m + 1)..Len(W)
      BY <1>1, <2>3
    <3>2. Reach(W, m + 1) <= Reach(W, k) /\ Reach(W, m + 1) \in Nat
      BY <3>1, PrefixStays, Layout
    <3>3. L < Reach(W, m + 1)
      BY <1>1, <3>1 DEF Count
    <3> QED BY <2>1, <2>3, <3>2, <3>3
  <2> QED BY <2>2, <2>3
<1>3. Full(W, L) = 1..m
  BY <1>1, <1>2 DEF Full
<1>4. Cardinality(1..m) = m
  BY <1>1, FS_Interval
<1> QED BY <1>1, <1>3, <1>4

(* How many of them end at or before the end of the j-th. *)
LEMMA GivenIs ==
  ASSUME NEW W, Writable(W), NEW L \in Nat, NEW m, Count(W, L, m), NEW j \in 0..m
  PROVE  Cardinality({k \in Full(W, L) : Reach(W, k) <= Reach(W, j)}) = j
<1>1. m \in Nat /\ Len(W) \in Nat /\ m \in 0..Len(W) /\ Full(W, L) = 1..m
  BY FullIs
<1>2. j \in 0..Len(W) /\ j \in Nat
  BY <1>1
<1>3. ASSUME NEW k \in 1..m PROVE Reach(W, k) <= Reach(W, j) <=> k <= j
  <2>1. k \in 0..Len(W) /\ Reach(W, k) \in Nat /\ Reach(W, j) \in Nat
    BY <1>1, <1>2, Layout
  <2>2. CASE k <= j
    BY <1>1, <1>2, <2>1, <2>2, PrefixStays
  <2>3. CASE ~(k <= j)
    <3>1. Reach(W, j) < Reach(W, k)
      BY <1>1, <1>2, <2>1, <2>3, FurtherOn
    <3> QED BY <2>1, <2>3, <3>1
  <2> QED BY <2>2, <2>3
<1>4. {k \in Full(W, L) : Reach(W, k) <= Reach(W, j)} = 1..j
  BY <1>1, <1>2, <1>3
<1>5. Cardinality(1..j) = j
  BY <1>2, FS_Interval
<1> QED BY <1>4, <1>5

(* The block whose value is cut, if there is one, is the next. *)
CutAt(W, L) == {k \in DOMAIN W \ Full(W, L) : Reach(W, k - 1) + Header <= L}

LEMMA CutIs ==
  ASSUME NEW W, Writable(W), NEW L \in Nat, NEW m, Count(W, L, m)
  PROVE  CutAt(W, L) = IF m < Len(W) /\ Reach(W, m) + Header <= L THEN {m + 1} ELSE {}
<1>1. m \in Nat /\ Len(W) \in Nat /\ m \in 0..Len(W) /\ Full(W, L) = 1..m /\ DOMAIN W = 1..Len(W)
  BY FullIs, Written
<1>2. ASSUME NEW k \in CutAt(W, L) PROVE k = m + 1
  <2>1. k \in (m + 1)..Len(W) /\ Reach(W, k - 1) + Header <= L
    BY <1>1 DEF CutAt
  <2>2. CASE k # m + 1
    <3>1. k - 1 \in (m + 1)..Len(W) /\ m + 1 \in 0..Len(W) /\ k - 1 \in 0..Len(W)
      BY <1>1, <2>1, <2>2
    <3>2. /\ Reach(W, m + 1) <= Reach(W, k - 1) /\ L < Reach(W, m + 1)
          /\ Reach(W, m + 1) \in Nat /\ Reach(W, k - 1) \in Nat /\ Header \in Nat
      BY <1>1, <3>1, PrefixStays, Layout, TlvAssumption DEF Count, Header
    <3> QED BY <2>1, <3>2
  <2> QED BY <2>2
<1>3. m + 1 \in CutAt(W, L) <=> m < Len(W) /\ Reach(W, m) + Header <= L
  <2>1. (m + 1) - 1 = m /\ (m + 1 \in DOMAIN W \ Full(W, L) <=> m < Len(W))
    BY <1>1
  <2> QED BY <2>1 DEF CutAt
<1> QED BY <1>2, <1>3

-----------------------------------------------------------------------------
(* What next() finds at the header of a block.                              *)

LEMMA ModOnce ==
  ASSUME NEW w \in Nat, w > 0, NEW r \in 0..(w - 1)
  PROVE  r % w = r /\ (r + w) % w = r
<1>1. r % w = r
  OBVIOUS
<1> DEFINE n == r + w
           q == n \div w
<1>2. n \in Nat /\ q \in Nat /\ n % w \in 0..(w - 1) /\ n = w * q + (n % w)
  OBVIOUS
<1> HIDE DEF q
<1>3. q = 1
  <2>1. q # 0
    BY <1>2
  <2>2. q >= 2 => w * q >= 2 * w
    BY <1>2
  <2> QED BY <2>1, <2>2, <1>2
<1> QED BY <1>1, <1>2, <1>3

LEMMA HeaderSize == Header \in Nat /\ Header = TagSize + 4 /\ TagSize \in Nat
<1>1. TagSize \in Nat
  BY TlvAssumption
<1> QED BY <1>1 DEF Header

(* n bytes of a blob. *)
LEMMA Piece ==
  ASSUME NEW D \in Seq(Byte), NEW p \in Nat, NEW n \in Nat, p + n <= Len(D)
  PROVE  /\ SubSeq(D, p + 1, p + n) \in Seq(Byte)
         /\ Len(SubSeq(D, p + 1, p + n)) = n
         /\ \A i \in 1..n : SubSeq(D, p + 1, p + n)[i] = D[p + i]
<1>1. \A i \in (p + 1)..(p + n) : D[i] \in Byte
  OBVIOUS
<1> DEFINE t == SubSeq(D, p + 1, p + n)
<1>2. /\ t \in Seq(Byte)
      /\ Len(t) = IF p + 1 <= p + n THEN (p + n) - (p + 1) + 1 ELSE 0
      /\ \A i \in 1..((p + n) - (p + 1) + 1) : t[i] = D[(p + 1) + i - 1]
  BY <1>1, SubSeqProperties
<1>3. (p + n) - (p + 1) + 1 = n /\ (p + 1 <= p + n <=> n # 0)
      /\ \A i \in 1..n : (p + 1) + i - 1 = p + i
  OBVIOUS
<1> HIDE DEF t
<1>4. t \in Seq(Byte) /\ Len(t) = n /\ \A i \in 1..n : t[i] = D[p + i]
  BY <1>2, <1>3
<1> QED BY <1>4 DEF t

(* What is left of a blob. *)
CutOff(W, L) == SubSeq(Blob(W), 1, L)

LEMMA PieceIs ==
  ASSUME NEW D \in Seq(Byte), NEW p \in Nat, NEW t \in Seq(Byte), p + Len(t) <= Len(D),
         \A i \in 1..Len(t) : D[p + i] = t[i]
  PROVE  SubSeq(D, p + 1, p + Len(t)) = t
<1> DEFINE n == Len(t)
           x == SubSeq(D, p + 1, p + n)
<1>1. n \in Nat /\ n = Len(t) /\ p + n <= Len(D)
  OBVIOUS
<1> HIDE DEF n
<1>2. x \in Seq(Byte) /\ Len(x) = n /\ \A i \in 1..n : x[i] = D[p + i]
  BY <1>1, Piece
<1> HIDE DEF x
<1>3. \A i \in 1..n : x[i] = t[i]
  BY <1>1, <1>2
<1>4. x = t
  BY <1>1, <1>2, <1>3, SeqEqual
<1> QED BY <1>4 DEF x, n

LEMMA HeaderIsThere ==
  ASSUME NEW W, Writable(W), NEW L \in 0..Len(Blob(W)), NEW k \in 1..Len(W),
         NEW D, D = CutOff(W, L), NEW n \in Nat,
         n <= Header + Len(W[k].value), Reach(W, k - 1) + n <= L
  PROVE  /\ D \in Seq(Byte) /\ Len(D) = L
         /\ \A i \in 1..n : D[Reach(W, k - 1) + i] = Bytes(W[k])[i]
<1>1. Blob(W) \in Seq(Byte) /\ Len(Blob(W)) \in Nat /\ L \in Nat
  BY Layout
<1>2. D \in Seq(Byte) /\ Len(D) = L /\ \A i \in 1..L : D[i] = Blob(W)[i]
  BY <1>1 DEF CutOff
<1>3. Len(W) \in Nat /\ k - 1 \in 0..Len(W) /\ Len(Bytes(W[k])) = Header + Len(W[k].value)
  BY Written
<1>4. /\ Reach(W, k - 1) \in Nat /\ Len(W[k].value) \in Nat /\ Header \in Nat
      /\ Len(Bytes(W[k])) \in Nat
  <2>1. Reach(W, k - 1) \in Nat
    BY <1>3, Layout
  <2>2. Len(W[k].value) \in Nat
    BY Written
  <2>3. Bytes(W[k]) \in Seq(Byte)
    BY Written
  <2>4. Len(Bytes(W[k])) \in Nat
    BY <2>3
  <2> QED BY <2>1, <2>2, <2>4, HeaderSize
<1>5. ASSUME NEW i \in 1..n PROVE D[Reach(W, k - 1) + i] = Bytes(W[k])[i]
  <2>1. i \in 1..Len(Bytes(W[k])) /\ Reach(W, k - 1) + i \in 1..L
    BY <1>1, <1>3, <1>4
  <2>2. Blob(W)[Reach(W, k - 1) + i] = Bytes(W[k])[i]
    BY <2>1, BlobHas
  <2> QED BY <1>2, <2>1, <2>2
<1> QED BY <1>2, <1>5

(* The length is read as it was written, whatever comes after it. *)
LEMMA LengthIsThere ==
  ASSUME NEW W, Writable(W), NEW L \in 0..Len(Blob(W)), NEW k \in 1..Len(W),
         NEW D, D = CutOff(W, L), NEW p, p = Reach(W, k - 1), p + Header <= L
  PROVE  ((D[p + TagSize + 1] * Base + D[p + TagSize + 2]) * Base + D[p + TagSize + 3]) * Base
           + D[p + TagSize + 4] = Len(W[k].value)
<1>1. /\ Len(W) \in Nat /\ k - 1 \in 0..Len(W) /\ W[k] \in Block /\ Len(W[k].tag) = TagSize
      /\ Len(W[k].value) \in Nat /\ Len(W[k].value) < U32
  BY Written
<1>2. p \in Nat /\ Header \in Nat /\ TagSize \in Nat /\ Header = TagSize + 4
  BY <1>1, Layout, HeaderSize
<1>7. Base \in Nat /\ p + Header <= L
  BY TlvAssumption
<1>3. \A i \in 1..Header : D[p + i] = Bytes(W[k])[i]
  <2>1. \A l \in Nat : Header <= Header + l
    BY <1>2
  <2>2. Header <= Header + Len(W[k].value) /\ Reach(W, k - 1) + Header <= L
    BY <1>1, <1>7, <2>1
  <2> DEFINE n == Header
  <2>3. n \in Nat /\ n <= Header + Len(W[k].value) /\ Reach(W, k - 1) + n <= L
    BY <1>2, <2>2
  <2> HIDE DEF n
  <2>4. \A i \in 1..n : D[Reach(W, k - 1) + i] = Bytes(W[k])[i]
    BY <2>3, HeaderIsThere
  <2> QED BY <2>4 DEF n
<1>4. \A i \in 1..4 : D[p + TagSize + i] = BigEndian(Len(W[k].value))[i]
  <2> SUFFICES ASSUME NEW i \in 1..4
               PROVE  D[p + TagSize + i] = BigEndian(Len(W[k].value))[i]
    OBVIOUS
  <2>1. TagSize + i \in 1..Header /\ p + TagSize + i = p + (TagSize + i)
    BY <1>2
  <2>2. D[p + (TagSize + i)] = Bytes(W[k])[TagSize + i]
    BY <1>3, <2>1
  <2>3. Bytes(W[k])[TagSize + i] = BigEndian(Len(W[k].value))[i]
    BY <1>1, BytesAre
  <2> QED BY <2>1, <2>2, <2>3
<1> DEFINE b == BigEndian(Len(W[k].value))
<1>5. ((b[1] * Base + b[2]) * Base + b[3]) * Base + b[4] = Len(W[k].value)
  BY <1>1, BigEndianIsRead
<1>8. \A i \in 1..4 : D[p + TagSize + i] = b[i]
  BY <1>4
<1> HIDE DEF b
<1>6. /\ D[p + TagSize + 1] = b[1] /\ D[p + TagSize + 2] = b[2]
      /\ D[p + TagSize + 3] = b[3] /\ D[p + TagSize + 4] = b[4]
  <2>1. 1 \in 1..4 /\ 2 \in 1..4 /\ 3 \in 1..4 /\ 4 \in 1..4
    OBVIOUS
  <2> QED BY <1>8, <2>1
<1> QED BY <1>5, <1>6

(* A block that is there in full is cut out of the blob as it was written. *)
LEMMA BlockIsThere ==
  ASSUME NEW W, Writable(W), NEW L \in 0..Len(Blob(W)), NEW k \in 1..Len(W),
         NEW D, D = CutOff(W, L), NEW p, p = Reach(W, k - 1), Reach(W, k) <= L
  PROVE  [kind |-> "block", tag |-> SubSeq(D, p + 1, p + TagSize),
          value |-> SubSeq(D, p + Header + 1, Reach(W, k))] = W[k]
<1> DEFINE b == W[k]
           n == Header + Len(b.value)
<1>1. /\ Len(W) \in Nat /\ k - 1 \in 0..Len(W) /\ b \in Block /\ Len(b.tag) = TagSize
      /\ Len(b.value) \in Nat /\ Len(b.value) < U32
  BY Written
<1>2. p \in Nat /\ Header \in Nat /\ TagSize \in Nat /\ Header = TagSize + 4 /\ L \in Nat
  BY <1>1, Layout, HeaderSize
<1>3. Reach(W, k) = p + Header + Len(b.value)
  BY Layout
<1>4. n \in Nat /\ n <= Header + Len(b.value) /\ p + n <= L /\ Reach(W, k) = p + n
  <2>1. Len(b.value) \in Nat /\ Reach(W, k) <= L
    BY <1>1
  <2> DEFINE l == Len(b.value)
  <2>2. l \in Nat /\ Reach(W, k) = p + Header + l /\ n = Header + l
    BY <2>1, <1>3
  <2> HIDE DEF b, l, n
  <2>3. n \in Nat /\ n <= Header + l /\ p + n <= L /\ Reach(W, k) = p + n
    BY <2>1, <2>2, <1>2
  <2> QED BY <2>3 DEF l
<1>5. D \in Seq(Byte) /\ Len(D) = L /\ \A i \in 1..n : D[p + i] = Bytes(b)[i]
  <2>1. n \in Nat /\ n <= Header + Len(W[k].value) /\ Reach(W, k - 1) + n <= L
    BY <1>4
  <2> HIDE DEF n
  <2>2. /\ D \in Seq(Byte) /\ Len(D) = L
        /\ \A i \in 1..n : D[Reach(W, k - 1) + i] = Bytes(b)[i]
    BY <2>1, HeaderIsThere
  <2> QED BY <2>2
<1>6. /\ \A i \in 1..TagSize : Bytes(b)[i] = b.tag[i]
      /\ \A i \in 1..Len(b.value) : Bytes(b)[Header + i] = b.value[i]
  BY <1>1, BytesAre
<1>7. b.tag \in Seq(Byte) /\ b.value \in Seq(Byte)
      /\ b = [kind |-> "block", tag |-> b.tag, value |-> b.value]
  BY <1>1 DEF Block
<1> DEFINE t == b.tag
           v == b.value
           l == Len(v)
           q == p + Header
<1>8. /\ t \in Seq(Byte) /\ Len(t) = TagSize /\ v \in Seq(Byte) /\ Len(v) = l
      /\ l \in Nat /\ n = Header + l
  BY <1>1, <1>7
<1>9. p + n <= Len(D) /\ D \in Seq(Byte) /\ Len(D) \in Nat
  BY <1>4, <1>5
<1>10. /\ \A i \in 1..n : D[p + i] = Bytes(b)[i]
       /\ \A i \in 1..TagSize : Bytes(b)[i] = t[i]
       /\ \A i \in 1..l : Bytes(b)[Header + i] = v[i]
       /\ Reach(W, k) = p + n
  BY <1>4, <1>5, <1>6
<1> HIDE DEF b, n, t, v, l
<1>11. l \in Nat /\ n = Header + l
  BY <1>8
<1>12. /\ \A i \in 1..TagSize : i \in 1..n
       /\ \A i \in 1..l : Header + i \in 1..n /\ q + i = p + (Header + i)
       /\ q \in Nat /\ q + l = p + n
  BY <1>2, <1>11
<1> HIDE DEF q
<1>13. SubSeq(D, p + 1, p + TagSize) = t
  <2>1. p + Len(t) <= Len(D)
    BY <1>2, <1>8, <1>9, <1>11
  <2>2. \A i \in 1..Len(t) : D[p + i] = t[i]
    BY <1>8, <1>10, <1>12
  <2>3. SubSeq(D, p + 1, p + Len(t)) = t
    BY <1>2, <1>8, <1>9, <2>1, <2>2, PieceIs
  <2> QED BY <2>3, <1>8
<1>14. SubSeq(D, q + 1, q + l) = v
  <2>1. q + Len(v) <= Len(D)
    BY <1>8, <1>9, <1>12
  <2>2. \A i \in 1..Len(v) : D[q + i] = v[i]
    BY <1>8, <1>10, <1>12
  <2>3. SubSeq(D, q + 1, q + Len(v)) = v
    BY <1>8, <1>9, <1>12, <2>1, <2>2, PieceIs
  <2> QED BY <2>3, <1>8
<1>15. SubSeq(D, p + Header + 1, Reach(W, k)) = v
  BY <1>10, <1>12, <1>14 DEF q
<1> QED BY <1>7, <1>13, <1>15 DEF b, t, v

-----------------------------------------------------------------------------
(* The inductive invariant.                                                 *)

(* The blob is what is left of what was written. *)
Fits ==
  /\ written \in Writings /\ usize \in Widths
  /\ Len(data) \in 0..Len(Blob(written))
  /\ data = CutOff(written, Len(data))
  /\ Len(data) < usize \div 2
  /\ item \in Block \cup {NotAsked, NoMore, Panic, Error("InvalidTlvData")}

(* The iterator is between two blocks that were written, or, once it has found
   the value that is cut, at the end. *)
Position(m) ==
  \/ \E j \in 0..m : pos = Reach(written, j)
  \/ /\ pos = Len(data)
     /\ m < Len(written) /\ Reach(written, m) + Header <= Len(data)

TlvInv == Fits /\ \E m \in 0..Len(written) : Count(written, Len(data), m) /\ Position(m)

LEMMA FitsIsWritable ==
  ASSUME Fits
  PROVE  /\ Writable(written) /\ Len(data) \in Nat /\ Len(data) \in 0..Len(Blob(written))
         /\ usize \in Nat /\ usize >= U32 /\ usize > 0 /\ data \in Seq(Byte)
<1>1. written \in Writings /\ usize \in Widths
  BY DEF Fits
<1>2. Writable(written)
  BY <1>1, TlvAssumption DEF Writable
<1>3. usize \in Nat /\ usize >= U32
  BY <1>1, TlvAssumption
<1>4. U32 \in Nat /\ U32 > 0
  <2>1. Base \in Nat /\ Base > 0
    BY TlvAssumption
  <2>2. Base * Base \in Nat /\ Base * Base > 0
    BY <2>1
  <2>3. Base * Base * Base \in Nat /\ Base * Base * Base > 0
    BY <2>1, <2>2
  <2>4. Base * Base * Base * Base \in Nat /\ Base * Base * Base * Base > 0
    BY <2>1, <2>3
  <2> QED BY <2>4 DEF U32
<1>5. Blob(written) \in Seq(Byte) /\ Len(data) \in 0..Len(Blob(written))
  BY <1>2, Layout DEF Fits
<1>6. CutOff(written, Len(data)) \in Seq(Byte) /\ Len(data) \in Nat
  <2> DEFINE B == Blob(written)
             L == Len(data)
  <2>1. B \in Seq(Byte) /\ L \in 0..Len(B)
    BY <1>5
  <2> HIDE DEF B, L
  <2>2. SubSeq(B, 1, L) \in Seq(Byte) /\ L \in Nat
    BY <2>1
  <2> QED BY <2>2 DEF B, L, CutOff
<1>7. data \in Seq(Byte)
  BY <1>6 DEF Fits
<1> QED BY <1>2, <1>3, <1>4, <1>5, <1>6, <1>7

(* At the beginning of a block that is there in full. *)
LEMMA AtBlock ==
  ASSUME Fits, NEW k \in 1..Len(written), pos = Reach(written, k - 1),
         Reach(written, k) <= Len(data)
  PROVE  /\ HasHeader /\ End = Reach(written, k) /\ Start <= End
         /\ [kind |-> "block", tag |-> SubSeq(data, pos + 1, pos + TagSize),
             value |-> SubSeq(data, Start + 1, End)] = written[k]
<1> DEFINE W == written
           L == Len(data)
<1>1. Writable(W) /\ L \in Nat /\ L \in 0..Len(Blob(W)) /\ data = CutOff(W, L)
  BY FitsIsWritable DEF Fits
<1>2. usize \in Nat /\ usize > 0 /\ L < usize \div 2
  BY FitsIsWritable DEF Fits
<1>3. k \in 1..Len(W) /\ pos = Reach(W, k - 1) /\ Reach(W, k) <= L
  OBVIOUS
<1> HIDE DEF W, L
<1>4. Len(W) \in Nat /\ Len(W[k].value) \in Nat /\ k - 1 \in 0..Len(W)
  BY <1>1, <1>3, Written
<1> DEFINE l == Len(W[k].value)
<1>5. pos \in Nat /\ Reach(W, k) = pos + Header + l /\ l \in Nat
  BY <1>1, <1>3, <1>4, Layout
<1> HIDE DEF l
<1>12. L \in Nat /\ Reach(W, k) <= L /\ L < usize
  <2>1. \A w \in Nat : w \div 2 <= w
    OBVIOUS
  <2> QED BY <1>1, <1>2, <1>3, <2>1
<1>6. pos + Header <= L
  BY <1>5, <1>12, HeaderSize
<1>7. Length = l
  BY <1>1, <1>3, <1>6, LengthIsThere DEF Length, LengthByte, l
<1>8. Start + Length = Reach(W, k) /\ Reach(W, k) \in 0..(usize - 1)
  BY <1>2, <1>5, <1>7, <1>12, HeaderSize DEF Start
<1>9. End = Reach(W, k)
  BY <1>2, <1>8, ModOnce DEF End
<1>10. Start = pos + Header /\ Start <= End /\ HasHeader
  BY <1>5, <1>6, <1>9, HeaderSize DEF Start, HasHeader, L
<1>11. [kind |-> "block", tag |-> SubSeq(data, pos + 1, pos + TagSize),
        value |-> SubSeq(data, pos + Header + 1, Reach(W, k))] = W[k]
  BY <1>1, <1>3, BlockIsThere
<1> QED BY <1>9, <1>10, <1>11 DEF W

(* At the beginning of a block whose value is cut: the sum wraps around when the
   block ends beyond every usize, and then it does so only once. *)
LEMMA AtCut ==
  ASSUME Fits, NEW k \in 1..Len(written), pos = Reach(written, k - 1),
         pos + Header <= Len(data), Len(data) < Reach(written, k)
  PROVE  /\ HasHeader /\ Start <= Len(data)
         /\ Reach(written, k) < usize => End > Len(data)
         /\ ~(Reach(written, k) < usize) => End < Start
         /\ End \in Nat /\ Start \in Nat
<1> DEFINE W == written
           L == Len(data)
<1>1. Writable(W) /\ L \in Nat /\ L \in 0..Len(Blob(W)) /\ data = CutOff(W, L)
  BY FitsIsWritable DEF Fits
<1>2. usize \in Nat /\ usize > 0 /\ L < usize \div 2 /\ usize >= U32
  BY FitsIsWritable DEF Fits
<1>3. /\ k \in 1..Len(W) /\ pos = Reach(W, k - 1) /\ pos + Header <= L /\ L < Reach(W, k)
  OBVIOUS
<1> HIDE DEF W, L
<1>4. /\ Len(W) \in Nat /\ Len(W[k].value) \in Nat /\ Len(W[k].value) < U32
      /\ k - 1 \in 0..Len(W)
  BY <1>1, <1>3, Written
<1> DEFINE l == Len(W[k].value)
<1>5. pos \in Nat /\ Reach(W, k) = pos + Header + l /\ l \in Nat /\ l < U32
  BY <1>1, <1>3, <1>4, Layout
<1> HIDE DEF l
<1>7. Length = l
  BY <1>1, <1>3, LengthIsThere DEF Length, LengthByte, l
<1>8. /\ Start = pos + Header /\ Start \in Nat /\ Start <= L
      /\ Start + Length = Reach(W, k) /\ Reach(W, k) \in Nat
  BY <1>3, <1>5, <1>7, HeaderSize DEF Start
<1>9. HasHeader
  BY <1>3 DEF HasHeader, L
<1>10. ASSUME Reach(W, k) < usize PROVE End = Reach(W, k)
  BY <1>2, <1>8, <1>10, ModOnce DEF End
<1>11. ASSUME ~(Reach(W, k) < usize) PROVE End < Start /\ End \in Nat
  <2> DEFINE r == Reach(W, k) - usize
  <2>1. l < usize /\ L < usize
    <3>1. \A w \in Nat : w \div 2 <= w
      OBVIOUS
    <3>2. U32 \in Int
      BY TlvAssumption DEF U32
    <3> QED BY <1>1, <1>2, <1>5, <3>1, <3>2
  <2>2. r \in 0..(usize - 1) /\ r < Start /\ r + usize = Reach(W, k)
    <3>1. usize \in Nat /\ L \in Nat /\ l \in Nat
      BY <1>1, <1>2, <1>5
    <3> QED BY <1>7, <1>8, <1>11, <2>1, <3>1
  <2> HIDE DEF r
  <2>3. End = r
    BY <1>2, <1>8, <2>2, ModOnce DEF End
  <2> QED BY <2>2, <2>3
<1> QED BY <1>3, <1>8, <1>9, <1>10, <1>11 DEF W, L

(* What next() finds, wherever the iterator is. *)
LEMMA Found ==
  ASSUME Fits, NEW m \in 0..Len(written), Count(written, Len(data), m), Position(m)
  PROVE  /\ HasHeader =>
              \/ \E j \in 0..(m - 1) : pos = Reach(written, j) /\ Reach(written, j + 1) <= Len(data)
              \/ /\ pos = Reach(written, m) /\ m < Len(written)
                 /\ pos + Header <= Len(data) /\ Len(data) < Reach(written, m + 1)
         /\ ~HasHeader =>
              \/ /\ pos = Reach(written, m)
                 /\ ~(m < Len(written) /\ Reach(written, m) + Header <= Len(data))
              \/ /\ pos = Len(data)
                 /\ m < Len(written) /\ Reach(written, m) + Header <= Len(data)
         /\ pos \in 0..Len(data)
<1> DEFINE W == written
           L == Len(data)
<1>1. Writable(W) /\ L \in Nat /\ L \in 0..Len(Blob(W))
  BY FitsIsWritable
<1>2. m \in 0..Len(W) /\ Count(W, L, m)
  OBVIOUS
<1>3. HasHeader <=> pos + Header <= L
  BY DEF HasHeader
<1>4. CASE pos = L /\ m < Len(W) /\ Reach(W, m) + Header <= L
  <2>1. ~(L + Header <= L) /\ L \in 0..L
    BY <1>1, HeaderSize
  <2> QED BY <2>1, <1>3, <1>4
<1>5. CASE \E j \in 0..m : pos = Reach(W, j)
  <2>1. PICK j \in 0..m : pos = Reach(W, j)
    BY <1>5
  <2> HIDE DEF W, L
  <2>2. /\ Len(W) \in Nat /\ m \in Nat /\ j \in 0..Len(W) /\ Reach(W, m) \in Nat
        /\ Reach(W, m) <= L /\ Len(Blob(W)) = Reach(W, Len(W)) /\ j \in Nat
    BY <1>1, <1>2, Written, Layout DEF Count
  <2>3. pos \in Nat /\ pos <= Reach(W, m)
    BY <1>1, <1>2, <2>1, <2>2, Layout, PrefixStays
  <2>4. pos \in 0..L
    BY <1>1, <2>2, <2>3
  <2>5. CASE j = m
    <3>1. m < Len(W) => L < Reach(W, m + 1)
      BY <1>2 DEF Count
    <3>2. ASSUME pos + Header <= L PROVE m < Len(W)
      <4>1. CASE m = Len(W)
        <5>1. L <= pos /\ pos \in Nat
          BY <1>1, <2>1, <2>2, <2>3, <2>5, <4>1
        <5> QED BY <5>1, <3>2, <1>1, HeaderSize
      <4> QED BY <4>1, <1>2, <2>2
    <3> QED BY <1>3, <2>1, <2>4, <2>5, <3>1, <3>2 DEF W, L
  <2>6. CASE j # m
    <3>1. /\ j \in 0..(m - 1) /\ j + 1 \in 0..Len(W) /\ j + 1 \in 1..Len(W)
          /\ m \in (j + 1)..Len(W) /\ j < j + 1
      BY <1>2, <2>1, <2>2, <2>6
    <3>2. Reach(W, j + 1) <= Reach(W, m) /\ Reach(W, j + 1) \in Nat
      BY <1>1, <3>1, PrefixStays, Layout
    <3>3. Reach(W, j + 1) <= L
      BY <1>1, <2>2, <3>2
    <3>4. pos + Header <= Reach(W, j + 1)
      BY <1>1, <2>1, <2>2, <3>1, FurtherOn
    <3>5. pos + Header <= L
      BY <1>1, <2>3, <3>2, <3>3, <3>4, HeaderSize
    <3> QED BY <1>3, <2>1, <2>4, <3>1, <3>3, <3>5 DEF W, L
  <2> QED BY <2>5, <2>6
<1> QED BY <1>4, <1>5 DEF Position

-----------------------------------------------------------------------------
(* What the state means for BlockSource.                                    *)

MapBlocks(W, L) == SubSeq(W, 1, Cardinality(Full(W, L)))
MapGiven(W, L, p) == Cardinality({k \in Full(W, L) : Reach(W, k) <= p})
TheCut(W, L) == CHOOSE k \in CutAt(W, L) : TRUE
MapFailure(W, k, u) == IF Reach(W, k) < u THEN Error("InvalidTlvData") ELSE Panic
MapFails(W, L, p, u, i) ==
  IF \E k \in CutAt(W, L) : p <= Reach(W, k - 1) /\ i # Panic
  THEN MapFailure(W, TheCut(W, L), u)
  ELSE [kind |-> "no failure"]

Blocks == MapBlocks(written, Len(data))
Given == MapGiven(written, Len(data), pos)
Fails == MapFails(written, Len(data), pos, usize, item)

LEMMA Mapping == WholeBlocks = Blocks /\ GivenSoFar = Given /\ FailureToCome = Fails
<1>1. \A k : EndOf(k) = Reach(written, k)
  BY DEF EndOf, Reach, BlobTo
<1>2. InFull = Full(written, Len(data))
  BY <1>1 DEF InFull, Full
<1>3. \A k : StartOf(k) = Reach(written, k - 1)
  BY <1>1 DEF StartOf
<1>4. CutBlock = CutAt(written, Len(data))
  BY <1>2, <1>3 DEF CutBlock, CutAt
<1>5. \A k : Failure(k) = MapFailure(written, k, usize)
  BY <1>1 DEF Failure, MapFailure
<1>6. {k \in InFull : EndOf(k) <= pos} = {k \in Full(written, Len(data)) : Reach(written, k) <= pos}
  BY <1>1, <1>2
<1>7. (\E k \in CutBlock : pos <= StartOf(k) /\ item # Panic)
        <=> (\E k \in CutAt(written, Len(data)) : pos <= Reach(written, k - 1) /\ item # Panic)
  BY <1>3, <1>4
<1>8. (CHOOSE k \in CutBlock : TRUE) = TheCut(written, Len(data))
  BY <1>4 DEF TheCut
<1>9. WholeBlocks = Blocks
  BY <1>2 DEF WholeBlocks, Blocks, MapBlocks
<1>10. GivenSoFar = Given
  BY <1>6 DEF GivenSoFar, Given, MapGiven
<1>11. Failure(CHOOSE k \in CutBlock : TRUE)
         = MapFailure(written, TheCut(written, Len(data)), usize)
  BY <1>5, <1>8
<1> QED BY <1>7, <1>9, <1>10, <1>11, Zenon DEF FailureToCome, Fails, MapFails

LEMMA MapOfBlocks ==
  ASSUME NEW W, Writable(W), NEW L \in Nat, NEW m, Count(W, L, m)
  PROVE  /\ Len(MapBlocks(W, L)) = m /\ m \in Nat
         /\ \A k \in 1..m : MapBlocks(W, L)[k] = W[k]
<1>1. Cardinality(Full(W, L)) = m /\ m \in 0..Len(W) /\ m \in Nat /\ W \in Seq(Block)
  BY FullIs, Written
<1>2. MapBlocks(W, L) = SubSeq(W, 1, m)
  BY <1>1 DEF MapBlocks
<1>3. Len(SubSeq(W, 1, m)) = m /\ \A k \in 1..m : SubSeq(W, 1, m)[k] = W[k]
  BY <1>1
<1> QED BY <1>1, <1>2, <1>3

(* Between two blocks the failure is still to come. *)
Pending(W, L, m, u, i) ==
  IF (m < Len(W) /\ Reach(W, m) + Header <= L) /\ i # Panic
  THEN MapFailure(W, m + 1, u)
  ELSE [kind |-> "no failure"]

LEMMA MapBetween ==
  ASSUME NEW W, Writable(W), NEW L \in Nat, NEW m, Count(W, L, m), NEW j \in 0..m, NEW u, NEW i
  PROVE  /\ MapGiven(W, L, Reach(W, j)) = j
         /\ MapFails(W, L, Reach(W, j), u, i) = Pending(W, L, m, u, i)
<1>1. MapGiven(W, L, Reach(W, j)) = j
  BY GivenIs DEF MapGiven
<1>2. m \in Nat /\ Len(W) \in Nat /\ j \in 0..Len(W) /\ m \in j..Len(W)
  BY FullIs
<1>3. Reach(W, j) <= Reach(W, m)
  BY <1>2, PrefixStays
<1>4. CASE m < Len(W) /\ Reach(W, m) + Header <= L
  <2>1. CutAt(W, L) = {m + 1} /\ (m + 1) - 1 = m
    BY <1>2, <1>4, CutIs
  <2>2. (CHOOSE k \in {m + 1} : TRUE) = m + 1
    OBVIOUS
  <2>3. (\E k \in CutAt(W, L) : Reach(W, j) <= Reach(W, k - 1) /\ i # Panic) <=> i # Panic
    BY <2>1, <1>3
  <2>4. MapFails(W, L, Reach(W, j), u, i) =
          IF i # Panic THEN MapFailure(W, TheCut(W, L), u)
          ELSE [kind |-> "no failure"]
    <3>1. CASE i # Panic
      BY <2>3, <3>1 DEF MapFails
    <3>2. CASE i = Panic
      BY <3>2 DEF MapFails
    <3> QED BY <3>1, <3>2
  <2>5. TheCut(W, L) = m + 1
    BY <2>1, <2>2 DEF TheCut
  <2> QED BY <1>1, <1>4, <2>4, <2>5 DEF Pending
<1>5. CASE ~(m < Len(W) /\ Reach(W, m) + Header <= L)
  <2>1. CutAt(W, L) = {}
    BY <1>5, CutIs
  <2> QED BY <1>1, <1>5, <2>1 DEF MapFails, Pending
<1> QED BY <1>4, <1>5

(* At the end, when the value that is cut has been found. *)
LEMMA MapAtEnd ==
  ASSUME NEW W, Writable(W), NEW L \in Nat, NEW m, Count(W, L, m),
         m < Len(W), Reach(W, m) + Header <= L, NEW u, NEW i
  PROVE  MapGiven(W, L, L) = m /\ MapFails(W, L, L, u, i) = [kind |-> "no failure"]
<1>1. Cardinality(Full(W, L)) = m /\ m \in Nat /\ m \in 0..Len(W)
  BY FullIs
<1>2. {k \in Full(W, L) : Reach(W, k) <= L} = Full(W, L)
  BY DEF Full
<1>3. CutAt(W, L) = {m + 1} /\ (m + 1) - 1 = m
  BY <1>1, CutIs
<1>4. ~(L <= Reach(W, m))
  BY <1>1, Layout, HeaderSize
<1> QED BY <1>1, <1>2, <1>3, <1>4 DEF MapGiven, MapFails

-----------------------------------------------------------------------------
(* Every call answers as BlockSource does and keeps the invariant.          *)

Answers ==
  \/ /\ Given < Len(Blocks) /\ Given' = Given + 1 /\ item' = Blocks[Given + 1]
     /\ Blocks' = Blocks /\ Fails' = Fails
  \/ /\ Given = Len(Blocks) /\ Fails # [kind |-> "no failure"]
     /\ item' = Fails /\ Fails' = [kind |-> "no failure"]
     /\ Blocks' = Blocks /\ Given' = Given
  \/ /\ Given = Len(Blocks) /\ Fails = [kind |-> "no failure"] /\ item' = NoMore
     /\ Blocks' = Blocks /\ Given' = Given /\ Fails' = Fails

LEMMA Kinds ==
  /\ Error("InvalidTlvData") # Panic /\ Error("InvalidTlvData") # [kind |-> "no failure"]
  /\ Panic # [kind |-> "no failure"] /\ NoMore # Panic /\ NotAsked # Panic
  /\ \A b \in Block : b # Panic
<1>1. /\ Error("InvalidTlvData").kind = "error" /\ Panic.kind = "panic"
      /\ NoMore.kind = "none" /\ NotAsked.kind = "not asked"
      /\ [kind |-> "no failure"].kind = "no failure"
  BY DEF Error, Panic, NoMore, NotAsked
<1>2. \A b \in Block : b.kind = "block"
  BY DEF Block
<1> QED BY <1>1, <1>2

LEMMA NextStep ==
  ASSUME TlvInv, Next
  PROVE  TlvInv' /\ Answers
<1> DEFINE W == written
           L == Len(data)
           u == usize
           Cut(m) == m < Len(W) /\ Reach(W, m) + Header <= L
<1>1. PICK m \in 0..Len(written) : Count(written, Len(data), m) /\ Position(m)
  BY DEF TlvInv
<1>2. Fits /\ Writable(W) /\ L \in Nat /\ Count(W, L, m) /\ m \in Nat /\ Len(W) \in Nat
  BY <1>1, FitsIsWritable, FullIs DEF TlvInv
<1>3. written' = W /\ data' = data /\ usize' = u /\ Len(data)' = L /\ Asked
  BY DEF Next, NoHeader, CutValue, Yield, EndWraps
<1>4. ASSUME item' \in Block \cup {NotAsked, NoMore, Panic, Error("InvalidTlvData")},
             \/ \E j \in 0..m : pos' = Reach(W, j)
             \/ pos' = L /\ Cut(m)
      PROVE  TlvInv'
  <2>1. Fits'
    BY <1>2, <1>3, <1>4 DEF Fits
  <2>2. Position(m)'
    BY <1>3, <1>4 DEF Position
  <2>3. m \in 0..Len(written') /\ Count(written', Len(data'), m)
    BY <1>1, <1>3
  <2> QED BY <2>1, <2>2, <2>3 DEF TlvInv
<1>5. Blocks' = Blocks /\ Len(Blocks) = m /\ \A k \in 1..m : Blocks[k] = W[k]
  BY <1>2, <1>3, MapOfBlocks DEF Blocks
<1>6. /\ Given = MapGiven(W, L, pos) /\ Given' = MapGiven(W, L, pos')
      /\ Fails = MapFails(W, L, pos, u, item) /\ Fails' = MapFails(W, L, pos', u, item')
  BY <1>3 DEF Given, Fails
<1>7. item # Panic
  BY <1>3 DEF Asked
<1>9. ASSUME NEW j \in 0..m, NEW i
      PROVE  /\ MapGiven(W, L, Reach(W, j)) = j
             /\ MapFails(W, L, Reach(W, j), u, i) = Pending(W, L, m, u, i)
  <2> HIDE DEF W, L, u
  <2>1. Writable(W) /\ L \in Nat /\ Count(W, L, m)
    BY <1>2
  <2> QED BY <2>1, MapBetween
<1>14. ASSUME NEW i, i # Panic
       PROVE  /\ Cut(m) => Pending(W, L, m, u, i) = MapFailure(W, m + 1, u)
              /\ Pending(W, L, m, u, i) = Pending(W, L, m, u, item)
  <2> HIDE DEF W, L, u
  <2> QED BY <1>7, <1>14 DEF Pending
<1>15. \A i : ~Cut(m) \/ i = Panic => Pending(W, L, m, u, i) = [kind |-> "no failure"]
  BY DEF Pending
<1>8. /\ HasHeader =>
           \/ \E j \in 0..(m - 1) : pos = Reach(W, j) /\ Reach(W, j + 1) <= L
           \/ /\ pos = Reach(W, m) /\ m < Len(W)
              /\ pos + Header <= L /\ L < Reach(W, m + 1)
      /\ ~HasHeader =>
           \/ pos = Reach(W, m) /\ ~Cut(m)
           \/ pos = L /\ Cut(m)
  BY <1>1, <1>2, Found
<1> HIDE DEF W, L, u, Cut
<1>10. CASE NoHeader
  <2>1. ~HasHeader /\ item' = NoMore /\ pos' = pos
    BY <1>10 DEF NoHeader
  <2>2. CASE pos = Reach(W, m) /\ ~Cut(m)
    <3>1. m \in 0..m
      BY <1>2
    <3>2. Given = m /\ Fails = [kind |-> "no failure"] /\ Given' = m /\ Fails' = [kind |-> "no failure"]
      BY <1>6, <1>9, <1>15, <2>1, <2>2, <3>1
    <3>3. TlvInv'
      BY <1>4, <2>1, <2>2, <3>1
    <3> QED BY <3>2, <3>3, <2>1, <1>5 DEF Answers
  <2>3. CASE pos = L /\ Cut(m)
    <3>1. Given = m /\ Fails = [kind |-> "no failure"] /\ Given' = m /\ Fails' = [kind |-> "no failure"]
      BY <1>2, <1>6, <2>1, <2>3, MapAtEnd DEF Cut
    <3>2. TlvInv'
      BY <1>4, <2>1, <2>3
    <3> QED BY <3>1, <3>2, <2>1, <1>5 DEF Answers
  <2> QED BY <1>8, <2>1, <2>2, <2>3
<1>20. ASSUME NEW j \in 0..(m - 1), pos = Reach(W, j), Reach(W, j + 1) <= L
       PROVE  /\ j + 1 \in 1..m /\ j + 1 \in 0..m /\ j \in 0..m /\ j \in Nat
              /\ HasHeader /\ End = Reach(W, j + 1) /\ Start <= End /\ End <= L
              /\ [kind |-> "block", tag |-> SubSeq(data, pos + 1, pos + TagSize),
                  value |-> SubSeq(data, Start + 1, End)] = W[j + 1]
              /\ ~(End > L) /\ ~(End < Start)
  <2>1. /\ j + 1 \in 1..m /\ j + 1 \in 0..m /\ j \in 0..m /\ j \in Nat
        /\ j + 1 \in 1..Len(W) /\ (j + 1) - 1 = j /\ j + 1 \in 0..Len(W)
    BY <1>1, <1>2 DEF W
  <2>2. /\ HasHeader /\ End = Reach(W, j + 1) /\ Start <= End
        /\ [kind |-> "block", tag |-> SubSeq(data, pos + 1, pos + TagSize),
            value |-> SubSeq(data, Start + 1, End)] = W[j + 1]
    BY <2>1, <1>2, <1>20, AtBlock DEF W, L
  <2>3. Reach(W, j + 1) \in Nat
    BY <2>1, <1>2, Layout
  <2>4. pos \in Nat
    BY <2>1, <1>2, <1>20, Layout
  <2>5. Start \in Nat
    BY <2>4, HeaderSize DEF Start
  <2> QED BY <2>1, <2>2, <2>3, <2>5, <1>2, <1>20
<1>30. ASSUME pos = Reach(W, m), m < Len(W), pos + Header <= L, L < Reach(W, m + 1)
       PROVE  /\ Start <= L /\ End \in Nat /\ Start \in Nat
              /\ Reach(W, m + 1) < u => End > L
              /\ ~(Reach(W, m + 1) < u) => End < Start
              /\ Given = m /\ Fails = MapFailure(W, m + 1, u) /\ Cut(m) /\ m \in 0..m
  <2>1. m + 1 \in 1..Len(W) /\ (m + 1) - 1 = m /\ m \in 0..m
    BY <1>1, <1>2, <1>30 DEF W
  <2>2. /\ Start <= L /\ End \in Nat /\ Start \in Nat
        /\ Reach(W, m + 1) < u => End > L
        /\ ~(Reach(W, m + 1) < u) => End < Start
    BY <2>1, <1>2, <1>30, AtCut DEF W, L, u
  <2>4. Cut(m)
    BY <1>30 DEF Cut
  <2>3. Given = m /\ Fails = MapFailure(W, m + 1, u)
    <3>1. /\ MapGiven(W, L, Reach(W, m)) = m
          /\ MapFails(W, L, Reach(W, m), u, item) = MapFailure(W, m + 1, u)
      <4>1. m \in 0..m
        BY <2>1
      <4>2. Pending(W, L, m, u, item) = MapFailure(W, m + 1, u)
        BY <2>4, <1>7, <1>14
      <4> QED BY <4>1, <4>2, <1>9
    <3> QED BY <3>1, <1>6, <1>30
  <2> QED BY <2>1, <2>2, <2>3, <2>4
<1>11. CASE CutValue
  <2>1. HasHeader /\ End > L /\ item' = Error("InvalidTlvData") /\ pos' = L
    BY <1>11 DEF CutValue, L
  <2>2. pos = Reach(W, m) /\ m < Len(W) /\ pos + Header <= L /\ L < Reach(W, m + 1)
    BY <1>8, <1>20, <2>1
  <2>3. /\ Start <= L /\ End \in Nat /\ Start \in Nat
        /\ ~(Reach(W, m + 1) < u) => End < Start
        /\ Given = m /\ Fails = MapFailure(W, m + 1, u) /\ Cut(m)
    BY <1>30, <2>2
  <2>4. Reach(W, m + 1) < u
    BY <2>1, <2>3, <1>2
  <2>5. Fails = Error("InvalidTlvData")
    BY <2>3, <2>4 DEF MapFailure
  <2>6. Given' = m /\ Fails' = [kind |-> "no failure"]
    BY <1>2, <1>6, <2>1, <2>3, MapAtEnd DEF Cut
  <2>7. TlvInv'
    BY <1>4, <2>1, <2>3
  <2> QED BY <2>1, <2>3, <2>5, <2>6, <2>7, <1>5, Kinds DEF Answers
<1>12. CASE Yield
  <2>1. /\ HasHeader /\ Start <= End /\ End <= L /\ pos' = End
        /\ item' = [kind |-> "block", tag |-> SubSeq(data, pos + 1, pos + TagSize),
                    value |-> SubSeq(data, Start + 1, End)]
    BY <1>12 DEF Yield, L
  <2>2. ASSUME pos = Reach(W, m), m < Len(W), pos + Header <= L, L < Reach(W, m + 1) PROVE FALSE
    <3>1. /\ End \in Nat /\ Start \in Nat
          /\ Reach(W, m + 1) < u => End > L
          /\ ~(Reach(W, m + 1) < u) => End < Start
      BY <1>30, <2>2
    <3> QED BY <2>1, <3>1, <1>2
  <2>3. PICK j \in 0..(m - 1) : pos = Reach(W, j) /\ Reach(W, j + 1) <= L
    BY <1>8, <2>1, <2>2
  <2>4. /\ j + 1 \in 1..m /\ j + 1 \in 0..m /\ j \in 0..m /\ j \in Nat
        /\ pos' = Reach(W, j + 1) /\ item' = W[j + 1]
    BY <1>20, <2>1, <2>3
  <2>5. W[j + 1] \in Block
    <3>1. j + 1 \in 1..Len(W)
      BY <1>1, <1>2, <2>4 DEF W
    <3> QED BY <3>1, <1>2, Written
  <2>6. item' # Panic /\ item # Panic
    BY <2>4, <2>5, <1>7, Kinds
  <2>7. Given = j /\ Given' = j + 1 /\ Fails' = Fails
    <3>1. Given = j /\ Fails = Pending(W, L, m, u, item)
      BY <1>6, <1>9, <2>3, <2>4
    <3>2. Given' = j + 1 /\ Fails' = Pending(W, L, m, u, item')
      BY <1>6, <1>9, <2>4
    <3> QED BY <3>1, <3>2, <2>6, <1>14
  <2>8. item' = Blocks[j + 1] /\ j < m
    BY <1>5, <2>4, <1>2
  <2>9. TlvInv'
    BY <1>4, <2>4, <2>5
  <2> QED BY <2>7, <2>8, <2>9, <1>5 DEF Answers
<1>13. CASE EndWraps
  <2>1. HasHeader /\ End < Start /\ item' = Panic /\ pos' = pos
    BY <1>13 DEF EndWraps
  <2>2. pos = Reach(W, m) /\ m < Len(W) /\ pos + Header <= L /\ L < Reach(W, m + 1)
    BY <1>8, <1>20, <2>1
  <2>3. /\ Start <= L /\ End \in Nat /\ Start \in Nat
        /\ Reach(W, m + 1) < u => End > L
        /\ Given = m /\ Fails = MapFailure(W, m + 1, u) /\ m \in 0..m
    BY <1>30, <2>2
  <2>4. ~(Reach(W, m + 1) < u)
    BY <2>1, <2>3, <1>2
  <2>5. Fails = Panic
    BY <2>3, <2>4 DEF MapFailure
  <2>6. Given' = m /\ Fails' = [kind |-> "no failure"]
    BY <1>6, <1>9, <1>15, <2>1, <2>2, <2>3
  <2>7. TlvInv'
    BY <1>4, <2>1, <2>2, <2>3
  <2> QED BY <2>1, <2>3, <2>5, <2>6, <2>7, <1>5, Kinds DEF Answers
<1> QED BY <1>10, <1>11, <1>12, <1>13 DEF Next

LEMMA AnyStep ==
  ASSUME TlvInv, [Next]_vars
  PROVE  TlvInv' /\ (Answers \/ UNCHANGED <<Blocks, Given, Fails, item>>)
<1>1. CASE Next
  BY <1>1, NextStep
<1>2. CASE UNCHANGED vars
  <2>1. written' = written /\ usize' = usize /\ data' = data /\ pos' = pos /\ item' = item
    BY <1>2 DEF vars
  <2>2. Blocks' = Blocks /\ Given' = Given /\ Fails' = Fails
    BY <2>1 DEF Blocks, Given, Fails
  <2>3. Fits'
    BY <2>1 DEF Fits, TlvInv
  <2>4. TlvInv'
    BY <2>1, <2>3 DEF TlvInv, Position
  <2> QED BY <2>1, <2>2, <2>4
<1> QED BY <1>1, <1>2

LEMMA InitTlv ==
  ASSUME Init
  PROVE  TlvInv /\ Given = 0 /\ item = NotAsked
<1>1. /\ written \in Writings /\ usize \in Widths /\ pos = 0 /\ item = NotAsked
  BY DEF Init
<1>2. Writable(written)
  BY <1>1, TlvAssumption DEF Writable
<1>3. PICK size \in 0..Len(Blob(written)) :
        size < usize \div 2 /\ data = SubSeq(Blob(written), 1, size)
  BY DEF Init
<1>4. Blob(written) \in Seq(Byte)
  BY <1>2, Layout
<1>5. Len(data) = size
  <2> DEFINE B == Blob(written)
  <2>1. B \in Seq(Byte) /\ size \in 0..Len(B) /\ data = SubSeq(B, 1, size)
    BY <1>3, <1>4
  <2> HIDE DEF B
  <2> QED BY <2>1
<1>6. Fits
  BY <1>1, <1>3, <1>5 DEF Fits, CutOff
<1>7. PICK m : Count(written, size, m)
  BY <1>2, CountExists
<1>8. size \in Nat /\ m \in Nat /\ m \in 0..Len(written) /\ 0 \in 0..m
  <2>1. Len(Blob(written)) \in Nat
    BY <1>4
  <2>2. size \in Nat
    BY <2>1
  <2>3. m \in Nat /\ m \in 0..Len(written)
    BY <1>2, <1>7, <2>2, FullIs
  <2> QED BY <2>2, <2>3
<1>9. Reach(written, 0) = pos
  BY <1>1, <1>2, Layout
<1>10. TlvInv
  BY <1>5, <1>6, <1>7, <1>8, <1>9 DEF TlvInv, Position
<1>11. MapGiven(written, size, Reach(written, 0)) = 0
  BY <1>2, <1>7, <1>8, MapBetween
<1> QED BY <1>1, <1>5, <1>9, <1>10, <1>11 DEF Given

LEMMA TlvInvariant == Spec => []TlvInv
<1>1. Init => TlvInv
  BY InitTlv
<1>2. TlvInv /\ [Next]_vars => TlvInv'
  BY AnyStep
<1> QED BY <1>1, <1>2, PTL DEF Spec

(* The fields have the types that they have in the code: the position is never
   beyond the end of the blob, wherever it is cut off. *)
THEOREM IteratorTypes == Spec => []TypeOK
<1>1. TlvInv => TypeOK
  <2> SUFFICES ASSUME TlvInv PROVE TypeOK
    OBVIOUS
  <2>1. Fits /\ data \in Seq(Byte)
    BY FitsIsWritable DEF TlvInv
  <2>2. pos \in 0..Len(data)
    BY Found DEF TlvInv
  <2> QED BY <2>1, <2>2 DEF Fits, TypeOK
<1> QED BY <1>1, TlvInvariant, PTL

(* Wherever a blob is cut off, next() gives the blocks that are there in full in
   the order in which they were written, whatever bytes they consist of; a value
   that is cut is one failure, then there is nothing more; and it panics only
   for a cut value that ends beyond every usize. *)
THEOREM BlobIsASource == Spec => ImplementsBlockSource
<1>1. Init => Promised!Init
  <2> SUFFICES ASSUME Init PROVE Promised!Init
    OBVIOUS
  <2>1. Given = 0 /\ item = NotAsked
    BY InitTlv
  <2> QED BY <2>1, Mapping DEF Promised!Init, Promised!NotAsked, NotAsked
<1>2. (WholeBlocks = Blocks /\ GivenSoFar = Given /\ FailureToCome = Fails)'
  BY Mapping, PTL
<1>3. TlvInv /\ [Next]_vars =>
        [Promised!Next]_(<<WholeBlocks, GivenSoFar, FailureToCome, item>>)
  <2> SUFFICES ASSUME TlvInv, [Next]_vars
               PROVE  \/ Promised!Next
                      \/ UNCHANGED <<WholeBlocks, GivenSoFar, FailureToCome, item>>
    OBVIOUS
  <2>1. Answers \/ UNCHANGED <<Blocks, Given, Fails, item>>
    BY AnyStep
  <2>2. ASSUME Answers PROVE Promised!Next
    BY <2>2, <1>2, Mapping
       DEF Answers, Promised!Next, Promised!Give, Promised!Fail, Promised!Finish,
           Promised!NoMore, Promised!NoFailure, NoMore
  <2>3. ASSUME UNCHANGED <<Blocks, Given, Fails, item>>
        PROVE  UNCHANGED <<WholeBlocks, GivenSoFar, FailureToCome, item>>
    BY <2>3, <1>2, Mapping
  <2> QED BY <2>1, <2>2, <2>3
<1> QED BY <1>1, <1>3, TlvInvariant, PTL DEF Spec, ImplementsBlockSource, Promised!Spec
=============================================================================
