---------------------------- MODULE CbcRetryProofs ----------------------------
(***************************************************************************)
(* What TLAPS proves of CbcRetry, for every block size, buffer size and     *)
(* file, over a source that may be interrupted or fail any number of times, *)
(* and a caller that ignores every error.  Whether the source returns short *)
(* or not, no byte comes twice or out of order.  If it does not, bytes may  *)
(* be lost, but none is wrong, except less than a block at the end after a  *)
(* padding error.                                                           *)
(***************************************************************************)
EXTENDS CbcRetry, CbcReaderProofs, SequenceTheorems

(* The order of the bytes, whatever the source returns.  Garbage is left out:
   it is no byte of the plaintext. *)
Rising(s) ==
  \A i, j \in 1..Len(s) : i < j /\ Garbage \notin {s[i], s[j]} => s[i] < s[j]

Precedes(s, t) ==
  \A i \in 1..Len(s), j \in 1..Len(t) : Garbage \notin {s[i], t[j]} => s[i] < t[j]

Below(s, n) == \A i \in 1..Len(s) : s[i] < n

(* What is decrypted and waits in buf. *)
Rest == SubSeq(buf, buf_pos + 1, Len(buf))

InOrder ==
  /\ Rising(delivered) /\ Rising(out) /\ Rising(Rest)
  /\ Precedes(delivered, out) /\ Precedes(delivered, Rest) /\ Precedes(out, Rest)

(* The lookahead has been read, and all that was decrypted comes before it, until
   the lookahead itself is decrypted at the end. *)
Behind ==
  /\ Opened => lookahead + Block <= pos
  /\ ~eof => Below(delivered, lookahead) /\ Below(out, lookahead) /\ Below(Rest, lookahead)

OInv == TypeInv /\ Unopened /\ InOrder /\ Behind

-----------------------------------------------------------------------------
(* The lemmas about sequences of bytes. *)

LEMMA Joined ==
  ASSUME NEW s \in Seq(Int), NEW t \in Seq(Int)
  PROVE  /\ Rising(s) /\ Rising(t) /\ Precedes(s, t) => Rising(s \o t)
         /\ \A u \in Seq(Int) : Precedes(s, u) /\ Precedes(t, u) => Precedes(s \o t, u)
         /\ \A n \in Int : Below(s, n) /\ Below(t, n) => Below(s \o t, n)
<1> DEFINE st == s \o t
<1>1. Len(s) \in Nat /\ Len(t) \in Nat /\ Len(st) = Len(s) + Len(t)
  BY Concatenated
<1>2. ASSUME NEW i \in 1..Len(st)
      PROVE  \/ i \in 1..Len(s) /\ st[i] = s[i]
             \/ i > Len(s) /\ i - Len(s) \in 1..Len(t) /\ st[i] = t[i - Len(s)]
  <2>1. i \in 1..Len(s) \/ (i \in (Len(s) + 1)..(Len(s) + Len(t)) /\ i > Len(s) /\ i - Len(s) \in 1..Len(t))
    BY <1>1
  <2> QED BY <2>1, Concatenated
<1> HIDE DEF st
<1>3. ASSUME Rising(s), Rising(t), Precedes(s, t) PROVE Rising(st)
  <2> SUFFICES ASSUME NEW i \in 1..Len(st), NEW j \in 1..Len(st), i < j,
                      Garbage \notin {st[i], st[j]}
               PROVE  st[i] < st[j]
    BY DEF Rising
  <2>1. CASE j \in 1..Len(s) /\ st[j] = s[j]
    <3>1. i \in 1..Len(s) /\ st[i] = s[i]
      BY <2>1, <1>1, <1>2
    <3> QED BY <2>1, <3>1, <1>3 DEF Rising
  <2>2. CASE j > Len(s) /\ j - Len(s) \in 1..Len(t) /\ st[j] = t[j - Len(s)]
    <3>1. CASE i \in 1..Len(s) /\ st[i] = s[i]
      BY <2>2, <3>1, <1>3 DEF Precedes
    <3>2. CASE i > Len(s) /\ i - Len(s) \in 1..Len(t) /\ st[i] = t[i - Len(s)]
      <4>1. i - Len(s) < j - Len(s)
        BY <1>1
      <4> QED BY <4>1, <2>2, <3>2, <1>3 DEF Rising
    <3> QED BY <3>1, <3>2, <1>2
  <2> QED BY <2>1, <2>2, <1>2
<1>4. ASSUME NEW u \in Seq(Int), Precedes(s, u), Precedes(t, u) PROVE Precedes(st, u)
  BY <1>2, <1>4 DEF Precedes
<1>5. ASSUME NEW n \in Int, Below(s, n), Below(t, n) PROVE Below(st, n)
  BY <1>2, <1>5 DEF Below
<1> QED BY <1>3, <1>4, <1>5 DEF st

LEMMA JoinedBehind ==
  ASSUME NEW u, NEW s \in Seq(Int), NEW t \in Seq(Int), Precedes(u, s), Precedes(u, t)
  PROVE  Precedes(u, s \o t)
<1> DEFINE st == s \o t
<1>1. ASSUME NEW i \in 1..Len(st)
      PROVE  \/ i \in 1..Len(s) /\ st[i] = s[i]
             \/ i - Len(s) \in 1..Len(t) /\ st[i] = t[i - Len(s)]
  <2>1. Len(s) \in Nat /\ Len(t) \in Nat /\ Len(st) = Len(s) + Len(t)
    BY Concatenated
  <2>2. \/ i \in 1..Len(s)
        \/ i \in (Len(s) + 1)..(Len(s) + Len(t)) /\ i - Len(s) \in 1..Len(t)
    BY <2>1
  <2> QED BY <2>2, Concatenated
<1> HIDE DEF st
<1>2. Precedes(u, st)
  BY <1>1 DEF Precedes
<1> QED BY <1>2 DEF st

(* The first c of what waits from p on, and what is left of it. *)
LEMMA Parted ==
  ASSUME NEW s \in Seq(Int), NEW p \in Nat, NEW c \in Nat \ {0}, p + c <= Len(s)
  PROVE  LET rest == SubSeq(s, p + 1, Len(s))
             head == SubSeq(s, p + 1, p + c)
             tail == SubSeq(s, p + c + 1, Len(s))
         IN  /\ rest \in Seq(Int) /\ head \in Seq(Int) /\ tail \in Seq(Int)
             /\ Rising(rest) => Rising(head) /\ Rising(tail) /\ Precedes(head, tail)
             /\ \A u \in Seq(Int) : Precedes(u, rest) => Precedes(u, head) /\ Precedes(u, tail)
             /\ \A n \in Int : Below(rest, n) => Below(head, n) /\ Below(tail, n)
<1> DEFINE rest == SubSeq(s, p + 1, Len(s))
           head == SubSeq(s, p + 1, p + c)
           tail == SubSeq(s, p + c + 1, Len(s))
           d == Len(s) - p
<1>1. Len(s) \in Nat /\ d \in Nat /\ c <= d
  OBVIOUS
<1>2. ASSUME NEW k \in Nat, NEW m \in Nat, k + m <= Len(s)
      PROVE  LET piece == SubSeq(s, k + 1, k + m)
             IN  /\ piece \in Seq(Int) /\ Len(piece) = m
                 /\ \A i \in 1..m : piece[i] = s[k + i]
  <2>1. /\ k + 1 \in Int /\ k + m \in Int /\ (k + m) - (k + 1) + 1 = m
        /\ (k + 1 <= k + m <=> m # 0) /\ \A i \in 1..m : (k + 1) + i - 1 = k + i
        /\ \A i \in (k + 1)..(k + m) : i \in 1..Len(s)
    BY <1>1, <1>2
  <2> DEFINE piece == SubSeq(s, k + 1, k + m)
  <2>2. \A i \in (k + 1)..(k + m) : s[i] \in Int
    BY <2>1
  <2>3. piece \in Seq(Int)
    BY <2>1, <2>2, SubSeqProperties
  <2>4. Len(piece) = m
    BY <2>1, <2>2, SubSeqProperties
  <2>5. \A i \in 1..m : piece[i] = s[k + i]
    BY <2>1, <2>2, <2>4, SubSeqProperties
  <2> HIDE DEF piece
  <2>6. /\ piece \in Seq(Int) /\ Len(piece) = m
        /\ \A i \in 1..m : piece[i] = s[k + i]
    BY <2>3, <2>4, <2>5
  <2> QED BY <2>6 DEF piece
<1>3. /\ d - c \in Nat /\ p + d = Len(s) /\ p + c + (d - c) = Len(s)
      /\ p + c \in Nat
  BY <1>1
<1> HIDE DEF d
<1>4. /\ rest \in Seq(Int) /\ Len(rest) = d
      /\ \A i \in 1..d : rest[i] = s[p + i]
  BY <1>1, <1>2, <1>3
<1>5. /\ head \in Seq(Int) /\ Len(head) = c
      /\ \A i \in 1..c : head[i] = s[p + i]
  BY <1>1, <1>2
<1>6. /\ tail \in Seq(Int) /\ Len(tail) = d - c
      /\ \A i \in 1..(d - c) : tail[i] = s[p + c + i]
  BY <1>1, <1>2, <1>3
<1> HIDE DEF rest, head, tail
<1>7. ASSUME NEW i \in 1..Len(head) PROVE i \in 1..Len(rest) /\ head[i] = rest[i] /\ i <= c
  <2>1. Len(head) = c /\ Len(rest) = d /\ head[i] = s[p + i]
    BY <1>5, <1>4
  <2>2. i \in 1..d /\ i <= c
    BY <2>1, <1>1
  <2>3. rest[i] = s[p + i]
    BY <2>2, <1>4
  <2> QED BY <2>1, <2>2, <2>3
<1>8. ASSUME NEW i \in 1..Len(tail)
      PROVE  c + i \in 1..Len(rest) /\ tail[i] = rest[c + i] /\ c + i > c
  <2>1. i \in 1..(d - c) /\ tail[i] = s[p + c + i] /\ Len(rest) = d
    BY <1>4, <1>6
  <2>2. c + i \in 1..d /\ p + (c + i) = p + c + i /\ c + i > c
    BY <2>1, <1>1
  <2>3. rest[c + i] = s[p + (c + i)]
    BY <2>2, <1>4
  <2> QED BY <2>1, <2>2, <2>3
<1>9. ASSUME Rising(rest) PROVE Rising(head) /\ Rising(tail) /\ Precedes(head, tail)
  <2>1. Rising(head)
    BY <1>7, <1>9 DEF Rising
  <2>2. Rising(tail)
    <3> SUFFICES ASSUME NEW i \in 1..Len(tail), NEW j \in 1..Len(tail), i < j,
                        Garbage \notin {tail[i], tail[j]}
                 PROVE  tail[i] < tail[j]
      BY DEF Rising
    <3>1. c + i < c + j
      OBVIOUS
    <3> QED BY <3>1, <1>8, <1>9 DEF Rising
  <2>3. Precedes(head, tail)
    <3> SUFFICES ASSUME NEW i \in 1..Len(head), NEW j \in 1..Len(tail),
                        Garbage \notin {head[i], tail[j]}
                 PROVE  head[i] < tail[j]
      BY DEF Precedes
    <3>1. i < c + j
      BY <1>7, <1>8
    <3> QED BY <3>1, <1>7, <1>8, <1>9 DEF Rising
  <2> QED BY <2>1, <2>2, <2>3
<1>10. ASSUME NEW u \in Seq(Int), Precedes(u, rest) PROVE Precedes(u, head) /\ Precedes(u, tail)
  BY <1>7, <1>8, <1>10 DEF Precedes
<1>11. ASSUME NEW n \in Int, Below(rest, n) PROVE Below(head, n) /\ Below(tail, n)
  BY <1>7, <1>8, <1>11 DEF Below
<1> QED BY <1>4, <1>5, <1>6, <1>9, <1>10, <1>11 DEF rest, head, tail

(* The blocks that go through the cipher do not overlap. *)
LEMMA BlocksApart ==
  ASSUME TypeInv, lookahead + Block <= pos, NEW j \in Nat, NEW k \in Nat, j < k
  PROVE  /\ BlockAt(j) + Block <= BlockAt(k)
         /\ BlockAt(j) \in Nat /\ BlockAt(k) \in Nat
<1>1. lookahead \in Nat /\ pos \in Nat
  BY ReaderAssumption DEF TypeInv, TypeOK
<1>2. BlockAt(k) = pos + (k - 1) * Block /\ k - 1 \in Nat
  BY DEF BlockAt
<1>3. (k - 1) * Block \in Nat
  BY <1>2, Multiple
<1>4. CASE j = 0
  BY <1>1, <1>2, <1>3, <1>4, BlockAssumption DEF BlockAt
<1>5. CASE j # 0
  <2>1. BlockAt(j) = pos + (j - 1) * Block /\ j - 1 \in Nat /\ k - j \in Nat /\ k - j >= 1
    BY <1>5 DEF BlockAt
  <2>2. (j - 1) * Block \in Nat /\ (k - j) * Block >= Block
    BY <2>1, BlockAssumption
  <2>3. (k - 1) * Block = (j - 1) * Block + (k - j) * Block
    BY BlockAssumption
  <2>4. (k - j) * Block \in Nat
    BY <2>1, Multiple
  <2> QED BY <1>1, <1>2, <1>3, <2>1, <2>2, <2>3, <2>4, BlockAssumption
<1> QED BY <1>4, <1>5

LEMMA DecryptedRises ==
  ASSUME TypeInv, lookahead + Block <= pos, NEW n \in Nat
  PROVE  /\ Rising(DecryptBlocks(n))
         /\ \A b \in 1..(n * Block) :
              LET d == DecryptBlocks(n)[b] IN d # Garbage => lookahead <= d
         /\ Below(DecryptBlocks(n), BlockAt(n))
<1>1. n * Block \in Nat /\ lookahead \in Nat /\ Block \in Nat /\ Block >= 1 /\ BlockAt(n) \in Nat
  <2>1. n * Block \in Nat
    BY Multiple
  <2>2. BlockAt(n) \in Nat
    BY BlockAtType DEF TypeInv
  <2>3. lookahead \in Nat
    BY DEF TypeInv, TypeOK
  <2> QED BY <2>1, <2>2, <2>3, BlockAssumption
<1>2. Len(DecryptBlocks(n)) = n * Block
  BY DecryptBlocksType DEF TypeInv
<1> DEFINE J(b) == (b - 1) \div Block
           I(b) == (b - 1) % Block
           d(b) == DecryptBlocks(n)[b]
<1>3. ASSUME NEW b \in 1..(n * Block)
      PROVE  /\ J(b) \in Nat /\ I(b) \in 0..(Block - 1) /\ b - 1 = Block * J(b) + I(b)
             /\ J(b) < n
             /\ d(b) \in {Garbage, BlockAt(J(b)) + I(b)}
  <2>1. b - 1 \in Nat /\ b - 1 < n * Block
    BY <1>1
  <2>2. J(b) \in Nat /\ I(b) \in 0..(Block - 1) /\ b - 1 = Block * J(b) + I(b)
    BY <2>1, DivMod
  <2>3. d(b) = DecryptByte(BlockAt(J(b)), IF J(b) = 0 THEN chain ELSE BlockAt(J(b) - 1), I(b))
    BY DEF DecryptBlocks
  <2>4. d(b) \in {Garbage, BlockAt(J(b)) + I(b)}
    BY <2>3 DEF DecryptByte
  <2> HIDE DEF J, I, d
  <2>5. J(b) < n
    <3> SUFFICES ASSUME ~(J(b) < n) PROVE FALSE
      OBVIOUS
    <3>1. J(b) - n \in Nat
      BY <2>2
    <3>2. (J(b) - n) * Block \in Nat /\ Block * J(b) = (J(b) - n) * Block + n * Block
      BY <3>1, <2>2, BlockAssumption
    <3>3. Block * J(b) \in Nat
      BY <3>2, <1>1
    <3> QED BY <3>2, <3>3, <2>1, <2>2, <1>1
  <2> QED BY <2>2, <2>4, <2>5 DEF J, I, d
<1> HIDE DEF J, I, d
<1>4. ASSUME NEW b \in 1..(n * Block)
      PROVE  BlockAt(J(b)) \in Nat /\ lookahead <= BlockAt(J(b)) /\ BlockAt(J(b)) + Block <= BlockAt(n)
  <2>1. J(b) \in Nat /\ J(b) < n
    BY <1>3
  <2>2. BlockAt(0) = lookahead
    BY DEF BlockAt
  <2>3. J(b) # 0 => BlockAt(0) + Block <= BlockAt(J(b))
    BY <2>1, BlocksApart
  <2>4. BlockAt(J(b)) + Block <= BlockAt(n) /\ BlockAt(J(b)) \in Nat
    BY <2>1, BlocksApart
  <2> QED BY <2>1, <2>2, <2>3, <2>4, <1>1
<1>5. ASSUME NEW b \in 1..(n * Block)
      PROVE  (d(b) # Garbage => lookahead <= d(b)) /\ d(b) < BlockAt(n)
  <2>1. CASE d(b) = Garbage
    BY <2>1, <1>1 DEF Garbage
  <2>2. CASE d(b) = BlockAt(J(b)) + I(b)
    BY <2>2, <1>1, <1>3, <1>4
  <2> QED BY <2>1, <2>2, <1>3
<1>6. ASSUME NEW a \in 1..(n * Block), NEW b \in 1..(n * Block), a < b,
             Garbage \notin {d(a), d(b)}
      PROVE  d(a) < d(b)
  <2>1. d(a) = BlockAt(J(a)) + I(a) /\ d(b) = BlockAt(J(b)) + I(b)
    BY <1>3, <1>6
  <2>2. /\ J(a) \in Nat /\ J(b) \in Nat /\ I(a) \in 0..(Block - 1) /\ I(b) \in 0..(Block - 1)
        /\ a - 1 = Block * J(a) + I(a) /\ b - 1 = Block * J(b) + I(b)
    BY <1>3
  <2>3. BlockAt(J(a)) \in Nat /\ BlockAt(J(b)) \in Nat
    BY <1>4
  <2>4. CASE J(a) = J(b)
    <3>1. Block * J(a) \in Nat /\ Block * J(b) = Block * J(a)
      BY <2>2, <2>4, <1>1
    <3>2. I(a) < I(b)
      BY <1>6, <2>2, <3>1, <1>1
    <3> QED BY <2>1, <2>2, <2>3, <2>4, <3>2, <1>1
  <2>5. CASE J(a) < J(b)
    <3>1. BlockAt(J(a)) + Block <= BlockAt(J(b))
      BY <2>2, <2>5, BlocksApart
    <3> QED BY <2>1, <2>2, <2>3, <3>1, <1>1
  <2>6. CASE J(b) < J(a)
    <3>1. J(a) - J(b) \in Nat /\ J(a) - J(b) >= 1
      BY <2>2, <2>6
    <3>2. Block * (J(a) - J(b)) >= Block
      BY <3>1, <1>1
    <3>3. Block * J(a) = Block * J(b) + Block * (J(a) - J(b))
      BY <2>2, <1>1
    <3>4. Block * J(a) \in Nat /\ Block * J(b) \in Nat
      BY <2>2, <1>1
    <3> QED BY <1>6, <2>2, <3>2, <3>3, <3>4, <1>1
  <2> QED BY <2>2, <2>4, <2>5, <2>6
<1>7. Rising(DecryptBlocks(n))
  BY <1>2, <1>6 DEF Rising, d
<1>8. Below(DecryptBlocks(n), BlockAt(n))
  BY <1>2, <1>5 DEF Below, d
<1> QED BY <1>5, <1>7, <1>8 DEF d

-----------------------------------------------------------------------------
(* The steps. *)

LEMMA Pieces ==
  ASSUME TypeInv
  PROVE  /\ buf \in Seq(Int) /\ out \in Seq(Int) /\ delivered \in Seq(Int) /\ Rest \in Seq(Int)
         /\ lookahead \in Nat /\ pos \in Nat /\ buf_pos \in Nat /\ buf_pos <= Len(buf)
         /\ want \in Nat /\ (buf_pos = Len(buf) => Rest = <<>>)
<1>1. /\ buf \in Seq(Int) /\ out \in Seq(Int) /\ delivered \in Seq(Int)
      /\ lookahead \in Nat /\ pos \in Nat /\ buf_pos \in Nat /\ buf_pos <= Len(buf)
      /\ want \in Nat
  BY ReaderAssumption DEF TypeInv, TypeOK
<1>2. Rest \in Seq(Int)
  BY <1>1 DEF Rest
<1>3. buf_pos = Len(buf) => Rest = <<>>
  BY <1>1 DEF Rest
<1> QED BY <1>1, <1>2, <1>3

LEMMA NothingYet ==
  ASSUME NEW s, NEW n
  PROVE  Rising(<<>>) /\ Precedes(<<>>, s) /\ Precedes(s, <<>>) /\ Below(<<>>, n)
<1>1. Len(<<>>) = 0
  OBVIOUS
<1> QED BY <1>1 DEF Rising, Precedes, Below

(* Steps that leave the bytes alone, or drop what this read() had copied. *)
LEMMA SameOrder ==
  ASSUME OInv, TypeInv', Unopened',
         UNCHANGED <<lookahead, buf, buf_pos, delivered>>, eof' = eof, out' \in {out, <<>>},
         pos' = pos, Opened' = Opened
  PROVE  OInv'
<1>1. Rest' = Rest
  BY DEF Rest
<1>2. InOrder'
  BY <1>1, NothingYet DEF OInv, InOrder
<1>3. Behind'
  BY <1>1, NothingYet DEF OInv, Behind
<1> QED BY <1>2, <1>3 DEF OInv

LEMMA OrderInit == RetryInit => OInv
<1> SUFFICES ASSUME RetryInit PROVE OInv
  OBVIOUS
<1>1. TypeInv /\ Unopened
  BY InitInv DEF RetryInit, IInv
<1>2. phase = "new" /\ buf = <<>> /\ out = <<>> /\ delivered = <<>> /\ buf_pos = 0
  BY DEF RetryInit, Init
<1>3. Rest = <<>> /\ ~Opened
  BY <1>1, <1>2, Pieces DEF Opened
<1> QED BY <1>1, <1>2, <1>3, NothingYet DEF OInv, InOrder, Behind

LEMMA OrderFrom ==
  ASSUME OInv, NEW keyLen32, From(keyLen32)
  PROVE  OInv'
<1>1. TypeInv /\ TypeInv'
  BY FromType DEF OInv
<1>2. /\ ~Opened /\ phase = "new"
      /\ UNCHANGED <<lookahead, chain, buf, buf_pos, out, delivered>>
      /\ eof' = eof
  BY DEF From, Opened, reader, call
<1>3. /\ lookahead = 0 /\ chain = ZeroIV /\ buf = <<>> /\ buf_pos = 0 /\ eof = FALSE
      /\ out = <<>> /\ delivered = <<>> /\ pos = 0
  BY <1>2 DEF OInv, Unopened
<1>4. phase' \in {"idle", "refused"} /\ (phase' = "idle" => pos' = Block)
  <2>1. CASE phase' = "refused"
    BY <2>1
  <2>2. CASE phase' # "refused"
    <3>1. PICK got \in 0..Block :
            /\ pos' = pos + got
            /\ phase' = IF FirstBlock(got) THEN "idle" ELSE "refused"
      BY <2>2 DEF From
    <3>2. phase' = "idle" /\ got = Block
      BY <2>2, <3>1 DEF FirstBlock
    <3> QED BY <3>1, <3>2, <1>3, BlockAssumption
  <2> QED BY <2>1, <2>2
<1>5. Unopened'
  BY <1>2, <1>3, <1>4 DEF Unopened, Opened
<1>6. Rest' = <<>> /\ Rest = <<>>
  BY <1>1, <1>2, <1>3, Pieces DEF Rest
<1>7. InOrder'
  BY <1>2, <1>3, <1>6, NothingYet DEF InOrder
<1>8. Behind'
  <2>1. Opened' => lookahead' + Block <= pos'
    BY <1>2, <1>3, <1>4, BlockAssumption DEF Opened
  <2> QED BY <2>1, <1>2, <1>3, <1>6, NothingYet DEF Behind
<1> QED BY <1>1, <1>5, <1>7, <1>8 DEF OInv

LEMMA OrderFlush == ASSUME OInv, FlushPending PROVE OInv'
<1>1. TypeInv /\ TypeInv'
  BY FlushType DEF OInv
<1> DEFINE piece == SubSeq(buf, buf_pos + 1, buf_pos + ToCopy)
           tail == SubSeq(buf, buf_pos + ToCopy + 1, Len(buf))
<1>2. /\ phase = "reading" /\ phase' = phase
      /\ out' = out \o piece /\ buf_pos' = buf_pos + ToCopy
      /\ UNCHANGED <<lookahead, pos, buf, delivered>>
      /\ eof' = eof
  BY DEF FlushPending, MoreWanted, source
<1>3. /\ buf \in Seq(Int) /\ out \in Seq(Int) /\ delivered \in Seq(Int) /\ lookahead \in Nat
      /\ buf_pos \in Nat /\ want \in Nat
  BY <1>1, Pieces
<1>4. ToCopy \in Nat \ {0} /\ buf_pos + ToCopy <= Len(buf)
  <2>1. Len(buf) \in Nat /\ Len(out) \in Nat
    BY <1>3
  <2> QED BY <2>1, <1>3 DEF FlushPending, MoreWanted, Pending, ToCopy, Lesser
<1>5. /\ piece \in Seq(Int) /\ tail \in Seq(Int) /\ Rest' = tail
      /\ Rising(Rest) => Rising(piece) /\ Rising(tail) /\ Precedes(piece, tail)
      /\ \A u \in Seq(Int) : Precedes(u, Rest) => Precedes(u, piece) /\ Precedes(u, tail)
      /\ \A n \in Int : Below(Rest, n) => Below(piece, n) /\ Below(tail, n)
  <2>1. Rest' = tail
    BY <1>2 DEF Rest
  <2> QED BY <2>1, <1>3, <1>4, Parted DEF Rest
<1> HIDE DEF piece, tail
<1>6. /\ Rising(delivered) /\ Rising(out) /\ Rising(piece) /\ Rising(tail) /\ Precedes(piece, tail)
      /\ Precedes(out, piece) /\ Precedes(out, tail)
      /\ Precedes(delivered, out) /\ Precedes(delivered, piece) /\ Precedes(delivered, tail)
  BY <1>3, <1>5 DEF OInv, InOrder
<1>7. Rising(out') /\ Precedes(out', tail) /\ Precedes(delivered, out')
  <2>1. Rising(out') /\ Precedes(out', tail)
    BY <1>2, <1>3, <1>5, <1>6, Joined
  <2>2. Precedes(delivered, out')
    BY <1>2, <1>3, <1>5, <1>6, JoinedBehind
  <2> QED BY <2>1, <2>2
<1>8. InOrder'
  BY <1>2, <1>5, <1>6, <1>7 DEF InOrder
<1>9. ~eof => Below(out', lookahead) /\ Below(tail, lookahead) /\ Below(delivered, lookahead)
  BY <1>2, <1>3, <1>5, Joined DEF OInv, Behind
<1>10. Behind'
  BY <1>2, <1>5, <1>9 DEF OInv, Behind, Opened
<1>11. Unopened'
  BY <1>2 DEF Unopened, Opened
<1> QED BY <1>1, <1>8, <1>10, <1>11 DEF OInv

LEMMA OrderEndRead == ASSUME OInv, EndRead PROVE OInv'
<1>1. TypeInv /\ TypeInv'
  BY CallType DEF OInv
<1>2. /\ phase = "reading" /\ phase' \in {"done", "idle"}
      /\ out' = <<>> /\ delivered' = delivered \o out
      /\ UNCHANGED <<lookahead, pos, buf, buf_pos>>
      /\ eof' = eof /\ Rest' = Rest
  BY DEF EndRead, source, reader, Rest
<1>3. out \in Seq(Int) /\ delivered \in Seq(Int) /\ Rest \in Seq(Int) /\ lookahead \in Int
  BY <1>1, Pieces
<1>4. Rising(delivered') /\ Precedes(delivered', Rest)
  BY <1>2, <1>3, Joined DEF OInv, InOrder
<1>5. ~eof => Below(delivered', lookahead)
  BY <1>2, <1>3, Joined DEF OInv, Behind
<1>6. InOrder'
  BY <1>2, <1>4, NothingYet DEF OInv, InOrder
<1>7. Behind'
  BY <1>2, <1>5, NothingYet DEF OInv, Behind, Opened
<1>8. Unopened'
  BY <1>2 DEF Unopened, Opened
<1> QED BY <1>1, <1>6, <1>7, <1>8 DEF OInv

(* What a refill decrypts comes behind all that was decrypted before. *)
LEMMA Refilled ==
  ASSUME OInv, NEW fresh \in Seq(Int), ~eof, Rising(fresh),
         \A b \in 1..Len(fresh) : fresh[b] # Garbage => lookahead <= fresh[b]
  PROVE  Precedes(delivered, fresh) /\ Precedes(out, fresh)
<1>1. \A b \in 1..Len(fresh) : fresh[b] \in Int
  OBVIOUS
<1>2. /\ \A i \in 1..Len(delivered) : delivered[i] \in Int
      /\ \A i \in 1..Len(out) : out[i] \in Int
      /\ lookahead \in Int
  <2>1. out \in Seq(Int) /\ delivered \in Seq(Int) /\ lookahead \in Int
    BY Pieces DEF OInv
  <2> QED BY <2>1
<1>3. Below(delivered, lookahead) /\ Below(out, lookahead)
  BY DEF OInv, Behind
<1> QED BY <1>1, <1>2, <1>3 DEF Precedes, Below

LEMMA OrderChunk == ASSUME OInv, DecryptChunk PROVE OInv'
<1>1. TypeInv /\ TypeInv'
  BY ChunkType DEF OInv
<1> DEFINE n(got) == (Block + got) \div Block
<1>2. PICK got \in 1..BufferSize :
        /\ pos' = pos + got
        /\ buf' = DecryptBlocks(n(got) - 1)
        /\ lookahead' = BlockAt(n(got) - 1)
  BY DEF DecryptChunk
<1> DEFINE q == got \div Block
<1>3. got \in Nat /\ got >= 1
  BY ReaderAssumption
<1>4. q \in Nat /\ n(got) - 1 = q
  BY <1>3, ChunkBlocks, DivMod
<1>5. q * Block <= got /\ q * Block \in Nat
  <2>1. got % Block \in Nat /\ got = Block * q + (got % Block)
    BY <1>3, DivMod, BlockAssumption
  <2>2. q * Block \in Nat /\ Block * q = q * Block
    BY <1>4, Multiple
  <2> HIDE DEF q
  <2> QED BY <1>3, <2>1, <2>2
<1> HIDE DEF q
<1>6. /\ phase = "reading" /\ phase' = phase /\ ~eof /\ eof' = eof
      /\ buf_pos' = 0 /\ UNCHANGED <<out, delivered>>
  BY DEF DecryptChunk, MustRefill, MoreWanted, call
<1>7. lookahead \in Nat /\ pos \in Nat /\ lookahead + Block <= pos
  BY <1>1, <1>6, Pieces DEF OInv, Behind, Opened
<1>8. buf' = DecryptBlocks(q) /\ buf' \in Seq(Int) /\ Len(buf') = q * Block
  BY <1>1, <1>2, <1>4, DecryptBlocksType DEF TypeInv
<1>9. Rest' = buf'
  BY <1>6, <1>8 DEF Rest
<1>10. /\ Rising(Rest') /\ Below(Rest', lookahead')
       /\ \A b \in 1..Len(buf') : buf'[b] # Garbage => lookahead <= buf'[b]
  BY <1>1, <1>2, <1>4, <1>7, <1>8, <1>9, DecryptedRises
<1>11. Precedes(delivered, Rest') /\ Precedes(out, Rest')
  BY <1>6, <1>8, <1>9, <1>10, Refilled
<1>12. lookahead <= lookahead' /\ lookahead' + Block <= pos'
  <2>1. CASE q = 0
    BY <2>1, <1>2, <1>3, <1>4, <1>7, BlockAssumption DEF BlockAt
  <2>2. CASE q # 0
    <3>1. lookahead' = pos + (q - 1) * Block
      BY <2>2, <1>2, <1>4 DEF BlockAt
    <3>2. (q - 1) * Block = q * Block - Block
      BY <1>4, BlockAssumption
    <3>3. (q - 1) * Block \in Nat
      BY <2>2, <1>4, Multiple
    <3> QED BY <3>1, <3>2, <3>3, <1>2, <1>3, <1>5, <1>7, BlockAssumption
  <2> QED BY <2>1, <2>2
<1>13. Below(delivered, lookahead') /\ Below(out, lookahead')
  <2>1. /\ lookahead' \in Nat /\ Below(delivered, lookahead) /\ Below(out, lookahead)
        /\ out \in Seq(Int) /\ delivered \in Seq(Int)
    BY <1>1, <1>6, Pieces DEF OInv, Behind, TypeInv, TypeOK
  <2>2. /\ \A i \in 1..Len(delivered) : delivered[i] \in Int
        /\ \A i \in 1..Len(out) : out[i] \in Int
    BY <2>1
  <2> QED BY <2>1, <2>2, <1>7, <1>12 DEF Below
<1>14. InOrder'
  BY <1>6, <1>10, <1>11 DEF OInv, InOrder
<1>15. Behind'
  BY <1>6, <1>10, <1>12, <1>13 DEF Behind, Opened
<1>16. Unopened'
  BY <1>6 DEF Unopened, Opened
<1> QED BY <1>1, <1>14, <1>15, <1>16 DEF OInv

LEMMA OrderFinal == ASSUME OInv, FinalBlock PROVE OInv'
<1>1. TypeInv /\ TypeInv'
  BY FinalType DEF OInv
<1>2. /\ phase = "reading" /\ ~eof
      /\ UNCHANGED <<pos, filled, lookahead, delivered>>
  BY DEF FinalBlock, MustRefill, MoreWanted, source
<1>3. PICK pad \in PadCounts :
        \/ /\ pad > 0
           /\ buf' = Unpadded(pad) /\ buf_pos' = 0 /\ eof' = TRUE
           /\ UNCHANGED <<phase, out>>
        \/ /\ phase' = "failed" /\ out' = <<>>
           /\ UNCHANGED <<buf, buf_pos, eof>>
  BY DEF FinalBlock
<1>4. CASE phase' = "failed" /\ out' = <<>> /\ UNCHANGED <<buf, buf_pos, eof>>
  <2>1. Opened' /\ Opened /\ eof' = eof
    BY <1>2, <1>4 DEF Opened
  <2>2. Unopened'
    BY <2>1 DEF Unopened
  <2> QED BY <2>1, <2>2, <1>1, <1>2, <1>4, SameOrder
<1>5. CASE /\ pad > 0
           /\ buf' = Unpadded(pad) /\ buf_pos' = 0 /\ eof' = TRUE
           /\ UNCHANGED <<phase, out>>
  <2>1. pad \in 1..Block /\ Block - pad \in Nat /\ lookahead \in Nat
    <3>1. lastPad \in 0..Block /\ lookahead \in Nat
      BY <1>1 DEF TypeInv, TypeOK
    <3> QED BY <3>1, <1>3, <1>5, BlockAssumption DEF PadCounts
  <2>2. buf' \in Seq(Int) /\ Len(buf') = Block - pad
    BY <1>1, <1>5, <2>1, UnpaddedType DEF TypeInv
  <2>3. Rest' = buf'
    BY <1>5, <2>2 DEF Rest
  <2>4. ASSUME NEW b \in 1..Len(buf')
        PROVE  buf'[b] \in {Garbage, lookahead + (b - 1)} /\ b \in Nat /\ b >= 1
    BY <1>5, <2>1, <2>2 DEF Unpadded, DecryptByte
  <2>5. Rising(buf')
    BY <2>1, <2>4 DEF Rising
  <2>6. \A b \in 1..Len(buf') : buf'[b] # Garbage => lookahead <= buf'[b]
    BY <2>1, <2>4
  <2>7. Precedes(delivered, buf') /\ Precedes(out, buf')
    BY <1>2, <2>2, <2>5, <2>6, Refilled
  <2>8. InOrder'
    BY <1>2, <1>5, <2>3, <2>5, <2>7 DEF OInv, InOrder
  <2>9. Behind' /\ Unopened'
    BY <1>2, <1>5 DEF OInv, Behind, Unopened, Opened
  <2> QED BY <1>1, <2>8, <2>9 DEF OInv
<1> QED BY <1>3, <1>4, <1>5

(* A call begins, an error, a further attempt after one, and no step. *)
LEMMA OrderCalls ==
  ASSUME OInv,
         \/ TryAgain
         \/ \E len \in OutLens : BeginRead(len)
         \/ \E kind \in Faults : FailRead(kind)
         \/ UNCHANGED vars
  PROVE  OInv'
<1>1. /\ UNCHANGED <<lookahead, chain, pos, filled, buf, buf_pos, delivered>> /\ eof' = eof
      /\ out' \in {out, <<>>}
      /\ phase' # phase => {phase, phase'} \subseteq {"failed", "idle", "reading"}
  <2>1. CASE TryAgain
    BY <2>1 DEF TryAgain, source, reader, call
  <2>2. CASE \E len \in OutLens : BeginRead(len)
    BY <2>2 DEF BeginRead, source, reader
  <2>3. CASE \E kind \in Faults : FailRead(kind)
    BY <2>3 DEF FailRead, MustRefill, MoreWanted, source, reader
  <2>4. CASE UNCHANGED vars
    BY <2>4 DEF vars, source, reader, call
  <2> QED BY <2>1, <2>2, <2>3, <2>4
<1>2. TypeInv'
  <2>1. CASE TryAgain
    BY <2>1 DEF TryAgain, file, source, reader, call, OInv, TypeInv, TypeOK, Phases
  <2> QED BY <2>1, CallType DEF OInv
<1>3. Opened' = Opened
  BY <1>1 DEF Opened
<1>4. Unopened'
  BY <1>1 DEF OInv, Unopened, Opened
<1> QED BY <1>1, <1>2, <1>3, <1>4, SameOrder

LEMMA OrderInvariant == RetrySpec => []OInv
<1>1. RetryInit => OInv
  BY OrderInit
<1>2. OInv /\ [RetryNext]_retryVars => OInv'
  <2> SUFFICES ASSUME OInv, [RetryNext]_retryVars PROVE OInv'
    OBVIOUS
  <2>1. CASE FlushPending
    BY <2>1, OrderFlush
  <2>2. CASE DecryptChunk
    BY <2>2, OrderChunk
  <2>3. CASE FinalBlock
    BY <2>3, OrderFinal
  <2>4. CASE EndRead
    BY <2>4, OrderEndRead
  <2>5. CASE \E keyLen32 \in BOOLEAN : From(keyLen32)
    BY <2>5, OrderFrom
  <2>6. CASE \/ TryAgain
             \/ \E len \in OutLens : BeginRead(len)
             \/ \E kind \in Faults : FailRead(kind)
             \/ UNCHANGED vars
    BY <2>6, OrderCalls
  <2> QED BY <2>1, <2>2, <2>3, <2>4, <2>5, <2>6
             DEF RetryNext, Next, ReaderStep, CallerStep, Stopped, retryVars
<1> QED BY <1>1, <1>2, PTL DEF RetrySpec

(* However often the source is interrupted, fails or returns short, and the caller
   goes on, no byte of the plaintext reaches it twice or out of order. *)
THEOREM NothingComesTwice == RetrySpec => []NeverRepeats
<1>1. OInv => NeverRepeats
  BY DEF OInv, InOrder, Rising, NeverRepeats
<1> QED BY <1>1, OrderInvariant, PTL

-----------------------------------------------------------------------------
(* Nothing is wrong, over a source that does not return short: how much of what
   is decrypted waits in buf, and where the plaintext of this read() begins. *)
Waiting == Len(buf) - buf_pos
Reach == Plain - Waiting - Len(out)

(* The first n bytes that the caller has are bytes of the plaintext, in order. *)
Sorted(n) ==
  /\ \A i \in 1..n : delivered[i] \in Nat
  /\ \A i, j \in 1..n : i < j => delivered[i] < delivered[j]

-----------------------------------------------------------------------------
(* The inductive invariant. *)

(* The cipher is chained on the block before the lookahead, or, once the padding
   of the last block was found to be wrong, on the lookahead itself; then nothing
   waits. *)
ChainedOrSpent ==
  Opened /\ ~eof =>
    \/ chain = lookahead - Block
    \/ /\ chain = lookahead /\ pos = fileLen /\ (misled \/ phase = "failed")
       /\ buf_pos = Len(buf) /\ out = <<>>

(* All is plaintext, and what comes is behind what was delivered... *)
Sensible ==
  /\ Len(delivered) <= Reach /\ Len(buf) <= Plain
  /\ \A i \in 1..Len(buf) : buf[i] = Plain - Len(buf) + i - 1
  /\ \A i \in 1..Len(out) : out[i] = Reach + i - 1
  /\ \A i \in 1..Len(delivered) : delivered[i] < Reach
  /\ Sorted(Len(delivered))

(* ...or what comes is the last block, chained to itself. *)
Senseless ==
  /\ misled /\ eof
  /\ \A i \in 1..Len(buf) : buf[i] = Garbage
  /\ \A i \in 1..Len(out) : out[i] = Garbage
  /\ \E k \in 0..Len(delivered) :
       /\ Sorted(k)
       /\ \A i \in (k + 1)..Len(delivered) : delivered[i] = Garbage
       /\ (Len(delivered) - k) + Len(out) + Waiting < Block

Quiet ==
  /\ phase # "reading" => out = <<>>
  /\ phase = "failed" \/ ~Opened => ~eof

RInv ==
  /\ TypeInv /\ Unopened /\ Aligned /\ Quiet /\ misled \in BOOLEAN
  /\ ChainedOrSpent /\ (Sensible \/ Senseless)

-----------------------------------------------------------------------------
(* The steps that disturb neither what was decrypted nor what was delivered.  *)

LEMMA Sizes ==
  ASSUME TypeInv
  PROVE  /\ Len(buf) \in Nat /\ Len(out) \in Nat /\ Len(delivered) \in Nat
         /\ buf_pos \in Nat /\ buf_pos <= Len(buf) /\ want \in Nat
         /\ Plain \in Int /\ Waiting \in Nat /\ Reach \in Int
<1>1. /\ buf \in Seq(Int) /\ out \in Seq(Int) /\ delivered \in Seq(Int)
      /\ buf_pos \in 0..Len(buf) /\ lookahead \in Nat /\ lastPad \in 0..Block
      /\ want \in Nat
  BY ReaderAssumption DEF TypeInv, TypeOK
<1>2. /\ Len(buf) \in Nat /\ Len(out) \in Nat /\ Len(delivered) \in Nat
      /\ buf_pos \in Nat /\ buf_pos <= Len(buf)
  BY <1>1
<1>3. Plain \in Int
  BY <1>1, BlockAssumption DEF Plain
<1>4. Waiting \in Nat
  BY <1>2 DEF Waiting
<1>5. Reach \in Int
  BY <1>2, <1>3, <1>4 DEF Reach
<1> QED BY <1>1, <1>2, <1>3, <1>4, <1>5

LEMMA RetryInitInv == RetryInit => RInv
<1> SUFFICES ASSUME RetryInit PROVE RInv
  OBVIOUS
<1>1. Init /\ misled = FALSE
  BY DEF RetryInit
<1>2. TypeInv /\ Unopened /\ Aligned
  BY <1>1, InitInv DEF IInv
<1>3. /\ phase = "new" /\ lookahead = 0 /\ buf = <<>> /\ buf_pos = 0 /\ eof = FALSE
      /\ out = <<>> /\ delivered = <<>>
  BY <1>1 DEF Init
<1>4. Quiet /\ ChainedOrSpent
  BY <1>3 DEF Quiet, ChainedOrSpent, Opened
<1>5. Len(<<>>) = 0
  OBVIOUS
<1>6. Sensible
  BY <1>3, <1>5 DEF Sensible, Sorted, Reach, Plain, Waiting
<1> QED BY <1>1, <1>2, <1>4, <1>6 DEF RInv

(* After an error the bytes this read() had copied are lost; everything later in
   the stream is still behind what was delivered. *)
LEMMA LostButBehind ==
  ASSUME TypeInv, Sensible, buf_pos = Len(buf), out' = <<>>,
         UNCHANGED <<buf, buf_pos, eof, lookahead, lastPad, delivered>>
  PROVE  Sensible'
<1>1. Len(out') = 0
  OBVIOUS
<1>2. Waiting = 0 /\ Waiting' = 0 /\ Plain' = Plain
  BY Sizes DEF Waiting, Plain
<1>3. Reach' = Plain /\ Reach = Plain - Len(out)
  BY <1>1, <1>2, Sizes DEF Reach
<1>4. Reach <= Reach' /\ Reach' \in Int
  BY <1>3, Sizes
<1>5. Len(delivered') <= Reach' /\ Len(buf') <= Plain'
  BY <1>2, <1>4, Sizes DEF Sensible
<1>6. \A i \in 1..Len(delivered') : delivered'[i] < Reach'
  <2> SUFFICES ASSUME NEW i \in 1..Len(delivered) PROVE delivered[i] < Reach'
    OBVIOUS
  <2>1. delivered[i] \in Nat /\ delivered[i] < Reach
    BY DEF Sensible, Sorted
  <2> QED BY <2>1, <1>4, Sizes
<1>7. Sorted(Len(delivered))'
  BY DEF Sensible, Sorted
<1>8. \A i \in 1..Len(buf') : buf'[i] = Plain' - Len(buf') + i - 1
  BY <1>2 DEF Sensible
<1> QED BY <1>1, <1>5, <1>6, <1>7, <1>8 DEF Sensible

LEMMA FromKeepsR ==
  ASSUME ~ShortReads, RInv, NEW keyLen32, From(keyLen32), misled' = misled
  PROVE  RInv'
<1>1. TypeInv /\ TypeInv'
  BY FromType DEF RInv
<1>2. /\ phase = "new" /\ ~Opened
      /\ UNCHANGED <<fileLen, lastPad, lookahead, chain, buf, buf_pos, want, out, delivered>>
      /\ eof' = eof
  BY DEF From, file, reader, call, Opened
<1>3. /\ lookahead = 0 /\ chain = ZeroIV /\ buf = <<>> /\ buf_pos = 0 /\ eof = FALSE
      /\ out = <<>> /\ delivered = <<>> /\ pos = 0 /\ filled = 0
  BY <1>2 DEF RInv, Unopened
<1>4. Len(<<>>) = 0
  OBVIOUS
<1>5. Sensible'
  BY <1>2, <1>3, <1>4 DEF Sensible, Sorted, Reach, Plain, Waiting
<1>6. Quiet' /\ misled' \in BOOLEAN
  BY <1>2, <1>3 DEF Quiet, RInv
<1>7. CASE phase' = "refused"
  <2>1. Unopened' /\ Aligned' /\ ChainedOrSpent'
    BY <1>2, <1>3, <1>7 DEF Unopened, Aligned, ChainedOrSpent, Opened
  <2> QED BY <1>1, <1>5, <1>6, <2>1 DEF RInv
<1>8. CASE phase' # "refused"
  <2>1. PICK got \in 0..Block, left \in 0..BufferSize :
             /\ BufRead(Block, got, left)
             /\ pos' = pos + got /\ filled' = left
             /\ phase' = IF FirstBlock(got) THEN "idle" ELSE "refused"
    BY <1>8 DEF From
  <2>2. got = Block /\ phase' = "idle" /\ pos' = Block /\ filled' = left
    BY <1>3, <1>8, <2>1, BlockAssumption DEF FirstBlock
  <2>3. left % Block = 0 \/ Block + left = fileLen
    BY <1>1, <1>3, <2>1, <2>2, FirstRead
  <2>4. 0 % Block = 0 /\ Block % Block = 0 /\ Whole(Block) = Block
    BY BlockAssumption, WholeFacts
  <2>5. Unopened' /\ Aligned' /\ ChainedOrSpent'
    BY <1>2, <1>3, <2>2, <2>3, <2>4, BlockAssumption
       DEF Unopened, Aligned, ChainedOrSpent, Opened, ZeroIV
  <2> QED BY <1>1, <1>5, <1>6, <2>5 DEF RInv
<1> QED BY <1>7, <1>8

(* A call that begins, an error, a further attempt after one, and no step. *)
LEMMA BeginKeepsR ==
  ASSUME RInv, NEW len \in OutLens, BeginRead(len), misled' = misled
  PROVE  RInv'
<1>1. TypeInv /\ TypeInv'
  BY CallType DEF RInv
<1>2. /\ phase = "idle" /\ phase' = "reading" /\ out' = <<>> /\ out = <<>>
      /\ UNCHANGED <<fileLen, lastPad, pos, filled, lookahead, chain, buf, buf_pos, delivered>>
      /\ eof' = eof
  BY DEF BeginRead, file, source, reader, RInv, Quiet
<1>3. Unopened' /\ Aligned' /\ Quiet'
  BY <1>2 DEF RInv, Unopened, Aligned, Quiet, Opened
<1>4. ChainedOrSpent' /\ misled' \in BOOLEAN
  BY <1>2 DEF RInv, ChainedOrSpent, Opened
<1>5. Sensible \/ Senseless
  BY DEF RInv
<1>6. Waiting' = Waiting /\ Reach' = Reach /\ Plain' = Plain
  BY <1>2 DEF Waiting, Reach, Plain
<1>7. Sensible => Sensible'
  BY <1>2, <1>6 DEF Sensible, Sorted
<1>8. Senseless => Senseless'
  BY <1>2, <1>6 DEF Senseless, Sorted
<1> QED BY <1>1, <1>3, <1>4, <1>5, <1>7, <1>8 DEF RInv

LEMMA FailKeepsR ==
  ASSUME RInv, NEW kind \in Faults, FailRead(kind), misled' = misled
  PROVE  RInv'
<1>1. TypeInv /\ TypeInv'
  BY CallType DEF RInv
<1>2. /\ phase = "reading" /\ phase' \in {"idle", "failed"} /\ out' = <<>> /\ ~eof
      /\ buf_pos = Len(buf)
      /\ UNCHANGED <<fileLen, lastPad, pos, filled, lookahead, chain, buf, buf_pos, delivered>>
      /\ eof' = eof
  BY <1>1 DEF FailRead, MustRefill, MoreWanted, Pending, file, source, reader, TypeInv, TypeOK
<1>3. Unopened' /\ Aligned' /\ Quiet'
  BY <1>2 DEF RInv, Unopened, Aligned, Quiet, Opened
<1>4. ChainedOrSpent' /\ misled' \in BOOLEAN
  BY <1>2 DEF RInv, ChainedOrSpent, Opened
<1>5. Sensible
  BY <1>2 DEF RInv, Senseless
<1>6. Sensible'
  BY <1>1, <1>2, <1>5, LostButBehind
<1> QED BY <1>1, <1>3, <1>4, <1>6 DEF RInv

LEMMA TryAgainKeepsR == ASSUME RInv, TryAgain PROVE RInv'
<1>1. /\ phase = "failed" /\ phase' = "idle" /\ ~eof /\ out = <<>>
      /\ misled' = (misled \/ PaddingError)
      /\ UNCHANGED <<fileLen, lastPad, pos, filled, lookahead, chain, buf, buf_pos, want, out,
                     delivered>>
      /\ eof' = eof
  BY DEF TryAgain, file, source, reader, call, RInv, Quiet
<1>2. TypeInv'
  BY <1>1 DEF RInv, TypeInv, TypeOK, Phases
<1>3. Unopened' /\ Aligned' /\ Quiet' /\ misled' \in BOOLEAN
  BY <1>1 DEF RInv, Unopened, Aligned, Quiet, Opened, PaddingError
<1>4. ChainedOrSpent'
  BY <1>1 DEF RInv, ChainedOrSpent, Opened, PaddingError
<1>5. Sensible
  BY <1>1 DEF RInv, Senseless
<1>6. Sensible'
  BY <1>1, <1>5 DEF Sensible, Sorted, Waiting, Reach, Plain
<1> QED BY <1>2, <1>3, <1>4, <1>6 DEF RInv

LEMMA StutterKeepsR == ASSUME RInv, UNCHANGED retryVars PROVE RInv'
<1>1. /\ UNCHANGED <<fileLen, lastPad, pos, filled, lookahead, chain, buf, buf_pos, phase,
                     want, out, delivered>>
      /\ eof' = eof /\ misled' = misled
  BY DEF retryVars, vars, file, source, reader, call
<1>2. TypeInv' /\ Unopened' /\ Aligned' /\ Quiet' /\ misled' \in BOOLEAN
  BY <1>1 DEF RInv, TypeInv, TypeOK, Unopened, Aligned, Quiet, Opened
<1>3. ChainedOrSpent'
  BY <1>1 DEF RInv, ChainedOrSpent, Opened
<1>4. Sensible => Sensible'
  BY <1>1 DEF Sensible, Sorted, Waiting, Reach, Plain
<1>5. Senseless => Senseless'
  BY <1>1 DEF Senseless, Sorted, Waiting
<1> QED BY <1>2, <1>3, <1>4, <1>5 DEF RInv

-----------------------------------------------------------------------------
(* The steps that move plaintext.                                           *)

LEMMA FlushKeepsR == ASSUME RInv, FlushPending, misled' = misled PROVE RInv'
<1>1. TypeInv /\ TypeInv'
  BY FlushType DEF RInv
<1> DEFINE piece == SubSeq(buf, buf_pos + 1, buf_pos + ToCopy)
<1>2. /\ phase = "reading" /\ phase' = phase
      /\ out' = out \o piece /\ buf_pos' = buf_pos + ToCopy
      /\ UNCHANGED <<fileLen, lastPad, pos, filled, lookahead, chain, buf, delivered>>
      /\ eof' = eof
  BY DEF FlushPending, MoreWanted, file, source
<1>s. /\ Len(buf) \in Nat /\ Len(out) \in Nat /\ Len(delivered) \in Nat
      /\ buf_pos \in Nat /\ buf_pos <= Len(buf) /\ want \in Nat
      /\ Plain \in Int /\ Waiting \in Nat /\ Reach \in Int
  BY <1>1, Sizes
<1>q. buf \in Seq(Int) /\ out \in Seq(Int)
  BY <1>1 DEF TypeInv, TypeOK
<1>3. ToCopy \in Nat \ {0} /\ buf_pos + ToCopy <= Len(buf)
  BY <1>s DEF FlushPending, MoreWanted, Pending, ToCopy, Lesser
<1>4. /\ piece \in Seq(Int) /\ Len(piece) = ToCopy
      /\ \A k \in 1..ToCopy : piece[k] = buf[buf_pos + k] /\ buf_pos + k \in 1..Len(buf)
  BY <1>3, <1>s, <1>q
<1> HIDE DEF piece
<1>5. /\ Len(out') = Len(out) + ToCopy
      /\ \A k \in 1..Len(out) : out'[k] = out[k]
      /\ \A k \in (Len(out) + 1)..(Len(out) + ToCopy) : out'[k] = piece[k - Len(out)]
  BY <1>2, <1>4, <1>q, Concatenated
<1>6. ASSUME NEW k \in 1..Len(out')
      PROVE  \/ k <= Len(out) /\ out'[k] = out[k]
             \/ /\ k > Len(out) /\ buf_pos + (k - Len(out)) \in 1..Len(buf)
                /\ out'[k] = buf[buf_pos + (k - Len(out))]
  <2>1. CASE k <= Len(out)
    BY <2>1, <1>5, <1>s
  <2>2. CASE ~(k <= Len(out))
    <3>1. Len(out') = Len(out) + ToCopy /\ Len(out) \in Nat /\ ToCopy \in Nat
      BY <1>3, <1>5, <1>s
    <3>2. k > Len(out) /\ k - Len(out) \in 1..ToCopy /\ k \in (Len(out) + 1)..(Len(out) + ToCopy)
      BY <2>2, <3>1
    <3>3. out'[k] = piece[k - Len(out)]
      BY <3>2, <1>5
    <3> QED BY <3>2, <3>3, <1>4
  <2> QED BY <2>1, <2>2
<1>7. /\ Waiting' = Waiting - ToCopy /\ Plain' = Plain /\ Reach' = Reach
      /\ Len(out') + Waiting' = Len(out) + Waiting
  <2>1. Waiting' = Waiting - ToCopy /\ Plain' = Plain
    BY <1>2, <1>3, <1>s DEF Waiting, Plain
  <2> QED BY <2>1, <1>3, <1>5, <1>s DEF Reach
<1>8. buf_pos # Len(buf)
  BY <1>3, <1>s
<1>9. Unopened' /\ Aligned' /\ Quiet' /\ misled' \in BOOLEAN
  BY <1>2 DEF RInv, Unopened, Aligned, Quiet, Opened
<1>10. ChainedOrSpent'
  BY <1>2, <1>8 DEF RInv, ChainedOrSpent, Opened
<1>11. ASSUME Sensible PROVE Sensible'
  <2>1. ASSUME NEW k \in 1..Len(out') PROVE out'[k] = Reach + k - 1
    <3>1. CASE k <= Len(out) /\ out'[k] = out[k]
      <4>1. k \in 1..Len(out)
        BY <3>1, <1>s
      <4> QED BY <3>1, <4>1, <1>11 DEF Sensible
    <3>2. CASE /\ k > Len(out) /\ buf_pos + (k - Len(out)) \in 1..Len(buf)
               /\ out'[k] = buf[buf_pos + (k - Len(out))]
      <4>1. buf[buf_pos + (k - Len(out))] = Plain - Len(buf) + (buf_pos + (k - Len(out))) - 1
        BY <3>2, <1>11 DEF Sensible
      <4> QED BY <3>2, <4>1, <1>s DEF Reach, Waiting
    <3> QED BY <3>1, <3>2, <1>6
  <2> QED BY <2>1, <1>2, <1>7, <1>11 DEF Sensible, Sorted
<1>12. ASSUME Senseless PROVE Senseless'
  <2>1. ASSUME NEW k \in 1..Len(out') PROVE out'[k] = Garbage
    <3>1. CASE k <= Len(out) /\ out'[k] = out[k]
      <4>1. k \in 1..Len(out)
        BY <3>1, <1>s
      <4> QED BY <3>1, <4>1, <1>12 DEF Senseless
    <3>2. CASE /\ k > Len(out) /\ buf_pos + (k - Len(out)) \in 1..Len(buf)
               /\ out'[k] = buf[buf_pos + (k - Len(out))]
      BY <3>2, <1>12 DEF Senseless
    <3> QED BY <3>1, <3>2, <1>6
  <2>2. PICK n \in 0..Len(delivered) :
          /\ Sorted(n)
          /\ \A i \in (n + 1)..Len(delivered) : delivered[i] = Garbage
          /\ (Len(delivered) - n) + Len(out) + Waiting < Block
    BY <1>12 DEF Senseless
  <2>3. (Len(delivered) - n) + Len(out') + Waiting' < Block
    BY <2>2, <1>3, <1>5, <1>7, <1>s, BlockAssumption
  <2> QED BY <2>1, <2>2, <2>3, <1>2, <1>12 DEF Senseless, Sorted
<1> QED BY <1>1, <1>9, <1>10, <1>11, <1>12 DEF RInv

LEMMA EndReadKeepsR == ASSUME RInv, EndRead, misled' = misled PROVE RInv'
<1>1. TypeInv /\ TypeInv'
  BY CallType DEF RInv
<1>2. /\ phase = "reading"
      /\ delivered' = delivered \o out /\ out' = <<>>
      /\ phase' \in {"done", "idle"}
      /\ UNCHANGED <<fileLen, lastPad, pos, filled, lookahead, chain, buf, buf_pos>>
      /\ eof' = eof
  BY DEF EndRead, file, source, reader
<1>s. /\ Len(buf) \in Nat /\ Len(out) \in Nat /\ Len(delivered) \in Nat
      /\ Plain \in Int /\ Waiting \in Nat /\ Reach \in Int
  BY <1>1, Sizes
<1>q. delivered \in Seq(Int) /\ out \in Seq(Int)
  BY <1>1 DEF TypeInv, TypeOK
<1>3. /\ Len(delivered') = Len(delivered) + Len(out) /\ Len(out') = 0
      /\ \A i \in 1..Len(delivered) : delivered'[i] = delivered[i]
      /\ \A i \in (Len(delivered) + 1)..Len(delivered') :
           delivered'[i] = out[i - Len(delivered)]
  <2>1. Len(out') = 0
    BY <1>2
  <2> QED BY <2>1, <1>2, <1>q, Concatenated
<1>4. ASSUME NEW i \in 1..Len(delivered')
      PROVE  \/ i \in 1..Len(delivered) /\ delivered'[i] = delivered[i]
             \/ /\ i > Len(delivered) /\ i - Len(delivered) \in 1..Len(out)
                /\ delivered'[i] = out[i - Len(delivered)]
  <2>1. i \in 1..Len(delivered) \/ i \in (Len(delivered) + 1)..Len(delivered')
    BY <1>3, <1>s
  <2> QED BY <2>1, <1>3, <1>s
<1>5. Opened /\ Opened' /\ phase' # "failed"
  BY <1>2 DEF Opened
<1>6. Unopened' /\ Aligned' /\ Quiet' /\ misled' \in BOOLEAN
  BY <1>2, <1>5 DEF RInv, Unopened, Aligned, Quiet
<1>7. ChainedOrSpent'
  BY <1>2, <1>5 DEF RInv, ChainedOrSpent
<1>8. Waiting' = Waiting /\ Plain' = Plain /\ Reach' = Reach + Len(out)
  <2>1. Waiting' = Waiting /\ Plain' = Plain
    BY <1>2 DEF Waiting, Plain
  <2> QED BY <2>1, <1>3, <1>s DEF Reach
<1>9. ASSUME Sensible PROVE Sensible'
  <2>1. /\ Len(delivered) <= Reach
        /\ \A i \in 1..Len(delivered) : delivered[i] \in Nat /\ delivered[i] < Reach
        /\ \A i \in 1..Len(out) : out[i] = Reach + i - 1
        /\ \A i, j \in 1..Len(delivered) : i < j => delivered[i] < delivered[j]
    BY <1>9 DEF Sensible, Sorted
  <2>2. Reach \in Nat
    BY <2>1, <1>s
  <2>3. ASSUME NEW i \in 1..Len(delivered')
        PROVE  delivered'[i] \in Nat /\ delivered'[i] < Reach'
    <3>1. CASE i \in 1..Len(delivered) /\ delivered'[i] = delivered[i]
      BY <3>1, <2>1, <2>2, <1>8, <1>s
    <3>2. CASE /\ i > Len(delivered) /\ i - Len(delivered) \in 1..Len(out)
               /\ delivered'[i] = out[i - Len(delivered)]
      <4>1. delivered'[i] = Reach + (i - Len(delivered)) - 1
        BY <3>2, <2>1
      <4> QED BY <4>1, <3>2, <2>2, <1>8, <1>s
    <3> QED BY <3>1, <3>2, <1>4
  <2>4. ASSUME NEW i \in 1..Len(delivered'), NEW j \in 1..Len(delivered'), i < j
        PROVE  delivered'[i] < delivered'[j]
    <3>1. CASE j \in 1..Len(delivered) /\ delivered'[j] = delivered[j]
      <4>1. i \in 1..Len(delivered) /\ delivered'[i] = delivered[i]
        BY <2>4, <3>1, <1>3, <1>s
      <4> QED BY <3>1, <4>1, <2>1, <2>4
    <3>2. CASE /\ j > Len(delivered) /\ j - Len(delivered) \in 1..Len(out)
               /\ delivered'[j] = out[j - Len(delivered)]
      <4>1. delivered'[j] = Reach + (j - Len(delivered)) - 1
        BY <3>2, <2>1
      <4>2. CASE i \in 1..Len(delivered) /\ delivered'[i] = delivered[i]
        BY <4>1, <4>2, <3>2, <2>1, <2>2, <1>s
      <4>3. CASE /\ i > Len(delivered) /\ i - Len(delivered) \in 1..Len(out)
                 /\ delivered'[i] = out[i - Len(delivered)]
        <5>1. delivered'[i] = Reach + (i - Len(delivered)) - 1
          BY <4>3, <2>1
        <5> QED BY <4>1, <5>1, <2>4, <2>2, <1>s
      <4> QED BY <4>2, <4>3, <1>4
    <3> QED BY <3>1, <3>2, <1>4
  <2>5. Len(delivered') <= Reach' /\ Len(buf') <= Plain'
    BY <2>1, <2>2, <1>2, <1>3, <1>8, <1>9, <1>s DEF Sensible
  <2>6. Sorted(Len(delivered))'
    BY <2>3, <2>4 DEF Sorted
  <2>7. \A i \in 1..Len(buf') : buf'[i] = Plain' - Len(buf') + i - 1
    BY <1>2, <1>8, <1>9 DEF Sensible
  <2> QED BY <2>3, <2>5, <2>6, <2>7, <1>3 DEF Sensible
<1>10. ASSUME Senseless PROVE Senseless'
  <2>1. PICK n \in 0..Len(delivered) :
          /\ Sorted(n)
          /\ \A i \in (n + 1)..Len(delivered) : delivered[i] = Garbage
          /\ (Len(delivered) - n) + Len(out) + Waiting < Block
    BY <1>10 DEF Senseless
  <2>2. n \in 0..Len(delivered') /\ (Len(delivered') - n) + Len(out') + Waiting' < Block
    BY <2>1, <1>3, <1>8, <1>s, BlockAssumption
  <2>3. ASSUME NEW i \in (n + 1)..Len(delivered') PROVE delivered'[i] = Garbage
    <3>1. i \in 1..Len(delivered')
      BY <2>1, <1>s
    <3>2. CASE i \in 1..Len(delivered) /\ delivered'[i] = delivered[i]
      BY <3>2, <2>1, <1>s
    <3>3. CASE i - Len(delivered) \in 1..Len(out) /\ delivered'[i] = out[i - Len(delivered)]
      BY <3>3, <1>10 DEF Senseless
    <3> QED BY <3>1, <3>2, <3>3, <1>4
  <2>4. Sorted(n)'
    <3>1. \A i \in 1..n : i \in 1..Len(delivered)
      BY <2>1, <1>s
    <3> QED BY <3>1, <2>1, <1>3 DEF Sorted
  <2>5. /\ misled' /\ eof'
        /\ \A i \in 1..Len(buf') : buf'[i] = Garbage
        /\ \A i \in 1..Len(out') : out'[i] = Garbage
    BY <1>2, <1>3, <1>10 DEF Senseless
  <2> QED BY <2>2, <2>3, <2>4, <2>5 DEF Senseless, Sorted
<1> QED BY <1>1, <1>6, <1>7, <1>9, <1>10 DEF RInv

LEMMA ChunkKeepsR ==
  ASSUME ~ShortReads, RInv, DecryptChunk, misled' = misled
  PROVE  RInv'
<1>1. TypeInv /\ TypeInv'
  BY ChunkType DEF RInv
<1> DEFINE n(got) == (Block + got) \div Block
<1>2. PICK got \in 1..BufferSize, left \in 0..BufferSize :
        /\ BufRead(BufferSize, got, left)
        /\ pos' = pos + got /\ filled' = left
        /\ buf' = DecryptBlocks(n(got) - 1)
        /\ lookahead' = BlockAt(n(got) - 1)
        /\ chain' = IF n(got) = 1 THEN chain ELSE BlockAt(n(got) - 2)
  BY DEF DecryptChunk
<1> DEFINE q == got \div Block
<1>3. got \in Nat /\ got >= 1 /\ left \in Nat
  BY ReaderAssumption
<1>4. q \in Nat /\ n(got) - 1 = q /\ (q # 0 => n(got) # 1 /\ n(got) - 2 = q - 1) /\ (q = 0 => n(got) = 1)
  BY <1>3, ChunkBlocks, DivMod
<1> HIDE DEF q
<1>5. /\ phase = "reading" /\ phase' = phase /\ ~eof /\ eof' = eof /\ buf_pos = Len(buf)
      /\ buf_pos' = 0 /\ UNCHANGED <<fileLen, lastPad, want, out, delivered>>
  BY <1>1 DEF DecryptChunk, MustRefill, MoreWanted, Pending, TypeInv, TypeOK, file, call
<1>6. pos + got + left <= fileLen
  BY <1>1, <1>2, <1>3, BufReadBounds, ReaderAssumption
<1>7. pos \in Nat /\ fileLen \in Nat /\ lookahead \in Nat /\ pos # fileLen
  BY <1>1, <1>3, <1>6, ReaderAssumption DEF TypeInv, TypeOK
<1>8. /\ lookahead % Block = 0 /\ lookahead + Block = Whole(pos) /\ pos % Block = 0
      /\ filled % Block = 0 \/ pos + filled = fileLen
      /\ chain = lookahead - Block
  BY <1>5, <1>7 DEF RInv, Aligned, ChainedOrSpent, Opened
<1>9. pos = lookahead + Block
  BY <1>7, <1>8, WholeFacts
<1>10. left = 0 /\ (got % Block = 0 \/ pos + got = fileLen)
  BY <1>1, <1>2, <1>8, ChunkFromFillingSource
<1>11. q * Block \in Nat /\ Block * q = q * Block /\ (q * Block) % Block = 0
  BY <1>4, Multiple
<1>12. lookahead' = lookahead + q * Block
  BY <1>1, <1>2, <1>4, <1>9, BlocksInARow
<1>13. buf' = DecryptBlocks(q) /\ Len(buf') = q * Block
  BY <1>1, <1>2, <1>4, DecryptBlocksType DEF TypeInv
<1>14. Unopened' /\ Quiet' /\ misled' \in BOOLEAN
  BY <1>5 DEF RInv, Unopened, Quiet, Opened
<1>15. Aligned'
  <2>1. lookahead' % Block = 0
    BY <1>7, <1>8, <1>11, <1>12, AfterBlocks
  <2>2. Whole(pos + got) = pos + q * Block
    <3>1. Whole(got) = q * Block
      BY <1>3, <1>11, WholeFacts DEF q
    <3> QED BY <1>3, <1>7, <1>8, <3>1, WholeAfterBlocks
  <2>3. (pos + got) % Block = got % Block
    BY <1>3, <1>7, <1>8, AfterBlocks
  <2>4. 0 % Block = 0
    BY BlockAssumption
  <2>5. lookahead' + Block = Whole(pos')
    BY <1>2, <1>7, <1>9, <1>11, <1>12, <2>2, BlockAssumption
  <2>6. (pos' % Block = 0 \/ pos' = fileLen') /\ filled' = 0
    BY <1>2, <1>5, <1>10, <2>3
  <2> QED BY <2>1, <2>4, <2>5, <2>6 DEF Aligned
<1>16. ChainedOrSpent'
  <2>1. CASE q = 0
    BY <2>1, <1>2, <1>4, <1>7, <1>8, <1>12, BlockAssumption DEF ChainedOrSpent
  <2>2. CASE q # 0
    <3>1. chain' = BlockAt(q - 1) /\ q - 1 \in Nat
      BY <2>2, <1>2, <1>4
    <3>2. chain' = lookahead + (q - 1) * Block
      BY <3>1, <1>1, <1>9, BlocksInARow
    <3>3. (q - 1) * Block = q * Block - Block
      BY <1>4, BlockAssumption
    <3>4. chain' = lookahead' - Block
      BY <3>2, <3>3, <1>7, <1>11, <1>12, BlockAssumption
    <3> QED BY <3>4 DEF ChainedOrSpent
  <2> QED BY <2>1, <2>2
<1>17. Sensible
  BY <1>5 DEF RInv, Senseless
<1>18. Plain' = lookahead + q * Block /\ Plain = lookahead /\ Waiting = 0 /\ Waiting' = q * Block
  BY <1>1, <1>5, <1>11, <1>12, <1>13, Sizes DEF Plain, Waiting
<1>19. Reach' = Reach /\ Len(buf') <= Plain'
  BY <1>1, <1>5, <1>7, <1>11, <1>13, <1>18, Sizes DEF Reach
<1>20. ASSUME NEW b \in 1..Len(buf') PROVE buf'[b] = Plain' - Len(buf') + b - 1
  <2>1. buf'[b] = lookahead + b - 1
    BY <1>1, <1>4, <1>8, <1>9, <1>13, DecryptedInARow
  <2> QED BY <2>1, <1>7, <1>11, <1>13, <1>18
<1>21. Sensible'
  BY <1>5, <1>17, <1>19, <1>20 DEF Sensible, Sorted
<1> QED BY <1>1, <1>14, <1>15, <1>16, <1>21 DEF RInv

(* The last block: the plaintext before its padding, a padding error, or, when it
   goes through the cipher again, whatever comes of that. *)
LEMMA FinalKeepsR ==
  ASSUME ~ShortReads, RInv, FinalBlock, misled' = misled
  PROVE  RInv'
<1>1. TypeInv /\ TypeInv'
  BY FinalType DEF RInv
<1>2. /\ phase = "reading" /\ ~eof /\ buf_pos = Len(buf) /\ BufRead(BufferSize, 0, 0)
      /\ chain' = lookahead
      /\ UNCHANGED <<fileLen, lastPad, pos, filled, lookahead, want, delivered>>
  BY <1>1 DEF FinalBlock, MustRefill, MoreWanted, Pending, TypeInv, TypeOK, file, source
<1>3. pos = fileLen
  BY <1>1, <1>2, EndOfFile
<1>4. /\ lookahead + Block = Whole(fileLen) /\ lookahead % Block = 0
      /\ \/ chain = lookahead - Block
         \/ chain = lookahead /\ misled /\ out = <<>>
  BY <1>2, <1>3 DEF RInv, Aligned, ChainedOrSpent, Opened
<1>5. Sensible
  BY <1>2 DEF RInv, Senseless
<1>6. lookahead \in Nat /\ lastPad \in 0..Block
  BY <1>1 DEF TypeInv, TypeOK
<1>7. PICK pad \in PadCounts :
        \/ /\ pad > 0
           /\ buf' = Unpadded(pad) /\ buf_pos' = 0 /\ eof' = TRUE
           /\ UNCHANGED <<phase, out>>
        \/ /\ pad = 0
           /\ phase' = "failed" /\ out' = <<>>
           /\ UNCHANGED <<buf, buf_pos, eof>>
  BY DEF FinalBlock
<1>8. pad \in 0..Block /\ (chain = lookahead - Block => pad = lastPad)
  BY <1>4, <1>6, <1>7 DEF PadCounts
<1>9. Unopened' /\ Aligned' /\ Quiet' /\ misled' \in BOOLEAN
  <2>1. \/ eof' = TRUE /\ phase' = phase /\ out' = out
        \/ phase' = "failed" /\ out' = <<>> /\ eof' = eof
    BY <1>7
  <2> QED BY <2>1, <1>2 DEF RInv, Unopened, Aligned, Quiet, Opened
<1>10. CASE pad = 0
  <2>1. phase' = "failed" /\ out' = <<>> /\ UNCHANGED <<buf, buf_pos>> /\ eof' = eof
    BY <1>7, <1>10
  <2>2. ChainedOrSpent'
    BY <1>2, <1>3, <2>1 DEF ChainedOrSpent
  <2>3. Sensible'
    BY <1>1, <1>2, <1>5, <2>1, LostButBehind
  <2> QED BY <1>1, <1>9, <2>2, <2>3 DEF RInv
<1>11. CASE pad # 0
  <2>1. /\ buf' = Unpadded(pad) /\ buf_pos' = 0 /\ eof' = TRUE
        /\ phase' = phase /\ out' = out
    BY <1>7, <1>11
  <2>2. pad \in 1..Block /\ Block - pad \in Nat
    BY <1>8, <1>11, BlockAssumption
  <2>3. Len(buf') = Block - pad
    BY <1>1, <2>1, <2>2, UnpaddedType DEF TypeInv
  <2>4. ASSUME NEW b \in 1..Len(buf')
        PROVE  buf'[b] = DecryptByte(lookahead, chain, b - 1) /\ b \in Nat
    BY <2>1, <2>2, <2>3 DEF Unpadded
  <2>5. ChainedOrSpent'
    BY <2>1 DEF ChainedOrSpent
  <2>6. Waiting = 0 /\ Waiting' = Block - pad
    BY <1>1, <1>2, <2>1, <2>2, <2>3, Sizes DEF Waiting
  <2>7. CASE chain = lookahead - Block
    <3>1. Plain = lookahead /\ Plain' = lookahead + (Block - pad)
      BY <1>2, <1>6, <1>8, <2>1, <2>2, <2>7, BlockAssumption DEF Plain
    <3>2. Reach' = Reach /\ Len(buf') <= Plain'
      BY <1>1, <1>6, <2>1, <2>2, <2>3, <2>6, <3>1, Sizes DEF Reach
    <3>3. ASSUME NEW b \in 1..Len(buf') PROVE buf'[b] = Plain' - Len(buf') + b - 1
      <4>1. buf'[b] = lookahead + (b - 1)
        BY <2>4, <2>7, <1>4 DEF DecryptByte
      <4> QED BY <4>1, <3>1, <2>2, <2>3, <2>4, <1>6
    <3>4. Sensible'
      BY <1>2, <1>5, <2>1, <3>2, <3>3 DEF Sensible, Sorted
    <3> QED BY <1>1, <1>9, <2>5, <3>4 DEF RInv
  <2>8. CASE chain = lookahead /\ misled /\ out = <<>>
    <3>1. \A b \in 1..Len(buf') : buf'[b] = Garbage
      BY <2>4, <2>8, <1>6, BlockAssumption DEF DecryptByte
    <3>2. Len(out') = 0 /\ Len(delivered') = Len(delivered)
      BY <2>1, <2>8, <1>2
    <3>3. /\ Len(delivered) \in 0..Len(delivered') /\ Sorted(Len(delivered))'
          /\ \A i \in (Len(delivered) + 1)..Len(delivered') : delivered'[i] = Garbage
          /\ (Len(delivered') - Len(delivered)) + Len(out') + Waiting' < Block
      <4>1. Len(delivered) \in Nat
        BY <1>1, Sizes
      <4>2. /\ Len(delivered) \in 0..Len(delivered')
            /\ \A i \in (Len(delivered) + 1)..Len(delivered') : delivered'[i] = Garbage
            /\ (Len(delivered') - Len(delivered)) + Len(out') + Waiting' < Block
        BY <4>1, <3>2, <2>2, <2>6, BlockAssumption
      <4>3. Sorted(Len(delivered))'
        BY <1>2, <1>5 DEF Sensible, Sorted
      <4> QED BY <4>2, <4>3
    <3>4. \A i \in 1..Len(out') : out'[i] = Garbage
      BY <3>2
    <3>5. Senseless'
      <4>1. misled' /\ eof' /\ delivered' = delivered
        BY <2>1, <2>8, <1>2
      <4> QED BY <4>1, <3>1, <3>2, <3>3, <3>4 DEF Senseless, Sorted
    <3> QED BY <1>1, <1>9, <2>5, <3>5 DEF RInv
  <2> QED BY <1>4, <2>7, <2>8
<1> QED BY <1>10, <1>11

-----------------------------------------------------------------------------
(* The theorem.                                                             *)

LEMMA RetryInvariant == ASSUME ~ShortReads PROVE RetrySpec => []RInv
<1>1. RetryInit => RInv
  BY RetryInitInv
<1>2. RInv /\ [RetryNext]_retryVars => RInv'
  <2> SUFFICES ASSUME RInv, [RetryNext]_retryVars PROVE RInv'
    OBVIOUS
  <2>1. CASE TryAgain
    BY <2>1, TryAgainKeepsR
  <2>2. CASE misled' = misled /\ FlushPending
    BY <2>2, FlushKeepsR
  <2>3. CASE misled' = misled /\ DecryptChunk
    BY <2>3, ChunkKeepsR
  <2>4. CASE misled' = misled /\ FinalBlock
    BY <2>4, FinalKeepsR
  <2>5. CASE misled' = misled /\ EndRead
    BY <2>5, EndReadKeepsR
  <2>6. CASE misled' = misled /\ \E kind \in Faults : FailRead(kind)
    BY <2>6, FailKeepsR
  <2>7. CASE misled' = misled /\ \E keyLen32 \in BOOLEAN : From(keyLen32)
    BY <2>7, FromKeepsR
  <2>8. CASE misled' = misled /\ \E len \in OutLens : BeginRead(len)
    BY <2>8, BeginKeepsR
  <2>9. CASE UNCHANGED retryVars
    BY <2>9, StutterKeepsR
  <2>10. CASE misled' = misled /\ UNCHANGED vars
    BY <2>9, <2>10 DEF retryVars
  <2> QED BY <2>1, <2>2, <2>3, <2>4, <2>5, <2>6, <2>7, <2>8, <2>9, <2>10
             DEF RetryNext, Next, ReaderStep, CallerStep, Stopped
<1> QED BY <1>1, <1>2, PTL DEF RetrySpec

(* A caller that goes on after a padding error takes less than a block of bytes
   that mean nothing for the end of the plaintext; without that error, none. *)
THEOREM LessThanABlockIsWrong ==
  ASSUME ~ShortReads PROVE RetrySpec => []GarbageOnlyAfterError
<1>1. RInv => GarbageOnlyAfterError
  <2> SUFFICES ASSUME RInv PROVE GarbageOnlyAfterError
    OBVIOUS
  <2>1. Len(delivered) \in Nat /\ DOMAIN delivered = 1..Len(delivered)
    <3>1. delivered \in Seq(Int)
      BY DEF RInv, TypeInv, TypeOK
    <3> QED BY <3>1
  <2>2. CASE Sensible
    <3>1. \A i \in 1..Len(delivered) : delivered[i] # Garbage
      BY <2>2 DEF Sensible, Sorted, Garbage
    <3> QED BY <3>1, <2>1 DEF GarbageOnlyAfterError, Wrong
  <2>3. CASE Senseless
    <3>1. PICK k \in 0..Len(delivered) :
            /\ Sorted(k)
            /\ \A i \in (k + 1)..Len(delivered) : delivered[i] = Garbage
            /\ (Len(delivered) - k) + Len(out) + Waiting < Block
      BY <2>3 DEF Senseless
    <3>2. Wrong = (k + 1)..Len(delivered)
      <4>1. \A i \in 1..k : delivered[i] # Garbage
        BY <3>1 DEF Sorted, Garbage
      <4> QED BY <3>1, <4>1, <2>1 DEF Wrong
    <3>3. Len(delivered) - k < Block
      BY <3>1, <2>1, Sizes, BlockAssumption DEF RInv
    <3>4. \A i \in Wrong : i + Block > Len(delivered) + 1 /\ i..Len(delivered) \subseteq Wrong
      BY <3>2, <3>3, <2>1, BlockAssumption
    <3> QED BY <3>4, <2>3 DEF GarbageOnlyAfterError, Senseless
  <2> QED BY <2>2, <2>3 DEF RInv
<1> QED BY <1>1, RetryInvariant, PTL
=============================================================================
