--------------------------- MODULE CbcReaderProofs ---------------------------
(***************************************************************************)
(* What TLAPS proves of CbcReader for every block size, buffer size, file   *)
(* length and choice of caller's buffers: its types over any source, and,   *)
(* over a source that neither returns short nor is interrupted, that the    *)
(* plaintext arrives whole and in order and that the stream agrees with the *)
(* one-shot decryption.                                                     *)
(***************************************************************************)
EXTENDS CbcReader, TLAPS

-----------------------------------------------------------------------------
(* Arithmetic of blocks.                                                    *)

LEMMA DivMod ==
  ASSUME NEW n \in Nat
  PROVE  /\ n \div Block \in Nat
         /\ n % Block \in 0..(Block - 1)
         /\ n = Block * (n \div Block) + (n % Block)
BY BlockAssumption

LEMMA DivModUnique ==
  ASSUME NEW q \in Nat, NEW r \in 0..(Block - 1)
  PROVE  /\ (Block * q + r) % Block = r
         /\ (Block * q + r) \div Block = q
BY BlockAssumption

LEMMA Multiple ==
  ASSUME NEW q \in Nat
  PROVE  q * Block \in Nat /\ Block * q = q * Block /\ (q * Block) % Block = 0
<1>1. 0 \in 0..(Block - 1) /\ q * Block \in Nat /\ Block * q = q * Block
  BY BlockAssumption
<1>2. (Block * q + 0) % Block = 0
  BY <1>1, DivModUnique
<1> QED BY <1>1, <1>2

(* Appending to whole blocks: the remainder and the quotient of the rest. *)
LEMMA AfterBlocks ==
  ASSUME NEW a \in Nat, NEW b \in Nat, a % Block = 0
  PROVE  /\ (a + b) % Block = b % Block
         /\ (a + b) \div Block = (a \div Block) + (b \div Block)
<1> DEFINE p == a \div Block
           q == b \div Block
           r == b % Block
<1>1. p \in Nat /\ q \in Nat /\ r \in 0..(Block - 1)
  BY DivMod
<1>2. a + b = Block * (p + q) + r
  <2>1. a = Block * p /\ b = Block * q + r
    BY DivMod, BlockAssumption
  <2> HIDE DEF p, q, r
  <2> QED BY <2>1, <1>1, BlockAssumption
<1> HIDE DEF p, q, r
<1>3. /\ (Block * (p + q) + r) % Block = r
      /\ (Block * (p + q) + r) \div Block = p + q
  BY <1>1, DivModUnique
<1> QED BY <1>2, <1>3 DEF p, q, r

(* How far whole blocks reach. *)
LEMMA WholeFacts ==
  ASSUME NEW n \in Nat
  PROVE  /\ Whole(n) \in 0..n
         /\ Whole(n) % Block = 0
         /\ n < Whole(n) + Block
         /\ n % Block = 0 => Whole(n) = n
         /\ Whole(n) = Block * (n \div Block)
         /\ n >= Block => Whole(n) >= Block
<1> DEFINE q == n \div Block
           r == n % Block
<1>1. q \in Nat /\ r \in 0..(Block - 1) /\ n = Block * q + r
  BY DivMod
<1>2. Whole(n) = n - r
  BY DEF Whole
<1>3. (Block * q + 0) % Block = 0
  BY <1>1, DivModUnique, BlockAssumption
<1> HIDE DEF q, r
<1>4. Block * q \in Nat
  BY <1>1, BlockAssumption
<1>5. Whole(n) = Block * q /\ (Block * q) % Block = 0
  BY <1>1, <1>2, <1>3, <1>4
<1>6. n >= Block => q # 0
  BY <1>1, BlockAssumption
<1>7. q # 0 => Block * q >= Block
  BY <1>1, BlockAssumption
<1> QED BY <1>1, <1>2, <1>4, <1>5, <1>6, <1>7, BlockAssumption DEF q, r

LEMMA WholeAfterBlocks ==
  ASSUME NEW a \in Nat, NEW b \in Nat, a % Block = 0
  PROVE  Whole(a + b) = a + Whole(b)
BY AfterBlocks, DivMod DEF Whole

-----------------------------------------------------------------------------
(* The one-shot functions.                                                  *)

(* aes_decrypt_cbc_with_padding undoes aes_encrypt_cbc_with_padding, for
   plaintexts of every length, the empty one and whole blocks included. *)
THEOREM RoundTrip ==
  ASSUME NEW n \in Nat
  PROVE  OneShot(Encryption(n).len, Encryption(n).pad) = n
<1> DEFINE len == Whole(n) + Block
           pad == Block - (n % Block)
<1>1. Encryption(n).len = len /\ Encryption(n).pad = pad
  BY DEF Encryption
<1>2. len \in Nat /\ len % Block = 0 /\ len > 0
  <2>1. Whole(n) \in Nat /\ Whole(n) % Block = 0
    BY WholeFacts
  <2>2. (Whole(n) + Block) % Block = Block % Block
    BY <2>1, AfterBlocks, BlockAssumption
  <2>3. Block % Block = 0
    BY BlockAssumption
  <2> QED BY <2>1, <2>2, <2>3, BlockAssumption
<1>3. Whole(len) = len
  BY <1>2, WholeFacts
<1>4. pad \in 1..Block /\ len - pad = n
  BY DivMod, BlockAssumption DEF Whole
<1> QED BY <1>1, <1>2, <1>3, <1>4 DEF OneShot

-----------------------------------------------------------------------------
(* Types, over any source.                                                  *)

LEMMA BufferHoldsABlock == BufferSize >= Block
BY BlockAssumption, ReaderAssumption

(* What the reader has and what the BufReader holds are both in the file. *)
TypeInv == TypeOK /\ pos + filled <= fileLen

(* Bounds on what BufReader::read returns. *)
LEMMA BufReadBounds ==
  ASSUME TypeInv, NEW n \in Nat, NEW got \in Nat, NEW left \in 0..BufferSize,
         BufRead(n, got, left)
  PROVE  pos + got + left <= fileLen
<1> USE ReaderAssumption DEF TypeInv, TypeOK
<1>1. CASE filled > 0
  BY <1>1 DEF BufRead, Lesser
<1>2. CASE ~(filled > 0) /\ n >= BufferSize
  BY <1>2 DEF BufRead, Supply, Lesser
<1>3. CASE ~(filled > 0) /\ ~(n >= BufferSize)
  <2>1. PICK k \in Supply(BufferSize) : got = Lesser(n, k) /\ left = k - got
    BY <1>3 DEF BufRead
  <2>2. k \in Nat /\ k <= fileLen - pos - filled
    BY <2>1 DEF Supply, Lesser
  <2> QED BY <2>1, <2>2, <1>3 DEF Lesser
<1> QED BY <1>1, <1>2, <1>3

LEMMA DecryptByteType ==
  ASSUME NEW start \in Int, NEW prev \in Int, NEW i \in Int
  PROVE  DecryptByte(start, prev, i) \in Int
BY DEF DecryptByte, Garbage

LEMMA BlockAtType ==
  ASSUME TypeOK, NEW j \in Nat
  PROVE  BlockAt(j) \in Nat
<1>1. j # 0 => (j - 1) * Block \in Nat
  BY BlockAssumption
<1> QED BY <1>1 DEF BlockAt, TypeOK

LEMMA DecryptBlocksType ==
  ASSUME TypeOK, NEW n \in Nat
  PROVE  /\ DecryptBlocks(n) \in Seq(Int)
         /\ Len(DecryptBlocks(n)) = n * Block
<1>1. n * Block \in Nat
  BY BlockAssumption
<1>2. ASSUME NEW b \in 1..(n * Block)
      PROVE  DecryptBlocks(n)[b] \in Int
  <2> DEFINE j == (b - 1) \div Block
             prev == IF j = 0 THEN chain ELSE BlockAt(j - 1)
             i == (b - 1) % Block
  <2>1. b - 1 \in Nat
    BY <1>1
  <2>2. j \in Nat /\ i \in Int
    BY <2>1, DivMod, BlockAssumption
  <2> HIDE DEF j
  <2>3. BlockAt(j) \in Int /\ prev \in Int
    <3>1. BlockAt(j) \in Nat
      BY <2>2, BlockAtType
    <3>2. j # 0 => BlockAt(j - 1) \in Nat
      BY <2>2, BlockAtType
    <3> QED BY <3>1, <3>2 DEF TypeOK
  <2>4. DecryptBlocks(n)[b] = DecryptByte(BlockAt(j), prev, i)
    BY <1>1 DEF DecryptBlocks, j
  <2> HIDE DEF prev, i
  <2> QED BY <2>2, <2>3, <2>4, DecryptByteType
<1>3. DOMAIN DecryptBlocks(n) = 1..(n * Block)
  BY DEF DecryptBlocks
<1>4. DecryptBlocks(n) = [b \in 1..(n * Block) |-> DecryptBlocks(n)[b]]
  BY DEF DecryptBlocks
<1> HIDE DEF DecryptBlocks
<1> QED BY <1>1, <1>2, <1>3, <1>4

LEMMA UnpaddedType ==
  ASSUME TypeOK, NEW pad \in 1..Block
  PROVE  /\ Unpadded(pad) \in Seq(Int)
         /\ Len(Unpadded(pad)) = Block - pad
<1>1. Block - pad \in Nat
  BY BlockAssumption
<1>2. \A b \in 1..(Block - pad) : DecryptByte(lookahead, chain, b - 1) \in Int
  BY <1>1, DecryptByteType DEF TypeOK
<1> QED BY <1>1, <1>2 DEF Unpadded

LEMMA InitType == Init => TypeInv
<1> SUFFICES ASSUME Init PROVE TypeInv
  OBVIOUS
<1>1. chain \in Int
  BY BlockAssumption DEF Init, ZeroIV
<1>2. lastPad \in 0..Block
  BY BlockAssumption DEF Init
<1>3. <<>> \in Seq(Int) /\ Len(<<>>) = 0
  OBVIOUS
<1>4. fileLen \in 0..MaxFile /\ pos = 0 /\ filled = 0 /\ pos + filled <= fileLen
  BY ReaderAssumption DEF Init
<1>5. 0 \in 0..fileLen /\ 0 \in 0..BufferSize /\ 0 <= BufferSize /\ 0 \in 0..0
  BY <1>4, ReaderAssumption
<1>6. /\ buf = <<>> /\ out = <<>> /\ delivered = <<>> /\ buf_pos = 0
      /\ lookahead = 0 /\ eof = FALSE /\ phase = "new" /\ want = 0
  BY DEF Init
<1>7. fileLen \in 0..MaxFile /\ lastPad \in 0..Block
  BY <1>2, <1>4
<1>8. pos \in 0..fileLen /\ filled \in 0..BufferSize
  BY <1>4, <1>5
<1>9. lookahead \in Nat /\ chain \in Int
  BY <1>1, <1>6
<1>10. buf \in Seq(Int) /\ Len(buf) <= BufferSize
  BY <1>3, <1>5, <1>6
<1>11. buf_pos \in 0..Len(buf) /\ eof \in BOOLEAN
  BY <1>3, <1>5, <1>6
<1>12. phase \in Phases
  BY <1>6 DEF Phases
<1>13. /\ want \in OutLens \cup {0} /\ out \in Seq(Int) /\ Len(out) <= want
       /\ delivered \in Seq(Int)
  BY <1>3, <1>6
<1> QED BY <1>4, <1>7, <1>8, <1>9, <1>10, <1>11, <1>12, <1>13 DEF TypeInv, TypeOK

LEMMA FlushType == TypeInv /\ FlushPending => TypeInv'
<1> SUFFICES ASSUME TypeInv, FlushPending PROVE TypeInv'
  OBVIOUS
<1> USE ReaderAssumption DEF TypeInv, TypeOK
<1>1. /\ ToCopy \in Nat
      /\ buf_pos + ToCopy <= Len(buf)
      /\ Len(out) + ToCopy <= want
  BY DEF FlushPending, MoreWanted, Pending, ToCopy, Lesser
<1> DEFINE piece == SubSeq(buf, buf_pos + 1, buf_pos + ToCopy)
<1>2. piece \in Seq(Int) /\ Len(piece) = ToCopy
  BY <1>1
<1>3. out' = out \o piece /\ buf_pos' = buf_pos + ToCopy
  BY DEF FlushPending
<1> HIDE DEF piece
<1>4. out' \in Seq(Int) /\ Len(out') = Len(out) + ToCopy
  BY <1>2, <1>3
<1>5. UNCHANGED <<file, source, lookahead, chain, buf, eof, phase, want, delivered>>
  BY DEF FlushPending
<1> QED BY <1>1, <1>3, <1>4, <1>5 DEF file, source

(* The chunk of `got` bytes adds got \div 16 blocks to the lookahead. *)
LEMMA ChunkBlocks ==
  ASSUME NEW got \in Nat
  PROVE  (Block + got) \div Block = 1 + (got \div Block)
<1>1. Block % Block = 0 /\ Block \div Block = 1
  BY BlockAssumption
<1> QED BY <1>1, AfterBlocks, BlockAssumption

LEMMA ChunkType == TypeInv /\ DecryptChunk => TypeInv'
<1> SUFFICES ASSUME TypeInv, DecryptChunk PROVE TypeInv'
  OBVIOUS
<1> DEFINE n(got) == (Block + got) \div Block
<1>1. PICK got \in 1..BufferSize, left \in 0..BufferSize :
        /\ BufRead(BufferSize, got, left)
        /\ pos' = pos + got /\ filled' = left
        /\ buf' = DecryptBlocks(n(got) - 1)
        /\ lookahead' = BlockAt(n(got) - 1)
        /\ chain' = IF n(got) = 1 THEN chain ELSE BlockAt(n(got) - 2)
  BY DEF DecryptChunk
<1> DEFINE q == got \div Block
<1>2. got \in Nat /\ BufferSize \in Nat
  BY ReaderAssumption
<1>3. n(got) = 1 + q
  BY <1>2, ChunkBlocks
<1>4. q \in Nat /\ q * Block <= got
  <2>1. got = Block * q + (got % Block) /\ q \in Nat /\ got % Block \in Nat
    BY <1>2, DivMod, BlockAssumption
  <2> HIDE DEF q
  <2> QED BY <2>1, <1>2, BlockAssumption
<1> HIDE DEF q
<1>5. pos + got + left <= fileLen
  BY <1>1, <1>2, BufReadBounds
<1>6. buf' \in Seq(Int) /\ Len(buf') = q * Block
  <2>1. n(got) - 1 = q
    BY <1>3, <1>4
  <2> QED BY <1>1, <1>4, <2>1, DecryptBlocksType DEF TypeInv
<1>7. lookahead' \in Nat
  <2>1. n(got) - 1 = q
    BY <1>3, <1>4
  <2> QED BY <1>1, <1>4, <2>1, BlockAtType DEF TypeInv
<1>8. chain' \in Int
  <2>1. CASE q = 0
    BY <1>1, <1>3, <2>1 DEF TypeInv, TypeOK
  <2>2. CASE q # 0
    <3>1. n(got) # 1 /\ n(got) - 2 = q - 1 /\ q - 1 \in Nat
      BY <1>3, <1>4, <2>2
    <3>2. BlockAt(q - 1) \in Nat
      BY <3>1, BlockAtType DEF TypeInv
    <3> QED BY <1>1, <3>1, <3>2
  <2> QED BY <2>1, <2>2
<1>9. buf_pos' = 0 /\ UNCHANGED <<file, eof, phase, call, delivered>>
  BY DEF DecryptChunk
<1>10. pos' \in 0..fileLen' /\ filled' \in 0..BufferSize /\ pos' + filled' <= fileLen'
  BY <1>1, <1>2, <1>5, <1>9 DEF TypeInv, TypeOK, file
<1>11. Len(buf') <= BufferSize /\ buf_pos' \in 0..Len(buf')
  BY <1>1, <1>2, <1>4, <1>6, <1>9, BlockAssumption
<1>12. /\ fileLen' \in 0..MaxFile /\ lastPad' \in 0..Block
       /\ eof' \in BOOLEAN /\ phase' \in Phases
       /\ want' \in OutLens \cup {0} /\ out' \in Seq(Int) /\ Len(out') <= want'
       /\ delivered' \in Seq(Int)
  BY <1>9 DEF TypeInv, TypeOK, file, call
<1> QED BY <1>6, <1>7, <1>8, <1>10, <1>11, <1>12 DEF TypeInv, TypeOK

LEMMA FinalType == TypeInv /\ FinalBlock => TypeInv'
<1> SUFFICES ASSUME TypeInv, FinalBlock PROVE TypeInv'
  OBVIOUS
<1>1. /\ chain' = lookahead
      /\ UNCHANGED <<file, source, lookahead, want, delivered>>
  BY DEF FinalBlock
<1>2. /\ fileLen' \in 0..MaxFile /\ lastPad' \in 0..Block
      /\ pos' \in 0..fileLen' /\ filled' \in 0..BufferSize
      /\ pos' + filled' <= fileLen'
      /\ lookahead' \in Nat /\ chain' \in Int
      /\ want' \in OutLens \cup {0} /\ delivered' \in Seq(Int)
  BY <1>1 DEF TypeInv, TypeOK, file, source
<1>3. /\ out' \in Seq(Int) /\ Len(out') <= want' /\ phase' \in Phases
      /\ eof' \in BOOLEAN /\ buf' \in Seq(Int) /\ Len(buf') <= BufferSize
      /\ buf_pos' \in 0..Len(buf')
  <2>1. PICK pad \in PadCounts :
          \/ /\ pad > 0
             /\ buf' = Unpadded(pad) /\ buf_pos' = 0 /\ eof' = TRUE
             /\ UNCHANGED <<phase, out>>
          \/ /\ pad = 0
             /\ phase' = "failed" /\ out' = <<>>
             /\ UNCHANGED <<buf, buf_pos, eof>>
    BY DEF FinalBlock
  <2>2. pad \in 0..Block
    BY DEF PadCounts, TypeInv, TypeOK
  <2>3. CASE pad > 0
    <3>1. pad \in 1..Block
      BY <2>2, <2>3, BlockAssumption
    <3>2. buf' = Unpadded(pad) /\ buf_pos' = 0 /\ eof' = TRUE /\ UNCHANGED <<phase, out>>
      BY <2>1, <2>3
    <3>3. buf' \in Seq(Int) /\ Len(buf') = Block - pad
      BY <3>1, <3>2, UnpaddedType DEF TypeInv
    <3>4. Len(buf') <= BufferSize /\ buf_pos' \in 0..Len(buf')
      BY <3>1, <3>2, <3>3, BufferHoldsABlock, BlockAssumption, ReaderAssumption
    <3> QED BY <1>1, <3>2, <3>3, <3>4 DEF TypeInv, TypeOK
  <2>4. CASE pad = 0
    <3>1. phase' = "failed" /\ out' = <<>> /\ UNCHANGED <<buf, buf_pos, eof>>
      BY <2>1, <2>4
    <3>2. want' \in Nat /\ Len(out') = 0 /\ out' \in Seq(Int)
      BY <1>2, <3>1, ReaderAssumption
    <3> QED BY <3>1, <3>2 DEF TypeInv, TypeOK, Phases
  <2> QED BY <2>2, <2>3, <2>4, BlockAssumption
<1> QED BY <1>2, <1>3 DEF TypeInv, TypeOK

LEMMA FromType == ASSUME NEW keyLen32 PROVE TypeInv /\ From(keyLen32) => TypeInv'
<1> SUFFICES ASSUME TypeInv, From(keyLen32) PROVE TypeInv'
  OBVIOUS
<1>1. UNCHANGED <<file, reader, call, delivered>>
  BY DEF From
<1>2. /\ phase' \in Phases
      /\ pos' \in 0..fileLen /\ filled' \in 0..BufferSize
      /\ pos' + filled' <= fileLen
  <2>1. CASE UNCHANGED source /\ phase' = "refused"
    BY <2>1 DEF TypeInv, TypeOK, source, Phases
  <2>2. CASE \E got \in 0..Block, left \in 0..BufferSize :
               /\ BufRead(Block, got, left)
               /\ pos' = pos + got /\ filled' = left
               /\ phase' = IF FirstBlock(got) THEN "idle" ELSE "refused"
    <3>1. PICK got \in 0..Block, left \in 0..BufferSize :
               /\ BufRead(Block, got, left)
               /\ pos' = pos + got /\ filled' = left
               /\ phase' = IF FirstBlock(got) THEN "idle" ELSE "refused"
      BY <2>2
    <3>2. pos + got + left <= fileLen
      BY <3>1, BufReadBounds, BlockAssumption
    <3> QED BY <3>1, <3>2, ReaderAssumption, BlockAssumption DEF TypeInv, TypeOK, Phases
  <2> QED BY <2>1, <2>2 DEF From
<1> QED BY <1>1, <1>2 DEF TypeInv, TypeOK, file, reader, call

LEMMA CallType ==
  ASSUME TypeInv,
         \/ \E len \in OutLens : BeginRead(len)
         \/ EndRead
         \/ \E kind \in Faults : FailRead(kind)
         \/ UNCHANGED vars
  PROVE  TypeInv'
<1> USE ReaderAssumption DEF TypeInv, TypeOK, Phases
<1>1. CASE \E len \in OutLens : BeginRead(len)
  BY <1>1 DEF BeginRead, file, source, reader
<1>2. CASE EndRead
  BY <1>2 DEF EndRead, file, source, reader
<1>3. CASE \E kind \in Faults : FailRead(kind)
  BY <1>3 DEF FailRead, file, source, reader
<1>4. CASE UNCHANGED vars
  BY <1>4 DEF vars, file, source, reader, call
<1> QED BY <1>1, <1>2, <1>3, <1>4

LEMMA TypeInvariant == Spec => []TypeInv
<1>1. TypeInv /\ [Next]_vars => TypeInv'
  <2> SUFFICES ASSUME TypeInv, [Next]_vars PROVE TypeInv'
    OBVIOUS
  <2>1. CASE FlushPending
    BY <2>1, FlushType
  <2>2. CASE DecryptChunk
    BY <2>2, ChunkType
  <2>3. CASE FinalBlock
    BY <2>3, FinalType
  <2>4. CASE \E keyLen32 \in BOOLEAN : From(keyLen32)
    BY <2>4, FromType
  <2>5. CASE \/ \E len \in OutLens : BeginRead(len)
             \/ EndRead
             \/ \E kind \in Faults : FailRead(kind)
             \/ UNCHANGED vars
    BY <2>5, CallType
  <2> QED BY <2>1, <2>2, <2>3, <2>4, <2>5 DEF Next, ReaderStep, CallerStep, Stopped
<1> QED BY <1>1, InitType, PTL DEF Spec

(* Every variable stays in its type, over any source: buf never outgrows a
   chunk, read() never writes past the caller's buffer. *)
THEOREM TypeCorrect == Spec => []TypeOK
<1>1. TypeInv => TypeOK
  BY DEF TypeInv
<1> QED BY <1>1, TypeInvariant, PTL

-----------------------------------------------------------------------------
(* The inductive invariant, over a source that fills what it is asked for    *)
(* until the end of the file (FillingSource) and is never interrupted.       *)

FillingSource == ~ShortReads /\ "Interrupted" \notin Faults

Opened == phase \in {"idle", "reading", "done", "failed"}

(* Until from() has returned Ok the reader holds nothing. *)
Unopened ==
  ~Opened =>
    /\ lookahead = 0 /\ chain = ZeroIV
    /\ buf = <<>> /\ buf_pos = 0 /\ eof = FALSE
    /\ out = <<>> /\ delivered = <<>>
    /\ phase = "new" => pos = 0 /\ filled = 0

(* The lookahead is the last complete block read; only at the end of the file
   is there a part of a block behind it. *)
Aligned ==
  Opened =>
    /\ lookahead % Block = 0
    /\ lookahead + Block = Whole(pos)
    /\ pos % Block = 0 \/ pos = fileLen
    /\ filled % Block = 0 \/ pos + filled = fileLen

(* The cipher is chained on the block before the lookahead. *)
Chained == Opened /\ phase # "failed" /\ ~eof => chain = lookahead - Block

(* The plaintext bytes that have been through the cipher and are wanted. *)
Plain == IF eof THEN lookahead + Block - lastPad ELSE lookahead

(* Each of them is delivered, in the caller's buffer or waiting in buf. *)
Accounted ==
  /\ Opened /\ phase # "failed" =>
       Len(delivered) + Len(out) + (Len(buf) - buf_pos) = Plain
  /\ phase = "failed" => ~eof /\ Len(delivered) <= Plain

Contents ==
  /\ \A i \in 1..Len(delivered) : delivered[i] = i - 1
  /\ \A i \in 1..Len(out) : out[i] = Len(delivered) + i - 1
  /\ \A i \in 1..Len(buf) : buf[i] = Plain - Len(buf) + i - 1

Ends ==
  /\ eof => Opened /\ pos = fileLen /\ lastPad > 0
  /\ phase # "reading" => out = <<>>
  /\ phase = "done" => eof /\ buf_pos = Len(buf)
  /\ (phase = "failed" /\ Faults = {}) \/ (phase = "refused" /\ pos > 0)
       => OneShot(fileLen, lastPad) = Failed

IInv == TypeInv /\ Unopened /\ Aligned /\ Chained /\ Accounted /\ Contents /\ Ends
LEMMA InitInv == Init => IInv
<1> SUFFICES ASSUME Init PROVE IInv
  OBVIOUS
<1>1. TypeInv
  BY InitType
<1>2. /\ phase = "new" /\ pos = 0 /\ filled = 0 /\ lookahead = 0 /\ chain = ZeroIV
      /\ buf = <<>> /\ buf_pos = 0 /\ eof = FALSE /\ out = <<>> /\ delivered = <<>>
  BY DEF Init
<1>3. Unopened /\ Aligned /\ Chained /\ Accounted /\ Ends
  BY <1>2 DEF Unopened, Aligned, Chained, Accounted, Ends, Opened
<1>4. Contents
  BY <1>2 DEF Contents
<1> QED BY <1>1, <1>3, <1>4 DEF IInv

(* The blocks of a chunk continue the lookahead. *)
LEMMA BlocksInARow ==
  ASSUME TypeInv, pos = lookahead + Block, NEW j \in Nat
  PROVE  BlockAt(j) = lookahead + j * Block
<1>1. CASE j = 0
  BY <1>1, BlockAssumption DEF BlockAt, TypeInv, TypeOK
<1>2. CASE j # 0
  <2>1. (j - 1) * Block = j * Block - Block
    BY BlockAssumption
  <2>2. j * Block \in Nat
    BY BlockAssumption
  <2> QED BY <1>2, <2>1, <2>2, BlockAssumption DEF BlockAt, TypeInv, TypeOK
<1> QED BY <1>1, <1>2

(* Decrypted with the right chaining value, they yield the plaintext. *)
LEMMA DecryptedInARow ==
  ASSUME TypeInv, pos = lookahead + Block, lookahead % Block = 0,
         chain = lookahead - Block, NEW n \in Nat, NEW b \in 1..(n * Block)
  PROVE  DecryptBlocks(n)[b] = lookahead + b - 1
<1> DEFINE j == (b - 1) \div Block
           i == (b - 1) % Block
           prev == IF j = 0 THEN chain ELSE BlockAt(j - 1)
<1>1. n * Block \in Nat /\ b - 1 \in Nat
  BY BlockAssumption
<1>2. j \in Nat /\ i \in Nat /\ b - 1 = Block * j + i
  BY <1>1, DivMod, BlockAssumption
<1>3. DecryptBlocks(n)[b] = DecryptByte(BlockAt(j), prev, i)
  BY <1>1 DEF DecryptBlocks
<1> HIDE DEF j, i
<1>4. BlockAt(j) = lookahead + j * Block
  BY <1>2, BlocksInARow
<1>5. j * Block \in Nat /\ lookahead \in Nat /\ chain \in Int /\ Block * j = j * Block
  BY <1>2, BlockAssumption DEF TypeInv, TypeOK
<1>6. prev = BlockAt(j) - Block
  <2>1. CASE j = 0
    BY <2>1, <1>4, <1>5, BlockAssumption
  <2>2. CASE j # 0
    <3>1. BlockAt(j - 1) = lookahead + (j - 1) * Block
      BY <1>2, <2>2, BlocksInARow
    <3>2. (j - 1) * Block = j * Block - Block
      BY <1>2, BlockAssumption
    <3> QED BY <2>2, <3>1, <3>2, <1>4, <1>5, BlockAssumption
  <2> QED BY <2>1, <2>2
<1>7. BlockAt(j) % Block = 0
  <2>1. (j * Block) % Block = 0
    BY <1>2, Multiple
  <2>2. (lookahead + j * Block) % Block = (j * Block) % Block
    BY <1>5, AfterBlocks
  <2> QED BY <1>4, <2>1, <2>2
<1>8. DecryptByte(BlockAt(j), prev, i) = BlockAt(j) + i
  BY <1>6, <1>7 DEF DecryptByte
<1> HIDE DEF prev
<1> QED BY <1>1, <1>2, <1>3, <1>4, <1>5, <1>8, BlockAssumption

(* A source that does not return short returns whole blocks until the end of the file. *)
LEMMA ChunkFromFillingSource ==
  ASSUME ~ShortReads, TypeInv, NEW got \in 1..BufferSize, NEW left \in 0..BufferSize,
         filled % Block = 0 \/ pos + filled = fileLen,
         BufRead(BufferSize, got, left)
  PROVE  /\ left = 0
         /\ got % Block = 0 \/ pos + got = fileLen
<1> USE ReaderAssumption DEF TypeInv, TypeOK
<1>1. CASE filled > 0
  <2>1. got = filled /\ left = 0
    BY <1>1 DEF BufRead, Lesser
  <2> QED BY <2>1
<1>2. CASE ~(filled > 0)
  <2>1. got = Lesser(BufferSize, fileLen - (pos + filled)) /\ left = 0 /\ filled = 0
    BY <1>2 DEF BufRead, Supply
  <2>2. got = BufferSize \/ pos + got = fileLen
    BY <2>1 DEF Lesser
  <2> QED BY <2>1, <2>2
<1> QED BY <1>1, <1>2

LEMMA ChunkInv == ASSUME FillingSource PROVE IInv /\ DecryptChunk => IInv'
<1> SUFFICES ASSUME IInv, DecryptChunk PROVE IInv'
  OBVIOUS
<1>1. TypeInv /\ TypeInv'
  BY ChunkType DEF IInv
<1> DEFINE n(got) == (Block + got) \div Block
<1>2. PICK got \in 1..BufferSize, left \in 0..BufferSize :
        /\ BufRead(BufferSize, got, left)
        /\ pos' = pos + got /\ filled' = left
        /\ buf' = DecryptBlocks(n(got) - 1)
        /\ lookahead' = BlockAt(n(got) - 1)
        /\ chain' = IF n(got) = 1 THEN chain ELSE BlockAt(n(got) - 2)
  BY DEF DecryptChunk
<1> DEFINE q == got \div Block
<1>3. got \in Nat /\ got >= 1 /\ left \in Nat
  BY ReaderAssumption
<1>4. q \in Nat /\ n(got) - 1 = q /\ (q # 0 => n(got) # 1 /\ n(got) - 2 = q - 1) /\ (q = 0 => n(got) = 1)
  BY <1>3, ChunkBlocks, DivMod
<1> HIDE DEF q
<1>5. /\ phase = "reading" /\ ~eof /\ buf_pos = Len(buf)
      /\ buf_pos' = 0 /\ UNCHANGED <<file, eof, phase, call, delivered>>
  BY <1>1 DEF DecryptChunk, MustRefill, MoreWanted, Pending, TypeInv, TypeOK
<1>6. UNCHANGED <<fileLen, lastPad, eof, phase, want, out, delivered>>
  BY <1>5 DEF file, call
<1>7. /\ lookahead % Block = 0 /\ lookahead + Block = Whole(pos)
      /\ pos % Block = 0 \/ pos = fileLen
      /\ filled % Block = 0 \/ pos + filled = fileLen
      /\ chain = lookahead - Block
  BY <1>5 DEF IInv, Aligned, Chained, Opened
<1>8. pos + got + left <= fileLen
  BY <1>1, <1>2, <1>3, BufReadBounds, ReaderAssumption
<1>9. pos \in Nat /\ fileLen \in Nat /\ lookahead \in Nat /\ pos % Block = 0
  BY <1>1, <1>3, <1>7, <1>8, ReaderAssumption DEF TypeInv, TypeOK
<1>10. pos = lookahead + Block
  BY <1>7, <1>9, WholeFacts
<1>11. left = 0 /\ (got % Block = 0 \/ pos + got = fileLen)
  BY <1>1, <1>2, <1>7, ChunkFromFillingSource DEF FillingSource
<1>12. q * Block \in Nat /\ Block * q = q * Block /\ (q * Block) % Block = 0
  BY <1>4, Multiple
<1>13. lookahead' = lookahead + q * Block
  BY <1>1, <1>2, <1>4, <1>10, BlocksInARow
<1>14. buf' = DecryptBlocks(q) /\ Len(buf') = q * Block
  BY <1>1, <1>2, <1>4, DecryptBlocksType DEF TypeInv
<1>15. Opened'
  BY <1>5, <1>6 DEF Opened
<1>16. Unopened'
  BY <1>15 DEF Unopened
<1>17. Aligned'
  <2>1. lookahead' % Block = 0
    BY <1>7, <1>9, <1>12, <1>13, AfterBlocks
  <2>2. Whole(pos + got) = pos + q * Block
    <3>1. Whole(got) = q * Block
      BY <1>3, <1>12, WholeFacts DEF q
    <3> QED BY <1>3, <1>9, <3>1, WholeAfterBlocks
  <2>3. (pos + got) % Block = got % Block
    BY <1>3, <1>9, AfterBlocks
  <2>4. 0 % Block = 0
    BY BlockAssumption
  <2> QED BY <1>2, <1>6, <1>9, <1>10, <1>11, <1>12, <1>13, <2>1, <2>2, <2>3, <2>4,
             BlockAssumption DEF Aligned
<1>18. Chained'
  <2>1. CASE q = 0
    BY <2>1, <1>2, <1>4, <1>7, <1>9, <1>13, BlockAssumption DEF Chained
  <2>2. CASE q # 0
    <3>1. chain' = BlockAt(q - 1) /\ q - 1 \in Nat
      BY <2>2, <1>2, <1>4
    <3>2. chain' = lookahead + (q - 1) * Block
      BY <3>1, <1>1, <1>10, BlocksInARow
    <3>3. (q - 1) * Block = q * Block - Block
      BY <1>4, BlockAssumption
    <3> QED BY <3>2, <3>3, <1>9, <1>12, <1>13, BlockAssumption DEF Chained
  <2> QED BY <2>1, <2>2
<1>19. Accounted'
  <2>1. Len(delivered) + Len(out) = lookahead
    BY <1>1, <1>5, <1>9 DEF IInv, Accounted, Opened, Plain, TypeInv, TypeOK
  <2> QED BY <2>1, <1>5, <1>6, <1>9, <1>12, <1>13, <1>14 DEF Accounted, Plain
<1>20. Contents'
  <2>1. ASSUME NEW b \in 1..Len(buf') PROVE buf'[b] = Plain' - Len(buf') + b - 1
    <3>1. buf'[b] = lookahead + b - 1
      BY <1>1, <1>4, <1>7, <1>10, <1>14, DecryptedInARow
    <3>2. Plain' = lookahead + q * Block
      BY <1>5, <1>6, <1>13 DEF Plain
    <3> QED BY <3>1, <3>2, <1>9, <1>12, <1>14
  <2> QED BY <2>1, <1>6 DEF IInv, Contents
<1>21. Ends'
  BY <1>5, <1>6 DEF IInv, Ends
<1> QED BY <1>1, <1>16, <1>17, <1>18, <1>19, <1>20, <1>21 DEF IInv
LEMMA Concatenated ==
  ASSUME NEW s \in Seq(Int), NEW t \in Seq(Int)
  PROVE  /\ Len(s \o t) = Len(s) + Len(t)
         /\ \A i \in 1..Len(s) : (s \o t)[i] = s[i]
         /\ \A i \in (Len(s) + 1)..(Len(s) + Len(t)) : (s \o t)[i] = t[i - Len(s)]
         /\ Len(s) \in Nat /\ Len(t) \in Nat
OBVIOUS

LEMMA FlushInv == IInv /\ FlushPending => IInv'
<1> SUFFICES ASSUME IInv, FlushPending PROVE IInv'
  OBVIOUS
<1>1. TypeInv /\ TypeInv'
  BY FlushType DEF IInv
<1> DEFINE piece == SubSeq(buf, buf_pos + 1, buf_pos + ToCopy)
<1>2. /\ phase = "reading"
      /\ out' = out \o piece /\ buf_pos' = buf_pos + ToCopy
      /\ UNCHANGED <<file, source, lookahead, chain, buf, eof, phase, want, delivered>>
  BY DEF FlushPending, MoreWanted
<1>3. UNCHANGED <<fileLen, lastPad, pos, filled, lookahead, chain, buf, eof, phase, delivered>>
  BY <1>2 DEF file, source
<1>4. ToCopy \in Nat /\ buf_pos \in Nat /\ buf_pos + ToCopy <= Len(buf) /\ want \in Nat
  BY <1>1, ReaderAssumption
     DEF FlushPending, MoreWanted, Pending, ToCopy, Lesser, TypeInv, TypeOK
<1>5. buf \in Seq(Int) /\ out \in Seq(Int) /\ delivered \in Seq(Int)
  BY <1>1 DEF TypeInv, TypeOK
<1>6. /\ piece \in Seq(Int) /\ Len(piece) = ToCopy
      /\ \A k \in 1..ToCopy : piece[k] = buf[buf_pos + k]
  BY <1>4, <1>5
<1> HIDE DEF piece
<1>7. /\ Len(out') = Len(out) + ToCopy
      /\ \A k \in 1..Len(out) : out'[k] = out[k]
      /\ \A k \in (Len(out) + 1)..(Len(out) + ToCopy) : out'[k] = piece[k - Len(out)]
  BY <1>2, <1>5, <1>6, Concatenated
<1>8. /\ Len(delivered) \in Nat /\ Len(out) \in Nat /\ Len(buf) \in Nat
      /\ lookahead \in Nat /\ lastPad \in Nat
  <2>1. Len(delivered) \in Nat /\ Len(out) \in Nat /\ Len(buf) \in Nat
    BY <1>5
  <2>2. lookahead \in Nat /\ lastPad \in 0..Block
    BY <1>1 DEF TypeInv, TypeOK
  <2> QED BY <2>1, <2>2, BlockAssumption
<1>9. Plain \in Int /\ Plain' = Plain
  BY <1>3, <1>8, BlockAssumption DEF Plain
<1>10. Len(delivered) + Len(out) + (Len(buf) - buf_pos) = Plain
  BY <1>2 DEF IInv, Accounted, Opened
<1>11. Unopened' /\ Aligned' /\ Chained'
  BY <1>2, <1>3 DEF IInv, Unopened, Aligned, Chained, Opened
<1>12. Accounted'
  <2>1. Len(out') + (Len(buf') - buf_pos') = Len(out) + (Len(buf) - buf_pos)
    BY <1>2, <1>3, <1>4, <1>7, <1>8
  <2>2. Len(delivered') + Len(out') + (Len(buf') - buf_pos') = Plain'
    <3>1. /\ Len(out') \in Nat /\ buf_pos' \in Nat
          /\ delivered' = delivered /\ buf' = buf
      BY <1>2, <1>3, <1>4, <1>7, <1>8
    <3> QED BY <3>1, <2>1, <1>4, <1>8, <1>9, <1>10
  <2> QED BY <2>2, <1>2, <1>3 DEF Accounted
<1>13. Contents'
  <2>1. ASSUME NEW i \in 1..Len(out') PROVE out'[i] = Len(delivered) + i - 1
    <3>1. CASE i <= Len(out)
      BY <3>1, <1>7, <1>8 DEF IInv, Contents
    <3>2. CASE ~(i <= Len(out))
      <4> DEFINE k == i - Len(out)
      <4>1. k \in 1..ToCopy /\ out'[i] = piece[k]
        BY <3>2, <1>4, <1>7, <1>8
      <4>2. piece[k] = buf[buf_pos + k] /\ buf_pos + k \in 1..Len(buf)
        BY <4>1, <1>4, <1>6, <1>8
      <4>3. buf[buf_pos + k] = Plain - Len(buf) + (buf_pos + k) - 1
        BY <4>2 DEF IInv, Contents
      <4>4. k = i - Len(out)
        OBVIOUS
      <4> HIDE DEF k
      <4>5. i = Len(out) + k /\ k \in Nat
        BY <4>1, <4>4, <1>4, <1>8
      <4>6. out'[i] = Plain - Len(buf) + (buf_pos + k) - 1
        BY <4>1, <4>2, <4>3
      <4> QED BY <4>5, <4>6, <1>4, <1>8, <1>9, <1>10
    <3> QED BY <3>1, <3>2, <1>4, <1>7, <1>8
  <2>2. \A i \in 1..Len(buf) : buf[i] = Plain - Len(buf) + i - 1
    BY DEF IInv, Contents
  <2>3. \A i \in 1..Len(delivered) : delivered[i] = i - 1
    BY DEF IInv, Contents
  <2> QED BY <2>1, <2>2, <2>3, <1>3, <1>9 DEF Contents
<1>14. Ends'
  BY <1>2, <1>3 DEF IInv, Ends, Opened
<1> QED BY <1>1, <1>11, <1>12, <1>13, <1>14 DEF IInv

LEMMA EndReadInv == IInv /\ EndRead => IInv'
<1> SUFFICES ASSUME IInv, EndRead PROVE IInv'
  OBVIOUS
<1>1. TypeInv /\ TypeInv'
  BY CallType DEF IInv
<1>2. /\ phase = "reading"
      /\ Len(out) = want \/ (~Pending /\ eof)
      /\ delivered' = delivered \o out /\ out' = <<>>
      /\ phase' = IF out = <<>> /\ want > 0 THEN "done" ELSE "idle"
  BY DEF EndRead
<1>3. UNCHANGED <<fileLen, lastPad, pos, filled, lookahead, chain, buf, buf_pos, eof>>
  BY DEF EndRead, file, source, reader
<1>4. out \in Seq(Int) /\ delivered \in Seq(Int) /\ Len(out) \in Nat /\ Len(delivered) \in Nat
  <2>1. out \in Seq(Int) /\ delivered \in Seq(Int)
    BY <1>1 DEF TypeInv, TypeOK
  <2> QED BY <2>1
<1>5. /\ Len(delivered') = Len(delivered) + Len(out)
      /\ \A i \in 1..Len(delivered) : delivered'[i] = delivered[i]
      /\ \A i \in (Len(delivered) + 1)..Len(delivered') :
           delivered'[i] = out[i - Len(delivered)]
  BY <1>2, <1>4
<1>6. Opened /\ Opened' /\ phase' # "failed" /\ phase' # "refused" /\ phase' # "reading"
  BY <1>2 DEF Opened
<1>7. Unopened' /\ Aligned' /\ Chained'
  BY <1>2, <1>3, <1>6 DEF IInv, Unopened, Aligned, Chained
<1>8. Plain' = Plain
  BY <1>3 DEF Plain
<1>9. Len(out') = 0
  BY <1>2
<1>10. Accounted'
  <2>1. Len(delivered) + Len(out) + (Len(buf) - buf_pos) = Plain
    BY <1>2, <1>6 DEF IInv, Accounted
  <2>2. Len(buf) \in Nat /\ buf_pos \in Nat
    BY <1>1 DEF TypeInv, TypeOK
  <2> QED BY <2>1, <2>2, <1>3, <1>4, <1>5, <1>6, <1>8, <1>9 DEF Accounted
<1>11. Contents'
  <2>1. ASSUME NEW i \in 1..Len(delivered') PROVE delivered'[i] = i - 1
    <3>1. CASE i <= Len(delivered)
      BY <3>1, <1>4, <1>5 DEF IInv, Contents
    <3>2. CASE ~(i <= Len(delivered))
      <4> DEFINE k == i - Len(delivered)
      <4>1. k \in 1..Len(out) /\ delivered'[i] = out[k]
        BY <3>2, <1>4, <1>5
      <4>2. out[k] = Len(delivered) + k - 1
        BY <4>1 DEF IInv, Contents
      <4> QED BY <4>1, <4>2, <1>4
    <3> QED BY <3>1, <3>2, <1>4, <1>5
  <2>2. \A i \in 1..Len(buf) : buf[i] = Plain - Len(buf) + i - 1
    BY DEF IInv, Contents
  <2>3. \A i \in 1..Len(out') : out'[i] = Len(delivered') + i - 1
    BY <1>9
  <2> QED BY <2>1, <2>2, <2>3, <1>3, <1>8 DEF Contents
<1>12. Ends'
  <2>1. phase' = "done" => eof /\ buf_pos = Len(buf)
    <3>1. SUFFICES ASSUME phase' = "done" PROVE eof /\ buf_pos = Len(buf)
      OBVIOUS
    <3>2. out = <<>> /\ want > 0
      BY <3>1, <1>2
    <3>3. ~Pending /\ eof
      BY <3>2, <1>2
    <3> QED BY <3>3, <1>1 DEF Pending, TypeInv, TypeOK
  <2> QED BY <2>1, <1>2, <1>3, <1>6 DEF IInv, Ends
<1> QED BY <1>1, <1>7, <1>10, <1>11, <1>12 DEF IInv
(* A filling source returns 0 only at the end of the file. *)
LEMMA EndOfFile ==
  ASSUME ~ShortReads, TypeInv, BufRead(BufferSize, 0, 0)
  PROVE  pos = fileLen
<1> USE ReaderAssumption DEF TypeInv, TypeOK
<1>1. ~(filled > 0)
  BY DEF BufRead, Lesser
<1> QED BY <1>1 DEF BufRead, Supply, Lesser

LEMMA FinalInv == ASSUME FillingSource PROVE IInv /\ FinalBlock => IInv'
<1> SUFFICES ASSUME IInv, FinalBlock PROVE IInv'
  OBVIOUS
<1>1. TypeInv /\ TypeInv'
  BY FinalType DEF IInv
<1>2. /\ phase = "reading" /\ ~eof /\ buf_pos = Len(buf) /\ BufRead(BufferSize, 0, 0)
      /\ chain' = lookahead
  BY <1>1 DEF FinalBlock, MustRefill, MoreWanted, Pending, TypeInv, TypeOK
<1>3. UNCHANGED <<fileLen, lastPad, pos, filled, lookahead, want, delivered>>
  BY DEF FinalBlock, file, source
<1>4. pos = fileLen
  BY <1>1, <1>2, EndOfFile DEF FillingSource
<1>5. lookahead + Block = Whole(fileLen) /\ chain = lookahead - Block
  BY <1>2, <1>4 DEF IInv, Aligned, Chained, Opened
<1>6. PadCounts = {lastPad}
  BY <1>5 DEF PadCounts
<1>7. \/ /\ lastPad > 0
         /\ buf' = Unpadded(lastPad) /\ buf_pos' = 0 /\ eof' = TRUE
         /\ UNCHANGED <<phase, out>>
      \/ /\ lastPad = 0
         /\ phase' = "failed" /\ out' = <<>>
         /\ UNCHANGED <<buf, buf_pos, eof>>
  BY <1>6 DEF FinalBlock
<1>8. /\ lastPad \in 0..Block /\ lookahead \in Nat /\ chain \in Int
      /\ lookahead % Block = 0
  BY <1>1, <1>2 DEF IInv, Aligned, Opened, TypeInv, TypeOK
<1>9. /\ Len(delivered) \in Nat /\ Len(out) \in Nat /\ Len(buf) \in Nat
      /\ Len(delivered) + Len(out) = lookahead
  <2>1. buf \in Seq(Int) /\ out \in Seq(Int) /\ delivered \in Seq(Int)
    BY <1>1 DEF TypeInv, TypeOK
  <2>2. Len(buf) \in Nat /\ Len(out) \in Nat /\ Len(delivered) \in Nat
    BY <2>1
  <2> QED BY <2>2, <1>2, <1>8 DEF IInv, Accounted, Opened, Plain
<1>10. Unopened' /\ Aligned'
  BY <1>2, <1>3, <1>7 DEF IInv, Unopened, Aligned, Opened
<1>11. CASE lastPad > 0
  <2>1. /\ buf' = Unpadded(lastPad) /\ buf_pos' = 0 /\ eof' = TRUE
        /\ UNCHANGED <<phase, out>>
    BY <1>7, <1>11, <1>8
  <2>2. lastPad \in 1..Block
    BY <1>8, <1>11, BlockAssumption
  <2>3. Len(buf') = Block - lastPad
    BY <1>1, <2>1, <2>2, UnpaddedType DEF TypeInv
  <2>4. Plain' = lookahead + Block - lastPad
    BY <1>3, <2>1 DEF Plain
  <2>5. Chained' /\ Accounted'
    BY <1>2, <1>3, <1>8, <1>9, <2>1, <2>2, <2>3, <2>4, BlockAssumption
       DEF Chained, Accounted
  <2>6. ASSUME NEW b \in 1..Len(buf') PROVE buf'[b] = Plain' - Len(buf') + b - 1
    <3>1. b \in 1..(Block - lastPad)
      BY <2>3
    <3>2. buf'[b] = DecryptByte(lookahead, chain, b - 1)
      BY <2>1, <3>1 DEF Unpadded
    <3>3. buf'[b] = lookahead + (b - 1)
      BY <3>2, <1>5, <1>8 DEF DecryptByte
    <3> QED BY <3>1, <3>3, <2>2, <2>3, <2>4, <1>8, BlockAssumption
  <2>7. Contents'
    BY <2>6, <2>1, <1>3 DEF IInv, Contents
  <2>8. Ends'
    BY <1>2, <1>3, <1>4, <1>11, <2>1 DEF IInv, Ends, Opened
  <2> QED BY <1>1, <1>10, <2>5, <2>7, <2>8 DEF IInv
<1>12. CASE lastPad = 0
  <2>1. phase' = "failed" /\ out' = <<>> /\ UNCHANGED <<buf, buf_pos, eof>>
    BY <1>7, <1>12
  <2>2. Plain' = lookahead /\ Plain = lookahead
    BY <1>2, <1>3, <2>1 DEF Plain
  <2>3. Chained' /\ Accounted'
    BY <1>2, <1>3, <1>9, <2>1, <2>2 DEF Chained, Accounted
  <2>4. Contents'
    <3>1. Len(out') = 0
      BY <2>1
    <3> QED BY <3>1, <2>1, <2>2, <1>3 DEF IInv, Contents
  <2>5. OneShot(fileLen, lastPad) = Failed
    BY <1>12 DEF OneShot
  <2>6. Ends'
    BY <1>2, <1>3, <2>1, <2>5 DEF IInv, Ends, Opened
  <2> QED BY <1>1, <1>10, <2>3, <2>4, <2>6 DEF IInv
<1> QED BY <1>8, <1>11, <1>12, BlockAssumption

(* What from() reads of a filling source: one block, or the whole of a file
   that is shorter. *)
LEMMA FirstRead ==
  ASSUME ~ShortReads, TypeInv, pos = 0, filled = 0,
         NEW got \in 0..Block, NEW left \in 0..BufferSize, BufRead(Block, got, left)
  PROVE  /\ got # Block => got = fileLen
         /\ got = Block => left % Block = 0 \/ Block + left = fileLen
<1> USE BufferHoldsABlock, ReaderAssumption, BlockAssumption DEF TypeInv, TypeOK
<1>1. 0 % Block = 0
  OBVIOUS
<1>2. CASE Block >= BufferSize
  BY <1>1, <1>2 DEF BufRead, Supply, Lesser
<1>3. CASE ~(Block >= BufferSize)
  <2>1. PICK k \in Supply(BufferSize) : got = Lesser(Block, k) /\ left = k - got
    BY <1>3 DEF BufRead
  <2>2. k = Lesser(BufferSize, fileLen)
    BY <2>1 DEF Supply
  <2>3. CASE k = BufferSize
    <3>1. got = Block /\ Block + left = BufferSize
      BY <2>1, <2>3 DEF Lesser
    <3>2. Block % Block = 0
      OBVIOUS
    <3>3. (Block + left) % Block = left % Block
      BY <3>2, AfterBlocks
    <3> QED BY <3>1, <3>3
  <2>4. CASE k = fileLen
    BY <2>1, <2>4, <1>3 DEF Lesser
  <2> QED BY <2>2, <2>3, <2>4 DEF Lesser
<1> QED BY <1>2, <1>3

LEMMA FromInv ==
  ASSUME FillingSource, NEW keyLen32 PROVE IInv /\ From(keyLen32) => IInv'
<1> SUFFICES ASSUME IInv, From(keyLen32) PROVE IInv'
  OBVIOUS
<1>1. TypeInv /\ TypeInv'
  BY FromType DEF IInv
<1>2. /\ phase = "new"
      /\ UNCHANGED <<fileLen, lastPad, lookahead, chain, buf, buf_pos, eof, want, out, delivered>>
  BY DEF From, file, reader, call
<1>3. /\ lookahead = 0 /\ chain = ZeroIV /\ buf = <<>> /\ buf_pos = 0 /\ eof = FALSE
      /\ out = <<>> /\ delivered = <<>> /\ pos = 0 /\ filled = 0
  BY <1>2 DEF IInv, Unopened, Opened
<1>4. Plain' = 0 /\ Len(<<>>) = 0
  BY <1>2, <1>3 DEF Plain
<1>5. Contents'
  BY <1>2, <1>3, <1>4 DEF Contents
<1>6. CASE /\ phase' = "refused"
           /\ (UNCHANGED source \/ OneShot(fileLen, lastPad) = Failed)
  <2>1. Unopened' /\ Aligned' /\ Chained' /\ Accounted'
    BY <1>2, <1>3, <1>4, <1>6 DEF Unopened, Aligned, Chained, Accounted, Opened
  <2>2. Ends'
    BY <1>2, <1>3, <1>6 DEF Ends, Opened, source
  <2> QED BY <1>1, <1>5, <2>1, <2>2 DEF IInv
<1>7. CASE \E got \in 0..Block, left \in 0..BufferSize :
             /\ BufRead(Block, got, left)
             /\ pos' = pos + got /\ filled' = left
             /\ phase' = IF FirstBlock(got) THEN "idle" ELSE "refused"
  <2>1. PICK got \in 0..Block, left \in 0..BufferSize :
             /\ BufRead(Block, got, left)
             /\ pos' = pos + got /\ filled' = left
             /\ phase' = IF FirstBlock(got) THEN "idle" ELSE "refused"
    BY <1>7
  <2>2. /\ got # Block => got = fileLen
        /\ got = Block => left % Block = 0 \/ Block + left = fileLen
    BY <1>1, <1>3, <2>1, FirstRead DEF FillingSource
  <2>3. CASE got = Block
    <3>1. phase' = "idle" /\ pos' = Block /\ filled' = left
      BY <1>3, <2>1, <2>3, BlockAssumption DEF FirstBlock
    <3>2. 0 % Block = 0 /\ Block % Block = 0 /\ Whole(Block) = Block
      BY BlockAssumption, WholeFacts
    <3>3. Unopened' /\ Aligned' /\ Chained' /\ Accounted' /\ Ends'
      BY <1>2, <1>3, <1>4, <2>2, <2>3, <3>1, <3>2, BlockAssumption
         DEF Unopened, Aligned, Chained, Accounted, Ends, Opened, ZeroIV
    <3> QED BY <1>1, <1>5, <3>3 DEF IInv
  <2>4. CASE got # Block
    <3>1. phase' = "refused" /\ fileLen \in Nat /\ fileLen < Block
      BY <1>1, <2>1, <2>2, <2>4, ReaderAssumption, BlockAssumption
         DEF FirstBlock, TypeInv, TypeOK
    <3>2. Whole(fileLen) = 0
      BY <3>1, BlockAssumption DEF Whole
    <3>3. OneShot(fileLen, lastPad) = Failed
      BY <3>2 DEF OneShot
    <3> QED BY <1>6, <3>1, <3>3
  <2> QED BY <2>3, <2>4
<1> QED BY <1>6, <1>7 DEF From

LEMMA CallInv ==
  ASSUME FillingSource, IInv,
         \/ \E len \in OutLens : BeginRead(len)
         \/ \E kind \in Faults : FailRead(kind)
         \/ UNCHANGED vars
  PROVE  IInv'
<1>1. TypeInv /\ TypeInv'
  BY CallType DEF IInv
<1>2. Len(<<>>) = 0
  OBVIOUS
<1>3. CASE \E len \in OutLens : BeginRead(len)
  <2>1. /\ phase = "idle" /\ phase' = "reading" /\ out' = <<>> /\ out = <<>>
        /\ UNCHANGED <<fileLen, lastPad, pos, filled, lookahead, chain, buf, buf_pos, eof, delivered>>
    BY <1>3 DEF BeginRead, file, source, reader, IInv, Ends
  <2>2. Unopened' /\ Aligned' /\ Chained' /\ Accounted' /\ Ends'
    BY <2>1 DEF IInv, Unopened, Aligned, Chained, Accounted, Ends, Opened, Plain
  <2>3. Contents'
    BY <2>1, <1>2 DEF IInv, Contents, Plain
  <2> QED BY <1>1, <2>2, <2>3 DEF IInv
<1>4. CASE \E kind \in Faults : FailRead(kind)
  <2>1. /\ phase = "reading" /\ phase' = "failed" /\ out' = <<>> /\ ~eof
        /\ buf_pos = Len(buf) /\ Faults # {}
        /\ UNCHANGED <<fileLen, lastPad, pos, filled, lookahead, chain, buf, buf_pos, eof, delivered>>
    BY <1>1, <1>4 DEF FailRead, MustRefill, MoreWanted, Pending, file, source, reader,
                      FillingSource, TypeInv, TypeOK
  <2>2. Unopened' /\ Aligned' /\ Chained' /\ Ends'
    BY <2>1 DEF IInv, Unopened, Aligned, Chained, Ends, Opened
  <2>3. Accounted'
    <3>1. Len(delivered) \in Nat /\ Len(out) \in Nat /\ Len(buf) \in Nat /\ lookahead \in Nat
      <4>1. buf \in Seq(Int) /\ out \in Seq(Int) /\ delivered \in Seq(Int) /\ lookahead \in Nat
        BY <1>1 DEF TypeInv, TypeOK
      <4> QED BY <4>1
    <3>2. Len(delivered) + Len(out) + (Len(buf) - buf_pos) = lookahead
      BY <2>1 DEF IInv, Accounted, Opened, Plain
    <3> QED BY <2>1, <3>1, <3>2 DEF Accounted, Plain
  <2>4. Contents'
    BY <2>1, <1>2 DEF IInv, Contents, Plain
  <2> QED BY <1>1, <2>2, <2>3, <2>4 DEF IInv
<1>5. CASE UNCHANGED vars
  <2>1. UNCHANGED <<fileLen, lastPad, pos, filled, lookahead, chain, buf, buf_pos, eof,
                    phase, want, out, delivered>>
    BY <1>5 DEF vars, file, source, reader, call
  <2> QED BY <1>1, <2>1 DEF IInv, Unopened, Aligned, Chained, Accounted, Contents, Ends,
                            Opened, Plain
<1> QED BY <1>3, <1>4, <1>5

LEMMA Inductive == ASSUME FillingSource PROVE IInv /\ [Next]_vars => IInv'
<1> SUFFICES ASSUME IInv, [Next]_vars PROVE IInv'
  OBVIOUS
<1>1. CASE FlushPending
  BY <1>1, FlushInv
<1>2. CASE DecryptChunk
  BY <1>2, ChunkInv
<1>3. CASE FinalBlock
  BY <1>3, FinalInv
<1>4. CASE EndRead
  BY <1>4, EndReadInv
<1>5. CASE \E keyLen32 \in BOOLEAN : From(keyLen32)
  BY <1>5, FromInv
<1>6. CASE \/ \E len \in OutLens : BeginRead(len)
           \/ \E kind \in Faults : FailRead(kind)
           \/ UNCHANGED vars
  BY <1>6, CallInv
<1> QED BY <1>1, <1>2, <1>3, <1>4, <1>5, <1>6 DEF Next, ReaderStep, CallerStep, Stopped

LEMMA Invariant == ASSUME FillingSource PROVE Spec => []IInv
<1>1. Init => IInv
  BY InitInv
<1>2. IInv /\ [Next]_vars => IInv'
  BY Inductive
<1> QED BY <1>1, <1>2, PTL DEF Spec

LEMMA EndAgreesWithOneShot == IInv => StreamAgreesWithOneShot
<1> SUFFICES ASSUME IInv PROVE StreamAgreesWithOneShot
  OBVIOUS
<1>1. ASSUME phase = "done" PROVE Len(delivered) = OneShot(fileLen, lastPad)
  <2>1. /\ eof /\ buf_pos = Len(buf) /\ out = <<>>
        /\ pos = fileLen /\ lastPad > 0
    BY <1>1 DEF IInv, Ends
  <2>2. Len(delivered) \in Nat /\ Len(buf) \in Nat /\ Len(out) = 0 /\ lookahead \in Nat
    <3>1. buf \in Seq(Int) /\ delivered \in Seq(Int) /\ lookahead \in Nat
      BY DEF IInv, TypeInv, TypeOK
    <3> QED BY <2>1, <3>1
  <2>3. Len(delivered) + Len(out) + (Len(buf) - buf_pos) = lookahead + Block - lastPad
    BY <1>1, <2>1 DEF IInv, Accounted, Plain, Opened
  <2>4. lookahead + Block = Whole(fileLen)
    BY <1>1, <2>1 DEF IInv, Aligned, Opened
  <2>5. Whole(fileLen) # 0 /\ lastPad # 0 /\ lastPad \in Nat
    BY <2>1, <2>2, <2>4, BlockAssumption DEF IInv, TypeInv, TypeOK
  <2>6. OneShot(fileLen, lastPad) = lookahead + Block - lastPad
    BY <2>2, <2>4, <2>5, BlockAssumption DEF OneShot
  <2> QED BY <2>1, <2>2, <2>3, <2>5, <2>6, BlockAssumption
<1>2. ASSUME Faults = {}, phase = "failed" \/ (phase = "refused" /\ pos > 0)
      PROVE  OneShot(fileLen, lastPad) = Failed
  BY <1>2 DEF IInv, Ends
<1> QED BY <1>1, <1>2 DEF StreamAgreesWithOneShot

-----------------------------------------------------------------------------
(* The theorems.                                                            *)

(* Whatever the file, the block and buffer sizes and the sizes of the caller's
   buffers, what has been delivered is a prefix of the plaintext. *)
THEOREM PlaintextArrivesInOrder ==
  ASSUME FillingSource PROVE Spec => []PlaintextInOrder
<1>1. IInv => PlaintextInOrder
  BY DEF IInv, Contents, PlaintextInOrder
<1> QED BY <1>1, Invariant, PTL

(* Whatever decrypt_entry returns for a ciphertext, decrypt_entry_stream
   yields: the end after exactly those bytes, a failure only where it fails. *)
THEOREM StreamIsOneShot ==
  ASSUME FillingSource PROVE Spec => []StreamAgreesWithOneShot
BY EndAgreesWithOneShot, Invariant, PTL

(* What aes_encrypt_cbc_with_padding wrote, the stream reads back. *)
THEOREM EncryptedStreamsBack ==
  ASSUME FillingSource PROVE Spec => []DecryptsWhatWasEncrypted
<1>1. StreamAgreesWithOneShot => DecryptsWhatWasEncrypted
  <2> SUFFICES ASSUME StreamAgreesWithOneShot,
                      NEW n \in 0..MaxFile, Faults = {},
                      fileLen = Encryption(n).len, lastPad = Encryption(n).pad
               PROVE  /\ phase # "failed"
                      /\ phase = "refused" => ~(pos > 0)
                      /\ phase = "done" => Len(delivered) = n
    BY DEF DecryptsWhatWasEncrypted
  <2>1. n \in Nat /\ OneShot(fileLen, lastPad) = n
    BY RoundTrip, ReaderAssumption
  <2>2. n # Failed
    BY <2>1 DEF Failed
  <2> QED BY <2>1, <2>2 DEF StreamAgreesWithOneShot
<1> QED BY <1>1, StreamIsOneShot, PTL
-----------------------------------------------------------------------------
(* Refinement of PlainStream.                                               *)

LEMMA OfferedFacts ==
  ASSUME TypeInv
  PROVE  /\ Offered \in Nat
         /\ OneShot(fileLen, lastPad) # Failed =>
              lastPad > 0 /\ OneShot(fileLen, lastPad) = Whole(fileLen) - lastPad
         /\ Whole(fileLen) >= Block => Offered >= Whole(fileLen) - Block
         /\ Whole(fileLen) >= Block /\ lastPad > 0 =>
              /\ OneShot(fileLen, lastPad) # Failed
              /\ Offered = Whole(fileLen) - lastPad
<1>1. fileLen \in Nat /\ lastPad \in 0..Block
  BY ReaderAssumption DEF TypeInv, TypeOK
<1>2. Whole(fileLen) \in Nat /\ (Whole(fileLen) # 0 => Whole(fileLen) >= Block)
  <2>1. fileLen < Block => Whole(fileLen) = 0
    BY <1>1, BlockAssumption DEF Whole
  <2> QED BY <2>1, <1>1, WholeFacts, BlockAssumption
<1> QED BY <1>1, <1>2, BlockAssumption DEF Offered, OneShot, Failed

(* What is decrypted but not yet delivered is still on offer. *)
LEMMA NotBeyondOffered ==
  ASSUME IInv, phase = "reading"
  PROVE  /\ Len(delivered) + Len(out) <= Offered
         /\ Len(delivered) \in Nat /\ Len(out) \in Nat
<1>1. /\ Len(delivered) \in Nat /\ Len(out) \in Nat /\ Len(buf) \in Nat
      /\ buf_pos \in 0..Len(buf) /\ lookahead \in Nat /\ lastPad \in 0..Block
      /\ pos \in Nat /\ fileLen \in Nat /\ pos <= fileLen
  <2>1. /\ delivered \in Seq(Int) /\ out \in Seq(Int) /\ buf \in Seq(Int)
        /\ buf_pos \in 0..Len(buf) /\ lookahead \in Nat /\ lastPad \in 0..Block
        /\ fileLen \in 0..MaxFile /\ pos \in 0..fileLen
    BY DEF IInv, TypeInv, TypeOK
  <2> QED BY <2>1, ReaderAssumption
<1>2. Len(delivered) + Len(out) <= Plain
  <2>1. Len(delivered) + Len(out) + (Len(buf) - buf_pos) = Plain
    BY DEF IInv, Accounted, Opened
  <2> QED BY <2>1, <1>1
<1>3. lookahead + Block = Whole(pos) /\ (pos % Block = 0 \/ pos = fileLen)
  BY DEF IInv, Aligned, Opened
<1>4. Whole(pos) <= Whole(fileLen) /\ Whole(fileLen) \in Nat
  <2>1. CASE pos = fileLen
    BY <2>1, <1>1, WholeFacts
  <2>2. CASE pos % Block = 0
    <3> DEFINE b == fileLen - pos
    <3>1. b \in Nat /\ pos + b = fileLen
      BY <1>1
    <3> HIDE DEF b
    <3>2. Whole(pos + b) = pos + Whole(b)
      BY <3>1, <2>2, <1>1, WholeAfterBlocks
    <3>4. Whole(b) \in Nat /\ Whole(pos) = pos
      BY <3>1, <2>2, <1>1, WholeFacts
    <3>3. Whole(fileLen) = pos + Whole(b)
      BY <3>1, <3>2
    <3> QED BY <3>3, <3>4, <1>1
  <2> QED BY <1>3, <2>1, <2>2
<1>5. Whole(fileLen) >= Block
  BY <1>1, <1>3, <1>4, BlockAssumption
<1>6. CASE eof
  <2>1. pos = fileLen /\ lastPad > 0
    BY <1>6 DEF IInv, Ends
  <2>2. Offered = Whole(fileLen) - lastPad
    BY <2>1, <1>5, OfferedFacts DEF IInv
  <2> QED BY <1>1, <1>2, <1>3, <1>6, <2>1, <2>2, BlockAssumption DEF Plain
<1>7. CASE ~eof
  <2>1. Offered >= Whole(fileLen) - Block /\ Offered \in Nat
    BY <1>5, OfferedFacts DEF IInv
  <2> QED BY <1>1, <1>2, <1>3, <1>4, <1>7, <2>1, BlockAssumption DEF Plain
<1> QED BY <1>1, <1>6, <1>7

(* The end of a read(): its bytes are delivered, or it reports the end. *)
LEMMA EndReadRefines ==
  ASSUME FillingSource, IInv, IInv', EndRead
  PROVE  [Stream!Next]_(Stream!vars)
<1>1. /\ phase = "reading" /\ delivered' = delivered \o out
      /\ phase' = IF out = <<>> /\ want > 0 THEN "done" ELSE "idle"
      /\ UNCHANGED <<fileLen, lastPad, pos, eof>>
  BY DEF EndRead, file, source, reader
<1>2. Offered' = Offered /\ (OneShot(fileLen, lastPad) # Failed)' = (OneShot(fileLen, lastPad) # Failed)
  BY <1>1 DEF Offered
<1>3. StreamStatus = "open" /\ StreamStatus' = IF phase' = "done" THEN "eof" ELSE "open"
  BY <1>1 DEF StreamStatus
<1>4. out \in Seq(Int) /\ delivered \in Seq(Int)
  BY DEF IInv, TypeInv, TypeOK
<1>5. CASE out = <<>>
  <2>1. delivered' = delivered
    BY <1>1, <1>4, <1>5
  <2>2. CASE phase' = "done"
    <3>1. StreamAgreesWithOneShot'
      BY EndAgreesWithOneShot, PTL
    <3>2. Len(delivered) = OneShot(fileLen, lastPad)
      BY <1>1, <2>1, <2>2, <3>1 DEF StreamAgreesWithOneShot
    <3>3. Len(delivered) \in Nat
      BY <1>4
    <3>4. OneShot(fileLen, lastPad) # Failed /\ Len(delivered) = Offered
      BY <3>2, <3>3 DEF Offered, Failed
    <3> QED BY <1>2, <1>3, <2>1, <2>2, <3>4 DEF Stream!Next, Stream!End
  <2>3. CASE phase' # "done"
    BY <1>2, <1>3, <2>1, <2>3 DEF Stream!vars
  <2> QED BY <2>2, <2>3
<1>6. CASE out # <<>>
  <2>1. Len(out) \in Nat \ {0} /\ Len(delivered) \in Nat
    BY <1>4, <1>6
  <2>2. Len(out) \in 1..(Offered - Len(delivered))
    BY <1>1, <2>1, NotBeyondOffered, OfferedFacts DEF IInv
  <2>3. out = [i \in 1..Len(out) |-> Len(delivered) + i - 1]
    <3>1. out = [i \in 1..Len(out) |-> out[i]]
      BY <1>4
    <3>2. \A i \in 1..Len(out) : out[i] = Len(delivered) + i - 1
      BY DEF IInv, Contents
    <3> QED BY <3>1, <3>2
  <2>4. phase' # "done"
    BY <1>1, <1>6
  <2>5. \E n \in 1..(Offered - Len(delivered)) :
          delivered' = delivered \o [i \in 1..n |-> Len(delivered) + i - 1]
    BY <1>1, <2>2, <2>3
  <2> QED BY <1>2, <1>3, <2>4, <2>5 DEF Stream!Next, Stream!Deliver
<1> QED BY <1>5, <1>6

LEMMA StepRefines ==
  ASSUME FillingSource, IInv, IInv', [Next]_vars
  PROVE  [Stream!Next]_(Stream!vars)
<1>1. UNCHANGED <<fileLen, lastPad>> /\ UNCHANGED Offered
      /\ (OneShot(fileLen, lastPad) # Failed)' = (OneShot(fileLen, lastPad) # Failed)
  <2>1. UNCHANGED <<fileLen, lastPad>>
    BY DEF Next, ReaderStep, CallerStep, Stopped, FlushPending, DecryptChunk, FinalBlock,
           EndRead, FailRead, From, BeginRead, vars, file
  <2> QED BY <2>1 DEF Offered
<1>2. CASE EndRead
  BY <1>2, EndReadRefines
<1>3. CASE UNCHANGED <<delivered, StreamStatus>>
  BY <1>1, <1>3 DEF Stream!vars
<1>4. CASE /\ UNCHANGED delivered
           /\ StreamStatus = "open" /\ StreamStatus' = "error"
           /\ OneShot(fileLen, lastPad) = Failed \/ Faults # {}
  BY <1>1, <1>4 DEF Stream!Next, Stream!Fail
<1>5. CASE FlushPending \/ DecryptChunk \/ \E len \in OutLens : BeginRead(len)
  BY <1>3, <1>5 DEF FlushPending, DecryptChunk, BeginRead, MustRefill, MoreWanted,
                    StreamStatus, source, call
<1>6. CASE FinalBlock \/ \E kind \in Faults : FailRead(kind)
  <2>1. phase = "reading" /\ UNCHANGED delivered /\ phase' \in {"reading", "failed", "idle"}
    BY <1>6 DEF FinalBlock, FailRead, MustRefill, MoreWanted
  <2>2. phase' = "failed" /\ Faults = {} => OneShot(fileLen, lastPad) = Failed
    BY <1>1 DEF IInv, Ends
  <2>3. CASE phase' = "failed"
    BY <1>4, <2>1, <2>2, <2>3 DEF StreamStatus
  <2>4. CASE phase' # "failed"
    BY <1>3, <2>1, <2>4 DEF StreamStatus
  <2> QED BY <2>3, <2>4
<1>7. CASE \E keyLen32 \in BOOLEAN : From(keyLen32)
  <2>1. phase = "new" /\ UNCHANGED delivered /\ phase' \in {"idle", "refused"}
    BY <1>7 DEF From
  <2>2. phase' = "refused" /\ pos' > 0 => OneShot(fileLen, lastPad) = Failed
    BY <1>1 DEF IInv, Ends
  <2>3. CASE phase' = "refused" /\ pos' > 0
    BY <1>4, <2>1, <2>2, <2>3 DEF StreamStatus
  <2>4. CASE ~(phase' = "refused" /\ pos' > 0)
    BY <1>3, <2>1, <2>4 DEF StreamStatus
  <2> QED BY <2>3, <2>4
<1>8. CASE UNCHANGED vars
  BY <1>3, <1>8 DEF vars, source, StreamStatus
<1> QED BY <1>2, <1>5, <1>6, <1>7, <1>8 DEF Next, ReaderStep, CallerStep, Stopped

(* The reader over such a source is a PlainStream: the plaintext in order, its
   end only after all of it, an error only when the ciphertext does not decrypt
   or its source failed. *)
THEOREM ReaderImplementsPlainStream ==
  ASSUME FillingSource PROVE Spec => ImplementsPlainStream
<1>1. Init => Stream!Init
  <2> SUFFICES ASSUME Init PROVE Stream!Init
    OBVIOUS
  <2>1. Offered \in Nat
    BY InitType, OfferedFacts
  <2>2. (OneShot(fileLen, lastPad) # Failed) \in BOOLEAN
    OBVIOUS
  <2>3. delivered = <<>> /\ StreamStatus = "open"
    BY DEF Init, StreamStatus
  <2> QED BY <2>1, <2>2, <2>3 DEF Stream!Init
<1>2. IInv /\ IInv' /\ [Next]_vars => [Stream!Next]_(Stream!vars)
  BY StepRefines
<1> QED BY <1>1, <1>2, Invariant, PTL DEF Spec, ImplementsPlainStream, Stream!Spec
=============================================================================
