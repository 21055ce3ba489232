------------------------------ MODULE CbcReader ------------------------------
(***************************************************************************)
(* AesCbcDecryptReader (src/backup/crypto.rs): the streaming reader behind  *)
(* Backup::decrypt_entry_stream and behind the decryption of Manifest.db.   *)
(*                                                                         *)
(* The state is the reader's own (lookahead, cipher, buf, buf_pos, eof), the*)
(* BufReader it reads through, the read() call in progress, and what the    *)
(* caller has been given so far.  Every block the reader ever holds is 16   *)
(* consecutive bytes of the ciphertext, so a block is represented by the    *)
(* offset at which it starts.  One action is one iteration of the loop in   *)
(* read(): another call cannot interleave (&mut self), but an error of the  *)
(* source can end the call between any two iterations.                      *)
(***************************************************************************)
EXTENDS Cbc, Sequences

CONSTANTS
  BufferSize,   \* STREAM_BUFFER_SIZE, 8192 in the code
  MaxFile,      \* bound: the longest ciphertext considered
  OutLens,      \* the lengths of the buffers callers pass to read()
  ShortReads,   \* may the source return fewer bytes than it was asked for?
  Faults        \* the kinds of io::Error a read of the source may return

ASSUME ReaderAssumption ==
  /\ BufferSize \in Nat \ {0} /\ BufferSize % Block = 0
  /\ MaxFile \in Nat
  /\ OutLens \subseteq Nat
  /\ ShortReads \in BOOLEAN
  /\ Faults \subseteq {"Interrupted", "Other"}

VARIABLES
  fileLen, lastPad,   \* the ciphertext: its length and last pad count
  pos,                \* bytes the BufReader has handed to the reader
  filled,             \* bytes the BufReader holds beyond those
  lookahead,          \* offset of the block held back
  chain,              \* offset of the last block decrypted (cipher state)
  buf, buf_pos, eof,
  phase,              \* where the caller is, see Phases
  want, out,          \* the current read(): out.len(), bytes written to it
  delivered           \* every byte the caller has been given with an Ok

file    == <<fileLen, lastPad>>
source  == <<pos, filled>>
reader  == <<lookahead, chain, buf, buf_pos, eof>>
call    == <<want, out>>
vars    == <<file, source, reader, phase, call, delivered>>

(* "new": before AesCbcDecryptReader::from; "refused": it returned Err;
   "idle" / "reading": between and during calls of read();
   "done": a read() into a nonempty buffer returned Ok(0);
   "failed": a read() returned an error that is not Interrupted. *)
Phases == {"new", "refused", "idle", "reading", "done", "failed"}

Lesser(a, b) == IF a <= b THEN a ELSE b

Init ==
  /\ fileLen \in 0..MaxFile
  /\ lastPad \in IF Whole(fileLen) = 0 THEN {0} ELSE 0..Block
  /\ pos = 0 /\ filled = 0
  /\ lookahead = 0 /\ chain = ZeroIV
  /\ buf = <<>> /\ buf_pos = 0 /\ eof = FALSE
  /\ phase = "new"
  /\ want = 0 /\ out = <<>>
  /\ delivered = <<>>

-----------------------------------------------------------------------------
(* The source, as std::io::Read and std::io::BufReader promise it.          *)

(* What one read of the source for at most n bytes may return: a file gives
   all it has, another source may give less, and 0 means the end. *)
Supply(n) ==
  LET most == Lesser(n, fileLen - (pos + filled))
  IN  IF ShortReads /\ most > 0 THEN 1..most ELSE {most}

(* BufReader::read for n bytes: what it holds, else straight from the source
   when n is no less than its capacity, else from one refill. *)
BufRead(n, got, left) ==
  IF filled > 0
    THEN got = Lesser(n, filled) /\ left = filled - got
    ELSE IF n >= BufferSize
           THEN got \in Supply(n) /\ left = 0
           ELSE \E k \in Supply(BufferSize) :
                  got = Lesser(n, k) /\ left = k - got

(* Only a read that goes to the source can fail. *)
SourceFault(kind) == filled = 0 /\ kind \in Faults

-----------------------------------------------------------------------------
(* Is what the first read returned a first block?  (from: n == 16) *)
AcceptNonempty(got) == got > 0       \* mutant: only the empty file is refused
FirstBlock(got) == got = Block

(* AesCbcDecryptReader::from: a key that is not 32 bytes is refused before
   anything is read, and so is a first read that is not exactly one block. *)
From(keyLen32) ==
  /\ phase = "new"
  /\ \/ /\ ~keyLen32
        /\ phase' = "refused"
        /\ UNCHANGED source
     \/ /\ keyLen32
        /\ \E got \in 0..Block, left \in 0..BufferSize :
             /\ BufRead(Block, got, left)
             /\ pos' = pos + got /\ filled' = left
             /\ phase' = IF FirstBlock(got) THEN "idle" ELSE "refused"
     \/ /\ keyLen32
        /\ \E kind \in Faults : SourceFault(kind)
        /\ phase' = "refused"
        /\ UNCHANGED source
  /\ UNCHANGED <<file, reader, call, delivered>>

BeginRead(len) ==
  /\ phase = "idle"
  /\ phase' = "reading"
  /\ want' = len /\ out' = <<>>
  /\ UNCHANGED <<file, source, reader, delivered>>

PendingInclusive == buf_pos <= Len(buf)         \* mutant: off by one
Pending == buf_pos < Len(buf)
MoreWanted == phase = "reading" /\ Len(out) < want

ToCopyAll == Len(buf) - buf_pos       \* mutant: the caller's buffer ignored
ToCopy == Lesser(Len(buf) - buf_pos, want - Len(out))

(* Copy decrypted bytes that are waiting in buf to the caller's buffer. *)
FlushPending ==
  /\ MoreWanted /\ Pending
  /\ out' = out \o SubSeq(buf, buf_pos + 1, buf_pos + ToCopy)
  /\ buf_pos' = buf_pos + ToCopy
  /\ UNCHANGED <<file, source, lookahead, chain, buf, eof, phase, want, delivered>>

MustRefill == MoreWanted /\ ~Pending /\ ~eof

BlockOfChunk(j) == pos + j * Block    \* mutant: lookahead not put in front

(* The j-th block of lookahead followed by the chunk just read. *)
BlockAt(j) == IF j = 0 THEN lookahead ELSE pos + (j - 1) * Block

(* Mutant: a fresh decryptor for every chunk. *)
DecryptAfresh(n) ==
  [b \in 1..(n * Block) |->
     LET j == (b - 1) \div Block
     IN  DecryptByte(BlockAt(j),
                     IF j = 0 THEN ZeroIV ELSE BlockAt(j - 1),
                     (b - 1) % Block)]

(* The first n blocks of them decrypted in order. *)
DecryptBlocks(n) ==
  [b \in 1..(n * Block) |->
     LET j == (b - 1) \div Block
     IN  DecryptByte(BlockAt(j),
                     IF j = 0 THEN chain ELSE BlockAt(j - 1),
                     (b - 1) % Block)]

(* inner.read returned a chunk: decrypt all complete blocks but the last,
   which becomes the lookahead; what is left over of a block is dropped. *)
DecryptChunk ==
  /\ MustRefill
  /\ \E got \in 1..BufferSize, left \in 0..BufferSize :
       /\ BufRead(BufferSize, got, left)
       /\ pos' = pos + got /\ filled' = left
       /\ LET num_blocks == (Block + got) \div Block
          IN  /\ buf' = DecryptBlocks(num_blocks - 1)
              /\ lookahead' = BlockAt(num_blocks - 1)
              /\ chain' = IF num_blocks = 1 THEN chain ELSE BlockAt(num_blocks - 2)
  /\ buf_pos' = 0
  /\ UNCHANGED <<file, eof, phase, call, delivered>>

(* Mutant: the last block handed out with its padding. *)
KeepPadding(pad) == [b \in 1..Block |-> DecryptByte(lookahead, chain, b - 1)]

(* The lookahead decrypted and stripped of its padding. *)
Unpadded(pad) ==
  [b \in 1..(Block - pad) |-> DecryptByte(lookahead, chain, b - 1)]

(* The pad counts the lookahead may turn out to end in.  The last complete
   block of the ciphertext has its own; bytes that are not padding may look
   like some, or not (0). *)
PadCounts ==
  IF lookahead + Block = Whole(fileLen) /\ chain = lookahead - Block
    THEN {lastPad} ELSE 0..Block

(* inner.read returned 0: the lookahead is the final block.  It has gone
   through the cipher by the time unpad finds out whether the pad is valid. *)
FinalBlock ==
  /\ MustRefill
  /\ BufRead(BufferSize, 0, 0)
  /\ \E pad \in PadCounts :
       \/ /\ pad > 0
          /\ buf' = Unpadded(pad)
          /\ buf_pos' = 0 /\ eof' = TRUE
          /\ UNCHANGED <<phase, out>>
       \/ /\ pad = 0
          /\ phase' = "failed" /\ out' = <<>>
          /\ UNCHANGED <<buf, buf_pos, eof>>
  /\ chain' = lookahead
  /\ UNCHANGED <<file, source, lookahead, want, delivered>>

(* Mutant: everything in buf is offered again after an error. *)
FailReadRewinds(kind) ==
  /\ MustRefill /\ SourceFault(kind)
  /\ phase' = IF kind = "Interrupted" THEN "idle" ELSE "failed"
  /\ out' = <<>>
  /\ buf_pos' = 0
  /\ UNCHANGED <<file, source, lookahead, chain, buf, eof, want, delivered>>

(* inner.read failed and `?` ends the call: the caller is told Err, not how
   much of its buffer was written.  Callers like io::copy try again after
   Interrupted and give up after anything else. *)
FailRead(kind) ==
  /\ MustRefill /\ SourceFault(kind)
  /\ phase' = IF kind = "Interrupted" THEN "idle" ELSE "failed"
  /\ out' = <<>>
  /\ UNCHANGED <<file, source, reader, want, delivered>>

(* The loop is over: Ok(written). *)
EndRead ==
  /\ phase = "reading"
  /\ Len(out) = want \/ (~Pending /\ eof)
  /\ delivered' = delivered \o out
  /\ phase' = IF out = <<>> /\ want > 0 THEN "done" ELSE "idle"
  /\ out' = <<>>
  /\ UNCHANGED <<file, source, reader, want>>

-----------------------------------------------------------------------------
ReaderStep ==
  \/ FlushPending \/ DecryptChunk \/ FinalBlock \/ EndRead
  \/ \E kind \in Faults : FailRead(kind)

CallerStep ==
  \/ \E keyLen32 \in BOOLEAN : From(keyLen32)
  \/ \E len \in OutLens : BeginRead(len)

(* A caller that has been refused, has seen the end or has seen an error it
   does not retry makes no further call. *)
Stopped == phase \in {"refused", "done", "failed"} /\ UNCHANGED vars

Next == ReaderStep \/ CallerStep \/ Stopped

Spec == Init /\ [][Next]_vars

(* read() runs to completion once called, and a caller that copies the whole
   stream keeps calling it. *)
FairSpec == Spec /\ WF_vars(ReaderStep) /\ WF_vars(CallerStep)

-----------------------------------------------------------------------------
(* Types.  Offsets may be anywhere in the file; a buffer never outgrows one
   chunk. *)
TypeOK ==
  /\ fileLen \in 0..MaxFile /\ lastPad \in 0..Block
  /\ pos \in 0..fileLen /\ filled \in 0..BufferSize
  /\ lookahead \in Nat /\ chain \in Int
  /\ buf \in Seq(Int) /\ Len(buf) <= BufferSize
  /\ buf_pos \in 0..Len(buf) /\ eof \in BOOLEAN
  /\ phase \in Phases
  /\ want \in OutLens \cup {0} /\ out \in Seq(Int) /\ Len(out) <= want
  /\ delivered \in Seq(Int)

(* What the caller has received is a prefix of the plaintext: no byte is lost,
   repeated, displaced or decrypted with the wrong chaining value, whatever
   sizes read() was called with and wherever chunks and blocks end. *)
PlaintextInOrder == \A i \in 1..Len(delivered) : delivered[i] = i - 1

(* Backup::decrypt_entry_stream and Backup::decrypt_entry agree: the stream
   ends after exactly the bytes aes_decrypt_cbc_with_padding returns, and,
   unless the source fails, a stream is refused or fails only on a ciphertext
   the one-shot call rejects.  (A refusal before anything was read is that of
   the key, which both calls check.) *)
StreamAgreesWithOneShot ==
  /\ phase = "done" => Len(delivered) = OneShot(fileLen, lastPad)
  /\ Faults = {} /\ (phase = "failed" \/ (phase = "refused" /\ pos > 0))
       => OneShot(fileLen, lastPad) = Failed

(* What aes_encrypt_cbc_with_padding wrote, the stream reads back: of the
   encryption of n bytes no reader that got to its first block is refused or
   fails, and the end comes after exactly n bytes. *)
DecryptsWhatWasEncrypted ==
  \A n \in 0..MaxFile :
    Faults = {} /\ fileLen = Encryption(n).len /\ lastPad = Encryption(n).pad =>
      /\ phase # "failed"
      /\ phase = "refused" => ~(pos > 0)
      /\ phase = "done" => Len(delivered) = n

(* Even over a source that fails now and then and a caller that tries again, no
   byte of the plaintext is handed out twice or out of order; bytes can only be
   missing. *)
NeverRepeats ==
  \A i, j \in 1..Len(delivered) :
    i < j /\ Garbage \notin {delivered[i], delivered[j]} => delivered[i] < delivered[j]

(* The struct's comment: the reader "only ever holds two AES blocks (32 bytes)
   plus whatever the caller's buffer is" (crypto.rs:322). *)
HoldsTwoBlocks == Len(buf) <= 2 * Block + want

(* Every caller that keeps reading reaches an end: no iteration of the loop
   spins without consuming ciphertext or plaintext. *)
Drains == <>(phase \in {"refused", "done", "failed"})

-----------------------------------------------------------------------------
(* The reader over a source that does not return short implements PlainStream:
   what is offered is the plaintext, or, of a ciphertext with a broken end,
   everything before its last block. *)
Offered ==
  IF OneShot(fileLen, lastPad) # Failed THEN OneShot(fileLen, lastPad)
  ELSE IF Whole(fileLen) = 0 THEN 0 ELSE Whole(fileLen) - Block

(* A reader refused before anything was read (the key, an empty file, a failed
   first read) is no stream yet. *)
StreamStatus ==
  CASE phase = "done" -> "eof"
    [] phase = "failed" \/ (phase = "refused" /\ pos > 0) -> "error"
    [] OTHER -> "open"

Stream ==
  INSTANCE PlainStream WITH
    SourceMayFail <- Faults # {},
    offered <- Offered,
    sound   <- OneShot(fileLen, lastPad) # Failed,
    handed  <- delivered,
    status  <- StreamStatus

ImplementsPlainStream == Stream!Spec
=============================================================================
