---------------------------------- MODULE Tlv ----------------------------------
(***************************************************************************)
(* tlv_blocks (src/backup/util/tlv.rs): the iterator over a blob of blocks, *)
(* each a tag, a big-endian length and a value of that many bytes.  The     *)
(* blob is what is left of blocks that were written one after the other     *)
(* when it is cut off anywhere; any string of bytes that has room for a     *)
(* header is one.  Positions are computed in a usize, which may be no wider *)
(* than the length field.                                                   *)
(***************************************************************************)
EXTENDS Integers, SequencesExt

CONSTANTS
  Base,         \* the number of values a byte has (256)
  TagSize,      \* the bytes of a tag (4)
  Widths,       \* the number of values a usize may have
  Writings      \* bound: the sequences of blocks to write

Byte == 0..(Base - 1)
Header == TagSize + 4
U32 == Base * Base * Base * Base        \* the lengths that four bytes can say
Block == [kind : {"block"}, tag : Seq(Byte), value : Seq(Byte)]

ASSUME TlvAssumption ==
  /\ Base \in Nat \ {0, 1} /\ TagSize \in Nat
  /\ \A w \in Widths : w \in Nat /\ w >= U32
  /\ \A blocks \in Writings : blocks \in Seq(Block) /\ \A k \in DOMAIN blocks :
       Len(blocks[k].tag) = TagSize /\ Len(blocks[k].value) < U32

VARIABLES
  written,      \* the blocks of the blob's writer
  usize,
  data, pos,    \* the fields of Iter
  item          \* what next() returned, "panic" when it did not

vars == <<written, usize, data, pos, item>>

NotAsked == [kind |-> "not asked"]
NoMore == [kind |-> "none"]                      \* None
Error(e) == [kind |-> "error", error |-> e]
Panic == [kind |-> "panic"]

(* How a writer lays blocks out. *)
BigEndian(n) ==
  LET high == n \div Base
      higher == high \div Base
      highest == higher \div Base
  IN  <<highest % Base, higher % Base, high % Base, n % Base>>
Bytes(block) == block.tag \o BigEndian(Len(block.value)) \o block.value
Blob(blocks) == FlattenSeq([k \in DOMAIN blocks |-> Bytes(blocks[k])])

(* No slice is longer than isize::MAX. *)
Init ==
  /\ written \in Writings /\ usize \in Widths
  /\ \E size \in 0..Len(Blob(written)) :
       size < usize \div 2 /\ data = SubSeq(Blob(written), 1, size)
  /\ pos = 0 /\ item = NotAsked

-----------------------------------------------------------------------------
(* One call of next(), by what it finds at pos. *)
Asked == item # Panic
HasHeader == pos + Header <= Len(data)

LengthByte(i) == data[pos + TagSize + i]

(* Mutant: the length is read with its low byte first. *)
LittleEndianLength ==
  ((LengthByte(4) * Base + LengthByte(3)) * Base + LengthByte(2)) * Base + LengthByte(1)

(* u32::from_be_bytes *)
Length ==
  ((LengthByte(1) * Base + LengthByte(2)) * Base + LengthByte(3)) * Base + LengthByte(4)

Start == pos + Header
End == (Start + Length) % usize

NoHeader ==
  /\ Asked /\ ~HasHeader
  /\ item' = NoMore
  /\ UNCHANGED <<written, usize, data, pos>>

(* Mutant: the iterator stays where the error was. *)
CutValueStays ==
  /\ Asked /\ HasHeader /\ End > Len(data)
  /\ item' = Error("InvalidTlvData")
  /\ UNCHANGED <<written, usize, data, pos>>

(* Mutant: the iterator goes where the value would have ended. *)
CutValueBeyond ==
  /\ Asked /\ HasHeader /\ End > Len(data)
  /\ pos' = End /\ item' = Error("InvalidTlvData")
  /\ UNCHANGED <<written, usize, data>>

CutValue ==
  /\ Asked /\ HasHeader /\ End > Len(data)
  /\ pos' = Len(data) /\ item' = Error("InvalidTlvData")
  /\ UNCHANGED <<written, usize, data>>

Yield ==
  /\ Asked /\ HasHeader /\ Start <= End /\ End <= Len(data)
  /\ pos' = End
  /\ item' = [kind |-> "block", tag |-> SubSeq(data, pos + 1, pos + TagSize),
              value |-> SubSeq(data, Start + 1, End)]
  /\ UNCHANGED <<written, usize, data>>

(* The sum wrapped around: the addition panics in a debug build, the slice in
   any other. *)
EndWraps ==
  /\ Asked /\ HasHeader /\ End < Start
  /\ item' = Panic
  /\ UNCHANGED <<written, usize, data, pos>>

Next == NoHeader \/ CutValue \/ Yield \/ EndWraps

(* from_bytes is a for loop: it asks until there is no more. *)
Spec == Init /\ [][Next]_vars /\ WF_vars(Next)

-----------------------------------------------------------------------------
TypeOK ==
  /\ written \in Writings /\ usize \in Widths
  /\ data \in Seq(Byte) /\ pos \in 0..Len(data)
  /\ item \in Block \cup {NotAsked, NoMore, Panic, Error("InvalidTlvData")}

(* Where a block that was written begins and ends. *)
EndOf(k) == Len(Blob(SubSeq(written, 1, k)))
StartOf(k) == EndOf(k - 1)
InFull == {k \in DOMAIN written : EndOf(k) <= Len(data)}

(* The block whose value is cut: its header is there.  The iterator has not
   come to its end as long as it has not reported it. *)
CutBlock == {k \in DOMAIN written \ InFull : StartOf(k) + Header <= Len(data)}
Failure(k) == IF EndOf(k) < usize THEN Error("InvalidTlvData") ELSE Panic

WholeBlocks == SubSeq(written, 1, Cardinality(InFull))
GivenSoFar == Cardinality({k \in InFull : EndOf(k) <= pos})
FailureToCome ==
  IF \E k \in CutBlock : pos <= StartOf(k) /\ item # Panic
  THEN Failure(CHOOSE k \in CutBlock : TRUE)
  ELSE [kind |-> "no failure"]

Promised == INSTANCE BlockSource WITH
  blocks <- WholeBlocks, given <- GivenSoFar, fails <- FailureToCome

(* Wherever a bag is cut off, the iterator gives the blocks that are there in
   full, in the order they were written, whatever bytes they consist of; a value
   that is cut is one error, after which there is nothing more, and never a
   block (tlv.rs:49); a header that is cut is taken for the end.  It panics only
   for a cut value that ends where no usize reaches: a sum that wraps is never
   taken for an end within the blob. *)
ImplementsBlockSource == Promised!Spec

(* The loop comes to an end (tlv.rs:50: an error moves the iterator to the end
   of the blob, so that a caller that goes on after it is not told the same
   error for ever). *)
Ends == <>(item \in {NoMore, Panic})
=============================================================================
