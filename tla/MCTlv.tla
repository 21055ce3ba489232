--------------------------------- MODULE MCTlv ---------------------------------
(* Blocks of every length that has a special byte pattern: none of the bits of its
   four bytes, each of them alone, two and all; up to three of them. *)
EXTENDS Tlv

Lengths == {0, 1, 2, 4, 5, 8, U32 - 1}
ValueOf(n, first) == [i \in 1..n |-> (first + i) % Base]
BlockOf(n, first) ==
  [kind |-> "block", tag |-> [i \in 1..TagSize |-> first], value |-> ValueOf(n, first)]

MCBlocks == {BlockOf(n, first) : n \in Lengths, first \in {0, Base - 1}}
FewBlocks == {BlockOf(n, 0) : n \in {0, 1, 4}}
MCWritings ==
  BoundedSeq(MCBlocks, 2) \cup {s \o <<b>> : s \in [1..2 -> FewBlocks], b \in FewBlocks}
=============================================================================
