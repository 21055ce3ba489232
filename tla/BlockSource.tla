------------------------------ MODULE BlockSource ------------------------------
(***************************************************************************)
(* What KeyRing::from_bytes relies on when it goes through a key bag with   *)
(* tlv_blocks (src/backup/util/tlv.rs): the blocks that are there in full,  *)
(* each once and in the order they were written; then, if the bag ends in   *)
(* the middle of a value, one failure; then nothing, however often it is    *)
(* asked.                                                                   *)
(***************************************************************************)
EXTENDS Naturals, Sequences

VARIABLES
  blocks,       \* what is there in full, [kind, tag, value]
  given,        \* how many of them have been handed out
  fails,        \* the failure that is still to come, or NoFailure
  item          \* the answer to the last next()

NotAsked == [kind |-> "not asked"]
NoMore == [kind |-> "none"]                      \* None
NoFailure == [kind |-> "no failure"]

Init == given = 0 /\ item = NotAsked

Give ==
  /\ given < Len(blocks)
  /\ given' = given + 1 /\ item' = blocks[given + 1]
  /\ UNCHANGED <<blocks, fails>>

Fail ==
  /\ given = Len(blocks) /\ fails # NoFailure
  /\ item' = fails /\ fails' = NoFailure
  /\ UNCHANGED <<blocks, given>>

Finish ==
  /\ given = Len(blocks) /\ fails = NoFailure
  /\ item' = NoMore
  /\ UNCHANGED <<blocks, given, fails>>

Next == Give \/ Fail \/ Finish

Spec == Init /\ [][Next]_<<blocks, given, fails, item>>
=============================================================================
