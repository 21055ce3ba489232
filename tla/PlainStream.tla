----------------------------- MODULE PlainStream -----------------------------
(***************************************************************************)
(* What a streaming decryptor promises its caller, without lookahead,       *)
(* buffers or chunks: the plaintext in order from offset 0, the end only    *)
(* after all of it, an error only when the ciphertext does not decrypt or   *)
(* its source broke.  A plaintext byte is represented by its offset.        *)
(***************************************************************************)
EXTENDS Integers, Sequences

CONSTANT
  SourceMayFail   \* may reading the ciphertext fail?

VARIABLES
  offered,        \* how many bytes can be handed out at all
  sound,          \* does the ciphertext decrypt to the end?
  handed,         \* the bytes handed out
  status          \* "open", "eof" or "error"

vars == <<offered, sound, handed, status>>

Init ==
  /\ offered \in Nat /\ sound \in BOOLEAN
  /\ handed = <<>>
  /\ status = "open"

(* Some more bytes, the next ones in order. *)
Deliver ==
  /\ status = "open"
  /\ \E n \in 1..(offered - Len(handed)) :
       handed' = handed \o [i \in 1..n |-> Len(handed) + i - 1]
  /\ UNCHANGED <<offered, sound, status>>

End ==
  /\ status = "open" /\ sound
  /\ Len(handed) = offered
  /\ status' = "eof"
  /\ UNCHANGED <<offered, sound, handed>>

Fail ==
  /\ status = "open" /\ (~sound \/ SourceMayFail)
  /\ status' = "error"
  /\ UNCHANGED <<offered, sound, handed>>

Next == Deliver \/ End \/ Fail

Spec == Init /\ [][Next]_vars
=============================================================================
