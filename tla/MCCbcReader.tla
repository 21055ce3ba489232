----------------------------- MODULE MCCbcReader -----------------------------
(* Small instances of CbcReader.  Blocks of 3 bytes and a buffer of 2 blocks
   put every kind of boundary (block, chunk, caller's buffer, partial tail)
   at every relative position within a ciphertext of up to 5 blocks. *)
EXTENDS CbcReader

MCOutLens == {0, 2, 7}
MCOutLensNonempty == {1, 4, 8}
=============================================================================
