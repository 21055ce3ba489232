--------------------------------- MODULE Cbc ---------------------------------
(***************************************************************************)
(* AES-256-CBC with PKCS#7 padding and a zero IV, as src/backup/crypto.rs   *)
(* uses it.  The cipher itself is abstracted to what CBC guarantees: block  *)
(* k decrypts to plaintext block k exactly when the decryptor is given      *)
(* that block whole and has block k-1 (the IV for block 0) as its chaining  *)
(* value; with any other chaining value, or with bytes that straddle two    *)
(* blocks, what comes out has nothing to do with the plaintext.             *)
(*                                                                         *)
(* A ciphertext is therefore two numbers: its length in bytes, and the pad  *)
(* count its last complete block decrypts to (0 when that block does not    *)
(* end in valid PKCS#7 padding).  A plaintext byte is its own offset.       *)
(***************************************************************************)
EXTENDS Integers

CONSTANT Block              \* bytes in a cipher block; 16 in the code

ASSUME BlockAssumption == Block \in Nat \ {0}

Garbage == -1               \* a byte that is not the plaintext of its offset
Failed == -1                \* the result of a decryption that returned Err
ZeroIV == 0 - Block         \* "the block before block 0"

(* How far the complete blocks of n bytes reach: n minus a partial tail. *)
Whole(n) == n - (n % Block)

(* decrypt_block: byte i (from 0) of the block that starts at `start`, with
   the block that starts at `prev` in the chaining register. *)
DecryptByte(start, prev, i) ==
  IF start % Block = 0 /\ prev = start - Block THEN start + i ELSE Garbage

(* Mutant: no padding block after plaintext that ends on a block boundary. *)
EncryptionTight(n) ==
  LET len == Whole(n + Block - 1) IN [len |-> len, pad |-> len - n]

(* aes_encrypt_cbc_with_padding of n bytes: always at least one pad byte. *)
Encryption(n) == [len |-> Whole(n) + Block, pad |-> Block - (n % Block)]

(* aes_decrypt_cbc_with_padding of a ciphertext of `len` bytes: the partial
   block at the end is cut off, then everything is decrypted and unpadded.
   The number of plaintext bytes, or Failed: there is nothing to unpad in an
   empty buffer. *)
OneShot(len, pad) ==
  IF Whole(len) = 0 \/ pad = 0 THEN Failed ELSE Whole(len) - pad
=============================================================================
