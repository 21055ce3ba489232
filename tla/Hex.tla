---------------------------------- MODULE Hex ----------------------------------
(***************************************************************************)
(* hex_encode and hex_decode (src/backup/util/hex.rs).  A string is its     *)
(* UTF-8 bytes: a digit, in lower or in upper case, a plus sign, any other  *)
(* character of one byte, or the two bytes of a longer one.                 *)
(***************************************************************************)
EXTENDS Integers, Sequences, FiniteSetsExt

CONSTANT Radix  \* 16

ASSUME HexAssumption == Radix \in Nat \ {0, 1}

Byte == 0..(Radix * Radix - 1)
Digits == 0..(2 * Radix - 1)                     \* d, and Radix + d in upper case
Plus == 2 * Radix
Other == Plus + 1
Lead == Plus + 2
Cont == Plus + 3                                 \* what follows a Lead
Text == Seq(0..Cont)

(* Mutant: {b:2x}, which pads with a space. *)
HexEncodeSpaced(bytes) ==
  [i \in 1..(2 * Len(bytes)) |->
     LET b == bytes[(i + 1) \div 2]
     IN  IF i % 2 = 0 THEN b % Radix ELSE IF b < Radix THEN Other ELSE b \div Radix]

(* hex_encode: {b:02x} *)
HexEncode(bytes) ==
  [i \in 1..(2 * Len(bytes)) |->
     LET b == bytes[(i + 1) \div 2] IN IF i % 2 = 1 THEN b \div Radix ELSE b % Radix]

(* u8::from_str_radix of two characters: an integer may be written with a sign. *)
IsByte(a, b) == b \in Digits /\ a \in Digits \cup {Plus}
ByteOf(a, b) == IF a = Plus THEN b % Radix ELSE (a % Radix) * Radix + (b % Radix)

(* The slice [i..i + 2] begins or ends inside a character, which panics. *)
Splits(text, k) == \E i \in {2 * k - 1, 2 * k + 1} \cap DOMAIN text : text[i] = Cont

(* Mutant: upper case is not understood. *)
BadPairsUpper(text) ==
  {k \in 1..(Len(text) \div 2) :
     \/ Splits(text, k) \/ ~IsByte(text[2 * k - 1], text[2 * k])
     \/ {text[2 * k - 1], text[2 * k]} \cap (Radix..(2 * Radix - 1)) # {}}

(* The slices that are no bytes. *)
BadPairs(text) ==
  {k \in 1..(Len(text) \div 2) : Splits(text, k) \/ ~IsByte(text[2 * k - 1], text[2 * k])}

Decodes(text) ==
  [result |-> "bytes",
   bytes |-> [k \in 1..(Len(text) \div 2) |-> ByteOf(text[2 * k - 1], text[2 * k])]]
Refuses(result) == [result |-> result, bytes |-> <<>>]

(* Mutant: the last slice of a text of odd length is taken all the same. *)
HexDecodeOdd(text) ==
  IF BadPairs(text) # {}
  THEN Refuses(IF Splits(text, Min(BadPairs(text))) THEN "panic" ELSE "HexDecode")
  ELSE IF Len(text) % 2 = 1 THEN Refuses("panic") ELSE Decodes(text)

(* hex_decode: the first pair that is no byte decides what becomes of it. *)
HexDecode(text) ==
  IF Len(text) % 2 = 1 THEN Refuses("HexDecode")
  ELSE IF BadPairs(text) = {} THEN Decodes(text)
  ELSE Refuses(IF Splits(text, Min(BadPairs(text))) THEN "panic" ELSE "HexDecode")

-----------------------------------------------------------------------------
(* The texts that hex_decode takes for the same bytes: hex_encode's own, in any
   case, and with a plus sign in the place of a leading zero. *)
LowerCase(c) == IF c \in Digits THEN c % Radix ELSE c
Spells(text, bytes) ==
  /\ Len(text) = 2 * Len(bytes)
  /\ \A i \in DOMAIN text :
       \/ LowerCase(text[i]) = HexEncode(bytes)[i]
       \/ text[i] = Plus /\ i % 2 = 1 /\ HexEncode(bytes)[i] = 0
=============================================================================
