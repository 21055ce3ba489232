------------------------------ MODULE MCManifest ------------------------------
(* What the wrapped keys of MCKeyRing's bags wrap, sealed under alice's
   password, and the authentications a caller may come with. *)
EXTENDS Manifest, MCKeyRing

CONSTANTS alice, bob  \* passwords

Seal(pw) == <<pw, 1, 2, 2, 3>>
KeyOf(k) == <<0, 0, 0, 0, k>>
MasterWrapped == [k \in 1..12 |-> [kek |-> Seal(alice), key |-> KeyOf(k)]]

(* Alice's key in other spellings, then texts that are none. *)
Hex(pw) == HexEncode(Seal(pw))
UpperCase(c) == IF c < Radix THEN Radix + c ELSE c
With(i, c) == [Hex(alice) EXCEPT ![i] = c]
KeyTexts ==
  { [i \in 1..10 |-> UpperCase(Hex(alice)[i])], With(3, Plus), Hex(bob), With(4, Plus),
    With(10, Other), <<>>, SubSeq(Hex(alice), 1, 8), SubSeq(Hex(alice), 1, 9),
    [With(4, Cont) EXCEPT ![3] = Lead], [With(5, Cont) EXCEPT ![4] = Lead] }

MCAuths ==
  { [kind |-> "none"] } \cup [kind : {"password"}, pw : {alice, bob}]
    \cup [kind : {"key"}, text : KeyTexts]
=============================================================================
