-------------------------------- MODULE KeyRing --------------------------------
(***************************************************************************)
(* KeyRing::from_bytes (src/backup/models/keyring.rs): the parser of a      *)
(* backup key bag, fed one TLV block at a time by tlv_blocks.  A bag is a   *)
(* header and then the class records; the format marks neither, so the      *)
(* parser tells them apart by what it has already seen: a second UUID opens *)
(* the first record, a second WRAP belongs to a record.                     *)
(*                                                                         *)
(* A block is [tag, len, val]: len is the length of the value in bytes, val *)
(* a number that stands for them (for four bytes, the number they encode).  *)
(* A "CUT" block is one whose value ends beyond the bag, an "OVER" block one  *)
(* whose value ends beyond what a usize holds, which is met where a usize   *)
(* has 32 bits (Tlv.EndWraps).  Both can only be the last.  The 0 to 7      *)
(* bytes that may follow the last block are no block.                       *)
(***************************************************************************)
EXTENDS Integers, Sequences, FiniteSetsExt

CONSTANTS
  Tags,         \* the four-letter tags that occur
  Bags          \* bound: the bags to read

Numbers == {"DPIC", "ITER"}                      \* u32 fields of the header
Blobs == {"UUID", "WRAP", "DPSL", "SALT"}        \* its byte strings
RecordTags == {"CLAS", "WPKY", "PBKY", "KTYP", "WRAP"}
CutTags == {"CUT", "OVER"}

Value == [len : Nat, val : Nat]

ASSUME KeyRingAssumption ==
  /\ Numbers \cup Blobs \cup RecordTags \cup CutTags \cup {"TYPE"} \subseteq Tags
  /\ \A b \in Bags : /\ b \in Seq([tag : Tags, len : Nat, val : Nat])
                     /\ \A i \in DOMAIN b : b[i].tag \in CutTags => i = Len(b)

VARIABLES
  bag,          \* the blob being read
  pos,          \* the block that tlv_blocks yields next
  head,         \* the fields of the KeyRing that the header fills
  attrs,
  current,      \* the record being read; a record that is open has a UUID
  classKeys,
  phase         \* "reading", "parsed", "error" or "panic"

parseVars == <<bag, pos, head, attrs, current, classKeys, phase>>

Nothing == [len |-> 0, val |-> 0]                \* Vec::new(), 0
Absent == [len |-> -1, val |-> 0]                \* None
NoMap == [t \in {} |-> Nothing]                  \* None, HashMap::new()

NoHead == [t \in Numbers \cup Blobs \cup {"TYPE"} |-> Nothing]

Put(f, k, v) == [x \in DOMAIN f \cup {k} |-> IF x = k THEN v ELSE f[x]]
Get(f, k) == IF k \in DOMAIN f THEN f[k] ELSE Absent

Empty(tag, v) == IF tag \in Numbers THEN v.val = 0 ELSE v.len = 0
Unset(tag) == Empty(tag, head[tag])

Init ==
  /\ bag \in Bags
  /\ pos = 1
  /\ head = NoHead
  /\ attrs = NoMap /\ current = NoMap /\ classKeys = NoMap
  /\ phase = "reading"

-----------------------------------------------------------------------------
(* The block that is read, and what it says. *)
Reads(tags) == phase = "reading" /\ pos <= Len(bag) /\ bag[pos].tag \in tags
Said == [len |-> bag[pos].len, val |-> bag[pos].val]

Advance == pos' = pos + 1 /\ UNCHANGED <<bag, phase>>
Stop(how) == phase' = how /\ UNCHANGED <<bag, pos, head, attrs, current, classKeys>>

(* Mutant: the persistent key is preferred. *)
FromMapPersistent(rec) ==
  [wpky |-> IF "PBKY" \in DOMAIN rec THEN rec["PBKY"] ELSE Get(rec, "WPKY"),
   wrap |-> Get(rec, "WRAP")]

(* ClassKeyData::from_map *)
FromMap(rec) ==
  [wpky |-> IF "WPKY" \in DOMAIN rec THEN rec["WPKY"] ELSE Get(rec, "PBKY"),
   wrap |-> Get(rec, "WRAP")]

(* A record is complete: its class number is looked up (which panics when there
   is none) and must have four bytes. *)
Storable == "CLAS" \in DOMAIN current /\ current["CLAS"].len = 4
Stored == Put(classKeys, current["CLAS"].val, FromMap(current))
BadRecord == IF "CLAS" \in DOMAIN current THEN "error" ELSE "panic"

ReadType ==
  /\ Reads({"TYPE"}) /\ Said.len = 4
  /\ head' = [head EXCEPT !["TYPE"] = Said]
  /\ Advance /\ UNCHANGED <<attrs, current, classKeys>>

(* The field is still empty: the block is taken for the header's. *)
InHeader(tag) == tag \in Numbers \cup Blobs /\ Unset(tag)

ReadHeader ==
  /\ Reads(Numbers \cup Blobs) /\ InHeader(bag[pos].tag)
  /\ bag[pos].tag \in Numbers => Said.len = 4
  /\ head' = [head EXCEPT ![bag[pos].tag] = Said]
  /\ Advance /\ UNCHANGED <<attrs, current, classKeys>>

BadNumber ==
  /\ Reads(Numbers) /\ InHeader(bag[pos].tag) /\ Said.len # 4
  /\ Stop("error")

StartRecord ==
  /\ Reads({"UUID"}) /\ ~InHeader("UUID")
  /\ current # NoMap => Storable
  /\ classKeys' = IF current = NoMap THEN classKeys ELSE Stored
  /\ current' = Put(NoMap, "UUID", Said)
  /\ Advance /\ UNCHANGED <<head, attrs>>

StartFails ==
  /\ Reads({"UUID"}) /\ ~InHeader("UUID")
  /\ current # NoMap /\ ~Storable
  /\ Stop(BadRecord)

(* Mutant: it is not asked whether a record is open. *)
ReadIntoLoose ==
  /\ Reads(RecordTags) /\ ~InHeader(bag[pos].tag)
  /\ current' = Put(current, bag[pos].tag, Said)
  /\ Advance /\ UNCHANGED <<head, attrs, classKeys>>

ReadIntoRecord ==
  /\ Reads(RecordTags) /\ ~InHeader(bag[pos].tag) /\ current # NoMap
  /\ current' = Put(current, bag[pos].tag, Said)
  /\ Advance /\ UNCHANGED <<head, attrs, classKeys>>

ReadOther ==
  /\ Reads(Tags \ (CutTags \cup {"UUID"})) /\ ~InHeader(bag[pos].tag)
  /\ bag[pos].tag \in RecordTags => current = NoMap
  /\ bag[pos].tag = "TYPE" => Said.len # 4
  /\ attrs' = Put(attrs, bag[pos].tag, Said)
  /\ Advance /\ UNCHANGED <<head, current, classKeys>>

CutOff == Reads({"CUT"}) /\ Stop("error")

(* The sum, or the slice that it is the end of, panics. *)
EndOverflows == Reads({"OVER"}) /\ Stop("panic")

(* Mutant: the record that the bag ends with is forgotten. *)
EndForgets ==
  /\ phase = "reading" /\ pos > Len(bag)
  /\ phase' = "parsed" /\ current' = NoMap
  /\ UNCHANGED <<bag, pos, head, attrs, classKeys>>

End ==
  /\ phase = "reading" /\ pos > Len(bag)
  /\ current # NoMap => Storable
  /\ classKeys' = IF current = NoMap THEN classKeys ELSE Stored
  /\ phase' = "parsed" /\ current' = NoMap
  /\ UNCHANGED <<bag, pos, head, attrs>>

EndFails ==
  /\ phase = "reading" /\ pos > Len(bag)
  /\ current # NoMap /\ ~Storable
  /\ Stop(BadRecord)

Parse ==
  \/ ReadType \/ ReadHeader \/ BadNumber \/ StartRecord \/ StartFails
  \/ ReadIntoRecord \/ ReadOther \/ CutOff \/ EndOverflows \/ End \/ EndFails

Spec == Init /\ [][Parse]_parseVars

-----------------------------------------------------------------------------
(* What a bag says, read off its layout instead of block by block. *)
Named(b, tag) == {i \in DOMAIN b : b[i].tag = tag}

(* The records: each begins with a UUID, the header's own UUID being the first
   that is not empty. *)
Records(b) == {i \in Named(b, "UUID") : \E j \in Named(b, "UUID") : j < i /\ b[j].len # 0}

(* The blocks of the record that begins at i; the last of a kind counts. *)
Blocks(b, i) == {j \in i..Len(b) : \A k \in Records(b) : k <= i \/ j < k}
Last(b, i, tag) ==
  LET js == Blocks(b, i) \cap Named(b, tag)
  IN  IF js = {} THEN Absent ELSE [len |-> b[Max(js)].len, val |-> b[Max(js)].val]

ClassOf(b, i) == Last(b, i, "CLAS").val
Classes(b) == {ClassOf(b, i) : i \in Records(b)}
RecordOf(b, c) == Max({i \in Records(b) : ClassOf(b, i) = c})

Written(b) ==
  [c \in Classes(b) |->
     LET i == RecordOf(b, c)
     IN  [wpky |-> IF Last(b, i, "WPKY") # Absent THEN Last(b, i, "WPKY") ELSE Last(b, i, "PBKY"),
          wrap |-> Last(b, i, "WRAP")]]

(* The header's value of a field: the first that is not empty, and it comes
   before the records. *)
HeaderAt(b, tag) ==
  {i \in Named(b, tag) : ~Empty(tag, b[i]) /\ \A r \in Records(b) : i < r}
HeaderHas(b, tags) == \A t \in tags : HeaderAt(b, t) # {}
HeaderField(b, tag) ==
  LET i == Min(HeaderAt(b, tag)) IN [len |-> b[i].len, val |-> b[i].val]

-----------------------------------------------------------------------------
TypeOK ==
  /\ bag \in Bags /\ pos \in 1..(Len(bag) + 1)
  /\ DOMAIN head = Numbers \cup Blobs \cup {"TYPE"}
  /\ \A t \in DOMAIN head : head[t] \in Value
  /\ \A f \in {attrs, current} : DOMAIN f \subseteq Tags /\ \A t \in DOMAIN f : f[t] \in Value
  /\ current # NoMap => "UUID" \in DOMAIN current
  /\ DOMAIN classKeys \subseteq Nat
  /\ \A c \in DOMAIN classKeys :
       DOMAIN classKeys[c] = {"wpky", "wrap"}
       /\ \A f \in {"wpky", "wrap"} : classKeys[c][f] \in Value \cup {Absent}
  /\ phase \in {"reading", "parsed", "error", "panic"}

(* Whatever the order of the header's and of a record's blocks, a bag whose
   header names a UUID and a WRAP is split where its writer split it: each class
   keeps the keys of its own record, the last record of a class counts, and no
   block strays from one record to another or into the header. *)
ClassKeysAsWritten ==
  phase = "parsed" /\ HeaderHas(bag, {"UUID", "WRAP"}) => classKeys = Written(bag)

(* The lookup of a record's class number (keyring.rs:92, 125), which panics when
   there is none, never does so on a bag whose records all have one, and no bag
   with a record that has none is accepted.  The only other panic is that of
   tlv_blocks on a last block whose end no usize reaches. *)
PanicsOnlyWithoutClass ==
  LET lacking == {i \in Records(bag) : Last(bag, i, "CLAS") = Absent}
  IN  /\ phase = "panic" => lacking # {} \/ pos \in Named(bag, "OVER")
      /\ phase = "parsed" => lacking = {}

(* The header's WRAP is an "Optional wrap key blob for certain classes"
   (keyring.rs:20): without it, too, the classes keep the keys of their
   records. *)
WrapIsOptional ==
  phase = "parsed" /\ HeaderHas(bag, {"UUID"}) => classKeys = Written(bag)
=============================================================================
