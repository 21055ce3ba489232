------------------------------- MODULE MCKeyRing -------------------------------
(* Small key bags for KeyRing and Manifest: headers in several orders and with
   repeated or missing fields, followed by up to two records out of a
   collection that has each kind of record once. *)
EXTENDS KeyRing

Block(t, n, v) == [tag |-> t, len |-> n, val |-> v]

MCTags == {"TYPE", "UUID", "WRAP", "DPSL", "SALT", "DPIC", "ITER", "CLAS", "WPKY",
           "PBKY", "KTYP", "VERS", "CUT", "OVER"}

Uuid(n) == Block("UUID", 16, n)
WrapOf(n) == Block("WRAP", 4, n)
Rest == <<Block("DPSL", 20, 1), Block("ITER", 4, 3)>>

Headers ==
  LET u == Uuid(0)  w == WrapOf(1)  s == Block("SALT", 20, 2)  d == Block("DPIC", 4, 2)
      type == Block("TYPE", 4, 1)
  IN  { <<type, u, w, s, d>> \o Rest,
        <<Block("VERS", 4, 1), w, d, s, u, type>> \o Rest,
        <<s, Block("SALT", 20, 3), d, u>> \o Rest \o <<w>>,
        <<d, w, u, s>> \o Rest \o <<Block("DPIC", 4, 3), Block("CLAS", 4, 1)>> }

(* No WRAP; an UUID without bytes; a number of the wrong length. *)
OddHeaders ==
  { <<Uuid(0), Block("SALT", 20, 2), Block("DPIC", 4, 2)>> \o Rest,
    <<Block("UUID", 0, 0), WrapOf(1), Block("SALT", 20, 2), Block("DPIC", 4, 0)>>,
    <<Uuid(0), WrapOf(1), Block("DPIC", 3, 2)>> }

RecordSet ==
  { <<Uuid(1), Block("CLAS", 4, 1), WrapOf(2), Block("KTYP", 4, 0), Block("WPKY", 40, 1)>>,
    <<Uuid(2), Block("PBKY", 40, 12), Block("WPKY", 40, 2), WrapOf(3), Block("CLAS", 4, 2)>>,
    <<Uuid(3), Block("PBKY", 40, 3), Block("CLAS", 4, 3), WrapOf(3)>>,
    <<Uuid(4), Block("CLAS", 4, 1), WrapOf(3), Block("WPKY", 40, 4)>>,
    <<Uuid(5), Block("CLAS", 4, 4), WrapOf(1), Block("WPKY", 40, 5)>>,
    <<Uuid(6), Block("CLAS", 4, 5), Block("WPKY", 40, 6), Block("SALT", 20, 7)>>,
    <<Uuid(7), WrapOf(2), Block("CLAS", 4, 6), WrapOf(0)>> }

OddRecords ==
  { <<Uuid(8), WrapOf(2), Block("WPKY", 40, 8)>>,
    <<Uuid(9), Block("CLAS", 4, 7), Block("WRAP", 3, 2), Block("WPKY", 40, 9)>>,
    <<Uuid(1), Block("CLAS", 4, 8), WrapOf(2), Block("WPKY", 8, 10)>>,
    <<Uuid(2), Block("CLAS", 2, 9)>> }

(* What a bag may be cut off in: a record, or a record's first block. *)
CutRecords ==
  { <<Uuid(3), Block("TYPE", 3, 0), Block("CUT", 9, 0)>>, <<Block("CUT", 16, 4)>>,
    <<Uuid(3), Block("CLAS", 4, 3), Block("OVER", 9, 0)>> }

BagsOf(hs, rs) ==
  hs \cup {h \o r : h \in hs, r \in rs} \cup {h \o r \o q : h \in hs, r \in rs, q \in rs}

Cut(bags) == {h \o c : h \in bags, c \in CutRecords}

MCBags ==
  BagsOf(Headers \cup OddHeaders, RecordSet) \cup BagsOf(Headers, OddRecords)
    \cup Cut(BagsOf(Headers, RecordSet))
=============================================================================
