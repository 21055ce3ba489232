----------------------------- MODULE BackupProofs -----------------------------
(***************************************************************************)
(* What TLAPS proves of Backup, for any number of sessions and files and    *)
(* whatever the temporary database does.  The argument is that a result is  *)
(* a function of the entry it was computed for, unless the file failed to   *)
(* be read, and that an entry, wherever it was read, either has a key of    *)
(* the user's own backup, which then is that of the file it names, or has   *)
(* one that key wrap refuses.                                               *)
(***************************************************************************)
EXTENDS Backup, ManifestDbProofs

(* An entry that s may hold. *)
Proper(s, e) ==
  /\ e.file \in FileIds /\ e.of \in Backups
  /\ Readable(Record[e.of][e.file]) /\ e = MBFile(e.of, e.file)
  /\ e.class \in 0..(ClassRange - 1)
  /\ e.key # NoKey => e.key.key = <<e.key.kek[1], e.file>>

StoredFor(s, e) == Stored[BackupOf[s]][e.file]
Verdict(s, e) == Cipher!OneShot(StoredFor(s, e).len, StoredFor(s, e).pad)
OwnFile(s, e) == Plain(<<BackupOf[s], e.file>>, Verdict(s, e))

(* What decrypt_entry has to return, and the stream to end in, when the file can
   be read. *)
WholeOf(s, e) ==
  IF WholeError(s, e, FALSE) # "" THEN Err(WholeError(s, e, FALSE))
  ELSE IF Verdict(s, e) = Cipher!Failed THEN Err("Crypto") ELSE OwnFile(s, e)

StreamOf(s, e) ==
  IF StreamError(s, e, "") # "" THEN Err(StreamError(s, e, ""))
  ELSE IF Verdict(s, e) = Cipher!Failed THEN Err("InvalidData") ELSE OwnFile(s, e)

(* What they may return when it cannot, and how far they have come then. *)
StreamUnread(s, e, r) ==
  \/ Opens(s, e) /\ r = Err("Io")
  \/ Keyed(s, e) /\ r \in {Err("Crypto"), Err("ReadFailed")}

Tables ==
  /\ entry = [s \in Users |-> entry[s]]
  /\ whole = [s \in Users |-> whole[s]]
  /\ stream = [s \in Users |-> stream[s]]
  /\ unread = [s \in Users |-> unread[s]]
  /\ \A s \in Users : unread[s] \in SUBSET {"whole", "stream"}

Held(s) == entry[s] # NoEntry
EntriesProper == \A s \in Users : Held(s) => Proper(s, entry[s])
WholeFollows ==
  \A s \in Users :
    \/ whole[s] = NotYet
    \/ Held(s) /\ "whole" \in unread[s] /\ Opens(s, entry[s]) /\ whole[s] = Err("Io")
    \/ Held(s) /\ "whole" \notin unread[s] /\ whole[s] = WholeOf(s, entry[s])
StreamFollows ==
  \A s \in Users :
    \/ stream[s] = NotYet
    \/ /\ Held(s) /\ "stream" \notin unread[s] /\ stream[s] = Streaming
       /\ StreamError(s, entry[s], "") = ""
    \/ Held(s) /\ "stream" \in unread[s] /\ StreamUnread(s, entry[s], stream[s])
    \/ Held(s) /\ "stream" \notin unread[s] /\ stream[s] = StreamOf(s, entry[s])

BInv == IInv /\ Tables /\ EntriesProper /\ WholeFollows /\ StreamFollows

-----------------------------------------------------------------------------
(* The row that a query finds is some backup's row of that file. *)
LEMMA FoundRow ==
  ASSUME TypeOK, NEW s \in Users, NEW f \in FileIds, Found(s, f) # NoRow,
         pc[s] = "open"
  PROVE  Found(s, f) \in Backups
<1>1. s \in Sessions /\ PieceOf[f] \in Slots
  BY BackupAssumption
<1>2. Rows(s)[PieceOf[f]] \in Sessions \cup {Hole}
  <2>1. CASE s \in Encrypted
    <3>1. fd[s] \in Inodes
      BY <1>1, <2>1 DEF TypeOK
    <3> QED BY <1>1, <2>1, <3>1 DEF TypeOK, Rows
  <2>2. CASE s \notin Encrypted
    BY <1>1, <2>2 DEF Rows, Own
  <2> QED BY <2>1, <2>2
<1>3. Rows(s)[PieceOf[f]] # Hole
  BY DEF Found
<1>4. Found(s, f) = BackupOf[Rows(s)[PieceOf[f]]]
  BY <1>3 DEF Found
<1> QED BY <1>2, <1>3, <1>4 DEF Backups

(* Whoever's row it is, what is made of it is a proper entry. *)
LEMMA FoundIsProper ==
  ASSUME TypeOK, NEW s \in Users, NEW f \in FileIds, Found(s, f) # NoRow,
         pc[s] = "open", Readable(Record[Found(s, f)][f])
  PROVE  Proper(s, MBFile(Found(s, f), f))
<1> DEFINE d == Found(s, f)
           p == Record[d][f]
<1>1. d \in Backups
  BY FoundRow
<1>2. Archived!Class(p) \in Nat
  BY <1>1, BackupAssumption DEF RowOK
<1>3. ClassRange \in Nat \ {0}
  BY BackupAssumption
<1>4. Archived!Class(p) % ClassRange \in 0..(ClassRange - 1)
  BY <1>2, <1>3
<1>5. Archived!HasKey(p) => Archived!KeyBlob(p).key = <<Archived!KeyBlob(p).kek[1], f>>
  BY <1>1, KeysAssumption
<1>6. Archived!FileKey(p) # NoKey => Archived!FileKey(p).key = <<Archived!FileKey(p).kek[1], f>>
  BY <1>5 DEF Archived!FileKey
<1> HIDE DEF d, p
<1>7. /\ MBFile(d, f).file = f /\ MBFile(d, f).of = d
      /\ MBFile(d, f).class = Archived!Class(p) % ClassRange
      /\ MBFile(d, f).key = Archived!FileKey(p)
  BY DEF MBFile, p
<1>8. Readable(Record[d][f])
  BY DEF d
<1> QED BY <1>1, <1>4, <1>6, <1>7, <1>8 DEF Proper, d

LEMMA InRange == ASSUME NEW n \in 0..(ClassRange - 1) PROVE n % ClassRange = n
BY BackupAssumption

(* A file without a whole block is refused by the one-shot decryption, too. *)
LEMMA ShortFails ==
  ASSUME NEW n \in Nat, n < Block, NEW pad PROVE Cipher!OneShot(n, pad) = Cipher!Failed
<1>1. Block \in Nat \ {0}
  BY BackupAssumption
<1>2. n % Block = n
  BY <1>1
<1>3. Cipher!Whole(n) = 0
  BY <1>2 DEF Cipher!Whole
<1> QED BY <1>3 DEF Cipher!OneShot

(* Both ways have a key if they get as far as decrypting. *)
LEMMA WholeReads ==
  ASSUME NEW s, NEW e
  PROVE  /\ WholeError(s, e, FALSE) = "" <=> Keyed(s, e)
         /\ Opens(s, e) => WholeError(s, e, TRUE) = "Io"
<1>1. KeyError(s, e) \in {"Crypto", "NotEncrypted", ""}
  BY DEF KeyError
<1> QED BY <1>1 DEF WholeError, Keyed, Opens

LEMMA StreamReads ==
  ASSUME NEW s, NEW e
  PROVE  /\ StreamError(s, e, "") = "" <=> Keyed(s, e) /\ ~(StoredFor(s, e).len < Block)
         /\ Opens(s, e) => StreamError(s, e, "open") = "Io"
         /\ Keyed(s, e) => StreamError(s, e, "read") = "Crypto"
<1>1. KeyError(s, e) \in {"Crypto", "NotEncrypted", ""}
  BY DEF KeyError
<1> DEFINE short == StoredFor(s, e).len < Block
<1>2. short <=> Stored[BackupOf[s]][e.file].len < Block
  BY DEF StoredFor
<1> HIDE DEF short
<1>3. StreamError(s, e, "") = "" <=> Keyed(s, e) /\ ~short
  BY <1>1, <1>2 DEF StreamError, Keyed, Opens
<1>4. Opens(s, e) => StreamError(s, e, "open") = "Io"
  BY DEF StreamError, Opens
<1>5. Keyed(s, e) => StreamError(s, e, "read") = "Crypto"
  BY DEF StreamError, Keyed, Opens
<1> QED BY <1>3, <1>4, <1>5 DEF short

(* Up to there they fail alike, when the file can be read. *)
LEMMA SameErrors ==
  ASSUME NEW s, NEW e, ~Keyed(s, e)
  PROVE  /\ StreamError(s, e, "") = WholeError(s, e, FALSE)
         /\ WholeError(s, e, FALSE) \in
              {"NotEncrypted", "panic", "Io", "Crypto", "InvalidCryptoDataLength"}
         /\ Opens(s, e) => WholeError(s, e, FALSE) \notin {"panic", "Io"}
<1>1. KeyError(s, e) \in {"Crypto", "NotEncrypted", ""}
  BY DEF KeyError
<1> QED BY <1>1 DEF StreamError, WholeError, Keyed, Opens

(* Where there is a key, it is that of the stored file. *)
LEMMA KeyFits ==
  ASSUME NEW s \in Users, NEW e, Proper(s, e), Keyed(s, e)
  PROVE  /\ Decrypted(s, e) = {IF Verdict(s, e) = Cipher!Failed THEN Err("Crypto") ELSE OwnFile(s, e)}
         /\ StoredFor(s, e).len \in Nat
<1>1. Stored[BackupOf[s]][e.file] # NoStoredFile /\ KeyError(s, e) = ""
  BY DEF Keyed, Opens
<1>2. e.key # NoKey /\ e.key.kek = <<BackupOf[s], e.class>>
  BY <1>1 DEF KeyError, Unwraps
<1>3. e.key.kek[1] = BackupOf[s]
  <2>1. \A x, y : <<x, y>>[1] = x
    OBVIOUS
  <2> QED BY <1>2, <2>1, Zenon
<1>4. e.key.key = <<BackupOf[s], e.file>>
  BY <1>2, <1>3 DEF Proper
<1>5. BackupOf[s] \in Backups /\ e.file \in FileIds
  BY BackupAssumption DEF Backups, Proper
<1>6. Stored[BackupOf[s]][e.file].key = <<BackupOf[s], e.file>>
  BY <1>1, <1>5, KeysAssumption
<1>7. StoredFor(s, e).len \in Nat
  BY <1>1, <1>5, BackupAssumption DEF StoredFor
<1> QED BY <1>4, <1>6, <1>7 DEF Decrypted, StoredFor, Verdict, OwnFile

(* The errors there are, so that results are told apart by name. *)
Errors == {"NotEncrypted", "panic", "Io", "Crypto", "InvalidCryptoDataLength"}

LEMMA ErrNamed == \A name : Err(name).err = name
BY DEF Err

LEMMA EarlyNames ==
  ASSUME NEW s, NEW e
  PROVE  /\ WholeError(s, e, FALSE) \in Errors \cup {""}
         /\ StreamError(s, e, "") \in Errors \cup {""}
<1>1. KeyError(s, e) \in {"Crypto", "NotEncrypted", ""}
  BY DEF KeyError
<1>2. WholeError(s, e, FALSE) \in Errors \cup {""}
  BY <1>1 DEF WholeError, Errors
<1>3. StreamError(s, e, "") \in Errors \cup {""}
  BY <1>1 DEF StreamError, Errors
<1> QED BY <1>2, <1>3

LEMMA ResultNames ==
  ASSUME NEW s, NEW e
  PROVE  /\ WholeOf(s, e).err \in Errors \cup {""}
         /\ StreamOf(s, e).err \in Errors \cup {"InvalidData", ""}
         /\ \A r : StreamUnread(s, e, r) => r.err \in {"Io", "Crypto", "ReadFailed"}
<1>1. OwnFile(s, e).err = ""
  BY DEF OwnFile, Plain
<1>2. WholeOf(s, e).err \in Errors \cup {""}
  BY <1>1, EarlyNames, ErrNamed DEF WholeOf, Errors
<1>3. StreamOf(s, e).err \in Errors \cup {"InvalidData", ""}
  BY <1>1, EarlyNames, ErrNamed DEF StreamOf, Errors
<1>4. \A r : StreamUnread(s, e, r) => r.err \in {"Io", "Crypto", "ReadFailed"}
  BY ErrNamed DEF StreamUnread
<1> QED BY <1>2, <1>3, <1>4

LEMMA Unfinished == NotYet.err = "not yet" /\ Streaming.err = "streaming"
BY ErrNamed DEF NotYet, Streaming

-----------------------------------------------------------------------------
LEMMA BackupInitInv == BackupInit => BInv
<1> SUFFICES ASSUME BackupInit PROVE BInv
  OBVIOUS
<1>1. IInv
  BY InitInv DEF BackupInit
<1>2. Tables
  BY DEF BackupInit, Tables
<1>3. EntriesProper /\ WholeFollows /\ StreamFollows
  BY DEF BackupInit, EntriesProper, WholeFollows, StreamFollows, Held
<1> QED BY <1>1, <1>2, <1>3 DEF BInv

LEMMA IInvSame == ASSUME IInv, UNCHANGED vars PROVE IInv'
BY Inductive

(* Whether a file failed to be read is noted of one user and one way alone. *)
LEMMA MeetsNotes ==
  ASSUME Tables, NEW s \in Users, NEW way \in {"whole", "stream"}, NEW fails \in BOOLEAN,
         Meets(s, way, fails)
  PROVE  /\ unread' = [t \in Users |-> unread'[t]]
         /\ \A t \in Users : unread'[t] \in SUBSET {"whole", "stream"}
         /\ \A t \in Users, w \in {"whole", "stream"} :
              w \in unread'[t] <=> IF t = s /\ w = way THEN fails ELSE w \in unread[t]
<1>1. CASE fails = TRUE
  <2>1. unread' = [unread EXCEPT ![s] = unread[s] \cup {way}]
    BY <1>1 DEF Meets
  <2>2. \A t \in Users : unread'[t] = IF t = s THEN unread[s] \cup {way} ELSE unread[t]
    BY <2>1 DEF Tables
  <2>3. unread' = [t \in Users |-> unread'[t]]
    BY <2>1 DEF Tables
  <2>4. \A t \in Users : unread'[t] \in SUBSET {"whole", "stream"}
    BY <2>2 DEF Tables
  <2> QED BY <1>1, <2>2, <2>3, <2>4
<1>2. CASE fails = FALSE
  <2>1. unread' = [unread EXCEPT ![s] = unread[s] \ {way}]
    BY <1>2 DEF Meets
  <2>2. \A t \in Users : unread'[t] = IF t = s THEN unread[s] \ {way} ELSE unread[t]
    BY <2>1 DEF Tables
  <2>3. unread' = [t \in Users |-> unread'[t]]
    BY <2>1 DEF Tables
  <2>4. \A t \in Users : unread'[t] \in SUBSET {"whole", "stream"}
    BY <2>2 DEF Tables
  <2> QED BY <1>2, <2>2, <2>3, <2>4
<1> QED BY <1>1, <1>2

(* Sessions come and go: what users hold depends on none of that. *)
LEMMA UsesSame ==
  ASSUME BInv, IInv', entry' = entry, whole' = whole, stream' = stream, unread' = unread
  PROVE  BInv'
<1>1. Tables'
  BY DEF BInv, Tables
<1>2. EntriesProper' /\ WholeFollows' /\ StreamFollows'
  BY DEF BInv, EntriesProper, WholeFollows, StreamFollows, Held
<1> QED BY <1>1, <1>2 DEF BInv

LEMMA ManageInv == ASSUME BInv, Manage PROVE BInv'
<1>1. IInv'
  BY Inductive DEF BInv, Manage
<1>2. entry' = entry /\ whole' = whole /\ stream' = stream /\ unread' = unread
  BY DEF Manage, useVars
<1> QED BY <1>1, <1>2, UsesSame

LEMMA HoldInv ==
  ASSUME BInv, NEW s \in Users, NEW f \in FileIds, pc[s] = "open",
         Found(s, f) # NoRow, Readable(Record[Found(s, f)][f]), Hold(s, f)
  PROVE  BInv'
<1>1. IInv'
  BY IInvSame DEF BInv, Hold
<1> DEFINE e == MBFile(Found(s, f), f)
<1>2. Proper(s, e)
  BY FoundIsProper DEF BInv, IInv
<1> HIDE DEF e
<1>3. /\ entry' = [entry EXCEPT ![s] = e] /\ whole' = [whole EXCEPT ![s] = NotYet]
      /\ stream' = [stream EXCEPT ![s] = NotYet] /\ unread' = [unread EXCEPT ![s] = {}]
  BY DEF Hold, e
<1>4. \A t \in Users : /\ entry'[t] = IF t = s THEN e ELSE entry[t]
                       /\ whole'[t] = IF t = s THEN NotYet ELSE whole[t]
                       /\ stream'[t] = IF t = s THEN NotYet ELSE stream[t]
                       /\ unread'[t] = IF t = s THEN {} ELSE unread[t]
  BY <1>3 DEF BInv, Tables
<1>5. Tables'
  <2>1. /\ entry' = [t \in Users |-> entry'[t]] /\ whole' = [t \in Users |-> whole'[t]]
        /\ stream' = [t \in Users |-> stream'[t]] /\ unread' = [t \in Users |-> unread'[t]]
    BY <1>3 DEF BInv, Tables
  <2>2. \A t \in Users : unread'[t] \in SUBSET {"whole", "stream"}
    BY <1>4 DEF BInv, Tables
  <2> QED BY <2>1, <2>2 DEF Tables
<1>6. EntriesProper'
  BY <1>2, <1>4 DEF BInv, EntriesProper, Held
<1>7. WholeFollows'
  BY <1>4 DEF BInv, WholeFollows, Held
<1>8. StreamFollows'
  BY <1>4 DEF BInv, StreamFollows, Held
<1> QED BY <1>1, <1>5, <1>6, <1>7, <1>8 DEF BInv

(* What a step of decrypt_entry, and one of the stream, has to show. *)
LEMMA WholeStep ==
  ASSUME BInv, IInv', NEW s \in Users, NEW r, NEW fails \in BOOLEAN, Held(s),
         whole' = [whole EXCEPT ![s] = r], Meets(s, "whole", fails),
         fails => Opens(s, entry[s]) /\ r = Err("Io"),
         ~fails => r = WholeOf(s, entry[s]),
         entry' = entry, stream' = stream
  PROVE  BInv'
<1>1. /\ unread' = [t \in Users |-> unread'[t]]
      /\ \A t \in Users : unread'[t] \in SUBSET {"whole", "stream"}
      /\ \A t \in Users : "whole" \in unread'[t] <=> IF t = s THEN fails ELSE "whole" \in unread[t]
      /\ \A t \in Users : "stream" \in unread'[t] <=> "stream" \in unread[t]
  BY MeetsNotes DEF BInv
<1>2. \A t \in Users : whole'[t] = IF t = s THEN r ELSE whole[t]
  BY DEF BInv, Tables
<1>3. Tables'
  <2>1. whole' = [t \in Users |-> whole'[t]]
    BY DEF BInv, Tables
  <2> QED BY <1>1, <2>1 DEF BInv, Tables
<1>4. EntriesProper' /\ StreamFollows'
  BY <1>1 DEF BInv, EntriesProper, StreamFollows, Held
<1>5. WholeFollows'
  <2> SUFFICES ASSUME NEW t \in Users
               PROVE  \/ whole'[t] = NotYet
                      \/ /\ Held(t) /\ "whole" \in unread'[t] /\ Opens(t, entry[t])
                         /\ whole'[t] = Err("Io")
                      \/ Held(t) /\ "whole" \notin unread'[t] /\ whole'[t] = WholeOf(t, entry[t])
    BY DEF WholeFollows, Held
  <2>1. CASE t = s
    BY <1>1, <1>2, <2>1
  <2>2. CASE t # s
    BY <1>1, <1>2, <2>2 DEF BInv, WholeFollows
  <2> QED BY <2>1, <2>2
<1> QED BY <1>3, <1>4, <1>5 DEF BInv

LEMMA StreamStep ==
  ASSUME BInv, IInv', NEW s \in Users, NEW r, NEW fails \in BOOLEAN, Held(s),
         stream' = [stream EXCEPT ![s] = r], Meets(s, "stream", fails),
         fails => StreamUnread(s, entry[s], r),
         ~fails => \/ r = StreamOf(s, entry[s])
                   \/ r = Streaming /\ StreamError(s, entry[s], "") = "",
         entry' = entry, whole' = whole
  PROVE  BInv'
<1>1. /\ unread' = [t \in Users |-> unread'[t]]
      /\ \A t \in Users : unread'[t] \in SUBSET {"whole", "stream"}
      /\ \A t \in Users : "stream" \in unread'[t] <=> IF t = s THEN fails ELSE "stream" \in unread[t]
      /\ \A t \in Users : "whole" \in unread'[t] <=> "whole" \in unread[t]
  BY MeetsNotes DEF BInv
<1>2. \A t \in Users : stream'[t] = IF t = s THEN r ELSE stream[t]
  BY DEF BInv, Tables
<1>3. Tables'
  <2>1. stream' = [t \in Users |-> stream'[t]]
    BY DEF BInv, Tables
  <2> QED BY <1>1, <2>1 DEF BInv, Tables
<1>4. EntriesProper' /\ WholeFollows'
  BY <1>1 DEF BInv, EntriesProper, WholeFollows, Held
<1>5. StreamFollows'
  <2> SUFFICES ASSUME NEW t \in Users
               PROVE  \/ stream'[t] = NotYet
                      \/ /\ Held(t) /\ "stream" \notin unread'[t] /\ stream'[t] = Streaming
                         /\ StreamError(t, entry[t], "") = ""
                      \/ Held(t) /\ "stream" \in unread'[t] /\ StreamUnread(t, entry[t], stream'[t])
                      \/ Held(t) /\ "stream" \notin unread'[t] /\ stream'[t] = StreamOf(t, entry[t])
    BY DEF StreamFollows, Held
  <2>1. CASE t = s
    BY <1>1, <1>2, <2>1
  <2>2. CASE t # s
    BY <1>1, <1>2, <2>2 DEF BInv, StreamFollows
  <2> QED BY <2>1, <2>2
<1> QED BY <1>3, <1>4, <1>5 DEF BInv

LEMMA DecryptInv == ASSUME BInv, NEW s \in Users, DecryptEntry(s) PROVE BInv'
<1> DEFINE e == entry[s]
<1>1. IInv' /\ entry' = entry /\ stream' = stream /\ Held(s)
  BY IInvSame DEF BInv, DecryptEntry, Held
<1>2. PICK fails \in BOOLEAN :
        /\ fails => Opens(s, e)
        /\ Meets(s, "whole", fails)
        /\ IF WholeError(s, e, fails) # ""
           THEN whole' = [whole EXCEPT ![s] = Err(WholeError(s, e, fails))]
           ELSE \E r \in Decrypted(s, e) : whole' = [whole EXCEPT ![s] = r]
  BY DEF DecryptEntry
<1>3. CASE fails
  <2>1. WholeError(s, e, TRUE) = "Io" /\ fails = TRUE
    BY <1>2, <1>3, WholeReads
  <2>2. whole' = [whole EXCEPT ![s] = Err("Io")]
    BY <1>2, <2>1
  <2> HIDE DEF e
  <2> QED BY <1>1, <1>2, <1>3, <2>2, WholeStep DEF e
<1>4. CASE ~fails
  <2>1. fails = FALSE
    BY <1>4
  <2>2. whole' = [whole EXCEPT ![s] = WholeOf(s, e)]
    <3>1. CASE WholeError(s, e, FALSE) # ""
      BY <1>2, <2>1, <3>1 DEF WholeOf
    <3>2. CASE WholeError(s, e, FALSE) = ""
      <4>1. Proper(s, e) /\ Keyed(s, e)
        BY <1>1, <3>2, WholeReads DEF BInv, EntriesProper
      <4>2. PICK r \in Decrypted(s, e) : whole' = [whole EXCEPT ![s] = r]
        BY <1>2, <2>1, <3>2
      <4>3. r = WholeOf(s, e)
        BY <3>2, <4>1, <4>2, KeyFits DEF WholeOf
      <4> QED BY <4>2, <4>3
    <3> QED BY <3>1, <3>2
  <2> HIDE DEF e
  <2> QED BY <1>1, <1>2, <1>4, <2>2, WholeStep DEF e
<1> QED BY <1>3, <1>4

LEMMA OpenInv == ASSUME BInv, NEW s \in Users, OpenStream(s) PROVE BInv'
<1> DEFINE e == entry[s]
<1>1. IInv' /\ entry' = entry /\ whole' = whole /\ Held(s)
  BY IInvSame DEF BInv, OpenStream, Held
<1>2. PICK fails \in {"", "open", "read"} :
        /\ fails = "open" => Opens(s, e)
        /\ fails = "read" => Keyed(s, e)
        /\ Meets(s, "stream", fails # "")
        /\ stream' = [stream EXCEPT ![s] = IF StreamError(s, e, fails) # ""
                                          THEN Err(StreamError(s, e, fails)) ELSE Streaming]
  BY DEF OpenStream
<1>3. CASE fails # ""
  <2>1. Meets(s, "stream", TRUE)
    BY <1>2, <1>3
  <2>2. StreamError(s, e, fails) # "" /\ StreamUnread(s, e, Err(StreamError(s, e, fails)))
    <3>1. CASE fails = "open"
      BY <1>2, <3>1, StreamReads DEF StreamUnread
    <3>2. CASE fails = "read"
      BY <1>2, <3>2, StreamReads DEF StreamUnread
    <3> QED BY <1>3, <3>1, <3>2
  <2>3. stream' = [stream EXCEPT ![s] = Err(StreamError(s, e, fails))]
    BY <1>2, <2>2
  <2> HIDE DEF e
  <2> QED BY <1>1, <2>1, <2>2, <2>3, StreamStep DEF e
<1>4. CASE fails = ""
  <2>1. Meets(s, "stream", FALSE)
    BY <1>2, <1>4
  <2>2. CASE StreamError(s, e, "") # ""
    <3>1. stream' = [stream EXCEPT ![s] = StreamOf(s, e)]
      BY <1>2, <1>4, <2>2 DEF StreamOf
    <3> HIDE DEF e
    <3> QED BY <1>1, <2>1, <3>1, StreamStep DEF e
  <2>3. CASE StreamError(s, e, "") = ""
    <3>1. stream' = [stream EXCEPT ![s] = Streaming]
      BY <1>2, <1>4, <2>3
    <3> HIDE DEF e
    <3> QED BY <1>1, <2>1, <2>3, <3>1, StreamStep DEF e
  <2> QED BY <2>2, <2>3
<1> QED BY <1>3, <1>4

(* A stream that is being read got past all that is refused before. *)
LEMMA Flowing ==
  ASSUME BInv, NEW s \in Users, stream[s] = Streaming
  PROVE  Held(s) /\ "stream" \notin unread[s] /\ StreamError(s, entry[s], "") = ""
<1>1. stream[s].err \notin Errors \cup {"InvalidData", "ReadFailed", "", "not yet"}
  BY Unfinished DEF Errors
<1>2. stream[s] # NotYet
  BY <1>1, Unfinished
<1>3. stream[s] # StreamOf(s, entry[s])
  <2>1. StreamOf(s, entry[s]).err \in Errors \cup {"InvalidData", ""}
    BY ResultNames
  <2> QED BY <1>1, <2>1
<1>4. ~StreamUnread(s, entry[s], stream[s])
  BY <1>1, ResultNames DEF Errors
<1> QED BY <1>2, <1>3, <1>4 DEF BInv, StreamFollows

LEMMA DrainInv == ASSUME BInv, NEW s \in Users, Drain(s) PROVE BInv'
<1> DEFINE e == entry[s]
<1>1. IInv' /\ entry' = entry /\ whole' = whole /\ unread' = unread
  BY IInvSame DEF BInv, Drain
<1>2. Held(s) /\ "stream" \notin unread[s] /\ StreamError(s, e, "") = ""
  BY Flowing DEF Drain
<1>3. PICK r \in Decrypted(s, e) :
        stream' = [stream EXCEPT ![s] = IF r.err = "Crypto" THEN Err("InvalidData") ELSE r]
  BY DEF Drain
<1>4. r = IF Verdict(s, e) = Cipher!Failed THEN Err("Crypto") ELSE OwnFile(s, e)
  <2>1. Proper(s, e) /\ Keyed(s, e)
    BY <1>2, StreamReads DEF BInv, EntriesProper
  <2> QED BY <1>3, <2>1, KeyFits
<1>5. stream' = [stream EXCEPT ![s] = StreamOf(s, e)]
  BY <1>2, <1>3, <1>4, ErrNamed DEF StreamOf, OwnFile, Plain
<1>6. Tables'
  <2>1. stream' = [t \in Users |-> stream'[t]]
    BY <1>5 DEF BInv, Tables
  <2> QED BY <1>1, <2>1 DEF BInv, Tables
<1>7. \A t \in Users : stream'[t] = IF t = s THEN StreamOf(s, e) ELSE stream[t]
  BY <1>5 DEF BInv, Tables
<1>8. EntriesProper' /\ WholeFollows'
  BY <1>1 DEF BInv, EntriesProper, WholeFollows, Held
<1>9. StreamFollows'
  BY <1>1, <1>2, <1>7 DEF BInv, StreamFollows, Held
<1> QED BY <1>1, <1>6, <1>8, <1>9 DEF BInv

LEMMA DrainFailsInv == ASSUME BInv, NEW s \in Users, DrainFails(s) PROVE BInv'
<1>1. IInv' /\ entry' = entry /\ whole' = whole
  BY IInvSame DEF BInv, DrainFails
<1>2. Held(s) /\ StreamError(s, entry[s], "") = ""
  BY Flowing DEF DrainFails
<1>3. StreamUnread(s, entry[s], Err("ReadFailed"))
  BY <1>2, StreamReads DEF StreamUnread
<1>4. Meets(s, "stream", TRUE) /\ stream' = [stream EXCEPT ![s] = Err("ReadFailed")]
  BY DEF DrainFails
<1> QED BY <1>1, <1>2, <1>3, <1>4, StreamStep

LEMMA BackupInductive == BInv /\ [BackupNext]_backupVars => BInv'
<1> SUFFICES ASSUME BInv, [BackupNext]_backupVars PROVE BInv'
  OBVIOUS
<1>1. CASE Manage
  BY <1>1, ManageInv
<1>2. ASSUME NEW s \in Users, NEW f \in FileIds, GetFile(s, f) PROVE BInv'
  BY <1>2, HoldInv DEF GetFile
<1>3. ASSUME NEW s \in Users, Entries(s) PROVE BInv'
  BY <1>3, HoldInv DEF Entries
<1>4. ASSUME NEW s \in Users, DecryptEntry(s) PROVE BInv'
  BY <1>4, DecryptInv
<1>5. ASSUME NEW s \in Users, OpenStream(s) PROVE BInv'
  BY <1>5, OpenInv
<1>6. ASSUME NEW s \in Users, Drain(s) PROVE BInv'
  BY <1>6, DrainInv
<1>7. ASSUME NEW s \in Users, DrainFails(s) PROVE BInv'
  BY <1>7, DrainFailsInv
<1>8. CASE UNCHANGED backupVars
  <2>1. /\ UNCHANGED vars
        /\ entry' = entry /\ whole' = whole /\ stream' = stream /\ unread' = unread
    BY <1>8 DEF backupVars, useVars
  <2>2. IInv'
    BY <2>1, IInvSame DEF BInv
  <2> QED BY <2>1, <2>2, UsesSame
<1> QED BY <1>1, <1>2, <1>3, <1>4, <1>5, <1>6, <1>7, <1>8 DEF BackupNext, Use

LEMMA BackupInvariant == BackupSpec => []BInv
BY BackupInitInv, BackupInductive, PTL DEF BackupSpec

-----------------------------------------------------------------------------
(* MBFile::from_plist and the results: a class always fits its 32 bits, and no
   result outlives the entry that it was computed for. *)
THEOREM BackupTypeCorrect == BackupSpec => []BackupTypeOK
<1>1. ASSUME BInv PROVE BackupTypeOK
  <2>1. ASSUME NEW s \in Users
        PROVE  /\ Held(s) => entry[s].class \in 0..(ClassRange - 1)
               /\ ~Held(s) => whole[s] = NotYet /\ stream[s] = NotYet
               /\ whole[s] # Streaming /\ unread[s] \subseteq {"whole", "stream"}
    <3>1. Held(s) => entry[s].class \in 0..(ClassRange - 1)
      BY <1>1 DEF BInv, EntriesProper, Proper
    <3>2. ~Held(s) => whole[s] = NotYet /\ stream[s] = NotYet
      BY <1>1 DEF BInv, WholeFollows, StreamFollows
    <3>3. whole[s].err # "streaming"
      <4>1. WholeOf(s, entry[s]).err # "streaming"
        <5>1. WholeOf(s, entry[s]).err \in Errors \cup {""}
          BY ResultNames
        <5> QED BY <5>1 DEF Errors
      <4>2. NotYet.err # "streaming" /\ Err("Io").err # "streaming"
        BY Unfinished, ErrNamed
      <4>3. whole[s] = NotYet \/ whole[s] = Err("Io") \/ whole[s] = WholeOf(s, entry[s])
        BY <1>1 DEF BInv, WholeFollows
      <4> QED BY <4>1, <4>2, <4>3
    <3>4. unread[s] \subseteq {"whole", "stream"}
      BY <1>1 DEF BInv, Tables
    <3> QED BY <3>1, <3>2, <3>3, <3>4, Unfinished
  <2> QED BY <1>1, <2>1 DEF BackupTypeOK, BInv, IInv, Held
<1> QED BY <1>1, BackupInvariant, PTL

(* decrypt_entry and decrypt_entry_stream, in any session and whatever the
   temporary database does: no plaintext but that of the file that was asked
   for, of the session's own backup. *)
THEOREM NoForeignPlaintext == BackupSpec => []OwnPlaintextOnly
<1>1. ASSUME BInv PROVE OwnPlaintextOnly
  <2> SUFFICES ASSUME NEW s \in Users, NEW r \in {whole[s], stream[s]}, r.err = ""
               PROVE  r.of = <<BackupOf[s], entry[s].file>>
    BY DEF OwnPlaintextOnly
  <2>1. r = WholeOf(s, entry[s]) \/ r = StreamOf(s, entry[s])
    <3>1. r # NotYet /\ r # Streaming /\ r # Err("Io")
      BY Unfinished, ErrNamed
    <3>2. ~StreamUnread(s, entry[s], r)
      BY ResultNames
    <3> QED BY <1>1, <3>1, <3>2 DEF BInv, WholeFollows, StreamFollows
  <2>2. r = OwnFile(s, entry[s])
    BY <2>1, ErrNamed DEF WholeOf, StreamOf
  <2> QED BY <2>2 DEF OwnFile, Plain
<1> QED BY <1>1, BackupInvariant, PTL

(* How they can end when the file is there to be opened. *)
LEMMA OpenedEnds ==
  ASSUME NEW s, NEW e, Opens(s, e)
  PROVE  /\ StreamOf(s, e).err \notin {"Io", "panic", "ReadFailed"}
         /\ WholeOf(s, e).err \notin {"Io", "panic"}
         /\ Keyed(s, e) => WholeOf(s, e).err \in {"", "Crypto"}
<1>1. KeyError(s, e) \in {"Crypto", "NotEncrypted", ""}
  BY DEF KeyError
<1>2. StreamError(s, e, "") \notin {"Io", "panic", "ReadFailed"}
  BY <1>1 DEF StreamError, Opens
<1>3. WholeError(s, e, FALSE) \notin {"Io", "panic"}
  BY <1>1 DEF WholeError, Opens
<1>4. OwnFile(s, e).err = ""
  BY DEF OwnFile, Plain
<1>5. StreamOf(s, e).err \notin {"Io", "panic", "ReadFailed"}
  BY <1>2, <1>4, ErrNamed DEF StreamOf
<1>6. WholeOf(s, e).err \notin {"Io", "panic"}
  BY <1>3, <1>4, ErrNamed DEF WholeOf
<1>7. Keyed(s, e) => WholeOf(s, e).err \in {"", "Crypto"}
  BY <1>4, ErrNamed, WholeReads DEF WholeOf
<1> QED BY <1>5, <1>6, <1>7

(* Where nothing fails to be read, the two ways end alike. *)
LEMMA SameEnds ==
  ASSUME NEW s \in Users, NEW e, Proper(s, e)
  PROVE  \/ WholeOf(s, e) = StreamOf(s, e)
         \/ WholeOf(s, e) = Err("Crypto") /\ StreamOf(s, e) = Err("InvalidData")
<1>1. CASE ~Keyed(s, e)
  <2>1. /\ StreamError(s, e, "") = WholeError(s, e, FALSE)
        /\ WholeError(s, e, FALSE) # ""
    BY <1>1, SameErrors, WholeReads
  <2> QED BY <2>1 DEF WholeOf, StreamOf
<1>2. CASE Keyed(s, e) /\ StoredFor(s, e).len < Block
  <2>1. Verdict(s, e) = Cipher!Failed
    BY <1>2, KeyFits, ShortFails DEF Verdict
  <2>2. WholeError(s, e, FALSE) = "" /\ StreamError(s, e, "") = "Crypto"
    <3>1. KeyError(s, e) = "" /\ Opens(s, e) /\ e.key.len - 8 = 32
      BY <1>2 DEF Keyed
    <3>2. Stored[BackupOf[s]][e.file].len < Block
      BY <1>2 DEF StoredFor
    <3>3. StreamError(s, e, "") = "Crypto"
      BY <3>1, <3>2 DEF StreamError, Opens
    <3> QED BY <1>2, <3>3, WholeReads
  <2> QED BY <2>1, <2>2 DEF WholeOf, StreamOf
<1>3. CASE Keyed(s, e) /\ ~(StoredFor(s, e).len < Block)
  <2>1. WholeError(s, e, FALSE) = "" /\ StreamError(s, e, "") = ""
    BY <1>3, WholeReads, StreamReads
  <2> QED BY <2>1 DEF WholeOf, StreamOf
<1> QED BY <1>1, <1>2, <1>3

(* decrypt_entry against decrypt_entry_stream, which look at the file and at the
   key in different orders: the same bytes or the same refusal of every entry, as
   long as the file can be read, and what each says if it cannot. *)
THEOREM WaysAgree == BackupSpec => []BothWaysAgree
<1>1. ASSUME BInv PROVE BothWaysAgree
  <2> SUFFICES ASSUME NEW s \in Users, whole[s] # NotYet, stream[s] # NotYet,
                      stream[s] # Streaming
               PROVE  \/ /\ unread[s] = {}
                         /\ \/ whole[s] = stream[s]
                            \/ whole[s] = Err("Crypto") /\ stream[s] = Err("InvalidData")
                      \/ /\ unread[s] = {"whole"} /\ whole[s] = Err("Io")
                         /\ stream[s].err \notin {"Io", "panic", "ReadFailed"}
                      \/ /\ unread[s] = {"stream"}
                         /\ \/ stream[s] = Err("Io") /\ whole[s].err \notin {"Io", "panic"}
                            \/ /\ stream[s].err \in {"Crypto", "ReadFailed"}
                               /\ whole[s].err \in {"", "Crypto"}
                      \/ /\ unread[s] = {"whole", "stream"} /\ whole[s] = Err("Io")
                         /\ stream[s].err \in {"Io", "Crypto", "ReadFailed"}
    BY DEF BothWaysAgree
  <2> DEFINE e == entry[s]
  <2>1. Held(s) /\ Proper(s, e) /\ unread[s] \in SUBSET {"whole", "stream"}
    BY <1>1 DEF BInv, WholeFollows, EntriesProper, Tables
  <2>2. \/ "whole" \in unread[s] /\ Opens(s, e) /\ whole[s] = Err("Io")
        \/ "whole" \notin unread[s] /\ whole[s] = WholeOf(s, e)
    BY <1>1 DEF BInv, WholeFollows
  <2>3. \/ "stream" \in unread[s] /\ StreamUnread(s, e, stream[s])
        \/ "stream" \notin unread[s] /\ stream[s] = StreamOf(s, e)
    BY <1>1 DEF BInv, StreamFollows
  <2> HIDE DEF e
  <2>4. CASE "whole" \notin unread[s] /\ "stream" \notin unread[s]
    <3>1. unread[s] = {}
      BY <2>1, <2>4
    <3> QED BY <2>1, <2>2, <2>3, <2>4, <3>1, SameEnds
  <2>5. CASE "whole" \in unread[s] /\ "stream" \notin unread[s]
    <3>1. unread[s] = {"whole"}
      BY <2>1, <2>5
    <3>2. StreamOf(s, e).err \notin {"Io", "panic", "ReadFailed"}
      BY <2>2, <2>5, OpenedEnds
    <3> QED BY <2>2, <2>3, <2>5, <3>1, <3>2
  <2>6. CASE "whole" \notin unread[s] /\ "stream" \in unread[s]
    <3>1. unread[s] = {"stream"}
      BY <2>1, <2>6
    <3>2. CASE Opens(s, e) /\ stream[s] = Err("Io")
      <4>1. whole[s].err \notin {"Io", "panic"}
        BY <2>2, <2>6, <3>2, OpenedEnds
      <4> QED BY <3>1, <3>2, <4>1
    <3>3. CASE Keyed(s, e) /\ stream[s] \in {Err("Crypto"), Err("ReadFailed")}
      <4>1. Opens(s, e)
        BY <3>3 DEF Keyed
      <4>2. whole[s].err \in {"", "Crypto"}
        BY <2>2, <2>6, <3>3, <4>1, OpenedEnds
      <4>3. stream[s].err \in {"Crypto", "ReadFailed"}
        BY <3>3, ErrNamed
      <4> QED BY <3>1, <4>2, <4>3
    <3> QED BY <2>3, <2>6, <3>2, <3>3 DEF StreamUnread
  <2>7. CASE "whole" \in unread[s] /\ "stream" \in unread[s]
    <3>1. unread[s] = {"whole", "stream"}
      BY <2>1, <2>7
    <3>2. stream[s].err \in {"Io", "Crypto", "ReadFailed"}
      BY <2>3, <2>7, ResultNames
    <3>3. whole[s] = Err("Io")
      BY <2>2, <2>7
    <3> QED BY <3>1, <3>2, <3>3
  <2> QED BY <2>4, <2>5, <2>6, <2>7
<1> QED BY <1>1, BackupInvariant, PTL

LEMMA KeyOfBlob ==
  ASSUME NEW p, Archived!HasKey(p)
  PROVE  /\ Archived!FileKey(p).kek = Archived!KeyBlob(p).kek
         /\ Archived!FileKey(p).len = Archived!KeyBlob(p).len - 4
BY DEF Archived!FileKey

(* Backup::decrypt_entry of an entry that says how its file is sealed, whenever
   the file can be read. *)
THEOREM OwnEntriesOpen == BackupSpec => []OwnEntriesDecrypt
<1>1. ASSUME BInv PROVE OwnEntriesDecrypt
  <2> SUFFICES ASSUME NEW s \in Users \cap Encrypted, Held(s),
                      Sound(BackupOf[s], entry[s].file),
                      entry[s].of = BackupOf[s]
               PROVE  /\ whole[s] \in {NotYet, OwnFile(s, entry[s])} \/ "whole" \in unread[s]
                      /\ \/ stream[s] \in {NotYet, Streaming, OwnFile(s, entry[s])}
                         \/ "stream" \in unread[s]
    BY DEF OwnEntriesDecrypt, OwnFile, Verdict, StoredFor, Held
  <2> DEFINE e == entry[s]
             p == Record[BackupOf[s]][e.file]
  <2>1. Proper(s, e)
    BY <1>1 DEF BInv, EntriesProper
  <2>2. /\ Archived!Class(p) \in Unlocked[BackupOf[s]] /\ Archived!Class(p) \in 0..(ClassRange - 1)
        /\ Archived!HasKey(p)
        /\ Archived!KeyBlob(p).kek = <<BackupOf[s], Archived!Class(p)>> /\ Archived!KeyBlob(p).len = 44
        /\ Stored[BackupOf[s]][e.file] # NoStoredFile /\ e.file \notin ShortIds
        /\ Verdict(s, e) # Cipher!Failed
    BY DEF Sound, Verdict, StoredFor
  <2>3. /\ e.class = Archived!Class(p) /\ e.key # NoKey
        /\ e.key.kek = <<BackupOf[s], e.class>> /\ e.key.len = 40
    <3>1. Archived!Class(p) % ClassRange = Archived!Class(p)
      BY <2>2, InRange
    <3>2. e.key = Archived!FileKey(p) /\ e.class = Archived!Class(p) % ClassRange
      <4>1. e = MBFile(BackupOf[s], e.file)
        BY <2>1 DEF Proper
      <4> QED BY <4>1 DEF MBFile
    <3>3. Archived!FileKey(p).kek = Archived!KeyBlob(p).kek /\ Archived!FileKey(p).len = 40
      <4>1. /\ Archived!FileKey(p).kek = Archived!KeyBlob(p).kek
            /\ Archived!FileKey(p).len = Archived!KeyBlob(p).len - 4
        BY <2>2, KeyOfBlob
      <4>2. Archived!KeyBlob(p).len = 44
        BY <2>2
      <4> HIDE DEF p
      <4>3. Archived!FileKey(p).len = 40
        BY <4>1, <4>2
      <4> QED BY <4>1, <4>3
    <3>4. Archived!FileKey(p) # NoKey
      <4>1. BackupOf[s] \in Backups /\ e.file \in FileIds /\ Readable(p)
        BY <2>1, BackupAssumption DEF Proper, Backups
      <4> QED BY <2>2, <4>1, KeysAssumption
    <3> QED BY <2>2, <3>1, <3>2, <3>3, <3>4
  <2>4. Keyed(s, e)
    <3>1. e.class \in Unlocked[BackupOf[s]] /\ e.key # NoKey
      BY <2>2, <2>3
    <3>2. e.key.kek = <<BackupOf[s], e.class>> /\ e.key.len = 40
      BY <2>3
    <3>3. KeyError(s, e) = ""
      BY <3>1, <3>2 DEF KeyError, Unwraps
    <3>4. e.key.len - 8 = 32 /\ s \in Encrypted
      BY <3>2
    <3>5. Stored[BackupOf[s]][e.file] # NoStoredFile /\ e.file \notin ShortIds
      BY <2>2
    <3> HIDE DEF e
    <3> QED BY <3>3, <3>4, <3>5 DEF Keyed, Opens
  <2>5. ~(StoredFor(s, e).len < Block)
    BY <2>1, <2>2, <2>4, KeyFits, ShortFails DEF Verdict
  <2>6. WholeOf(s, e) = OwnFile(s, e) /\ StreamOf(s, e) = OwnFile(s, e)
    <3>1. WholeError(s, e, FALSE) = "" /\ StreamError(s, e, "") = ""
      BY <2>4, <2>5, WholeReads, StreamReads
    <3> QED BY <2>2, <3>1 DEF WholeOf, StreamOf
  <2> QED BY <1>1, <2>6 DEF BInv, WholeFollows, StreamFollows
<1> QED BY <1>1, BackupInvariant, PTL
=============================================================================
