-------------------------------- MODULE Backup --------------------------------
(***************************************************************************)
(* Backup (src/backup/mod.rs) over the sessions of ManifestDb: an open      *)
(* session looks a file up in the database that it is connected to, keeps   *)
(* the entry, and decrypts the file of that name from its own directory, at *)
(* once (decrypt_entry) or as a stream (decrypt_entry_stream).  Sessions    *)
(* share only the temporary database, so what is asked here is how far the  *)
(* damage goes when one of them reads the rows of another.                  *)
(*                                                                         *)
(* Each file has its row in some piece of the database.  File ids are hashes *)
(* of domain and path, so the same file has the same id in all backups.     *)
(* Key wrap is ideal: it refuses every key but its own.  The streaming      *)
(* reader is taken for what CbcReader is proved to be over a file: it hands *)
(* out as many bytes as the one-shot decryption, or fails where that fails. *)
(* A file that is there may fail to be opened or read, at any time; the     *)
(* reader's caller then stops.  What a reader does when its caller reads on *)
(* after an error is in CbcReader and CbcRetry.                             *)
(***************************************************************************)
EXTENDS ManifestDb

CONSTANTS
  BackupOf,     \* the backup, that is the directory, of each session
  FileIds,
  PieceOf,      \* [FileIds -> Slots]: the piece its row is in
  Record,       \* [backup -> [FileIds -> archive]]: its Files table
  Stored,       \* [backup -> [FileIds -> ciphertext]]: its directory
  Unlocked,     \* [backup -> the classes whose keys Manifest unwrapped]
  ShortIds,     \* the file ids of fewer than two bytes
  ClassRange,   \* 2^32: how many class numbers a u32 holds
  IntRange,     \* 2^63
  Block,        \* bytes in a cipher block; 16 in the code
  Users,        \* the sessions that look files up and decrypt them
  NoEntry, NoRow, NoKey, NoStoredFile

Cipher == INSTANCE Cbc
Archived == INSTANCE Archive

Backups == {BackupOf[s] : s \in Sessions}

(* The archive in a row, when it is one: its ProtectionClass is a u64. *)
Readable(p) == p # NoRow /\ Archived!Outcome(p) = "entry"
RowOK(p) == Readable(p) => Archived!Class(p) \in Nat

ASSUME BackupAssumption ==
  /\ ClassRange \in Nat \ {0} /\ Block \in Nat \ {0}
  /\ Users \subseteq Sessions /\ ShortIds \subseteq FileIds
  /\ PieceOf \in [FileIds -> Slots]
  /\ \A b \in Backups : \A f \in FileIds :
       /\ RowOK(Record[b][f])
       /\ Stored[b][f] = NoStoredFile \/ Stored[b][f].len \in Nat
  /\ \A b \in Backups : Unlocked[b] \subseteq Nat

(* What a key opens: each stored file is encrypted with a key of its own, and
   what is wrapped with a class key of a backup, in whosever row, is the key of
   the file of that backup that the row is about. *)
ASSUME KeysAssumption ==
  \A d \in Backups : \A f \in FileIds :
    /\ Stored[d][f] # NoStoredFile => Stored[d][f].key = <<d, f>>
    /\ Readable(Record[d][f]) /\ Archived!HasKey(Record[d][f]) =>
         /\ Archived!KeyBlob(Record[d][f]).key = <<Archived!KeyBlob(Record[d][f]).kek[1], f>>
         /\ Archived!FileKey(Record[d][f]) # NoKey

VARIABLES
  entry,        \* the BackupFileEntry each user holds, or NoEntry
  whole,        \* what decrypt_entry last returned for it
  stream,       \* how far decrypt_entry_stream has come with it
  unread        \* history: which of the two met a file that failed to be read

useVars == <<entry, whole, stream, unread>>
backupVars == <<vars, useVars>>

(* Results: bytes of some plaintext, or an error by name. *)
Plain(of, n) == [err |-> "", of |-> of, n |-> n]
Err(name) == [err |-> name, of |-> <<>>, n |-> 0]
NotYet == Err("not yet")
Streaming == Err("streaming")

BackupInit ==
  /\ Init
  /\ entry = [s \in Users |-> NoEntry]
  /\ whole = [s \in Users |-> NotYet]
  /\ stream = [s \in Users |-> NotYet]
  /\ unread = [s \in Users |-> {}]

-----------------------------------------------------------------------------
(* Mutant: the class keeps its 64 bits. *)
MBFileWide(d, f) ==
  LET p == Record[d][f]
  IN  [of |-> d, file |-> f, class |-> Archived!Class(p), key |-> Archived!FileKey(p)]

(* The entry that backup d's row of f makes: `as u32` keeps the low bits of the
   class.  Which backup it was is history, which the user does not know. *)
MBFile(d, f) ==
  LET p == Record[d][f]
  IN  [of |-> d, file |-> f, class |-> Archived!Class(p) % ClassRange,
       key |-> Archived!FileKey(p)]

(* The backup whose row of f session s finds, whoever wrote it. *)
Found(s, f) ==
  LET writer == Rows(s)[PieceOf[f]]
  IN  IF writer = Hole THEN NoRow
      ELSE IF Record[BackupOf[writer]][f] = NoRow THEN NoRow ELSE BackupOf[writer]

Hold(s, f) ==
  /\ entry' = [entry EXCEPT ![s] = MBFile(Found(s, f), f)]
  /\ whole' = [whole EXCEPT ![s] = NotYet]
  /\ stream' = [stream EXCEPT ![s] = NotYet]
  /\ unread' = [unread EXCEPT ![s] = {}]
  /\ UNCHANGED vars

(* get_file, when it returns an entry.  When it panics, it leaves what drop or a
   crash leaves. *)
GetFile(s, f) ==
  /\ pc[s] = "open" /\ Found(s, f) # NoRow /\ Readable(Record[Found(s, f)][f])
  /\ Hold(s, f)

(* entries, in which one row that does not parse spoils all: the user goes on
   with one of them. *)
Entries(s) ==
  /\ pc[s] = "open"
  /\ \A f \in FileIds : Found(s, f) # NoRow => Readable(Record[Found(s, f)][f])
  /\ \E f \in FileIds : Found(s, f) # NoRow /\ Hold(s, f)

-----------------------------------------------------------------------------
(* Mutant: the wrapped key is taken for the key. *)
UnwrapsAny(s, e) == e.key.len > 8

(* aes_kw_unwrap with the key that s has for the class of the entry. *)
Unwraps(s, e) == e.key.len > 8 /\ e.key.kek = <<BackupOf[s], e.class>>

(* unwrap_key_for_entry: why there is no key, or "". *)
KeyError(s, e) ==
  IF e.class \notin Unlocked[BackupOf[s]] THEN "Crypto"
  ELSE IF e.key = NoKey THEN "NotEncrypted"
  ELSE IF ~Unwraps(s, e) THEN "Crypto" ELSE ""

(* How far a call has to come to open the file of the entry, whose directory has
   the first two bytes of its id for a name, and to decrypt it. *)
Opens(s, e) ==
  s \in Encrypted /\ e.file \notin ShortIds /\ Stored[BackupOf[s]][e.file] # NoStoredFile
Keyed(s, e) == Opens(s, e) /\ KeyError(s, e) = "" /\ e.key.len - 8 = 32

(* Why decrypt_entry has nothing to decrypt, or "": it has read all of the file
   before it looks at the key. *)
WholeError(s, e, fails) ==
  IF s \notin Encrypted THEN "NotEncrypted"
  ELSE IF e.file \in ShortIds THEN "panic"
  ELSE IF Stored[BackupOf[s]][e.file] = NoStoredFile \/ fails THEN "Io"
  ELSE IF KeyError(s, e) # "" THEN KeyError(s, e)
  ELSE IF e.key.len - 8 # 32 THEN "InvalidCryptoDataLength" ELSE ""

(* Why decrypt_entry_stream returns no reader, or "": it only opens the file, and
   AesCbcDecryptReader::from reads the first block when it has the key. *)
StreamError(s, e, fails) ==
  IF s \notin Encrypted THEN "NotEncrypted"
  ELSE IF e.file \in ShortIds THEN "panic"
  ELSE IF Stored[BackupOf[s]][e.file] = NoStoredFile \/ fails = "open" THEN "Io"
  ELSE IF KeyError(s, e) # "" THEN KeyError(s, e)
  ELSE IF e.key.len - 8 # 32 THEN "InvalidCryptoDataLength"
  ELSE IF fails = "read" \/ Stored[BackupOf[s]][e.file].len < Block THEN "Crypto" ELSE ""

(* The plaintext under the entry's key.  With another key than the file's the
   padding is wrong, or by chance is not. *)
Decrypted(s, e) ==
  LET c == Stored[BackupOf[s]][e.file]
  IN  IF c.key = e.key.key
      THEN {IF Cipher!OneShot(c.len, c.pad) = Cipher!Failed THEN Err("Crypto")
            ELSE Plain(c.key, Cipher!OneShot(c.len, c.pad))}
      ELSE {Err("Crypto")} \cup
           {Plain(<<>>, Cipher!OneShot(c.len, p)) : p \in {q \in 1..Block : c.len >= Block}}

(* The file fails to be read now, or does not. *)
Meets(s, way, fails) ==
  unread' = [unread EXCEPT ![s] = IF fails THEN @ \cup {way} ELSE @ \ {way}]

DecryptEntry(s) ==
  /\ entry[s] # NoEntry /\ pc[s] = "open"
  /\ \E fails \in BOOLEAN :
       LET early == WholeError(s, entry[s], fails)
       IN  /\ fails => Opens(s, entry[s])
           /\ Meets(s, "whole", fails)
           /\ IF early # "" THEN whole' = [whole EXCEPT ![s] = Err(early)]
              ELSE \E r \in Decrypted(s, entry[s]) : whole' = [whole EXCEPT ![s] = r]
  /\ UNCHANGED <<vars, entry, stream>>

(* Mutant: the file is not looked for before the key. *)
OpenStreamKeyFirst(s) ==
  /\ entry[s] # NoEntry /\ pc[s] = "open"
  /\ LET early == IF s \in Encrypted /\ KeyError(s, entry[s]) # ""
                  THEN KeyError(s, entry[s]) ELSE StreamError(s, entry[s], "")
     IN  stream' = [stream EXCEPT ![s] = IF early # "" THEN Err(early) ELSE Streaming]
  /\ Meets(s, "stream", FALSE) /\ UNCHANGED <<vars, entry, whole>>

(* decrypt_entry_stream. *)
OpenStream(s) ==
  /\ entry[s] # NoEntry /\ pc[s] = "open"
  /\ \E fails \in {"", "open", "read"} :
       LET early == StreamError(s, entry[s], fails)
       IN  /\ fails = "open" => Opens(s, entry[s])
           /\ fails = "read" => Keyed(s, entry[s])
           /\ Meets(s, "stream", fails # "")
           /\ stream' = [stream EXCEPT ![s] = IF early # "" THEN Err(early) ELSE Streaming]
  /\ UNCHANGED <<vars, entry, whole>>

(* The stream is read to its end; it owns its file and needs no session.  A
   padding that is wrong is an io::Error. *)
Drain(s) ==
  /\ stream[s] = Streaming
  /\ \E r \in Decrypted(s, entry[s]) :
       stream' = [stream EXCEPT ![s] = IF r.err = "Crypto" THEN Err("InvalidData") ELSE r]
  /\ UNCHANGED <<vars, entry, whole, unread>>

(* A read fails in the middle of the stream, or at its end: an io::Error. *)
DrainFails(s) ==
  /\ stream[s] = Streaming
  /\ stream' = [stream EXCEPT ![s] = Err("ReadFailed")]
  /\ Meets(s, "stream", TRUE) /\ UNCHANGED <<vars, entry, whole>>

Use(s) ==
  \/ \E f \in FileIds : GetFile(s, f)
  \/ Entries(s) \/ DecryptEntry(s) \/ OpenStream(s) \/ Drain(s) \/ DrainFails(s)

Manage == Next /\ UNCHANGED useVars

BackupNext == Manage \/ \E s \in Users : Use(s)

BackupSpec == BackupInit /\ [][BackupNext]_backupVars

-----------------------------------------------------------------------------
BackupTypeOK ==
  /\ TypeOK
  /\ \A s \in Users :
       /\ entry[s] # NoEntry => entry[s].class \in 0..(ClassRange - 1)
       /\ entry[s] = NoEntry => whole[s] = NotYet /\ stream[s] = NotYet
       /\ whole[s] # Streaming /\ unread[s] \subseteq {"whole", "stream"}

(* Whatever sessions share the temporary database and whatever rows they read
   in it, no session ever hands out a plaintext that is not that of the file it
   was asked for, in its own backup. *)
OwnPlaintextOnly ==
  \A s \in Users : \A r \in {whole[s], stream[s]} :
    r.err = "" => r.of = <<BackupOf[s], entry[s].file>>

(* decrypt_entry and decrypt_entry_stream agree on every entry: the same bytes or
   the same error, wrong padding apart, which the stream reports as an io::Error.
   Only a file that fails to be opened or read tells them apart: decrypt_entry
   says Io, whatever is wrong with the key as well; the stream says so if the
   file cannot be opened, and if it cannot be read says Crypto or fails later on,
   in both cases with a key that decrypt_entry accepts, too. *)
BothWaysAgree ==
  \A s \in Users : LET w == whole[s]  r == stream[s] IN
    w # NotYet /\ r \notin {NotYet, Streaming} =>
      \/ /\ unread[s] = {}
         /\ w = r \/ (w = Err("Crypto") /\ r = Err("InvalidData"))
      \/ /\ unread[s] = {"whole"} /\ w = Err("Io")
         /\ r.err \notin {"Io", "panic", "ReadFailed"}
      \/ /\ unread[s] = {"stream"}
         /\ \/ r = Err("Io") /\ w.err \notin {"Io", "panic"}
            \/ r.err \in {"Crypto", "ReadFailed"} /\ w.err \in {"", "Crypto"}
      \/ /\ unread[s] = {"whole", "stream"} /\ w = Err("Io")
         /\ r.err \in {"Io", "Crypto", "ReadFailed"}

(* A row of the user's own backup that says how the file is sealed: four bytes
   and then its key, wrapped with the key of its class, which is unlocked. *)
Sound(b, f) ==
  LET p == Record[b][f]  blob == Archived!KeyBlob(p)  class == Archived!Class(p)
      c == Stored[b][f]
  IN  /\ Readable(p) /\ Archived!HasKey(p) /\ c # NoStoredFile /\ f \notin ShortIds
      /\ class \in Unlocked[b] \cap 0..(ClassRange - 1)
      /\ blob.kek = <<b, class>> /\ blob.len = 44 /\ blob.key = c.key
      /\ Cipher!OneShot(c.len, c.pad) # Cipher!Failed

(* An entry of the user's own backup decrypts, to all of the file, however many
   sessions came and went since it was looked up, unless the file fails to be
   read. *)
OwnEntriesDecrypt ==
  \A s \in Users \cap Encrypted : entry[s] # NoEntry =>
    LET f == entry[s].file  own == BackupOf[s]
        all == Plain(<<own, f>>, Cipher!OneShot(Stored[own][f].len, Stored[own][f].pad))
    IN  Sound(own, f) /\ entry[s].of = own =>
          /\ whole[s] \in {NotYet, all} \/ "whole" \in unread[s]
          /\ stream[s] \in {NotYet, Streaming, all} \/ "stream" \in unread[s]
=============================================================================
