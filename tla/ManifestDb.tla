------------------------------ MODULE ManifestDb ------------------------------
(***************************************************************************)
(* ManifestDb (src/backup/models/manifest_db.rs) as several sessions use it *)
(* at once: each opens a backup, queries it and drops it, again and again.  *)
(* The database of an encrypted backup is decrypted into one file with a    *)
(* fixed name in the temporary directory, which all sessions (threads or    *)
(* processes) share.                                                        *)
(*                                                                         *)
(* The file system is POSIX: a name leads to an inode, an open file keeps   *)
(* its inode when the name is removed, File::create truncates the inode it  *)
(* finds.  A database is `DbLen` pieces long and a piece is represented by  *)
(* the session that wrote it, so that the content of an inode tells whose   *)
(* rows a query returns.  A query goes to the file, not to a cache.         *)
(***************************************************************************)
EXTENDS Integers

CONSTANTS
  Sessions,
  Encrypted,      \* the sessions whose backup is encrypted
  DbLen,          \* the pieces of each session's database
  MaxLen,         \* bound: the longest database
  Inodes,         \* bound: the inodes that temporary files use
  Faults,         \* what may go wrong: "create", "copy", "connect", "remove",
                  \* "crash"; "take": the caller closes the connection itself
  Hole,           \* a piece of a file that nobody wrote
  NoFile

ASSUME ManifestDbAssumption ==
  /\ Encrypted \subseteq Sessions
  /\ MaxLen \in Nat
  /\ DbLen \in [Sessions -> 1..MaxLen]
  /\ Hole \notin Sessions /\ NoFile \notin Inodes

VARIABLES
  tmp,      \* the inode that temp_dir()/crabapple-Manifest.db names, or NoFile
  disk,     \* the content of each inode
  pc,       \* how far each session is, see Steps
  fd,       \* the inode each session has open (file, then conn), or NoFile
  woff,     \* how many pieces its copy has written
  litter,   \* a file may be left under the name with no session to remove it
  met       \* the sessions that used the file while this one did

vars == <<tmp, disk, pc, fd, woff, litter, met>>

(* "start": before new(); "ready": keys unwrapped, nothing written yet;
   "copying": the temporary file exists; "open": new() returned Ok;
   "closing": in drop(), the connection is closed; "over": failed, dropped or
   crashed. *)
Steps == {"start", "ready", "copying", "open", "closing", "over"}

(* The sessions that have to do with the temporary file at the moment. *)
Active == {s \in Encrypted : pc[s] \in {"copying", "open", "closing"}}

Slots == 1..MaxLen
Empty == [k \in Slots |-> Hole]
Own(s) == [k \in Slots |-> IF k <= DbLen[s] THEN s ELSE Hole]

Init ==
  /\ tmp = NoFile
  /\ disk = [i \in Inodes |-> Empty]
  /\ pc = [s \in Sessions |-> "start"]
  /\ fd = [s \in Sessions |-> NoFile]
  /\ woff = [s \in Sessions |-> 0]
  /\ litter = FALSE
  /\ met = [s \in Sessions |-> {}]

-----------------------------------------------------------------------------
(* An inode nobody can see. *)
Unused == {i \in Inodes : i # tmp /\ \A s \in Sessions : fd[s] # i}

(* The name leads to inode i from now on; a new inode is empty. *)
Names(i) == i = tmp \/ (tmp = NoFile /\ i \in Unused)

(* new(): the file exists, ManifestKey splits, its class key is there and
   unwraps it, the ciphertext has a first block -- or one of these fails. *)
Prepare(s) ==
  /\ pc[s] = "start" /\ s \in Encrypted
  /\ pc' = [pc EXCEPT ![s] = "ready"]
  /\ UNCHANGED <<tmp, disk, fd, woff, litter, met>>

Refuse(s) ==
  /\ pc[s] = "start"
  /\ pc' = [pc EXCEPT ![s] = "over"]
  /\ UNCHANGED <<tmp, disk, fd, woff, litter, met>>

(* A database that is not encrypted is opened where it is. *)
OpenOriginal(s) ==
  /\ pc[s] = "start" /\ s \notin Encrypted
  /\ pc' = [pc EXCEPT ![s] = "open"]
  /\ UNCHANGED <<tmp, disk, fd, woff, litter, met>>

Meet(s) ==
  met' = [t \in Sessions |->
            IF t = s THEN Active ELSE IF t \in Active THEN met[t] \cup {s} ELSE met[t]]

(* Mutant: an existing file is opened, not truncated. *)
CreateKeeps(s) ==
  /\ pc[s] = "ready"
  /\ \E i \in Inodes :
       /\ Names(i)
       /\ tmp' = i
       /\ disk' = IF i = tmp THEN disk ELSE [disk EXCEPT ![i] = Empty]
       /\ fd' = [fd EXCEPT ![s] = i]
  /\ woff' = [woff EXCEPT ![s] = 0]
  /\ pc' = [pc EXCEPT ![s] = "copying"]
  /\ Meet(s)
  /\ UNCHANGED litter

(* File::create(&tmp_path) *)
Create(s) ==
  /\ pc[s] = "ready"
  /\ \E i \in Inodes :
       /\ Names(i)
       /\ tmp' = i
       /\ disk' = [disk EXCEPT ![i] = Empty]
       /\ fd' = [fd EXCEPT ![s] = i]
  /\ woff' = [woff EXCEPT ![s] = 0]
  /\ pc' = [pc EXCEPT ![s] = "copying"]
  /\ Meet(s)
  /\ UNCHANGED litter

CreateFails(s) ==
  /\ "create" \in Faults
  /\ pc[s] = "ready"
  /\ pc' = [pc EXCEPT ![s] = "over"]
  /\ UNCHANGED <<tmp, disk, fd, woff, litter, met>>

(* copy() writes the next piece, at its own offset. *)
Copy(s) ==
  /\ pc[s] = "copying" /\ woff[s] < DbLen[s]
  /\ disk' = [disk EXCEPT ![fd[s]][woff[s] + 1] = s]
  /\ woff' = [woff EXCEPT ![s] = @ + 1]
  /\ UNCHANGED <<tmp, pc, fd, litter, met>>

(* copy() or Connection::open() returns Err and so does new(): the handles are
   dropped, the file stays. *)
CopyFails(s) ==
  /\ \/ "copy" \in Faults
     \/ "connect" \in Faults /\ woff[s] = DbLen[s]
  /\ pc[s] = "copying"
  /\ pc' = [pc EXCEPT ![s] = "over"]
  /\ fd' = [fd EXCEPT ![s] = NoFile]
  /\ litter' = TRUE
  /\ UNCHANGED <<tmp, disk, woff, met>>

CopyStarted(s) == woff[s] > 0        \* mutant: connected before all is copied
CopyComplete(s) == woff[s] = DbLen[s]

(* Connection::open(tmp_path): whatever file has the name now; SQLite creates
   one when there is none. *)
Connect(s) ==
  /\ pc[s] = "copying" /\ CopyComplete(s)
  /\ \E i \in Inodes :
       /\ Names(i)
       /\ tmp' = i
       /\ disk' = IF i = tmp THEN disk ELSE [disk EXCEPT ![i] = Empty]
       /\ fd' = [fd EXCEPT ![s] = i]
  /\ pc' = [pc EXCEPT ![s] = "open"]
  /\ UNCHANGED <<woff, litter, met>>

(* What query_all_entries, query_all_domains and query_file_by_id read. *)
Rows(s) == IF s \in Encrypted THEN disk[fd[s]] ELSE Own(s)

(* drop() of a database that is in its place: nothing is removed. *)
DropOriginal(s) ==
  /\ pc[s] = "open" /\ s \notin Encrypted
  /\ pc' = [pc EXCEPT ![s] = "over"]
  /\ UNCHANGED <<tmp, disk, fd, woff, litter, met>>

(* Mutant: the file is removed with the connection still open. *)
CloseLater(s) ==
  /\ pc[s] = "open" /\ s \in Encrypted
  /\ pc' = [pc EXCEPT ![s] = "closing"]
  /\ UNCHANGED <<tmp, disk, fd, woff, litter, met>>

(* drop(): conn.close() *)
Close(s) ==
  /\ pc[s] = "open" /\ s \in Encrypted
  /\ pc' = [pc EXCEPT ![s] = "closing"]
  /\ fd' = [fd EXCEPT ![s] = NoFile]
  /\ UNCHANGED <<tmp, disk, woff, litter, met>>

(* Mutant: the connection is closed, the file forgotten. *)
RemoveNothing(s) ==
  /\ pc[s] = "closing"
  /\ pc' = [pc EXCEPT ![s] = "over"]
  /\ UNCHANGED <<tmp, disk, fd, woff, litter, met>>

(* Mutant: the file is emptied before it is removed. *)
RemoveEmptied(s) ==
  /\ pc[s] = "closing"
  /\ disk' = IF tmp = NoFile THEN disk ELSE [disk EXCEPT ![tmp] = Empty]
  /\ tmp' = NoFile
  /\ litter' = FALSE
  /\ pc' = [pc EXCEPT ![s] = "over"]
  /\ UNCHANGED <<fd, woff, met>>

(* drop(): remove_file(&self.db_path), whosever file has the name by now. *)
Remove(s) ==
  /\ pc[s] = "closing"
  /\ tmp' = NoFile
  /\ litter' = FALSE
  /\ pc' = [pc EXCEPT ![s] = "over"]
  /\ UNCHANGED <<disk, fd, woff, met>>

(* ... which only prints a warning when it fails. *)
RemoveFails(s) ==
  /\ "remove" \in Faults
  /\ pc[s] = "closing"
  /\ litter' = TRUE
  /\ pc' = [pc EXCEPT ![s] = "over"]
  /\ UNCHANGED <<tmp, disk, fd, woff, met>>

(* The caller takes `conn`, a public field, and closes it: drop() finds None
   and removes nothing. *)
TakeConn(s) ==
  /\ "take" \in Faults
  /\ pc[s] = "open" /\ s \in Encrypted
  /\ pc' = [pc EXCEPT ![s] = "over"]
  /\ fd' = [fd EXCEPT ![s] = NoFile]
  /\ litter' = TRUE
  /\ UNCHANGED <<tmp, disk, woff, met>>

(* The process ends without drop(). *)
Crash(s) ==
  /\ "crash" \in Faults
  /\ pc[s] \in {"copying", "open", "closing"} /\ s \in Encrypted
  /\ pc' = [pc EXCEPT ![s] = "over"]
  /\ fd' = [fd EXCEPT ![s] = NoFile]
  /\ litter' = TRUE
  /\ UNCHANGED <<tmp, disk, woff, met>>

(* The caller opens the backup again. *)
Reopen(s) ==
  /\ pc[s] = "over"
  /\ pc' = [pc EXCEPT ![s] = "start"]
  /\ woff' = [woff EXCEPT ![s] = 0]
  /\ met' = [met EXCEPT ![s] = {}]
  /\ UNCHANGED <<tmp, disk, fd, litter>>

-----------------------------------------------------------------------------
Step(s) ==
  \/ Prepare(s) \/ OpenOriginal(s)
  \/ Create(s) \/ Copy(s) \/ Connect(s)
  \/ DropOriginal(s) \/ Close(s) \/ Remove(s)

Fault(s) ==
  \/ Refuse(s) \/ CreateFails(s) \/ CopyFails(s) \/ RemoveFails(s)
  \/ TakeConn(s) \/ Crash(s)

Next == \E s \in Sessions : Step(s) \/ Fault(s) \/ Reopen(s)

Spec == Init /\ [][Next]_vars

-----------------------------------------------------------------------------
TypeOK ==
  /\ tmp \in Inodes \cup {NoFile}
  /\ disk \in [Inodes -> [Slots -> Sessions \cup {Hole}]]
  /\ pc \in [Sessions -> Steps]
  /\ fd \in [Sessions -> Inodes \cup {NoFile}]
  /\ \A s \in Sessions : fd[s] # NoFile <=> (s \in Encrypted /\ pc[s] \in {"copying", "open"})
  /\ woff \in [Sessions -> Nat] /\ \A s \in Sessions : woff[s] <= DbLen[s]
  /\ litter \in BOOLEAN
  /\ met \in [Sessions -> SUBSET Sessions]

(* A session whose use of the temporary file no other session overlapped reads
   its own database, all of it and nothing else, under the path that
   manifest_db_path() returns -- whatever earlier sessions left there, and
   however they ended. *)
AloneSeesOwnDb ==
  \A s \in Sessions :
    pc[s] = "open" /\ met[s] = {} =>
      /\ Rows(s) = Own(s)
      /\ s \in Encrypted => tmp = fd[s]

(* However sessions interleave, a query never returns a row of a session that
   was over before this one created its file: leftovers are never read. *)
NoStaleRows ==
  \A s \in Sessions :
    pc[s] = "open" => \A k \in Slots : Rows(s)[k] \in {s, Hole} \cup met[s]

(* The decrypted database is on disk only while a session uses it, unless a
   failure, a crash or the caller's own close left it there; and then only
   until the next session that is dropped. *)
NoLitterWithoutFault == tmp # NoFile => Active # {} \/ litter

(* Backup::entries lists the "files recorded in `Manifest.db`" of the backup
   it was opened on (backup/mod.rs:349). *)
QueriesSeeOwnDb == \A s \in Sessions : pc[s] = "open" => Rows(s) = Own(s)

(* What module PrivateDb knows of a state. *)
Opening == {s \in Sessions : pc[s] \in {"start", "ready", "copying"}}
Opened == {s \in Sessions : pc[s] = "open"}
Sharing == {s \in Sessions : met[s] # {}}
Finds == [s \in Sessions |-> IF pc[s] = "open" THEN Rows(s) ELSE "nothing"]

Private == INSTANCE PrivateDb WITH
  Content <- [s \in Sessions |-> Own(s)],
  opening <- Opening, open <- Opened, shared <- Sharing, rows <- Finds

(* To each session its ManifestDb is a private database (module PrivateDb)
   unless others share the file: it finds its own rows, and the same ones from
   open to drop, whatever others do before and after.  Those who share it may
   find anything, but never because a session is dropped, fails or crashes: once
   all are open nothing changes (manifest_db.rs:323 removes a name, not the file
   that others have open). *)
ImplementsPrivateDb == Private!Spec
=============================================================================
