------------------------------ MODULE PrivateDb ------------------------------
(***************************************************************************)
(* What a ManifestDb (src/backup/models/manifest_db.rs) is to its session:  *)
(* a database of its own, the same from open to drop -- as long as no other *)
(* session that decrypts into the same temporary file is about at the same  *)
(* time.  Those that share it may find anything, but it is always a session *)
(* on its way to open that changes what they find.                          *)
(***************************************************************************)
CONSTANTS
  Sessions,
  Content       \* [Sessions -> rows]: the Manifest.db of each backup

VARIABLES
  opening, open, \* the sessions on their way to open, and those that are
  shared,       \* the sessions that share, or shared, the temporary file
  rows          \* what each session finds, or Nothing

vars == <<opening, open, shared, rows>>

Nothing == "nothing"

Init ==
  /\ opening = Sessions /\ open = {} /\ shared = {}
  /\ rows = [s \in Sessions |-> Nothing]

Open(s) ==
  /\ s \in opening
  /\ opening' = opening \ {s} /\ open' = open \cup {s}
  /\ rows' = [rows EXCEPT ![s] = IF s \in shared THEN rows'[s] ELSE Content[s]]
  /\ UNCHANGED shared

Fail(s) ==
  /\ s \in opening
  /\ opening' = opening \ {s}
  /\ UNCHANGED <<open, shared, rows>>

(* Only those who share can find something else than before. *)
OthersKeep == \A t \in Sessions \ shared' : rows'[t] = rows[t]

(* It takes two to share. *)
Meet(s) ==
  /\ s \in opening
  /\ \E others \in SUBSET (Sessions \ {s}) :
       others # {} /\ shared' = shared \cup others \cup {s}
  /\ UNCHANGED <<opening, open>> /\ OthersKeep

Overwrite(s) ==
  /\ s \in opening \cap shared
  /\ UNCHANGED <<opening, open, shared>> /\ OthersKeep

Close(s) ==
  /\ s \in open
  /\ open' = open \ {s} /\ rows' = [rows EXCEPT ![s] = Nothing]
  /\ UNCHANGED <<opening, shared>>

(* Another session, of the same program. *)
Renew(s) ==
  /\ s \notin opening \cup open
  /\ opening' = opening \cup {s} /\ shared' = shared \ {s}
  /\ UNCHANGED <<open, rows>>

Next ==
  \E s \in Sessions :
    Open(s) \/ Fail(s) \/ Meet(s) \/ Overwrite(s) \/ Close(s) \/ Renew(s)

Spec == Init /\ [][Next]_vars
=============================================================================
