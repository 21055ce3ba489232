-------------------------- MODULE ManifestDbProofs --------------------------
(***************************************************************************)
(* What TLAPS proves of ManifestDb for any set of sessions, any database    *)
(* lengths, any number of inodes and any choice of faults.                  *)
(***************************************************************************)
EXTENDS ManifestDb, TLAPS

(* The first n pieces of s's database. *)
Prefix(s, n) == [k \in Slots |-> IF k <= n THEN s ELSE Hole]

(* Only the sessions on an encrypted backup come near the temporary file. *)
OnlyEncrypted ==
  \A s \in Sessions : pc[s] \in {"ready", "copying", "closing"} => s \in Encrypted

(* Two sessions that use the file at the same time have met. *)
AllMet == \A s, t \in Active : s # t => t \in met[s]

(* What s may find in a file. *)
Known(s) == {s, Hole} \cup met[s]

(* Whatever is under the name now was written since any present user came. *)
NameKnown == tmp # NoFile => \A s \in Active : \A k \in Slots : disk[tmp][k] \in Known(s)

(* So was whatever is in the inode a session has open. *)
HandleKnown ==
  \A s \in Sessions : fd[s] # NoFile => \A k \in Slots : disk[fd[s]][k] \in Known(s)

(* A session that met nobody has the file to itself. *)
AloneHolds ==
  \A s \in Active :
    met[s] = {} =>
      /\ pc[s] = "copying" => fd[s] = tmp /\ disk[fd[s]] = Prefix(s, woff[s])
      /\ pc[s] = "open" => fd[s] = tmp /\ disk[fd[s]] = Prefix(s, DbLen[s])

IInv ==
  /\ TypeOK /\ OnlyEncrypted /\ AllMet /\ NameKnown /\ HandleKnown
  /\ AloneHolds /\ NoLitterWithoutFault
LEMMA DbLenNat == \A s \in Sessions : DbLen[s] \in Nat /\ DbLen[s] \in Slots
BY ManifestDbAssumption DEF Slots

LEMMA InitInv == Init => IInv
<1> SUFFICES ASSUME Init PROVE IInv
  OBVIOUS
<1>1. /\ tmp = NoFile /\ disk = [i \in Inodes |-> Empty] /\ litter = FALSE
      /\ pc = [s \in Sessions |-> "start"] /\ fd = [s \in Sessions |-> NoFile]
      /\ woff = [s \in Sessions |-> 0] /\ met = [s \in Sessions |-> {}]
  BY DEF Init
<1>2. TypeOK
  <2>1. ASSUME NEW s \in Sessions PROVE woff[s] <= DbLen[s]
    <3>1. woff[s] = 0 /\ DbLen[s] \in Nat
      BY <1>1, DbLenNat
    <3> QED BY <3>1
  <2>2. \A s \in Sessions : fd[s] = NoFile /\ pc[s] = "start"
    BY <1>1
  <2>3. Empty \in [Slots -> Sessions \cup {Hole}]
    BY DEF Empty
  <2> QED BY <1>1, <2>1, <2>2, <2>3 DEF TypeOK, Steps
<1>3. Active = {}
  BY <1>1, ManifestDbAssumption DEF Active
<1>4. OnlyEncrypted /\ AllMet /\ NameKnown /\ HandleKnown /\ AloneHolds
      /\ NoLitterWithoutFault
  BY <1>1, <1>3 DEF OnlyEncrypted, AllMet, NameKnown, HandleKnown, AloneHolds,
              NoLitterWithoutFault
<1> QED BY <1>2, <1>4 DEF IInv

-----------------------------------------------------------------------------
(* The steps, by what they do to the file and to its users.                 *)

(* s begins, gives up or ends without having to do with the file. *)
Elsewhere(s) ==
  /\ s \notin Active
  /\ \E to \in {"start", "ready", "open", "over"} :
       /\ pc' = [pc EXCEPT ![s] = to]
       /\ to = "ready" => s \in Encrypted
       /\ to = "open" => s \notin Encrypted
  /\ met' = met \/ met' = [met EXCEPT ![s] = {}]
  /\ woff' = woff \/ woff' = [woff EXCEPT ![s] = 0]
  /\ UNCHANGED <<tmp, disk, fd, litter>>

(* s, a user, is gone and leaves the file behind. *)
Abandons(s) ==
  /\ s \in Active
  /\ pc' = [pc EXCEPT ![s] = "over"]
  /\ fd' = [fd EXCEPT ![s] = NoFile]
  /\ litter' = TRUE
  /\ UNCHANGED <<tmp, disk, woff, met>>

LEMMA StepKinds ==
  ASSUME IInv, NEW s \in Sessions, Step(s) \/ Fault(s) \/ Reopen(s)
  PROVE  Elsewhere(s) \/ Abandons(s) \/ Create(s) \/ Copy(s) \/ Connect(s)
         \/ Close(s) \/ Remove(s)
<1> USE DEF IInv, TypeOK, Steps, OnlyEncrypted, Active
<1>1. CASE Prepare(s) \/ OpenOriginal(s) \/ DropOriginal(s) \/ Refuse(s)
           \/ CreateFails(s) \/ Reopen(s)
  BY <1>1 DEF Prepare, OpenOriginal, DropOriginal, Refuse, CreateFails, Reopen, Elsewhere
<1>2. CASE CopyFails(s) \/ TakeConn(s) \/ Crash(s)
  BY <1>2 DEF CopyFails, TakeConn, Crash, Abandons
<1>3. CASE RemoveFails(s)
  <2>1. pc[s] = "closing" /\ fd[s] = NoFile
    BY <1>3 DEF RemoveFails
  <2>2. fd = [fd EXCEPT ![s] = NoFile]
    BY <2>1
  <2> QED BY <1>3, <2>1, <2>2 DEF RemoveFails, Abandons
<1> QED BY <1>1, <1>2, <1>3 DEF Step, Fault

LEMMA ElsewhereInv ==
  ASSUME IInv, NEW s \in Sessions, Elsewhere(s) PROVE IInv'
<1> USE DEF IInv
<1>1. UNCHANGED <<tmp, disk, fd, litter>> /\ s \notin Active
  BY DEF Elsewhere
<1>2. PICK to \in {"start", "ready", "open", "over"} :
        /\ pc' = [pc EXCEPT ![s] = to]
        /\ to = "ready" => s \in Encrypted
        /\ to = "open" => s \notin Encrypted
  BY DEF Elsewhere
<1>3. \A t \in Sessions : pc'[t] = IF t = s THEN to ELSE pc[t]
  BY <1>2 DEF TypeOK
<1>4. Active' = Active
  BY <1>1, <1>2, <1>3, ManifestDbAssumption DEF Active
<1>5. \A t \in Sessions : t # s => met'[t] = met[t] /\ woff'[t] = woff[t]
  <2>1. met \in [Sessions -> SUBSET Sessions] /\ woff \in [Sessions -> Nat]
    BY DEF TypeOK
  <2>2. \A t \in Sessions : t # s => met'[t] = met[t]
    BY <2>1 DEF Elsewhere
  <2>3. \A t \in Sessions : t # s => woff'[t] = woff[t]
    BY <2>1 DEF Elsewhere
  <2> QED BY <2>2, <2>3
<1>6. fd[s] = NoFile
  BY <1>1 DEF TypeOK, Active
<1>7. TypeOK'
  <2>1. pc' \in [Sessions -> Steps]
    BY <1>2 DEF TypeOK, Steps
  <2>2. \A t \in Sessions :
          fd'[t] # NoFile <=> (t \in Encrypted /\ pc'[t] \in {"copying", "open"})
    BY <1>1, <1>2, <1>3, <1>6 DEF TypeOK
  <2>3. met' \in [Sessions -> SUBSET Sessions]
    BY DEF Elsewhere, TypeOK
  <2>4. woff' \in [Sessions -> Nat] /\ \A t \in Sessions : woff'[t] <= DbLen[t]
    <3>1. CASE woff' = woff
      BY <3>1 DEF TypeOK
    <3>2. CASE woff' = [woff EXCEPT ![s] = 0]
      <4>1. \A t \in Sessions : DbLen[t] \in Nat
        BY DbLenNat
      <4>2. \A t \in Sessions : woff'[t] = IF t = s THEN 0 ELSE woff[t]
        BY <3>2 DEF TypeOK
      <4>3. woff' \in [Sessions -> Nat]
        BY <3>2 DEF TypeOK
      <4> QED BY <4>1, <4>2, <4>3 DEF TypeOK
    <3> QED BY <3>1, <3>2 DEF Elsewhere
  <2> QED BY <1>1, <2>1, <2>2, <2>3, <2>4 DEF TypeOK
<1>8. OnlyEncrypted'
  BY <1>2, <1>3 DEF OnlyEncrypted
<1>9. AllMet' /\ NameKnown' /\ HandleKnown' /\ AloneHolds' /\ NoLitterWithoutFault'
  <2>1. \A t \in Active : t \in Sessions /\ t # s
    BY <1>1, ManifestDbAssumption DEF Active
  <2>2. \A t \in Active : met'[t] = met[t] /\ woff'[t] = woff[t] /\ pc'[t] = pc[t]
    BY <2>1, <1>3, <1>5
  <2>3. \A t \in Sessions : fd[t] # NoFile => met'[t] = met[t]
    BY <1>5, <1>6
  <2> QED BY <1>1, <1>4, <2>1, <2>2, <2>3
          DEF AllMet, NameKnown, HandleKnown, AloneHolds, NoLitterWithoutFault, Known, Prefix
<1> QED BY <1>7, <1>8, <1>9

LEMMA AbandonsInv ==
  ASSUME IInv, NEW s \in Sessions, Abandons(s) PROVE IInv'
<1> USE DEF IInv
<1>1. UNCHANGED <<tmp, disk, woff, met>> /\ litter' = TRUE /\ s \in Active
  BY DEF Abandons
<1>2. \A t \in Sessions :
        /\ pc'[t] = IF t = s THEN "over" ELSE pc[t]
        /\ fd'[t] = IF t = s THEN NoFile ELSE fd[t]
  BY DEF Abandons, TypeOK
<1>3. Active' = Active \ {s}
  BY <1>2, ManifestDbAssumption DEF Active
<1>4. TypeOK' /\ OnlyEncrypted'
  BY <1>1, <1>2 DEF Abandons, TypeOK, OnlyEncrypted, Steps
<1>5. AllMet' /\ NameKnown' /\ HandleKnown' /\ NoLitterWithoutFault'
  BY <1>1, <1>2, <1>3 DEF AllMet, NameKnown, HandleKnown, NoLitterWithoutFault, Known
<1>6. AloneHolds'
  <2>1. \A t \in Active' : t \in Active /\ pc'[t] = pc[t] /\ fd'[t] = fd[t]
    BY <1>2, <1>3, ManifestDbAssumption DEF Active
  <2> QED BY <1>1, <2>1 DEF AloneHolds, Prefix
<1> QED BY <1>4, <1>5, <1>6
(* A new file: nothing in it, and everybody who uses the file has met s. *)
LEMMA CreateInv ==
  ASSUME IInv, NEW s \in Sessions, Create(s) PROVE IInv'
<1> USE DEF IInv
<1>1. PICK i \in Inodes :
        /\ Names(i)
        /\ tmp' = i
        /\ disk' = [disk EXCEPT ![i] = Empty]
        /\ fd' = [fd EXCEPT ![s] = i]
  BY DEF Create
<1>2. /\ pc[s] = "ready" /\ pc' = [pc EXCEPT ![s] = "copying"]
      /\ woff' = [woff EXCEPT ![s] = 0] /\ litter' = litter
      /\ met' = [t \in Sessions |->
                   IF t = s THEN Active ELSE IF t \in Active THEN met[t] \cup {s} ELSE met[t]]
  BY DEF Create, Meet
<1>3. s \in Encrypted /\ s \notin Active
  BY <1>2 DEF OnlyEncrypted, Active
<1>4. Active' = Active \cup {s}
  <2>1. \A t \in Sessions : pc'[t] = IF t = s THEN "copying" ELSE pc[t]
    BY <1>2 DEF TypeOK
  <2> QED BY <2>1, <1>3, ManifestDbAssumption DEF Active
<1>5. \A t \in Active : t \in Sessions /\ t # s
  BY <1>3, ManifestDbAssumption DEF Active
<1>6. \A t \in Sessions :
        met'[t] = IF t = s THEN Active ELSE IF t \in Active THEN met[t] \cup {s} ELSE met[t]
  BY <1>2
<1>7. Empty \in [Slots -> Sessions \cup {Hole}] /\ \A k \in Slots : Empty[k] = Hole
  BY DEF Empty
<1>8. \A j \in Inodes : disk'[j] = IF j = i THEN Empty ELSE disk[j]
  BY <1>1 DEF TypeOK
<1>9. \A t \in Sessions :
        /\ fd'[t] = IF t = s THEN i ELSE fd[t]
        /\ woff'[t] = IF t = s THEN 0 ELSE woff[t]
        /\ pc'[t] = IF t = s THEN "copying" ELSE pc[t]
  BY <1>1, <1>2 DEF TypeOK
<1>10. TypeOK'
  <2>1. met' \in [Sessions -> SUBSET Sessions]
    <3>1. Active \subseteq Sessions
      BY ManifestDbAssumption DEF Active
    <3> QED BY <1>2, <3>1 DEF TypeOK
  <2>2. /\ tmp' \in Inodes \cup {NoFile} /\ litter' \in BOOLEAN
        /\ pc' \in [Sessions -> Steps] /\ woff' \in [Sessions -> Nat]
        /\ fd' \in [Sessions -> Inodes \cup {NoFile}]
    BY <1>1, <1>2 DEF TypeOK, Steps
  <2>3. disk' \in [Inodes -> [Slots -> Sessions \cup {Hole}]]
    BY <1>1, <1>7 DEF TypeOK
  <2>4. ASSUME NEW t \in Sessions PROVE woff'[t] <= DbLen[t]
    BY <1>9, DbLenNat DEF TypeOK
  <2>5. \A t \in Sessions :
          fd'[t] # NoFile <=> (t \in Encrypted /\ pc'[t] \in {"copying", "open"})
    BY <1>1, <1>3, <1>9, ManifestDbAssumption DEF TypeOK
  <2> QED BY <2>1, <2>2, <2>3, <2>4, <2>5 DEF TypeOK
<1>11. OnlyEncrypted'
  BY <1>3, <1>9 DEF OnlyEncrypted
<1>12. AllMet'
  BY <1>4, <1>5, <1>6, ManifestDbAssumption, <1>3 DEF AllMet
<1>13. NameKnown'
  BY <1>1, <1>7, <1>8 DEF NameKnown, Known
<1>14. HandleKnown'
  <2> SUFFICES ASSUME NEW t \in Sessions, fd'[t] # NoFile, NEW k \in Slots
               PROVE  disk'[fd'[t]][k] \in {t, Hole} \cup met'[t]
    BY DEF HandleKnown, Known
  <2>1. CASE fd'[t] = i
    BY <2>1, <1>7, <1>8
  <2>2. CASE fd'[t] # i
    <3>1. t # s /\ fd'[t] = fd[t] /\ fd[t] \in Inodes
      BY <2>2, <1>9 DEF TypeOK
    <3>2. disk'[fd'[t]] = disk[fd[t]] /\ met[t] \subseteq met'[t]
      BY <2>2, <3>1, <1>6, <1>8
    <3>3. disk[fd[t]][k] \in {t, Hole} \cup met[t]
      BY <3>1 DEF HandleKnown, Known
    <3> QED BY <3>2, <3>3
  <2> QED BY <2>1, <2>2
<1>15. AloneHolds'
  <2> SUFFICES ASSUME NEW t \in Active', met'[t] = {}
               PROVE  /\ pc'[t] = "copying" => fd'[t] = tmp' /\ disk'[fd'[t]] = Prefix(t, woff'[t])
                      /\ pc'[t] = "open" => fd'[t] = tmp' /\ disk'[fd'[t]] = Prefix(t, DbLen[t])
    BY DEF AloneHolds, Prefix
  <2>1. t = s
    BY <1>4, <1>5, <1>6
  <2>2. Prefix(s, 0) = Empty
    BY DEF Prefix, Empty, Slots
  <2> QED BY <1>1, <1>8, <1>9, <2>1, <2>2
<1>16. NoLitterWithoutFault'
  BY <1>4 DEF NoLitterWithoutFault
<1> QED BY <1>10, <1>11, <1>12, <1>13, <1>14, <1>15, <1>16

LEMMA CopyInv ==
  ASSUME IInv, NEW s \in Sessions, Copy(s) PROVE IInv'
<1> USE DEF IInv
<1>1. /\ pc[s] = "copying" /\ woff[s] < DbLen[s]
      /\ disk' = [disk EXCEPT ![fd[s]][woff[s] + 1] = s]
      /\ woff' = [woff EXCEPT ![s] = woff[s] + 1]
      /\ UNCHANGED <<tmp, pc, fd, litter, met>>
  BY DEF Copy
<1>2. /\ s \in Active /\ fd[s] \in Inodes /\ woff[s] \in Nat
      /\ woff[s] + 1 \in Slots /\ woff[s] + 1 <= DbLen[s]
  <2>1. woff[s] \in Nat /\ DbLen[s] \in Nat /\ DbLen[s] \in 1..MaxLen /\ MaxLen \in Nat
    BY ManifestDbAssumption, DbLenNat DEF TypeOK
  <2> QED BY <1>1, <2>1 DEF TypeOK, Active, OnlyEncrypted, Slots
<1>3. \A j \in Inodes, k \in Slots :
        disk'[j][k] = IF j = fd[s] /\ k = woff[s] + 1 THEN s ELSE disk[j][k]
  BY <1>1, <1>2 DEF TypeOK
<1>4. disk' \in [Inodes -> [Slots -> Sessions \cup {Hole}]]
  BY <1>1, <1>2 DEF TypeOK
<1>5. \A t \in Sessions : woff'[t] = IF t = s THEN woff[s] + 1 ELSE woff[t]
  BY <1>1 DEF TypeOK
<1>6. Active' = Active
  BY <1>1 DEF Active
<1>7. TypeOK'
  <2>1. woff' \in [Sessions -> Nat]
    BY <1>1, <1>2 DEF TypeOK
  <2>2. \A t \in Sessions : woff'[t] <= DbLen[t]
    BY <1>2, <1>5 DEF TypeOK
  <2> QED BY <1>1, <1>4, <2>1, <2>2 DEF TypeOK
<1>8. OnlyEncrypted' /\ AllMet' /\ NoLitterWithoutFault'
  BY <1>1, <1>6 DEF OnlyEncrypted, AllMet, NoLitterWithoutFault
<1>9. NameKnown'
  <2> SUFFICES ASSUME tmp # NoFile, NEW t \in Active, NEW k \in Slots
               PROVE  disk'[tmp][k] \in {t, Hole} \cup met[t]
    BY <1>1, <1>6 DEF NameKnown, Known
  <2>1. tmp \in Inodes /\ disk[tmp][k] \in {t, Hole} \cup met[t]
    BY DEF TypeOK, NameKnown, Known
  <2>2. s = t \/ s \in met[t]
    BY <1>2 DEF AllMet
  <2> QED BY <1>3, <2>1, <2>2
<1>10. HandleKnown'
  <2> SUFFICES ASSUME NEW t \in Sessions, fd[t] # NoFile, NEW k \in Slots
               PROVE  disk'[fd[t]][k] \in {t, Hole} \cup met[t]
    BY <1>1 DEF HandleKnown, Known
  <2>1. fd[t] \in Inodes /\ t \in Active /\ disk[fd[t]][k] \in {t, Hole} \cup met[t]
    BY DEF TypeOK, HandleKnown, Known, Active
  <2>2. s = t \/ s \in met[t]
    BY <1>2, <2>1 DEF AllMet
  <2> QED BY <1>3, <2>1, <2>2
<1>11. AloneHolds'
  <2> SUFFICES ASSUME NEW t \in Active, met[t] = {}
               PROVE  /\ pc[t] = "copying" => fd[t] = tmp /\ disk'[fd[t]] = Prefix(t, woff'[t])
                      /\ pc[t] = "open" => fd[t] = tmp /\ disk'[fd[t]] = Prefix(t, DbLen[t])
    BY <1>1, <1>6 DEF AloneHolds, Prefix
  <2>1. t = s
    BY <1>2 DEF AllMet
  <2>2. fd[s] = tmp /\ disk[fd[s]] = Prefix(s, woff[s])
    BY <1>1, <2>1 DEF AloneHolds
  <2>3. disk'[fd[s]] = Prefix(s, woff[s] + 1)
    <3>1. \A k \in Slots : disk'[fd[s]][k] = Prefix(s, woff[s] + 1)[k]
      <4> SUFFICES ASSUME NEW k \in Slots PROVE disk'[fd[s]][k] = Prefix(s, woff[s] + 1)[k]
        OBVIOUS
      <4>1. disk[fd[s]][k] = IF k <= woff[s] THEN s ELSE Hole
        BY <2>2 DEF Prefix
      <4>2. k \in Nat
        BY DEF Slots
      <4>3. k <= woff[s] + 1 <=> k <= woff[s] \/ k = woff[s] + 1
        BY <4>2, <1>2
      <4>4. disk'[fd[s]][k] = IF k <= woff[s] + 1 THEN s ELSE Hole
        BY <4>1, <4>3, <1>2, <1>3
      <4> QED BY <4>4 DEF Prefix
    <3>2. disk'[fd[s]] \in [Slots -> Sessions \cup {Hole}]
      BY <1>2, <1>4
    <3>3. Prefix(s, woff[s] + 1) \in [Slots -> Sessions \cup {Hole}]
      BY DEF Prefix
    <3> QED BY <3>1, <3>2, <3>3
  <2> QED BY <1>1, <1>2, <1>5, <2>1, <2>2, <2>3
<1> QED BY <1>7, <1>8, <1>9, <1>10, <1>11

(* The connection is to whatever has the name, or to an empty file. *)
LEMMA ConnectInv ==
  ASSUME IInv, NEW s \in Sessions, Connect(s) PROVE IInv'
<1> USE DEF IInv
<1>1. PICK i \in Inodes :
        /\ Names(i)
        /\ tmp' = i
        /\ disk' = IF i = tmp THEN disk ELSE [disk EXCEPT ![i] = Empty]
        /\ fd' = [fd EXCEPT ![s] = i]
  BY DEF Connect
<1>2. /\ pc[s] = "copying" /\ woff[s] = DbLen[s]
      /\ pc' = [pc EXCEPT ![s] = "open"] /\ UNCHANGED <<woff, litter, met>>
  BY DEF Connect, CopyComplete
<1>3. \A t \in Sessions :
        /\ fd'[t] = IF t = s THEN i ELSE fd[t]
        /\ pc'[t] = IF t = s THEN "open" ELSE pc[t]
  BY <1>1, <1>2 DEF TypeOK
<1>4. s \in Encrypted /\ s \in Active /\ Active' = Active
  BY <1>2, <1>3, ManifestDbAssumption DEF Active, OnlyEncrypted
<1>5. Empty \in [Slots -> Sessions \cup {Hole}] /\ \A k \in Slots : Empty[k] = Hole
  BY DEF Empty
<1>6. \A j \in Inodes : disk'[j] = IF j = i /\ i # tmp THEN Empty ELSE disk[j]
  BY <1>1 DEF TypeOK
<1>7. TypeOK'
  <2>1. disk' \in [Inodes -> [Slots -> Sessions \cup {Hole}]]
    BY <1>1, <1>5 DEF TypeOK
  <2>2. /\ tmp' \in Inodes \cup {NoFile} /\ pc' \in [Sessions -> Steps]
        /\ fd' \in [Sessions -> Inodes \cup {NoFile}]
    BY <1>1, <1>2 DEF TypeOK, Steps
  <2>3. \A t \in Sessions :
          fd'[t] # NoFile <=> (t \in Encrypted /\ pc'[t] \in {"copying", "open"})
    BY <1>1, <1>3, <1>4, ManifestDbAssumption DEF TypeOK
  <2> QED BY <1>2, <2>1, <2>2, <2>3 DEF TypeOK
<1>8. OnlyEncrypted' /\ AllMet' /\ NoLitterWithoutFault'
  BY <1>2, <1>3, <1>4 DEF OnlyEncrypted, AllMet, NoLitterWithoutFault
<1>9. ASSUME NEW t \in Active, NEW k \in Slots PROVE disk'[i][k] \in {t, Hole} \cup met[t]
  <2>1. CASE i = tmp
    BY <2>1, <1>6, ManifestDbAssumption DEF NameKnown, Known
  <2>2. CASE i # tmp
    BY <2>2, <1>5, <1>6
  <2> QED BY <2>1, <2>2
<1>10. NameKnown'
  BY <1>1, <1>2, <1>4, <1>9 DEF NameKnown, Known
<1>11. HandleKnown'
  <2> SUFFICES ASSUME NEW t \in Sessions, fd'[t] # NoFile, NEW k \in Slots
               PROVE  disk'[fd'[t]][k] \in {t, Hole} \cup met[t]
    BY <1>2 DEF HandleKnown, Known
  <2>1. CASE fd'[t] = i
    <3>1. t \in Active
      BY <1>3, <1>4, <2>1 DEF TypeOK, Active
    <3> QED BY <2>1, <3>1, <1>9
  <2>2. CASE fd'[t] # i
    <3>1. t # s /\ fd'[t] = fd[t] /\ fd[t] \in Inodes
      BY <2>2, <1>3 DEF TypeOK
    <3>2. disk'[fd'[t]] = disk[fd[t]]
      BY <2>2, <3>1, <1>6
    <3> QED BY <3>1, <3>2 DEF HandleKnown, Known
  <2> QED BY <2>1, <2>2
<1>12. AloneHolds'
  <2> SUFFICES ASSUME NEW t \in Active, met[t] = {}
               PROVE  /\ pc'[t] = "copying" => fd'[t] = tmp' /\ disk'[fd'[t]] = Prefix(t, woff[t])
                      /\ pc'[t] = "open" => fd'[t] = tmp' /\ disk'[fd'[t]] = Prefix(t, DbLen[t])
    BY <1>2, <1>4 DEF AloneHolds, Prefix
  <2>1. t = s
    BY <1>4 DEF AllMet
  <2>2. fd[s] = tmp /\ disk[fd[s]] = Prefix(s, DbLen[s]) /\ tmp \in Inodes
    BY <1>2, <1>4, <2>1 DEF AloneHolds, TypeOK
  <2>3. i = tmp
    BY <1>1, <2>2, ManifestDbAssumption DEF Names
  <2> QED BY <1>1, <1>3, <1>6, <2>1, <2>2, <2>3
<1> QED BY <1>7, <1>8, <1>10, <1>11, <1>12
LEMMA CloseInv ==
  ASSUME IInv, NEW s \in Sessions, Close(s) PROVE IInv'
<1> USE DEF IInv
<1>1. /\ pc[s] = "open" /\ s \in Encrypted
      /\ pc' = [pc EXCEPT ![s] = "closing"] /\ fd' = [fd EXCEPT ![s] = NoFile]
      /\ UNCHANGED <<tmp, disk, woff, litter, met>>
  BY DEF Close
<1>2. \A t \in Sessions :
        /\ fd'[t] = IF t = s THEN NoFile ELSE fd[t]
        /\ pc'[t] = IF t = s THEN "closing" ELSE pc[t]
  BY <1>1 DEF TypeOK
<1>3. Active' = Active
  BY <1>1, <1>2, ManifestDbAssumption DEF Active
<1>4. TypeOK' /\ OnlyEncrypted'
  BY <1>1, <1>2 DEF TypeOK, OnlyEncrypted, Steps
<1>5. AllMet' /\ NameKnown' /\ HandleKnown' /\ NoLitterWithoutFault'
  BY <1>1, <1>2, <1>3 DEF AllMet, NameKnown, HandleKnown, NoLitterWithoutFault, Known
<1>6. AloneHolds'
  <2>1. \A t \in Active : t \in Sessions
    BY ManifestDbAssumption DEF Active
  <2> QED BY <1>1, <1>2, <1>3, <2>1 DEF AloneHolds, Prefix
<1> QED BY <1>4, <1>5, <1>6

(* The name goes; a session that still had the file open had met s. *)
LEMMA RemoveInv ==
  ASSUME IInv, NEW s \in Sessions, Remove(s) PROVE IInv'
<1> USE DEF IInv
<1>1. /\ pc[s] = "closing" /\ tmp' = NoFile /\ litter' = FALSE
      /\ pc' = [pc EXCEPT ![s] = "over"] /\ UNCHANGED <<disk, fd, woff, met>>
  BY DEF Remove
<1>2. \A t \in Sessions : pc'[t] = IF t = s THEN "over" ELSE pc[t]
  BY <1>1 DEF TypeOK
<1>3. s \in Active /\ Active' = Active \ {s}
  BY <1>1, <1>2, ManifestDbAssumption DEF Active, OnlyEncrypted
<1>4. TypeOK' /\ OnlyEncrypted'
  BY <1>1, <1>2 DEF TypeOK, OnlyEncrypted, Steps
<1>5. AllMet' /\ NameKnown' /\ HandleKnown' /\ NoLitterWithoutFault'
  BY <1>1, <1>3 DEF AllMet, NameKnown, HandleKnown, NoLitterWithoutFault, Known
<1>6. AloneHolds'
  <2>1. \A t \in Active' : met[t] # {}
    BY <1>3 DEF AllMet
  <2> QED BY <1>1, <2>1 DEF AloneHolds
<1> QED BY <1>4, <1>5, <1>6

LEMMA Inductive == IInv /\ [Next]_vars => IInv'
<1> SUFFICES ASSUME IInv, [Next]_vars PROVE IInv'
  OBVIOUS
<1>1. CASE Next
  <2>1. PICK s \in Sessions : Step(s) \/ Fault(s) \/ Reopen(s)
    BY <1>1 DEF Next
  <2> QED BY <2>1, StepKinds, ElsewhereInv, AbandonsInv, CreateInv, CopyInv, ConnectInv,
             CloseInv, RemoveInv
<1>2. CASE UNCHANGED vars
  BY <1>2 DEF vars, IInv, TypeOK, OnlyEncrypted, AllMet, NameKnown, HandleKnown,
              AloneHolds, NoLitterWithoutFault, Active, Known, Prefix
<1> QED BY <1>1, <1>2

LEMMA Invariant == Spec => []IInv
BY InitInv, Inductive, PTL DEF Spec

-----------------------------------------------------------------------------
(* The theorems.                                                            *)

(* Types; a handle on the temporary file is held from create to close only. *)
THEOREM TypeCorrect == Spec => []TypeOK
<1>1. IInv => TypeOK
  BY DEF IInv
<1> QED BY <1>1, Invariant, PTL

LEMMA AloneInv == IInv => AloneSeesOwnDb
<1> SUFFICES ASSUME IInv, NEW s \in Sessions, pc[s] = "open", met[s] = {}
             PROVE  Rows(s) = Own(s) /\ (s \in Encrypted => tmp = fd[s])
  BY DEF AloneSeesOwnDb
<1>1. CASE s \in Encrypted
  <2>1. s \in Active
    BY <1>1 DEF Active
  <2>2. fd[s] = tmp /\ disk[fd[s]] = Prefix(s, DbLen[s])
    BY <2>1 DEF IInv, AloneHolds
  <2> QED BY <1>1, <2>2 DEF Rows, Own, Prefix
<1>2. CASE s \notin Encrypted
  BY <1>2 DEF Rows
<1> QED BY <1>1, <1>2

(* A session nobody overlapped reads its own database under its own path. *)
THEOREM AloneIsSafe == Spec => []AloneSeesOwnDb
BY AloneInv, Invariant, PTL

(* No query returns what a session that was over before left in the file. *)
THEOREM LeftoversAreNeverRead == Spec => []NoStaleRows
<1>1. IInv => NoStaleRows
  <2> SUFFICES ASSUME IInv, NEW s \in Sessions, pc[s] = "open", NEW k \in Slots
               PROVE  Rows(s)[k] \in {s, Hole} \cup met[s]
    BY DEF NoStaleRows
  <2>1. CASE s \in Encrypted
    <3>1. fd[s] # NoFile
      BY <2>1 DEF IInv, TypeOK
    <3> QED BY <2>1, <3>1 DEF IInv, HandleKnown, Known, Rows
  <2>2. CASE s \notin Encrypted
    BY <2>2 DEF Rows, Own
  <2> QED BY <2>1, <2>2
<1> QED BY <1>1, Invariant, PTL

(* Without a fault the decrypted database does not outlive its sessions. *)
THEOREM NothingLeftBehind == Spec => []NoLitterWithoutFault
<1>1. IInv => NoLitterWithoutFault
  BY DEF IInv
<1> QED BY <1>1, Invariant, PTL

-----------------------------------------------------------------------------
(* Refinement of PrivateDb.                                                 *)

(* A session that has not created its file has met nobody yet. *)
NotMetYet == \A s \in Sessions : pc[s] \in {"start", "ready"} => met[s] = {}

LEMMA NotMetYetInductive == IInv /\ NotMetYet /\ [Next]_vars => NotMetYet'
<1> SUFFICES ASSUME IInv, NotMetYet, [Next]_vars PROVE NotMetYet'
  OBVIOUS
<1> USE DEF NotMetYet, IInv, TypeOK
<1>1. CASE UNCHANGED vars
  BY <1>1 DEF vars
<1>2. ASSUME NEW s \in Sessions, Create(s) PROVE NotMetYet'
  <2>1. \A t \in Sessions : pc'[t] = IF t = s THEN "copying" ELSE pc[t]
    BY <1>2 DEF Create
  <2>2. \A t \in Sessions : t # s /\ t \notin Active => met'[t] = met[t]
    BY <1>2 DEF Create, Meet
  <2>3. \A t \in Active : pc[t] \notin {"start", "ready"}
    BY DEF Active
  <2> QED BY <2>1, <2>2, <2>3
<1>3. ASSUME NEW s \in Sessions,
             Prepare(s) \/ OpenOriginal(s) \/ Copy(s) \/ Connect(s) \/ DropOriginal(s)
               \/ Close(s) \/ Remove(s)
      PROVE  NotMetYet'
  BY <1>3 DEF Prepare, OpenOriginal, Copy, Connect, DropOriginal, Close, Remove
<1>4. ASSUME NEW s \in Sessions, Fault(s) PROVE NotMetYet'
  BY <1>4 DEF Fault, Refuse, CreateFails, CopyFails, RemoveFails, TakeConn, Crash
<1>5. ASSUME NEW s \in Sessions, Reopen(s) PROVE NotMetYet'
  BY <1>5 DEF Reopen
<1> QED BY <1>1, <1>2, <1>3, <1>4, <1>5 DEF Next, Step

LEMMA NotMetYetInvariant == Spec => []NotMetYet
<1>1. Init => NotMetYet
  BY DEF Init, NotMetYet
<1> QED BY <1>1, NotMetYetInductive, Invariant, PTL DEF Spec

(* s goes to another step of its own; what the others find depends on the file
   that each of them has open. *)
Moves(s, to) == pc' = [pc EXCEPT ![s] = to]
KeepsFiles(t) == t \in Encrypted => fd'[t] = fd[t] /\ disk'[fd[t]] = disk[fd[t]]

LEMMA OthersFindTheSame ==
  ASSUME TypeOK, NEW s \in Sessions, NEW to \in Steps, Moves(s, to)
  PROVE  \A t \in Sessions \ {s} :
           (pc[t] = "open" => KeepsFiles(t)) => Finds'[t] = Finds[t]
<1> SUFFICES ASSUME NEW t \in Sessions, t # s, pc[t] = "open" => KeepsFiles(t)
             PROVE  Finds'[t] = Finds[t]
  OBVIOUS
<1>1. pc'[t] = pc[t]
  BY DEF TypeOK, Moves
<1>2. CASE pc[t] = "open" /\ t \in Encrypted
  BY <1>1, <1>2 DEF Finds, Rows, KeepsFiles
<1>3. CASE pc[t] # "open" \/ t \notin Encrypted
  BY <1>1, <1>3 DEF Finds, Rows, Own
<1> QED BY <1>2, <1>3

LEMMA FindsType == DOMAIN Finds = Sessions /\ DOMAIN Finds' = Sessions
BY DEF Finds

(* The abstract sets after a step of s. *)
LEMMA SetsMove ==
  ASSUME TypeOK, NEW s \in Sessions, NEW to \in Steps, Moves(s, to)
  PROVE  /\ Opening' = IF to \in {"start", "ready", "copying"}
                       THEN Opening \cup {s} ELSE Opening \ {s}
         /\ Opened' = IF to = "open" THEN Opened \cup {s} ELSE Opened \ {s}
<1>1. \A t \in Sessions : pc'[t] = IF t = s THEN to ELSE pc[t]
  BY DEF TypeOK, Moves
<1> QED BY <1>1 DEF Opening, Opened

LEMMA SharingKept == met' = met => Sharing' = Sharing
BY DEF Sharing

(* Prepare, and a session that ends after it was closed: nothing to see. *)
LEMMA UnseenStep ==
  ASSUME TypeOK, NEW s \in Sessions,
         Prepare(s) \/ Remove(s) \/ RemoveFails(s) \/ (Crash(s) /\ pc[s] = "closing")
  PROVE  UNCHANGED Private!vars
<1>1. PICK to \in Steps :
        /\ Moves(s, to) /\ pc[s] # "open" /\ to # "open" /\ UNCHANGED <<disk, met>>
        /\ \/ pc[s] = "start" /\ to = "ready"
           \/ pc[s] = "closing" /\ to = "over"
        /\ \A t \in Sessions \ {s} : fd'[t] = fd[t]
  BY DEF Prepare, Remove, RemoveFails, Crash, Moves, Steps, TypeOK
<1>2. Opening' = Opening /\ Opened' = Opened /\ Sharing' = Sharing
  BY <1>1, SetsMove, SharingKept DEF Opening, Opened
<1>3. Finds' = Finds
  <2>1. \A t \in Sessions \ {s} : Finds'[t] = Finds[t]
    BY <1>1, OthersFindTheSame DEF KeepsFiles
  <2>2. Finds'[s] = Finds[s]
    BY <1>1 DEF Finds, Moves, TypeOK
  <2> QED BY <2>1, <2>2 DEF Finds
<1> QED BY <1>2, <1>3 DEF Private!vars

LEMMA FailStep ==
  ASSUME TypeOK, NEW s \in Sessions,
         Refuse(s) \/ CreateFails(s) \/ CopyFails(s) \/ (Crash(s) /\ pc[s] = "copying")
  PROVE  Private!Fail(s)
<1>1. /\ Moves(s, "over") /\ UNCHANGED <<disk, met>>
      /\ pc[s] \in {"start", "ready", "copying"}
      /\ \A t \in Sessions \ {s} : fd'[t] = fd[t]
  BY DEF Refuse, CreateFails, CopyFails, Crash, Moves, TypeOK
<1>2. Opening' = Opening \ {s} /\ Opened' = Opened /\ Sharing' = Sharing /\ s \in Opening
  BY <1>1, SetsMove, SharingKept DEF Opening, Opened, Steps
<1>3. Finds' = Finds
  <2>1. \A t \in Sessions \ {s} : Finds'[t] = Finds[t]
    BY <1>1, OthersFindTheSame DEF KeepsFiles, Steps
  <2>2. Finds'[s] = Finds[s]
    BY <1>1 DEF Finds, Moves, TypeOK
  <2> QED BY <2>1, <2>2 DEF Finds
<1> QED BY <1>2, <1>3 DEF Private!Fail

LEMMA CloseStep ==
  ASSUME TypeOK, NEW s \in Sessions,
         DropOriginal(s) \/ Close(s) \/ TakeConn(s) \/ (Crash(s) /\ pc[s] = "open")
  PROVE  Private!Close(s)
<1>1. PICK to \in {"closing", "over"} :
        /\ Moves(s, to) /\ UNCHANGED <<disk, met>> /\ pc[s] = "open"
        /\ \A t \in Sessions \ {s} : fd'[t] = fd[t]
  BY DEF DropOriginal, Close, TakeConn, Crash, Moves, TypeOK
<1>2. Opening' = Opening /\ Opened' = Opened \ {s} /\ Sharing' = Sharing /\ s \in Opened
  BY <1>1, SetsMove, SharingKept DEF Opening, Opened, Steps
<1>3. Finds' = [Finds EXCEPT ![s] = Private!Nothing]
  <2>1. \A t \in Sessions \ {s} : Finds'[t] = Finds[t]
    BY <1>1, OthersFindTheSame DEF KeepsFiles, Steps
  <2>2. Finds'[s] = Private!Nothing
    BY <1>1 DEF Finds, Moves, TypeOK, Private!Nothing
  <2> QED BY <2>1, <2>2 DEF Finds
<1> QED BY <1>2, <1>3 DEF Private!Close

LEMMA RenewStep ==
  ASSUME TypeOK, NEW s \in Sessions, Reopen(s) PROVE Private!Renew(s)
<1>1. /\ Moves(s, "start") /\ UNCHANGED <<disk, fd>> /\ pc[s] = "over"
      /\ met' = [met EXCEPT ![s] = {}]
  BY DEF Reopen, Moves
<1>2. Opening' = Opening \cup {s} /\ Opened' = Opened /\ s \notin Opening \cup Opened
  BY <1>1, SetsMove DEF Opening, Opened, Steps
<1>3. Sharing' = Sharing \ {s}
  BY <1>1 DEF Sharing, TypeOK
<1>4. Finds' = Finds
  <2>1. \A t \in Sessions \ {s} : Finds'[t] = Finds[t]
    BY <1>1, OthersFindTheSame DEF KeepsFiles, Steps
  <2>2. Finds'[s] = Finds[s]
    BY <1>1 DEF Finds, Moves, TypeOK
  <2> QED BY <2>1, <2>2 DEF Finds
<1> QED BY <1>2, <1>3, <1>4 DEF Private!Renew

(* Who is not active finds the same whatever happens to the file. *)
LEMMA OnlyActiveSee ==
  ASSUME TypeOK, NEW t \in Sessions, pc[t] = "open", t \notin Active PROVE t \notin Encrypted
BY DEF Active

LEMMA CreateStep ==
  ASSUME IInv, NotMetYet, NEW s \in Sessions, Create(s)
  PROVE  Private!Meet(s) \/ UNCHANGED Private!vars
<1>1. TypeOK /\ ManifestDbAssumption
  BY ManifestDbAssumption DEF IInv
<1>2. /\ Moves(s, "copying") /\ pc[s] = "ready" /\ Meet(s)
      /\ met[s] = {} /\ s \notin Active
  BY DEF Create, Moves, NotMetYet, Active
<1>3. Opening' = Opening /\ Opened' = Opened /\ s \in Opening
  BY <1>1, <1>2, SetsMove DEF Opening, Opened, Steps
<1>4. Sharing' = IF Active = {} THEN Sharing ELSE Sharing \cup Active \cup {s}
  <2>1. Active \subseteq Sessions
    BY <1>1 DEF Active, ManifestDbAssumption
  <2>2. \A t \in Sessions :
          met'[t] = IF t = s THEN Active ELSE IF t \in Active THEN met[t] \cup {s} ELSE met[t]
    BY <1>2 DEF Meet
  <2> QED BY <1>2, <2>1, <2>2 DEF Sharing
<1>5. \A t \in Sessions : t \notin Active => Finds'[t] = Finds[t]
  <2>1. \A t \in Sessions \ {s} : t \notin Active => Finds'[t] = Finds[t]
    BY <1>1, <1>2, OthersFindTheSame, OnlyActiveSee DEF KeepsFiles, Steps
  <2>2. Finds'[s] = Finds[s]
    BY <1>1, <1>2 DEF Finds, Moves, TypeOK
  <2> QED BY <2>1, <2>2
<1>6. CASE Active = {}
  <2>1. Finds' = Finds
    BY <1>5, <1>6 DEF Finds
  <2> QED BY <1>3, <1>4, <1>6, <2>1 DEF Private!vars
<1>7. CASE Active # {}
  <2>1. Active \in SUBSET (Sessions \ {s})
    BY <1>1, <1>2 DEF Active, ManifestDbAssumption
  <2>2. Private!OthersKeep
    BY <1>4, <1>5, <1>7 DEF Private!OthersKeep
  <2> QED BY <1>3, <1>4, <1>7, <2>1, <2>2 DEF Private!Meet
<1> QED BY <1>6, <1>7

LEMMA CopyStep ==
  ASSUME IInv, NEW s \in Sessions, Copy(s)
  PROVE  Private!Overwrite(s) \/ UNCHANGED Private!vars
<1>1. TypeOK /\ s \in Active
  BY DEF Copy, Active, OnlyEncrypted, IInv
<1>2. pc[s] = "copying" /\ UNCHANGED <<tmp, pc, fd, litter, met>>
  BY DEF Copy
<1>3. Opening' = Opening /\ Opened' = Opened /\ Sharing' = Sharing /\ s \in Opening
  BY <1>2 DEF Opening, Opened, Sharing
<1>4. ASSUME NEW t \in Sessions, t \notin Sharing \/ s \notin Sharing
      PROVE  Finds'[t] = Finds[t]
  <2>1. pc[t] = "open" => t \notin Encrypted
    <3> SUFFICES ASSUME pc[t] = "open", t \in Encrypted PROVE FALSE
      OBVIOUS
    <3>1. t \in Active /\ t # s
      BY <1>2 DEF Active
    <3>2. s \in met[t] /\ t \in met[s]
      BY <1>1, <3>1 DEF IInv, AllMet
    <3> QED BY <1>4, <3>2 DEF Sharing
  <2> QED BY <1>2, <2>1 DEF Finds, Rows, Own
<1>5. CASE s \in Sharing
  BY <1>3, <1>4, <1>5 DEF Private!Overwrite, Private!OthersKeep
<1>6. CASE s \notin Sharing
  <2>1. Finds' = Finds
    BY <1>4, <1>6 DEF Finds
  <2> QED BY <1>3, <2>1 DEF Private!vars
<1> QED BY <1>5, <1>6

LEMMA OpenStep ==
  ASSUME IInv, IInv', NEW s \in Sessions, Connect(s) \/ OpenOriginal(s)
  PROVE  Private!Open(s)
<1>1. TypeOK /\ Moves(s, "open") /\ pc[s] \in {"start", "copying"} /\ met' = met
  BY DEF Connect, OpenOriginal, Moves, IInv
<1>2. Opening' = Opening \ {s} /\ Opened' = Opened \cup {s} /\ Sharing' = Sharing /\ s \in Opening
  BY <1>1, SetsMove, SharingKept DEF Opening, Opened, Steps
<1>3. pc'[s] = "open" /\ Finds'[s] = Rows(s)'
  BY <1>1 DEF Finds, Moves, TypeOK
<1>4. s \notin Sharing => Finds'[s] = Own(s)
  <2>1. AloneSeesOwnDb'
    BY AloneInv, PTL
  <2>2. s \notin Sharing => met'[s] = {}
    BY <1>1 DEF Sharing
  <2>3. Own(s)' = Own(s)
    BY DEF Own
  <2> QED BY <1>3, <2>1, <2>2, <2>3 DEF AloneSeesOwnDb
<1>5. \A t \in Sessions \ {s} : Finds'[t] = Finds[t]
  <2> SUFFICES ASSUME NEW t \in Sessions, t # s, pc[t] = "open" PROVE KeepsFiles(t)
    BY <1>1, OthersFindTheSame DEF Steps
  <2>1. CASE OpenOriginal(s)
    BY <2>1 DEF OpenOriginal, KeepsFiles
  <2>2. CASE Connect(s)
    <3>1. PICK i \in Inodes :
            /\ Names(i)
            /\ disk' = IF i = tmp THEN disk ELSE [disk EXCEPT ![i] = Empty]
            /\ fd' = [fd EXCEPT ![s] = i]
      BY <2>2 DEF Connect
    <3>2. fd'[t] = fd[t]
      BY <3>1, <1>1 DEF TypeOK
    <3>3. t \in Encrypted => fd[t] \in Inodes
      BY <1>1 DEF TypeOK
    <3>4. i # tmp => fd[t] # i
      BY <3>1 DEF Names, Unused
    <3>5. t \in Encrypted => disk'[fd[t]] = disk[fd[t]]
      BY <1>1, <3>1, <3>3, <3>4 DEF TypeOK
    <3> QED BY <3>2, <3>5 DEF KeepsFiles
  <2> QED BY <2>1, <2>2
<1>6. Finds' = [Finds EXCEPT ![s] = IF s \in Sharing THEN Finds'[s]
                                     ELSE [t \in Sessions |-> Own(t)][s]]
  BY <1>4, <1>5 DEF Finds
<1> QED BY <1>2, <1>6 DEF Private!Open

(* Unless it shares the file, a session has a database to itself. *)
THEOREM ManifestDbImplementsPrivateDb == Spec => ImplementsPrivateDb
<1>1. Init => Private!Init
  BY DEF Init, Private!Init, Opening, Opened, Sharing, Finds, Private!Nothing
<1>2. IInv /\ IInv' /\ NotMetYet /\ [Next]_vars => [Private!Next]_(Private!vars)
  <2> SUFFICES ASSUME IInv, IInv', NotMetYet, [Next]_vars
               PROVE  Private!Next \/ UNCHANGED Private!vars
    OBVIOUS
  <2>1. CASE UNCHANGED vars
    BY <2>1 DEF vars, Private!vars, Opening, Opened, Sharing, Finds, Rows, Own
  <2>2. ASSUME NEW s \in Sessions, Step(s) \/ Fault(s) \/ Reopen(s)
        PROVE  Private!Next \/ UNCHANGED Private!vars
    <3>1. TypeOK
      BY DEF IInv
    <3>2. Crash(s) => pc[s] \in {"copying", "open", "closing"}
      BY DEF Crash
    <3>3. \/ Private!Open(s) \/ Private!Fail(s) \/ Private!Meet(s) \/ Private!Overwrite(s)
          \/ Private!Close(s) \/ Private!Renew(s) \/ UNCHANGED Private!vars
      BY <2>2, <3>1, <3>2, UnseenStep, FailStep, CloseStep, RenewStep, CreateStep, CopyStep,
         OpenStep DEF Step, Fault
    <3> QED BY <3>3 DEF Private!Next
  <2> QED BY <2>1, <2>2 DEF Next
<1> QED BY <1>1, <1>2, Invariant, NotMetYetInvariant, PTL
      DEF Spec, ImplementsPrivateDb, Private!Spec
=============================================================================
