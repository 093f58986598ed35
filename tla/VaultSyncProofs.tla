---------------------------- MODULE VaultSyncProofs ---------------------------
(***************************************************************************)
(* Proofs about VaultSync for every number of browsers, tabs and records,  *)
(* every interleaving and any number of faults, and at the end about the   *)
(* driver of the syncs in one tab.                                         *)
(***************************************************************************)
EXTENDS VaultSync, TLAPS

-------------------------------------------------------------------------------
(* What mergeVault guarantees of any two or three documents. *)
LEMMA EmptyDocType ==
  /\ NoRecord \in Record
  /\ EmptyDoc \in Document
  /\ Clean(EmptyDoc)
BY DEF NoRecord, Record, EmptyDoc, Document, Clean, Held

LEMMA MergeFields ==
  ASSUME NEW a \in Document, NEW b \in Document, NEW i \in Ids
  PROVE  /\ MergeVault(a, b).tomb[i] =
              IF a.tomb[i] > b.tomb[i] THEN a.tomb[i] ELSE b.tomb[i]
         /\ MergeVault(a, b).rec[i] =
              IF Survives(Newer(a.rec[i], b.rec[i]), MergeVault(a, b).tomb[i])
              THEN Newer(a.rec[i], b.rec[i]) ELSE NoRecord
BY DEF MergeVault, MergeTombstones, MergeById

LEMMA DocumentFields ==
  ASSUME NEW d \in Document, NEW i \in Ids
  PROVE  /\ d.rec[i] \in Record
         /\ d.rec[i].stamp \in Nat
         /\ d.tomb[i] \in Nat
BY DEF Document, Record

(* The merge of two documents is a document. *)
LEMMA MergeType ==
  ASSUME NEW a \in Document, NEW b \in Document
  PROVE  MergeVault(a, b) \in Document
<1> DEFINE tomb == MergeTombstones(a.tomb, b.tomb)
<1>1. tomb \in [Ids -> Nat]
  BY DEF MergeTombstones, Document
<1>2. MergeById(a.rec, b.rec, tomb) \in [Ids -> Record]
  <2>1. \A i \in Ids : a.rec[i] \in Record /\ b.rec[i] \in Record
    BY DocumentFields
  <2> QED
    BY <2>1, EmptyDocType DEF MergeById, Newer
<1> QED
  BY <1>1, <1>2 DEF MergeVault, Document

(* Neither side of a merge loses anything to it, except that of two copies *)
(* with one stamp the remote one is kept: the merge carries on everything  *)
(* the remote document said (mergeById's insertion order).                 *)
THEOREM MergeCoversRemote ==
  ASSUME NEW a \in Document, NEW b \in Document
  PROVE  Covers(MergeVault(a, b), b)
<1> SUFFICES ASSUME NEW i \in Ids
             PROVE  /\ MergeVault(a, b).tomb[i] >= b.tomb[i]
                    /\ KeepsRecord(MergeVault(a, b), b, i)
  BY DEF Covers
<1> QED
  BY MergeFields, DocumentFields DEF KeepsRecord, Survives, Newer, NoRecord

(* A record of the local document is kept unless the remote copy is as     *)
(* new, or a deletion at or after its stamp is known.                      *)
THEOREM MergeKeepsLocal ==
  ASSUME NEW a \in Document, NEW b \in Document, NEW i \in Ids
  PROVE  LET d == MergeVault(a, b)
         IN  /\ d.tomb[i] >= a.tomb[i]
             /\ \/ a.rec[i].stamp <= d.rec[i].stamp
                \/ a.rec[i].stamp <= d.tomb[i]
BY MergeFields, DocumentFields DEF Survives, Newer, NoRecord

(* No merged document lists a record it knows to be deleted. *)
THEOREM MergeClean ==
  ASSUME NEW a \in Document, NEW b \in Document
  PROVE  Clean(MergeVault(a, b))
<1> SUFFICES ASSUME NEW i \in Held(MergeVault(a, b))
             PROVE  MergeVault(a, b).rec[i].stamp > MergeVault(a, b).tomb[i]
  BY DEF Clean
<1> DEFINE d == MergeVault(a, b)
           w == Newer(a.rec[i], b.rec[i])
<1>1. i \in Ids /\ d.rec[i].stamp > 0
  BY DEF Held
<1>2. d.rec[i] = IF Survives(w, d.tomb[i]) THEN w ELSE NoRecord
  BY <1>1, MergeFields
<1>3. Survives(w, d.tomb[i]) /\ d.rec[i] = w
  BY <1>1, <1>2 DEF NoRecord
<1>4. d.tomb[i] \in Nat /\ d.rec[i].stamp \in Nat
  BY <1>1, MergeType, DocumentFields
<1> QED
  BY <1>1, <1>3, <1>4 DEF Survives

LEMMA DocumentEquality ==
  ASSUME NEW d \in Document, NEW e \in Document,
         \A i \in Ids : d.rec[i] = e.rec[i] /\ d.tomb[i] = e.tomb[i]
  PROVE  d = e
BY DEF Document

(* Three documents merge to the same one in either grouping: it does not   *)
(* matter through which device's sync a third one learned of them.         *)
THEOREM MergeAssociative ==
  ASSUME NEW a \in Document, NEW b \in Document, NEW c \in Document
  PROVE  MergeVault(MergeVault(a, b), c) = MergeVault(a, MergeVault(b, c))
<1> DEFINE ab == MergeVault(a, b)
           bc == MergeVault(b, c)
<1>1. ab \in Document /\ bc \in Document
  BY MergeType
<1>2. MergeVault(ab, c) \in Document /\ MergeVault(a, bc) \in Document
  BY <1>1, MergeType
<1>3. ASSUME NEW i \in Ids
      PROVE  /\ MergeVault(ab, c).rec[i] = MergeVault(a, bc).rec[i]
             /\ MergeVault(ab, c).tomb[i] = MergeVault(a, bc).tomb[i]
  <2>1. /\ a.rec[i].stamp \in Nat /\ b.rec[i].stamp \in Nat /\ c.rec[i].stamp \in Nat
        /\ a.tomb[i] \in Nat /\ b.tomb[i] \in Nat /\ c.tomb[i] \in Nat
    BY DocumentFields
  <2>2. /\ ab.tomb[i] = IF a.tomb[i] > b.tomb[i] THEN a.tomb[i] ELSE b.tomb[i]
        /\ bc.tomb[i] = IF b.tomb[i] > c.tomb[i] THEN b.tomb[i] ELSE c.tomb[i]
    BY MergeFields
  <2>3. /\ MergeVault(ab, c).tomb[i] = IF ab.tomb[i] > c.tomb[i] THEN ab.tomb[i] ELSE c.tomb[i]
        /\ MergeVault(a, bc).tomb[i] = IF a.tomb[i] > bc.tomb[i] THEN a.tomb[i] ELSE bc.tomb[i]
    BY <1>1, MergeFields
  <2>4. MergeVault(ab, c).tomb[i] = MergeVault(a, bc).tomb[i]
    BY <2>1, <2>2, <2>3
  <2>5. /\ ab.rec[i] = IF Survives(Newer(a.rec[i], b.rec[i]), ab.tomb[i])
                       THEN Newer(a.rec[i], b.rec[i]) ELSE NoRecord
        /\ bc.rec[i] = IF Survives(Newer(b.rec[i], c.rec[i]), bc.tomb[i])
                       THEN Newer(b.rec[i], c.rec[i]) ELSE NoRecord
    BY MergeFields
  <2>6. /\ MergeVault(ab, c).rec[i] =
             IF Survives(Newer(ab.rec[i], c.rec[i]), MergeVault(ab, c).tomb[i])
             THEN Newer(ab.rec[i], c.rec[i]) ELSE NoRecord
        /\ MergeVault(a, bc).rec[i] =
             IF Survives(Newer(a.rec[i], bc.rec[i]), MergeVault(a, bc).tomb[i])
             THEN Newer(a.rec[i], bc.rec[i]) ELSE NoRecord
    BY <1>1, MergeFields
  <2>7. NoRecord.stamp = 0
    BY DEF NoRecord
  <2> HIDE DEF ab, bc
  <2>8. MergeVault(ab, c).rec[i] = MergeVault(a, bc).rec[i]
    BY <2>1, <2>2, <2>3, <2>4, <2>5, <2>6, <2>7 DEF Survives, Newer
  <2> QED
    BY <2>4, <2>8
<1> HIDE DEF ab, bc
<1>4. MergeVault(ab, c) = MergeVault(a, bc)
  BY <1>2, <1>3, DocumentEquality
<1> QED
  BY <1>4 DEF ab, bc

-------------------------------------------------------------------------------
(* The sync around it. *)
USE DEF MaxRetries

LEMMA NoCallType ==
  /\ NoCall \in Call
  /\ NoDeletion \in Deletion
BY EmptyDocType DEF NoCall, Call, Phases, NoDeletion, Deletion, Document

LEMMA PullCallType ==
  ASSUME NEW n \in 0..MaxRetries
  PROVE  [NoCall EXCEPT !.phase = "pull", !.retries = n] \in Call
BY NoCallType DEF Call, Phases, NoCall

LEMMA PutRowType ==
  ASSUME TypeOK, NEW b \in Browsers, NEW i \in Ids, NEW r \in Record
  PROVE  [store EXCEPT ![b].rec[i] = r] \in [Browsers -> Document]
BY DEF TypeOK, Document

LEMMA PutTombsType ==
  ASSUME TypeOK, NEW b \in Browsers, NEW m \in [Ids -> Nat]
  PROVE  [store EXCEPT ![b].tomb = m] \in [Browsers -> Document]
BY DEF TypeOK, Document

(* Every variable keeps its type. *)
LEMMA TypeInductive == TypeOK /\ [Next]_vars => TypeOK'
<1> SUFFICES ASSUME TypeOK, [Next]_vars PROVE TypeOK'
  OBVIOUS
<1> USE HomeAssumption, BoundAssumption, EmptyDocType, NoCallType
<1>1. ASSUME NEW t \in Tabs, NEW i \in Ids, NEW v \in Vals, NEW now \in 1..MaxClock,
             Save(t, i, v, now)
      PROVE  TypeOK'
  <2>1. [stamp |-> now, val |-> v] \in Record
    BY DEF Record
  <2>2. store' \in [Browsers -> Document]
    BY <1>1, <2>1, PutRowType DEF Save, PutRow
  <2>3. clock' \in [Browsers -> Nat] /\ saved' \in [Browsers -> [Ids -> Nat]]
    BY <1>1 DEF Save, TypeOK
  <2> QED
    BY <1>1, <2>2, <2>3 DEF Save, TypeOK
<1>2. ASSUME NEW t \in Tabs, NEW i \in Ids, DeleteRow(t, i)
      PROVE  TypeOK'
  <2>1. store' \in [Browsers -> Document]
    BY <1>2, PutRowType DEF DeleteRow, DropRow
  <2>2. del' \in [Tabs -> Deletion]
    BY <1>2 DEF DeleteRow, TypeOK, Deletion
  <2>3. clock' \in [Browsers -> Nat] /\ saved' \in [Browsers -> [Ids -> Nat]]
    BY <1>2 DEF DeleteRow, TypeOK
  <2> QED
    BY <1>2, <2>1, <2>2, <2>3 DEF DeleteRow, TypeOK
<1>3. ASSUME NEW t \in Tabs, GetTombstones(t)
      PROVE  TypeOK'
  <2>1. store[HomeOf[t]].tomb \in [Ids -> Nat]
    BY DEF TypeOK, Document
  <2>2. [del[t] EXCEPT !.phase = "read", !.tomb = store[HomeOf[t]].tomb] \in Deletion
    BY <2>1 DEF TypeOK, Deletion
  <2>3. del' \in [Tabs -> Deletion]
    BY <1>3, <2>2 DEF GetTombstones, TypeOK
  <2> QED
    BY <1>3, <2>3 DEF GetTombstones, TypeOK
<1>4. ASSUME NEW t \in Tabs, NEW now \in 1..MaxClock, RecordDeletion(t, now)
      PROVE  TypeOK'
  <2>1. [i \in Ids |-> IF i \in del[t].ids THEN now ELSE del[t].tomb[i]] \in [Ids -> Nat]
    BY DEF TypeOK, Deletion
  <2>2. store' \in [Browsers -> Document]
    BY <1>4, <2>1, PutTombsType DEF RecordDeletion, PutTombs
  <2>3. deleted' \in [Browsers -> [Ids -> Nat]]
    BY <1>4 DEF RecordDeletion, TypeOK
  <2>4. del' \in [Tabs -> Deletion]
    BY <1>4 DEF RecordDeletion, TypeOK
  <2>5. clock' \in [Browsers -> Nat]
    BY <1>4 DEF RecordDeletion, TypeOK
  <2> QED
    BY <1>4, <2>2, <2>3, <2>4, <2>5 DEF RecordDeletion, TypeOK
<1>5. ASSUME NEW t \in Tabs, Pull(t)
      PROVE  TypeOK'
  <2>1. /\ server.version \in Nat /\ server.doc \in Document
        /\ sync[t].retries \in 0..MaxRetries
    BY DEF TypeOK, Call
  <2>2. \A n \in 0..MaxRetries :
          [NoCall EXCEPT !.phase = "read", !.base = server.version,
                         !.remote = server.doc, !.retries = n] \in Call
    BY <2>1 DEF Call, Phases, NoCall
  <2> DEFINE n == IF sync[t].phase = "idle" THEN MaxRetries ELSE sync[t].retries
  <2>3. n \in 0..MaxRetries
    BY <2>1
  <2>4. sync' = [sync EXCEPT ![t] = [NoCall EXCEPT !.phase = "read",
                   !.base = server.version, !.remote = server.doc, !.retries = n]]
    BY <1>5 DEF Pull
  <2> HIDE DEF n
  <2>5. sync' \in [Tabs -> Call]
    BY <2>2, <2>3, <2>4 DEF TypeOK
  <2> QED
    BY <1>5, <2>5 DEF Pull, TypeOK
<1>6. ASSUME NEW t \in Tabs, Restore(t)
      PROVE  TypeOK'
  BY <1>6 DEF Restore, TypeOK, Call, Phases, NoCall
<1>7. ASSUME Export
      PROVE  TypeOK'
  BY <1>7 DEF Export, TypeOK
<1>8. ASSUME NEW t \in Tabs, ReadRecords(t)
      PROVE  TypeOK'
  <2>1. [sync[t].local EXCEPT !.rec = store[HomeOf[t]].rec] \in Document
    BY DEF TypeOK, Call, Document
  <2>2. [sync[t] EXCEPT !.phase = "tombs", !.local.rec = store[HomeOf[t]].rec] \in Call
    BY <2>1 DEF TypeOK, Call, Phases
  <2>3. sync' \in [Tabs -> Call]
    BY <1>8, <2>2 DEF ReadRecords, TypeOK
  <2> QED
    BY <1>8, <2>3 DEF ReadRecords, TypeOK
<1>9. ASSUME NEW t \in Tabs, ReadTombstones(t)
      PROVE  TypeOK'
  <2>1. Merged(t) \in Document
    <3>1. sync[t].remote \in Document
      BY DEF TypeOK, Call
    <3>2. [sync[t].local EXCEPT !.tomb = store[HomeOf[t]].tomb] \in Document
      BY DEF TypeOK, Call, Document
    <3> QED
      BY <3>1, <3>2, MergeType DEF Merged
  <2>2. Held(Merged(t)) \subseteq Ids /\ Gone(t, Merged(t)) \subseteq Ids
    BY DEF Held, Gone
  <2>3. [sync[t] EXCEPT !.phase = "apply", !.merged = Merged(t),
                        !.todo = Held(Merged(t)), !.gone = Gone(t, Merged(t)),
                        !.local = EmptyDoc] \in Call
    BY <2>1, <2>2 DEF TypeOK, Call, Phases
  <2>4. sync' \in [Tabs -> Call]
    BY <1>9, <2>3 DEF ReadTombstones, TypeOK
  <2> QED
    BY <1>9, <2>4 DEF ReadTombstones, TypeOK
<1>10. ASSUME NEW t \in Tabs, NEW i \in Ids, ApplyRecord(t, i)
       PROVE  TypeOK'
  <2>1. sync[t].merged.rec[i] \in Record
    BY DEF TypeOK, Call, Document
  <2>2. store' \in [Browsers -> Document]
    BY <1>10, <2>1, PutRowType DEF ApplyRecord, PutRow
  <2> QED
    BY <1>10, <2>2 DEF ApplyRecord, TypeOK, Call
<1>11. ASSUME NEW t \in Tabs, ApplyTombstones(t)
       PROVE  TypeOK'
  <2>1. sync[t].merged.tomb \in [Ids -> Nat]
    BY DEF TypeOK, Call, Document
  <2>2. store' \in [Browsers -> Document]
    BY <1>11, <2>1, PutTombsType DEF ApplyTombstones, PutTombs
  <2> QED
    BY <1>11, <2>2 DEF ApplyTombstones, TypeOK, Call, Phases
<1>12. ASSUME NEW t \in Tabs, NEW i \in Ids, ForgetRecord(t, i)
       PROVE  TypeOK'
  <2>1. store' \in [Browsers -> Document]
    BY <1>12, PutRowType DEF ForgetRecord, DropRow
  <2> QED
    BY <1>12, <2>1 DEF ForgetRecord, TypeOK, Call
<1>13. ASSUME NEW t \in Tabs, Restored(t)
       PROVE  TypeOK'
  <2>1. [NoCall EXCEPT !.phase = "pull", !.retries = MaxRetries] \in Call
    BY PullCallType
  <2> QED
    BY <1>13, <2>1 DEF Restored, TypeOK
<1>14. ASSUME NEW t \in Tabs, UpToDate(t)
       PROVE  TypeOK'
  BY <1>14 DEF UpToDate, TypeOK
<1>15. ASSUME NEW t \in Tabs, SendPut(t)
       PROVE  TypeOK'
  <2>1. sync' \in [Tabs -> Call]
    BY <1>15 DEF SendPut, TypeOK, Call, Phases, NoCall
  <2>2. wire' \subseteq Request
    BY <1>15 DEF SendPut, TypeOK, Call, Request
  <2> QED
    BY <1>15, <2>1, <2>2 DEF SendPut, TypeOK
<1>16. ASSUME NEW m \in wire
       PROVE  /\ WriteBlob(m) => server' \in [version : Nat, doc : Document]
              /\ Answered(m) \in [Tabs -> Call]
  <2>1. m.base \in Nat /\ m.doc \in Document
    BY DEF TypeOK, Request
  <2>2. WriteBlob(m) => server' \in [version : Nat, doc : Document]
    BY <2>1 DEF WriteBlob, TypeOK
  <2>3. ASSUME NEW t \in Tabs, sync[t].retries > 0
        PROVE  [NoCall EXCEPT !.phase = "pull", !.retries = sync[t].retries - 1] \in Call
    <3>1. sync[t].retries - 1 \in 0..MaxRetries
      BY <2>3 DEF TypeOK, Call
    <3> QED
      BY <3>1, PullCallType
  <2>4. Answered(m) \in [Tabs -> Call]
    BY <2>3 DEF Answered, TypeOK
  <2> QED
    BY <2>2, <2>4
<1>17. ASSUME NEW m \in wire, ServerPut(m)
       PROVE  TypeOK'
  BY <1>16, <1>17 DEF ServerPut, TypeOK
<1>18. ASSUME NEW t \in Tabs, PullFails(t)
       PROVE  TypeOK'
  BY <1>18 DEF PullFails, Fault, TypeOK
<1>19. ASSUME NEW m \in wire, PutFails(m)
       PROVE  TypeOK'
  BY <1>19 DEF PutFails, Fault, TypeOK
<1>20. ASSUME NEW m \in wire, PutRepeated(m)
       PROVE  TypeOK'
  BY <1>16, <1>20 DEF PutRepeated, Fault, TypeOK
<1>21. ASSUME NEW t \in Tabs, CloseTab(t)
       PROVE  TypeOK'
  <2>1. wire' \subseteq Request
    BY <1>21 DEF CloseTab, TypeOK, Request
  <2> QED
    BY <1>21, <2>1 DEF CloseTab, Fault, TypeOK
<1>22. CASE UNCHANGED vars
  BY <1>22 DEF vars, TypeOK
<1> QED
  BY <1>1, <1>2, <1>3, <1>4, <1>5, <1>6, <1>7, <1>8, <1>9, <1>10, <1>11, <1>12,
     <1>13, <1>14, <1>15, <1>17, <1>18, <1>19, <1>20, <1>21, <1>22
     DEF Next, UserStep, DeleteStep, SyncStep, ServerStep, FaultStep

(* Every variable has its type in every reachable state. *)
THEOREM TypeCorrect == Spec => []TypeOK
<1>1. Init => TypeOK
  BY EmptyDocType, NoCallType DEF Init, TypeOK
<1> QED
  BY <1>1, TypeInductive, PTL DEF Spec

-------------------------------------------------------------------------------
(* The server never loses anything: an accepted push was computed from the *)
(* document it replaces.                                                   *)
Inv == TypeOK /\ ServerClean /\ PulledCurrent /\ MergedCovers /\ PushIsCurrent

LEMMA InvInit == Init => Inv
BY EmptyDocType, NoCallType
   DEF Init, Inv, TypeOK, ServerClean, PulledCurrent, MergedCovers, PushIsCurrent,
       NoCall, Window

(* A step that touches neither the server nor the wire, and leaves each    *)
(* call as it was or in a phase about which nothing is claimed, keeps the  *)
(* rest of the invariant.                                                  *)
LEMMA QuietStep ==
  ASSUME Inv, TypeOK', UNCHANGED server, wire' \subseteq wire,
         \A t \in Tabs : sync'[t] = sync[t] \/ sync'[t].phase \in {"idle", "pull", "sent"}
  PROVE  Inv'
<1> USE DEF Inv
<1>1. ServerClean'
  BY DEF ServerClean
<1>2. PulledCurrent'
  BY DEF PulledCurrent, Window
<1>3. MergedCovers'
  BY DEF MergedCovers
<1>4. PushIsCurrent'
  BY DEF PushIsCurrent
<1> QED
  BY <1>1, <1>2, <1>3, <1>4

LEMMA WriteBlobStep ==
  ASSUME Inv, NEW m \in wire, WriteBlob(m), TypeOK', wire' \subseteq wire,
         \A t \in Tabs : sync'[t] = sync[t] \/ sync'[t].phase \in {"idle", "pull"}
  PROVE  Inv' /\ Covers(server'.doc, server.doc)
<1> USE DEF Inv
<1>1. CASE ~Matches(m)
  <2>1. UNCHANGED server
    BY <1>1 DEF WriteBlob
  <2>2. Covers(server.doc, server.doc)
    <3>1. \A i \in Ids : server.doc.tomb[i] \in Nat
      BY DocumentFields DEF TypeOK
    <3> QED
      BY <3>1 DEF Covers, KeepsRecord
  <2> QED
    BY <2>1, <2>2, QuietStep
<1>2. CASE Matches(m)
  <2>1. /\ server' = [version |-> m.base + 1, doc |-> m.doc]
        /\ m.base = server.version
    BY <1>2 DEF WriteBlob, Matches
  <2>2. /\ server.version \in Nat
        /\ server'.version = server.version + 1
        /\ server'.doc = m.doc
    BY <2>1 DEF TypeOK
  <2>3. Clean(m.doc) /\ Covers(m.doc, server.doc)
    BY <2>1 DEF PushIsCurrent
  <2>4. ServerClean'
    BY <2>2, <2>3 DEF ServerClean
  <2>5. PulledCurrent'
    <3> SUFFICES ASSUME NEW t \in Tabs,
                        sync'[t].phase \in Window \cup {"read"}, ~sync'[t].restoring
                 PROVE  sync'[t].base <= server'.version /\ sync'[t].base # server'.version
      BY DEF PulledCurrent
    <3>1. sync'[t] = sync[t]
      BY DEF Window
    <3>2. sync[t].base <= server.version /\ sync[t].base \in Nat
      BY <3>1 DEF PulledCurrent, TypeOK, Call
    <3> QED
      BY <2>2, <3>1, <3>2
  <2>6. MergedCovers'
    BY DEF MergedCovers
  <2>7. PushIsCurrent'
    <3> SUFFICES ASSUME NEW n \in wire'
                 PROVE  Clean(n.doc) /\ n.base <= server'.version /\ n.base # server'.version
      BY DEF PushIsCurrent
    <3>1. Clean(n.doc) /\ n.base <= server.version /\ n.base \in Nat
      BY DEF PushIsCurrent, TypeOK, Request
    <3> QED
      BY <2>2, <3>1
  <2> QED
    BY <2>2, <2>3, <2>4, <2>5, <2>6, <2>7
<1> QED
  BY <1>1, <1>2

(* A step of a call that keeps what it pulled and what it merged. *)
LEMMA SameClaims ==
  ASSUME Inv, TypeOK', UNCHANGED <<server, wire>>,
         \A t \in Tabs :
           /\ sync'[t].base = sync[t].base /\ sync'[t].remote = sync[t].remote
           /\ sync'[t].merged = sync[t].merged /\ sync'[t].restoring = sync[t].restoring
           /\ sync'[t].phase \in Window \cup {"read"} => sync[t].phase \in Window \cup {"read"}
           /\ sync'[t].phase \in {"apply", "forget"} => sync[t].phase \in {"apply", "forget"}
  PROVE  Inv'
<1> USE DEF Inv
<1>1. ServerClean'
  BY DEF ServerClean
<1>2. PulledCurrent'
  BY DEF PulledCurrent
<1>3. MergedCovers'
  BY DEF MergedCovers
<1>4. PushIsCurrent'
  BY DEF PushIsCurrent
<1> QED
  BY <1>1, <1>2, <1>3, <1>4

LEMMA InvInductive ==
  Inv /\ [Next]_vars => Inv' /\ (Covers(server'.doc, server.doc) \/ UNCHANGED server)
<1> SUFFICES ASSUME Inv, [Next]_vars
             PROVE  Inv' /\ (Covers(server'.doc, server.doc) \/ UNCHANGED server)
  OBVIOUS
<1>0. TypeOK /\ TypeOK'
  BY TypeInductive DEF Inv
<1>1. ASSUME NEW t \in Tabs, UserStep(t) \/ DeleteStep(t)
      PROVE  Inv' /\ UNCHANGED server
  <2>1. CASE Restore(t)
    <3>1. /\ UNCHANGED <<server, wire>>
          /\ \A u \in Tabs \ {t} : sync'[u] = sync[u]
          /\ sync'[t].restoring /\ sync'[t].phase = "read"
      BY <2>1, <1>0 DEF Restore, TypeOK, NoCall
    <3>2. ServerClean' /\ PushIsCurrent'
      BY <3>1 DEF Inv, ServerClean, PushIsCurrent
    <3>3. PulledCurrent'
      BY <3>1 DEF Inv, PulledCurrent
    <3>4. MergedCovers'
      BY <3>1 DEF Inv, MergedCovers
    <3> QED
      BY <1>0, <3>1, <3>2, <3>3, <3>4 DEF Inv
  <2>2. CASE ~Restore(t)
    <3>1. UNCHANGED <<server, sync, wire>>
      BY <1>1, <2>2 DEF UserStep, DeleteStep, Save, DeleteRow, GetTombstones, RecordDeletion
    <3> QED
      BY <1>0, <3>1, QuietStep
  <2> QED
    BY <2>1, <2>2
<1>2. ASSUME Export
      PROVE  Inv' /\ UNCHANGED server
  BY <1>0, <1>2, QuietStep DEF Export
<1>3. ASSUME NEW t \in Tabs, Pull(t)
      PROVE  Inv' /\ UNCHANGED server
  <2>1. /\ UNCHANGED <<server, wire>>
        /\ \A u \in Tabs \ {t} : sync'[u] = sync[u]
        /\ sync'[t].phase = "read"
        /\ sync'[t].base = server.version /\ sync'[t].remote = server.doc
    BY <1>0, <1>3 DEF Pull, TypeOK, NoCall
  <2>2. ServerClean' /\ PushIsCurrent'
    BY <2>1 DEF Inv, ServerClean, PushIsCurrent
  <2>3. PulledCurrent'
    <3> SUFFICES ASSUME NEW u \in Tabs,
                        sync'[u].phase \in Window \cup {"read"}, ~sync'[u].restoring
                 PROVE  /\ sync'[u].base <= server'.version
                        /\ sync'[u].base = server'.version => sync'[u].remote = server'.doc
      BY DEF PulledCurrent
    <3>1. CASE u = t
      BY <1>0, <2>1, <3>1 DEF TypeOK
    <3>2. CASE u # t
      BY <2>1, <3>2 DEF Inv, PulledCurrent
    <3> QED
      BY <3>1, <3>2
  <2>4. MergedCovers'
    BY <2>1 DEF Inv, MergedCovers
  <2> QED
    BY <1>0, <2>1, <2>2, <2>3, <2>4 DEF Inv
<1>4. ASSUME NEW t \in Tabs, ReadRecords(t)
      PROVE  Inv' /\ UNCHANGED server
  BY <1>0, <1>4, SameClaims DEF ReadRecords, TypeOK, Call, Window
<1>5. ASSUME NEW t \in Tabs, ReadTombstones(t)
      PROVE  Inv' /\ UNCHANGED server
  <2>1. /\ UNCHANGED <<server, wire>>
        /\ \A u \in Tabs \ {t} : sync'[u] = sync[u]
        /\ sync[t].phase = "tombs" /\ sync'[t].phase = "apply"
        /\ sync'[t].base = sync[t].base /\ sync'[t].remote = sync[t].remote
        /\ sync'[t].restoring = sync[t].restoring
        /\ sync'[t].merged = Merged(t)
    BY <1>0, <1>5 DEF ReadTombstones, TypeOK, Call
  <2>2. Clean(Merged(t)) /\ Covers(Merged(t), sync[t].remote)
    <3>1. sync[t].remote \in Document
      BY <1>0 DEF TypeOK, Call
    <3>2. [sync[t].local EXCEPT !.tomb = store[HomeOf[t]].tomb] \in Document
      <4>1. sync[t].local \in Document
        BY <1>0 DEF TypeOK, Call
      <4>2. store[HomeOf[t]].tomb \in [Ids -> Nat]
        BY <1>0, HomeAssumption DEF TypeOK, Document
      <4> QED
        BY <4>1, <4>2 DEF Document
    <3> QED
      BY <3>1, <3>2, MergeClean, MergeCoversRemote DEF Merged
  <2>3. ServerClean' /\ PushIsCurrent'
    BY <2>1 DEF Inv, ServerClean, PushIsCurrent
  <2>4. PulledCurrent'
    BY <2>1 DEF Inv, PulledCurrent, Window
  <2>5. MergedCovers'
    BY <2>1, <2>2 DEF Inv, MergedCovers
  <2> QED
    BY <1>0, <2>1, <2>3, <2>4, <2>5 DEF Inv
<1>6. ASSUME NEW t \in Tabs, NEW i \in Ids, ApplyRecord(t, i) \/ ForgetRecord(t, i)
      PROVE  Inv' /\ UNCHANGED server
  <2>1. CASE ApplyRecord(t, i)
    BY <1>0, <2>1, SameClaims DEF ApplyRecord, TypeOK, Call
  <2>2. CASE ForgetRecord(t, i)
    BY <1>0, <2>2, SameClaims DEF ForgetRecord, TypeOK, Call
  <2> QED
    BY <1>6, <2>1, <2>2
<1>7. ASSUME NEW t \in Tabs, ApplyTombstones(t)
      PROVE  Inv' /\ UNCHANGED server
  BY <1>0, <1>7, SameClaims DEF ApplyTombstones, TypeOK, Call, Window
<1>8. ASSUME NEW t \in Tabs, Restored(t) \/ UpToDate(t) \/ PullFails(t)
      PROVE  Inv' /\ UNCHANGED server
  <2>1. /\ UNCHANGED <<server, wire>>
        /\ \A u \in Tabs : sync'[u] = sync[u] \/ sync'[u].phase \in {"idle", "pull", "sent"}
    <3>1. CASE Restored(t)
      BY <1>0, <3>1 DEF Restored, TypeOK, NoCall
    <3>2. CASE UpToDate(t)
      BY <1>0, <3>2 DEF UpToDate, TypeOK, NoCall
    <3>3. CASE PullFails(t)
      BY <1>0, <3>3 DEF PullFails, TypeOK, NoCall
    <3> QED
      BY <1>8, <3>1, <3>2, <3>3
  <2> QED
    BY <1>0, <2>1, QuietStep
<1>9. ASSUME NEW t \in Tabs, SendPut(t)
      PROVE  Inv' /\ UNCHANGED server
  <2>1. /\ UNCHANGED server
        /\ wire' = wire \cup {[from |-> t, base |-> sync[t].base, doc |-> sync[t].merged]}
        /\ \A u \in Tabs : sync'[u] = sync[u] \/ sync'[u].phase = "sent"
        /\ sync[t].phase = "forget" /\ ~sync[t].restoring
    BY <1>0, <1>9 DEF SendPut, Applied, TypeOK, NoCall
  <2>2. /\ Clean(sync[t].merged)
        /\ sync[t].base <= server.version
        /\ sync[t].base = server.version => Covers(sync[t].merged, server.doc)
    BY <2>1 DEF Inv, MergedCovers, PulledCurrent, Window
  <2>3. PushIsCurrent'
    BY <2>1, <2>2 DEF Inv, PushIsCurrent
  <2>4. ServerClean'
    BY <2>1 DEF Inv, ServerClean
  <2>5. PulledCurrent'
    BY <2>1 DEF Inv, PulledCurrent, Window
  <2>6. MergedCovers'
    BY <2>1 DEF Inv, MergedCovers
  <2> QED
    BY <1>0, <2>1, <2>3, <2>4, <2>5, <2>6 DEF Inv
<1>10. ASSUME NEW m \in wire, ServerPut(m) \/ PutRepeated(m)
       PROVE  Inv' /\ Covers(server'.doc, server.doc)
  <2>1. /\ WriteBlob(m) /\ wire' \subseteq wire
        /\ \A u \in Tabs : sync'[u] = sync[u] \/ sync'[u].phase \in {"idle", "pull"}
    <3>1. CASE PutRepeated(m)
      BY <3>1 DEF PutRepeated
    <3>2. CASE ServerPut(m)
      <4>1. \A u \in Tabs : Answered(m)[u] = sync[u] \/ Answered(m)[u].phase \in {"idle", "pull"}
        BY DEF Answered, NoCall
      <4> QED
        BY <3>2, <4>1 DEF ServerPut
    <3> QED
      BY <1>10, <3>1, <3>2
  <2> QED
    BY <1>0, <2>1, WriteBlobStep
<1>11. ASSUME NEW m \in wire, PutFails(m)
       PROVE  Inv' /\ UNCHANGED server
  <2>1. /\ UNCHANGED server /\ wire' \subseteq wire
        /\ \A u \in Tabs : sync'[u] = sync[u] \/ sync'[u].phase \in {"idle", "pull", "sent"}
    BY <1>0, <1>11 DEF PutFails, TypeOK, NoCall
  <2> QED
    BY <1>0, <2>1, QuietStep
<1>12. ASSUME NEW t \in Tabs, CloseTab(t)
       PROVE  Inv' /\ UNCHANGED server
  <2>1. /\ UNCHANGED server
        /\ \A u \in Tabs : sync'[u] = sync[u] \/ sync'[u].phase = "idle"
    BY <1>0, <1>12 DEF CloseTab, TypeOK, NoCall
  <2>2. \A n \in wire' : \E m \in wire : n.base = m.base /\ n.doc = m.doc
    BY <1>0, <1>12 DEF CloseTab, TypeOK, Request
  <2>3. PushIsCurrent'
    BY <2>1, <2>2 DEF Inv, PushIsCurrent
  <2>4. ServerClean'
    BY <2>1 DEF Inv, ServerClean
  <2>5. PulledCurrent'
    BY <2>1 DEF Inv, PulledCurrent, Window
  <2>6. MergedCovers'
    BY <2>1 DEF Inv, MergedCovers
  <2> QED
    BY <1>0, <2>1, <2>3, <2>4, <2>5, <2>6 DEF Inv
<1>13. CASE UNCHANGED vars
  BY <1>0, <1>13, QuietStep DEF vars
<1> QED
  BY <1>1, <1>2, <1>3, <1>4, <1>5, <1>6, <1>7, <1>8, <1>9, <1>10, <1>11, <1>12, <1>13
     DEF Next, SyncStep, ServerStep, FaultStep

(* No reachable server document lists a record it knows to be deleted. *)
THEOREM ServerAlwaysClean == Spec => []ServerClean
<1>1. Inv => ServerClean
  BY DEF Inv
<1> QED
  BY <1>1, InvInit, InvInductive, PTL DEF Spec

(* Every push the server would still accept carries on what it holds. *)
THEOREM PushAlwaysCurrent == Spec => []PushIsCurrent
<1>1. Inv => PushIsCurrent
  BY DEF Inv
<1> QED
  BY <1>1, InvInit, InvInductive, PTL DEF Spec

(* No write to the server loses a record or forgets a deletion, for any    *)
(* number of devices and tabs, with late, repeated, failed and orphaned    *)
(* pushes, and whether or not the writers of one browser overlap.          *)
THEOREM NothingLost == Spec => ServerNeverLoses
<1>1. Inv /\ [Next]_vars => [Covers(server'.doc, server.doc)]_vars
  <2> SUFFICES ASSUME Inv, [Next]_vars, UNCHANGED server
               PROVE  Covers(server'.doc, server.doc)
    BY InvInductive
  <2>1. \A i \in Ids : server.doc.tomb[i] \in Nat
    BY DocumentFields DEF Inv, TypeOK
  <2> QED
    BY <2>1 DEF Covers, KeepsRecord
<1> QED
  BY <1>1, InvInit, InvInductive, PTL DEF Spec, ServerNeverLoses

(* The whole of it as one abstract vault: what every device can read from  *)
(* the server starts empty, only ever moves to a document that covers it,  *)
(* and never lists what it knows to be deleted.                            *)
THEOREM ImplementsSharedVault == Spec => IsSharedVault
<1>1. Init => Shared!Init
  BY DEF Init, Shared!Init, EmptyDoc, Shared!EmptyDoc, NoRecord, Shared!NoRecord
<1>2. \A d, e : Covers(d, e) <=> Shared!Covers(d, e)
  BY DEF Covers, Shared!Covers, KeepsRecord, Shared!KeepsRecord
<1>3. \A d : Clean(d) <=> Shared!Clean(d)
  BY DEF Clean, Shared!Clean, Held, Shared!Held
<1>4. Inv /\ [Next]_vars => [Shared!Publish]_(server.doc)
  BY InvInductive, <1>2, <1>3 DEF Inv, ServerClean, Shared!Publish
<1> QED
  BY <1>1, <1>4, InvInit, InvInductive, PTL DEF Spec, IsSharedVault, Shared!Spec

-------------------------------------------------------------------------------
(* What a browser keeps when it has one writer at a time. A tab claims its *)
(* browser from the first read of a call to its last write.                *)
Claims(t) == sync[t].phase \in Window \/ del[t].phase # "none"

OneWriter ==
  /\ \A t, u \in Tabs : Claims(t) /\ Claims(u) /\ HomeOf[t] = HomeOf[u] => t = u
  /\ \A t \in Tabs : ~(sync[t].phase \in Window /\ del[t].phase # "none")

(* What a call under way has read, and is about to write, says what a      *)
(* person wrote here.                                                      *)
TabKept(t) ==
  LET b == HomeOf[t]
      m == sync[t].merged
  IN
  /\ sync[t].phase = "tombs" => sync[t].local.rec = store[b].rec
  /\ sync[t].phase \in {"apply", "forget"} =>
       /\ \A i \in Ids : /\ deleted[b][i] <= m.tomb[i]
                         /\ saved[b][i] <= m.rec[i].stamp \/ saved[b][i] <= m.tomb[i]
       /\ sync[t].gone \cap Held(m) = {}
  /\ sync[t].phase = "apply" =>
       /\ sync[t].todo \subseteq Held(m)
       /\ \A i \in Held(m) \ sync[t].todo : store[b].rec[i] = m.rec[i]
  /\ sync[t].phase = "forget" => store[b].tomb = m.tomb
  /\ del[t].phase = "read" => del[t].tomb = store[b].tomb

BrowserKept(b) ==
  \A i \in Ids :
    /\ saved[b][i] <= store[b].rec[i].stamp \/ saved[b][i] <= store[b].tomb[i]
    /\ deleted[b][i] <= store[b].tomb[i]
    /\ saved[b][i] <= clock[b]

KeepInv ==
  OneWriter /\ (\A t \in Tabs : TabKept(t)) /\ (\A b \in Browsers : BrowserKept(b))

(* One tab writes in its browser, which no other tab claims. *)
LEMMA OneTab ==
  ASSUME ~Overlap, KeepInv, NEW t \in Tabs,
         \A u \in Tabs \ {t} : sync'[u] = sync[u] /\ del'[u] = del[u],
         \A b \in Browsers \ {HomeOf[t]} :
           /\ store'[b] = store[b] /\ clock'[b] = clock[b]
           /\ saved'[b] = saved[b] /\ deleted'[b] = deleted[b],
         Claims(t) \/ Unclaimed(HomeOf[t]),
         ~(sync'[t].phase \in Window /\ del'[t].phase # "none"),
         TabKept(t)', BrowserKept(HomeOf[t])'
  PROVE  KeepInv'
<1>1. ASSUME NEW u \in Tabs, u # t, HomeOf[u] = HomeOf[t]
      PROVE  ~Claims(u) /\ ~Claims(u)'
  BY <1>1 DEF KeepInv, OneWriter, Unclaimed, Claims
<1>2. ASSUME NEW u \in Tabs, u # t
      PROVE  Claims(u)' <=> Claims(u)
  BY <1>2 DEF Claims
<1>3. OneWriter'
  <2>1. ASSUME NEW u \in Tabs, NEW w \in Tabs, Claims(u)', Claims(w)', HomeOf[u] = HomeOf[w]
        PROVE  u = w
    <3>1. CASE u # t /\ w # t
      BY <1>2, <2>1, <3>1 DEF KeepInv, OneWriter
    <3>2. CASE u = t \/ w = t
      BY <1>1, <2>1, <3>2
    <3> QED
      BY <3>1, <3>2
  <2>2. \A u \in Tabs : ~(sync'[u].phase \in Window /\ del'[u].phase # "none")
    BY DEF KeepInv, OneWriter
  <2> QED
    BY <2>1, <2>2 DEF OneWriter
<1>4. ASSUME NEW u \in Tabs
      PROVE  TabKept(u)'
  <2>1. CASE u = t
    BY <2>1
  <2>2. CASE u # t /\ HomeOf[u] = HomeOf[t]
    BY <1>1, <2>2 DEF Claims, TabKept, Window
  <2>3. CASE HomeOf[u] # HomeOf[t]
    <3>1. HomeOf[u] \in Browsers /\ TabKept(u)
      BY HomeAssumption DEF KeepInv
    <3> QED
      BY <2>3, <3>1 DEF TabKept
  <2> QED
    BY <2>1, <2>2, <2>3
<1>5. \A b \in Browsers : BrowserKept(b)'
  BY DEF KeepInv, BrowserKept
<1> QED
  BY <1>3, <1>4, <1>5 DEF KeepInv

(* Calls end, begin or wait, and no store is written. *)
LEMMA Calm ==
  ASSUME KeepInv, UNCHANGED <<store, clock, saved, deleted>>,
         \A t \in Tabs : /\ sync'[t] = sync[t] \/ sync'[t].phase \notin Window
                         /\ del'[t] = del[t] \/ del'[t].phase = "none"
  PROVE  KeepInv'
<1>1. \A t \in Tabs : Claims(t)' => Claims(t)
  BY DEF Claims
<1>2. OneWriter'
  BY <1>1 DEF KeepInv, OneWriter
<1>3. ASSUME NEW t \in Tabs
      PROVE  TabKept(t)'
  BY DEF KeepInv, TabKept, Window
<1>4. \A b \in Browsers : BrowserKept(b)'
  BY DEF KeepInv, BrowserKept
<1> QED
  BY <1>2, <1>3, <1>4 DEF KeepInv

(* What writing one row, or the map of tombstones, leaves alone. *)
LEMMA PutRowFacts ==
  ASSUME TypeOK, NEW b \in Browsers, NEW i \in Ids, NEW r,
         store' = [store EXCEPT ![b].rec[i] = r]
  PROVE  /\ store'[b].rec[i] = r /\ store'[b].tomb = store[b].tomb
         /\ \A j \in Ids \ {i} : store'[b].rec[j] = store[b].rec[j]
         /\ \A c \in Browsers \ {b} : store'[c] = store[c]
BY DEF TypeOK, Document

LEMMA PutTombsFacts ==
  ASSUME TypeOK, NEW b \in Browsers, NEW m, store' = [store EXCEPT ![b].tomb = m]
  PROVE  /\ store'[b].tomb = m /\ store'[b].rec = store[b].rec
         /\ \A c \in Browsers \ {b} : store'[c] = store[c]
BY DEF TypeOK, Document

LEMMA KeepInductive ==
  ASSUME ~Overlap, Inv, KeepInv, [Next]_vars
  PROVE  KeepInv'
<1>0. TypeOK /\ TypeOK'
  BY TypeInductive DEF Inv
<1>h. \A t \in Tabs : HomeOf[t] \in Browsers
  BY HomeAssumption
<1>d. \A b \in Browsers, i \in Ids :
        /\ store[b].rec[i].stamp \in Nat /\ store[b].tomb[i] \in Nat /\ clock[b] \in Nat
        /\ saved[b][i] \in Nat /\ deleted[b][i] \in Nat
  BY <1>0, DocumentFields DEF TypeOK
<1>s. \A t \in Tabs : /\ DOMAIN sync[t] = DOMAIN NoCall /\ sync[t].merged \in Document
                      /\ sync[t].local \in Document /\ sync[t].remote \in Document
                      /\ sync[t].phase \in Phases /\ del[t].phase \in {"none", "row", "read"}
  BY <1>0 DEF TypeOK, Call, NoCall, Deletion
<1>m. \A t \in Tabs, i \in Ids : sync[t].merged.rec[i].stamp \in Nat /\ sync[t].merged.tomb[i] \in Nat
  BY <1>s, DocumentFields
<1>k. (\A t \in Tabs : TabKept(t)) /\ \A b \in Browsers : BrowserKept(b)
  BY DEF KeepInv
<1>1. ASSUME NEW t \in Tabs, NEW i \in Ids, NEW v \in Vals, NEW now \in 1..MaxClock,
             Save(t, i, v, now)
      PROVE  KeepInv'
  <2> DEFINE b == HomeOf[t]
  <2>1. /\ Unclaimed(b) /\ now > clock[b] /\ clock' = [clock EXCEPT ![b] = now]
        /\ store' = [store EXCEPT ![b].rec[i] = [stamp |-> now, val |-> v]]
        /\ saved' = [saved EXCEPT ![b][i] = now] /\ UNCHANGED <<sync, del, deleted>>
    BY <1>1 DEF Save, PutRow
  <2>2. b \in Browsers
    BY <1>h
  <2> HIDE DEF b
  <2>3. /\ store'[b].rec[i] = [stamp |-> now, val |-> v] /\ store'[b].tomb = store[b].tomb
        /\ \A j \in Ids \ {i} : store'[b].rec[j] = store[b].rec[j]
        /\ \A c \in Browsers \ {b} : store'[c] = store[c]
    BY <1>0, <2>1, <2>2, PutRowFacts
  <2>4. /\ clock'[b] = now /\ saved'[b][i] = now
        /\ \A j \in Ids \ {i} : saved'[b][j] = saved[b][j]
        /\ \A c \in Browsers \ {b} : saved'[c] = saved[c] /\ clock'[c] = clock[c]
    BY <1>0, <2>1, <2>2 DEF TypeOK
  <2>5. BrowserKept(b)'
    <3> SUFFICES ASSUME NEW j \in Ids
                 PROVE  /\ saved'[b][j] <= store'[b].rec[j].stamp \/ saved'[b][j] <= store'[b].tomb[j]
                        /\ deleted'[b][j] <= store'[b].tomb[j]
                        /\ saved'[b][j] <= clock'[b]
      BY DEF BrowserKept, b
    <3>1. BrowserKept(b) /\ now \in Nat
      BY <1>k, <2>2, BoundAssumption
    <3>2. CASE j = i
      BY <1>d, <2>1, <2>2, <2>3, <2>4, <3>1, <3>2 DEF BrowserKept
    <3>3. CASE j # i
      BY <1>d, <2>1, <2>2, <2>3, <2>4, <3>1, <3>3 DEF BrowserKept
    <3> QED
      BY <3>2, <3>3
  <2>6. ~Claims(t) /\ ~(sync'[t].phase \in Window /\ del'[t].phase # "none")
    BY <2>1 DEF Unclaimed, Claims, b
  <2>7. TabKept(t)'
    BY <2>1, <2>6 DEF Claims, TabKept, Window
  <2> QED
    BY <2>1, <2>3, <2>4, <2>5, <2>6, <2>7, OneTab DEF b
<1>2. ASSUME NEW t \in Tabs, NEW i \in Ids, DeleteRow(t, i)
      PROVE  KeepInv'
  <2> DEFINE b == HomeOf[t]
  <2>1. /\ Unclaimed(b) /\ clock' = [clock EXCEPT ![b] = @ + 1]
        /\ store' = [store EXCEPT ![b].rec[i] = NoRecord]
        /\ saved' = [saved EXCEPT ![b][i] = 0] /\ UNCHANGED <<sync, deleted>>
        /\ del' = [del EXCEPT ![t] = [NoDeletion EXCEPT !.phase = "row", !.ids = {i}]]
    BY <1>2 DEF DeleteRow, DropRow
  <2>2. b \in Browsers
    BY <1>h
  <2>r. del'[t].phase = "row" /\ \A u \in Tabs \ {t} : del'[u] = del[u]
    BY <1>0, <2>1 DEF TypeOK, NoDeletion
  <2>6. sync'[t].phase \notin Window
    BY <2>1 DEF Unclaimed, b
  <2> HIDE DEF b
  <2>3. /\ store'[b].rec[i] = NoRecord /\ store'[b].tomb = store[b].tomb
        /\ \A j \in Ids \ {i} : store'[b].rec[j] = store[b].rec[j]
        /\ \A c \in Browsers \ {b} : store'[c] = store[c]
    BY <1>0, <2>1, <2>2, PutRowFacts
  <2>4. /\ clock'[b] = clock[b] + 1 /\ saved'[b][i] = 0
        /\ \A j \in Ids \ {i} : saved'[b][j] = saved[b][j]
        /\ \A c \in Browsers \ {b} : saved'[c] = saved[c] /\ clock'[c] = clock[c]
    BY <1>0, <2>1, <2>2 DEF TypeOK
  <2>5. BrowserKept(b)'
    <3> SUFFICES ASSUME NEW j \in Ids
                 PROVE  /\ saved'[b][j] <= store'[b].rec[j].stamp \/ saved'[b][j] <= store'[b].tomb[j]
                        /\ deleted'[b][j] <= store'[b].tomb[j]
                        /\ saved'[b][j] <= clock'[b]
      BY DEF BrowserKept, b
    <3>1. BrowserKept(b)
      BY <1>k, <2>2
    <3>2. CASE j = i
      BY <1>d, <2>1, <2>2, <2>3, <2>4, <3>1, <3>2 DEF BrowserKept, NoRecord
    <3>3. CASE j # i
      BY <1>d, <2>1, <2>2, <2>3, <2>4, <3>1, <3>3 DEF BrowserKept
    <3> QED
      BY <3>2, <3>3
  <2>7. TabKept(t)'
    BY <2>6, <2>r DEF TabKept, Window
  <2> QED
    BY <2>1, <2>3, <2>4, <2>5, <2>6, <2>7, <2>r, OneTab DEF b
<1>3. ASSUME NEW t \in Tabs, GetTombstones(t)
      PROVE  KeepInv'
  <2>1. /\ del[t].phase = "read" \/ del[t].phase = "row"
        /\ del' = [del EXCEPT ![t] = [del[t] EXCEPT !.phase = "read", !.tomb = store[HomeOf[t]].tomb]]
        /\ UNCHANGED <<store, clock, sync, saved, deleted>>
    BY <1>3 DEF GetTombstones
  <2>2. del[t] \in Deletion
    BY <1>0 DEF TypeOK
  <2>3. /\ del'[t].phase = "read" /\ del'[t].tomb = store[HomeOf[t]].tomb
        /\ \A u \in Tabs \ {t} : del'[u] = del[u]
    BY <1>0, <2>1, <2>2 DEF TypeOK, Deletion
  <2>4. Claims(t) /\ sync'[t].phase \notin Window
    BY <2>1 DEF Claims, KeepInv, OneWriter
  <2>5. TabKept(t)'
    BY <2>1, <2>3, <2>4 DEF TabKept, Window
  <2>6. BrowserKept(HomeOf[t])'
    BY <1>h, <1>k, <2>1 DEF BrowserKept
  <2> QED
    BY <2>1, <2>3, <2>4, <2>5, <2>6, OneTab
<1>4. ASSUME NEW t \in Tabs, NEW now \in 1..MaxClock, RecordDeletion(t, now)
      PROVE  KeepInv'
  <2> DEFINE b == HomeOf[t]
             tombs == [i \in Ids |-> IF i \in del[t].ids THEN now ELSE del[t].tomb[i]]
  <2>1. /\ del[t].phase = "read" /\ now >= clock[b] /\ clock' = [clock EXCEPT ![b] = now]
        /\ store' = [store EXCEPT ![b].tomb = tombs]
        /\ deleted' = [deleted EXCEPT ![b] =
                         [i \in Ids |-> IF i \in del[t].ids THEN now ELSE deleted[b][i]]]
        /\ del' = [del EXCEPT ![t] = NoDeletion] /\ UNCHANGED <<sync, saved>>
    BY <1>4 DEF RecordDeletion, PutTombs
  <2>2. b \in Browsers
    BY <1>h
  <2>3. \A i \in Ids : tombs[i] = IF i \in del[t].ids THEN now ELSE store[b].tomb[i]
    BY <1>k, <2>1 DEF TabKept
  <2>4. /\ Claims(t) /\ sync'[t].phase \notin Window
        /\ del'[t].phase = "none" /\ \A u \in Tabs \ {t} : del'[u] = del[u]
    BY <1>0, <2>1 DEF Claims, KeepInv, OneWriter, TypeOK, NoDeletion
  <2> HIDE DEF b, tombs
  <2>5. /\ store'[b].tomb = tombs /\ store'[b].rec = store[b].rec
        /\ \A c \in Browsers \ {b} : store'[c] = store[c]
    BY <1>0, <2>1, <2>2, PutTombsFacts
  <2>6. /\ clock'[b] = now
        /\ \A j \in Ids : deleted'[b][j] = IF j \in del[t].ids THEN now ELSE deleted[b][j]
        /\ \A c \in Browsers \ {b} : deleted'[c] = deleted[c] /\ clock'[c] = clock[c]
    BY <1>0, <2>1, <2>2 DEF TypeOK
  <2>7. BrowserKept(b)'
    <3> SUFFICES ASSUME NEW j \in Ids
                 PROVE  /\ saved'[b][j] <= store'[b].rec[j].stamp \/ saved'[b][j] <= store'[b].tomb[j]
                        /\ deleted'[b][j] <= store'[b].tomb[j]
                        /\ saved'[b][j] <= clock'[b]
      BY DEF BrowserKept, b
    <3>1. BrowserKept(b) /\ now \in Nat
      BY <1>k, <2>2, BoundAssumption
    <3>2. CASE j \in del[t].ids
      BY <1>d, <2>1, <2>2, <2>3, <2>5, <2>6, <3>1, <3>2 DEF BrowserKept
    <3>3. CASE j \notin del[t].ids
      BY <1>d, <2>1, <2>2, <2>3, <2>5, <2>6, <3>1, <3>3 DEF BrowserKept
    <3> QED
      BY <3>2, <3>3
  <2>8. TabKept(t)'
    BY <2>4 DEF TabKept, Window
  <2> QED
    BY <2>1, <2>4, <2>5, <2>6, <2>7, <2>8, OneTab DEF b
<1>5. ASSUME NEW t \in Tabs, ReadRecords(t)
      PROVE  KeepInv'
  <2>1. /\ Unclaimed(HomeOf[t]) /\ UNCHANGED <<store, clock, del, saved, deleted>>
        /\ sync' = [sync EXCEPT ![t].phase = "tombs", ![t].local.rec = store[HomeOf[t]].rec]
    BY <1>5 DEF ReadRecords
  <2>2. /\ sync'[t].phase = "tombs" /\ sync'[t].local.rec = store[HomeOf[t]].rec
        /\ \A u \in Tabs \ {t} : sync'[u] = sync[u]
    BY <1>0, <1>s, <2>1 DEF TypeOK, Call, Document
  <2>3. del'[t].phase = "none"
    BY <2>1 DEF Unclaimed
  <2>4. TabKept(t)'
    BY <2>1, <2>2, <2>3 DEF TabKept
  <2>5. BrowserKept(HomeOf[t])'
    BY <1>h, <1>k, <2>1 DEF BrowserKept
  <2> QED
    BY <2>1, <2>2, <2>3, <2>4, <2>5, OneTab
<1>6. ASSUME NEW t \in Tabs, ReadTombstones(t)
      PROVE  KeepInv'
  <2> DEFINE b == HomeOf[t]
             full == [sync[t].local EXCEPT !.tomb = store[b].tomb]
             merged == MergeVault(full, sync[t].remote)
  <2>1. /\ sync[t].phase = "tombs" /\ UNCHANGED <<store, clock, del, saved, deleted>>
        /\ sync' = [sync EXCEPT ![t].phase = "apply", ![t].merged = merged,
                                ![t].todo = Held(merged),
                                ![t].gone = Held(sync[t].local) \ Held(merged),
                                ![t].local = EmptyDoc]
    BY <1>6 DEF ReadTombstones, Merged, Gone
  <2>2. b \in Browsers
    BY <1>h
  <2>3. full \in Document /\ full.rec = store[b].rec /\ full.tomb = store[b].tomb
    <3>1. store[b].tomb \in [Ids -> Nat] /\ sync[t].local \in Document
      BY <1>0, <1>s, <2>2 DEF TypeOK, Document
    <3>2. sync[t].local.rec = store[b].rec
      BY <1>k, <2>1 DEF TabKept
    <3>3. full \in Document /\ full.rec = sync[t].local.rec /\ full.tomb = store[b].tomb
      BY <3>1 DEF Document
    <3> QED
      BY <3>2, <3>3
  <2>4. /\ sync'[t].phase = "apply" /\ sync'[t].merged = merged /\ sync'[t].todo = Held(merged)
        /\ sync'[t].gone = Held(sync[t].local) \ Held(merged)
        /\ \A u \in Tabs \ {t} : sync'[u] = sync[u]
    BY <1>0, <2>1 DEF TypeOK, Call
  <2>5. del'[t].phase = "none" /\ Claims(t)
    BY <2>1 DEF Claims, KeepInv, OneWriter, Window
  <2> HIDE DEF full
  <2>6. \A i \in Ids : /\ merged.tomb[i] >= store[b].tomb[i]
                       /\ \/ store[b].rec[i].stamp <= merged.rec[i].stamp
                          \/ store[b].rec[i].stamp <= merged.tomb[i]
                       /\ merged.tomb[i] \in Nat /\ merged.rec[i].stamp \in Nat
    BY <1>s, <2>3, MergeKeepsLocal, MergeType, DocumentFields
  <2> HIDE DEF merged, b
  <2>7. ASSUME NEW i \in Ids
        PROVE  /\ deleted[b][i] <= merged.tomb[i]
               /\ saved[b][i] <= merged.rec[i].stamp \/ saved[b][i] <= merged.tomb[i]
    BY <1>d, <1>k, <2>2, <2>6 DEF BrowserKept
  <2>8. TabKept(t)'
    BY <2>1, <2>4, <2>5, <2>7 DEF TabKept, b
  <2>9. BrowserKept(HomeOf[t])'
    BY <1>h, <1>k, <2>1 DEF BrowserKept
  <2> QED
    BY <2>1, <2>4, <2>5, <2>8, <2>9, OneTab
<1>7. ASSUME NEW t \in Tabs, NEW i \in Ids, ApplyRecord(t, i)
      PROVE  KeepInv'
  <2> DEFINE b == HomeOf[t]
             m == sync[t].merged
  <2>1. /\ sync[t].phase = "apply" /\ i \in sync[t].todo
        /\ store' = [store EXCEPT ![b].rec[i] = m.rec[i]]
        /\ sync' = [sync EXCEPT ![t].todo = @ \ {i}] /\ UNCHANGED <<clock, del, saved, deleted>>
    BY <1>7 DEF ApplyRecord, PutRow
  <2>2. b \in Browsers /\ Claims(t) /\ del'[t].phase = "none"
    BY <1>h, <2>1 DEF Claims, KeepInv, OneWriter, Window
  <2>3. /\ sync'[t].phase = "apply" /\ sync'[t].merged = m /\ sync'[t].todo = sync[t].todo \ {i}
        /\ sync'[t].gone = sync[t].gone
        /\ \A u \in Tabs \ {t} : sync'[u] = sync[u]
    BY <1>0, <2>1 DEF TypeOK, Call
  <2>4. TabKept(t) /\ BrowserKept(b) /\ Clean(m)
    BY <1>k, <2>1, <2>2 DEF Inv, MergedCovers
  <2>5. i \in Ids /\ i \in Held(m)
    BY <2>1, <2>4 DEF TabKept, Held
  <2> HIDE DEF b
  <2>6. /\ store'[b].rec[i] = m.rec[i] /\ store'[b].tomb = store[b].tomb
        /\ \A j \in Ids \ {i} : store'[b].rec[j] = store[b].rec[j]
        /\ \A c \in Browsers \ {b} : store'[c] = store[c]
    BY <1>0, <2>1, <2>2, PutRowFacts
  <2>7. m.rec[i].stamp > m.tomb[i] /\ m.rec[i].stamp \in Nat /\ m.tomb[i] \in Nat
    BY <1>m, <2>4, <2>5 DEF Clean
  <2>8. /\ \A j \in Ids : /\ deleted[b][j] <= m.tomb[j]
                          /\ saved[b][j] <= m.rec[j].stamp \/ saved[b][j] <= m.tomb[j]
        /\ \A j \in Held(m) \ sync[t].todo : store[b].rec[j] = m.rec[j]
        /\ sync[t].todo \ {i} \subseteq Held(m)
        /\ sync[t].gone \cap Held(m) = {}
    BY <2>1, <2>4 DEF TabKept, b
  <2>9. \A j \in Held(m) \ (sync[t].todo \ {i}) : store'[b].rec[j] = m.rec[j]
    BY <2>6, <2>8 DEF Held
  <2>10. TabKept(t)'
    <3> HIDE DEF m
    <3> QED
      BY <2>1, <2>2, <2>3, <2>8, <2>9 DEF TabKept, b
  <2>11. saved[b][i] <= m.rec[i].stamp
    BY <1>d, <2>2, <2>5, <2>7, <2>8
  <2>12. BrowserKept(b)'
    <3> SUFFICES ASSUME NEW j \in Ids
                 PROVE  /\ saved'[b][j] <= store'[b].rec[j].stamp \/ saved'[b][j] <= store'[b].tomb[j]
                        /\ deleted'[b][j] <= store'[b].tomb[j]
                        /\ saved'[b][j] <= clock'[b]
      BY DEF BrowserKept, b
    <3>1. CASE j = i
      BY <2>1, <2>4, <2>6, <2>11, <3>1 DEF BrowserKept
    <3>2. CASE j # i
      BY <2>1, <2>4, <2>6, <3>2 DEF BrowserKept
    <3> QED
      BY <3>1, <3>2
  <2> QED
    BY <2>1, <2>2, <2>3, <2>6, <2>10, <2>12, OneTab DEF b
<1>8. ASSUME NEW t \in Tabs, ApplyTombstones(t)
      PROVE  KeepInv'
  <2> DEFINE b == HomeOf[t]
             m == sync[t].merged
  <2>1. /\ sync[t].phase = "apply" /\ sync[t].todo = {}
        /\ store' = [store EXCEPT ![b].tomb = m.tomb]
        /\ sync' = [sync EXCEPT ![t].phase = "forget"] /\ UNCHANGED <<clock, del, saved, deleted>>
    BY <1>8 DEF ApplyTombstones, PutTombs
  <2>2. b \in Browsers /\ Claims(t) /\ del'[t].phase = "none"
    BY <1>h, <2>1 DEF Claims, KeepInv, OneWriter, Window
  <2>3. /\ sync'[t].phase = "forget" /\ sync'[t].merged = m /\ sync'[t].gone = sync[t].gone
        /\ \A u \in Tabs \ {t} : sync'[u] = sync[u]
    BY <1>0, <2>1 DEF TypeOK, Call
  <2>4. TabKept(t) /\ BrowserKept(b)
    BY <1>k, <2>2
  <2> HIDE DEF b
  <2>5. /\ store'[b].tomb = m.tomb /\ store'[b].rec = store[b].rec
        /\ \A c \in Browsers \ {b} : store'[c] = store[c]
    BY <1>0, <2>1, <2>2, PutTombsFacts
  <2>6. /\ \A j \in Ids : /\ deleted[b][j] <= m.tomb[j]
                          /\ saved[b][j] <= m.rec[j].stamp \/ saved[b][j] <= m.tomb[j]
        /\ \A j \in Held(m) : store[b].rec[j] = m.rec[j]
        /\ sync[t].gone \cap Held(m) = {}
    BY <2>1, <2>4 DEF TabKept, b
  <2>7. TabKept(t)'
    <3> HIDE DEF m
    <3> QED
      BY <2>1, <2>2, <2>3, <2>5, <2>6 DEF TabKept, b
  <2>8. ASSUME NEW j \in Ids
        PROVE  saved[b][j] <= store[b].rec[j].stamp \/ saved[b][j] <= m.tomb[j]
    <3>1. CASE j \in Held(m)
      BY <2>6, <3>1
    <3>2. CASE j \notin Held(m)
      <4>1. m.rec[j].stamp = 0 /\ m.tomb[j] \in Nat /\ saved[b][j] \in Nat
        BY <1>d, <1>m, <2>2, <3>2 DEF Held
      <4> QED
        BY <2>6, <4>1
    <3> QED
      BY <3>1, <3>2
  <2>9. BrowserKept(b)'
    <3> HIDE DEF m
    <3> QED
      BY <2>1, <2>4, <2>5, <2>6, <2>8 DEF BrowserKept, b
  <2> QED
    BY <2>1, <2>2, <2>3, <2>5, <2>7, <2>9, OneTab DEF b
<1>9. ASSUME NEW t \in Tabs, NEW i \in Ids, ForgetRecord(t, i)
      PROVE  KeepInv'
  <2> DEFINE b == HomeOf[t]
             m == sync[t].merged
  <2>1. /\ sync[t].phase = "forget" /\ i \in sync[t].gone
        /\ store' = [store EXCEPT ![b].rec[i] = NoRecord]
        /\ sync' = [sync EXCEPT ![t].gone = @ \ {i}] /\ UNCHANGED <<clock, del, saved, deleted>>
    BY <1>9 DEF ForgetRecord, DropRow
  <2>2. b \in Browsers /\ Claims(t) /\ del'[t].phase = "none"
    BY <1>h, <2>1 DEF Claims, KeepInv, OneWriter, Window
  <2>3. /\ sync'[t].phase = "forget" /\ sync'[t].merged = m /\ sync'[t].gone = sync[t].gone \ {i}
        /\ \A u \in Tabs \ {t} : sync'[u] = sync[u]
    BY <1>0, <2>1 DEF TypeOK, Call
  <2>4. TabKept(t) /\ BrowserKept(b)
    BY <1>k, <2>2
  <2> HIDE DEF b
  <2>5. /\ store'[b].rec[i] = NoRecord /\ store'[b].tomb = store[b].tomb
        /\ \A j \in Ids \ {i} : store'[b].rec[j] = store[b].rec[j]
        /\ \A c \in Browsers \ {b} : store'[c] = store[c]
    BY <1>0, <2>1, <2>2, PutRowFacts
  <2>6. /\ \A j \in Ids : /\ deleted[b][j] <= m.tomb[j]
                          /\ saved[b][j] <= m.rec[j].stamp \/ saved[b][j] <= m.tomb[j]
        /\ sync[t].gone \cap Held(m) = {} /\ store[b].tomb = m.tomb
    BY <2>1, <2>4 DEF TabKept, b
  <2>7. TabKept(t)'
    <3> HIDE DEF m
    <3>1. (sync[t].gone \ {i}) \cap Held(m) = {}
      BY <2>6
    <3> QED
      BY <2>1, <2>2, <2>3, <2>5, <2>6, <3>1 DEF TabKept, b
  <2>8. saved[b][i] <= store[b].tomb[i]
    <3>1. m.rec[i].stamp = 0 /\ m.tomb[i] \in Nat /\ saved[b][i] \in Nat
      BY <1>d, <1>m, <2>1, <2>2, <2>6 DEF Held
    <3> QED
      BY <2>6, <3>1
  <2>9. BrowserKept(b)'
    <3> SUFFICES ASSUME NEW j \in Ids
                 PROVE  /\ saved'[b][j] <= store'[b].rec[j].stamp \/ saved'[b][j] <= store'[b].tomb[j]
                        /\ deleted'[b][j] <= store'[b].tomb[j]
                        /\ saved'[b][j] <= clock'[b]
      BY DEF BrowserKept, b
    <3>1. CASE j = i
      BY <2>1, <2>4, <2>5, <2>8, <3>1 DEF BrowserKept
    <3>2. CASE j # i
      BY <2>1, <2>4, <2>5, <3>2 DEF BrowserKept
    <3> QED
      BY <3>1, <3>2
  <2> QED
    BY <2>1, <2>2, <2>3, <2>5, <2>7, <2>9, OneTab DEF b
(* The rest writes in no store. *)
<1>10. ASSUME NEW t \in Tabs,
              \/ Pull(t) \/ Restore(t) \/ Restored(t) \/ UpToDate(t) \/ SendPut(t)
              \/ PullFails(t) \/ CloseTab(t)
       PROVE  KeepInv'
  <2>1. UNCHANGED <<store, clock, saved, deleted>>
    BY <1>10 DEF Pull, Restore, Restored, UpToDate, SendPut, PullFails, CloseTab
  <2>2. PICK r : sync' = [sync EXCEPT ![t] = r] /\ r.phase \notin Window
    <3>1. /\ NoCall.phase \notin Window
          /\ \A n : [NoCall EXCEPT !.phase = "pull", !.retries = n].phase \notin Window
          /\ \A n : [NoCall EXCEPT !.phase = "sent", !.retries = n].phase \notin Window
          /\ \A g, d, n : [NoCall EXCEPT !.phase = "read", !.base = g, !.remote = d,
                                         !.retries = n].phase \notin Window
          /\ \A d : [NoCall EXCEPT !.phase = "read", !.restoring = TRUE,
                                   !.remote = d].phase \notin Window
      BY DEF NoCall, Window
    <3>2. CASE UpToDate(t) \/ PullFails(t) \/ CloseTab(t)
      BY <3>1, <3>2 DEF UpToDate, PullFails, CloseTab
    <3>3. CASE Restored(t)
      BY <3>1, <3>3 DEF Restored
    <3>4. CASE SendPut(t)
      BY <3>1, <3>4 DEF SendPut
    <3>5. CASE Pull(t)
      BY <3>1, <3>5 DEF Pull
    <3>6. CASE Restore(t)
      BY <3>1, <3>6 DEF Restore
    <3> QED
      BY <1>10, <3>2, <3>3, <3>4, <3>5, <3>6
  <2>3. del' = del \/ del' = [del EXCEPT ![t] = NoDeletion]
    BY <1>10 DEF Pull, Restore, Restored, UpToDate, SendPut, PullFails, CloseTab
  <2>4. NoDeletion.phase = "none" /\ DOMAIN sync = Tabs /\ DOMAIN del = Tabs
    BY <1>0 DEF TypeOK, NoDeletion
  <2> QED
    BY <2>1, <2>2, <2>3, <2>4, Calm
<1>11. ASSUME NEW m \in wire, ServerPut(m) \/ PutFails(m) \/ PutRepeated(m)
       PROVE  KeepInv'
  <2>1. UNCHANGED <<store, clock, del, saved, deleted>>
    BY <1>11 DEF ServerPut, PutFails, PutRepeated
  <2>2. NoCall.phase \notin Window /\ \A n : [NoCall EXCEPT !.phase = "pull", !.retries = n].phase \notin Window
    BY DEF NoCall, Window
  <2>3. \A t \in Tabs : sync'[t] = sync[t] \/ sync'[t].phase \notin Window
    BY <1>11, <2>2 DEF ServerPut, Answered, PutFails, PutRepeated
  <2> QED
    BY <2>1, <2>3, Calm
<1>12. CASE Export \/ UNCHANGED vars
  BY <1>12, Calm DEF Export, vars
<1> QED
  BY <1>1, <1>2, <1>3, <1>4, <1>5, <1>6, <1>7, <1>8, <1>9, <1>10, <1>11, <1>12
     DEF Next, UserStep, DeleteStep, SyncStep, ServerStep, FaultStep

LEMMA KeepInvariant == ASSUME ~Overlap PROVE Spec => [](Inv /\ KeepInv)
<1>1. Init => KeepInv
  <2> SUFFICES ASSUME Init
               PROVE  KeepInv
    OBVIOUS
  <2>1. \A t \in Tabs : sync[t] = NoCall /\ del[t] = NoDeletion
    BY DEF Init
  <2>2. NoCall.phase = "idle" /\ NoDeletion.phase = "none"
    BY DEF NoCall, NoDeletion
  <2>3. OneWriter /\ \A t \in Tabs : TabKept(t)
    BY <2>1, <2>2 DEF OneWriter, Claims, TabKept, Window
  <2>4. \A b \in Browsers : BrowserKept(b)
    <3>1. \A b \in Browsers, i \in Ids :
            /\ saved[b][i] = 0 /\ deleted[b][i] = 0 /\ clock[b] = 0
            /\ store[b].tomb[i] = 0 /\ store[b].rec[i].stamp = 0
      BY DEF Init, EmptyDoc, NoRecord
    <3> QED
      BY <3>1 DEF BrowserKept
  <2> QED
    BY <2>3, <2>4 DEF KeepInv
<1>2. Inv /\ KeepInv /\ [Next]_vars => (Inv /\ KeepInv)'
  BY InvInductive, KeepInductive
<1> QED
  BY <1>1, <1>2, InvInit, PTL DEF Spec

(* While a browser has one writer at a time, what a person saved stays     *)
(* until a newer write or a deletion, for any browsers, tabs, records and  *)
(* closed tabs (applyVaultLocally).                                        *)
THEOREM EditsAreKept == ASSUME ~Overlap PROVE Spec => []EditKept
<1>1. KeepInv => EditKept
  BY DEF KeepInv, BrowserKept, EditKept
<1> QED
  BY <1>1, KeepInvariant, PTL

(* Under the same condition no recorded deletion is forgotten either, and  *)
(* restoring a file takes neither away (restore.ts, tombstones.ts).        *)
THEOREM RestoreAlwaysKeeps == ASSUME ~Overlap PROVE Spec => []RestoreKeeps
<1>1. KeepInv => RestoreKeeps
  BY DEF KeepInv, BrowserKept, EditKept, DeletionKept, RestoreKeeps
<1> QED
  BY <1>1, KeepInvariant, PTL

-------------------------------------------------------------------------------
(* When a tab syncs. A handler's record is in the store from the moment it *)
(* pushes, and the sync it starts or joins once the one before has settled *)
(* reads the store after that; what a sync pulled the server still has.    *)
CONSTANTS Records, Callers, NoRec, MaxMishaps
VARIABLES unlocked, published, written, view, bumped, run, caller, mishaps
Driver == INSTANCE SyncDriver
            WITH MaxFaults <- MaxMishaps, server <- published, local <- written, faults <- mishaps

DriverInv ==
  /\ written \subseteq Records /\ published \subseteq Records
  /\ run \in [phase : {"none", "started", "pulled", "read", "landed"}, retries : Nat,
              remote : SUBSET Records, snap : SUBSET Records]
  /\ caller \in [Callers -> [rec : Records \cup {NoRec},
                 state : {"idle", "wrote", "waits", "ready", "joined", "ok", "failed"}]]
  /\ run.phase \in {"pulled", "read", "landed"} => run.remote \subseteq published
  /\ \A c \in Callers :
       /\ caller[c].state \in {"wrote", "waits", "ready", "joined"} => caller[c].rec \in written
       /\ caller[c].state \in {"ready", "joined"} /\ run.phase \in {"read", "landed"} =>
            caller[c].rec \in run.snap
       /\ caller[c].state = "ok" => caller[c].rec \in published

(* A push that reports success carried its own write, for any number of    *)
(* handlers, whichever sync they started, joined or waited for, however    *)
(* often it conflicted or failed (pushLocalChange in auto-sync.ts).        *)
THEOREM PushesCarryTheirWrite ==
  ASSUME Driver!DriverAssumption
  PROVE  Driver!Spec => []Driver!PushedIsOnServer
<1> DEFINE Runs == [phase : {"none", "started", "pulled", "read", "landed"}, retries : Nat,
                    remote : SUBSET Records, snap : SUBSET Records]
<1>1. Driver!Init => DriverInv
  BY DEF Driver!Init, DriverInv, Driver!NoRun
<1>2. DriverInv /\ [Driver!Next]_(Driver!vars) => DriverInv'
  <2> SUFFICES ASSUME DriverInv, [Driver!Next]_(Driver!vars)
               PROVE  DriverInv'
    OBVIOUS
  <2>s. Driver!StartRun => run' = [phase |-> "started", retries |-> 2, remote |-> {}, snap |-> {}]
    BY DEF Driver!StartRun, Driver!NoRun, Driver!MaxRetries
  <2>t. published \subseteq Records
    BY DEF DriverInv
  <2>1. CASE Driver!Unlock \/ Driver!Trigger
    <3>1. /\ run' = run \/ run' = [phase |-> "started", retries |-> 2, remote |-> {}, snap |-> {}]
          /\ UNCHANGED <<published, written, caller>>
      BY <2>1, <2>s DEF Driver!Unlock, Driver!Trigger
    <3> QED
      BY <3>1 DEF DriverInv
  <2>2. ASSUME NEW c \in Callers, NEW r \in Records, Driver!Write(c, r)
        PROVE  DriverInv'
    <3>1. /\ written' = written \cup {r} /\ UNCHANGED <<published, run>>
          /\ caller' = [caller EXCEPT ![c] = [rec |-> r, state |-> "wrote"]]
      BY <2>2 DEF Driver!Write
    <3> QED
      BY <3>1 DEF DriverInv
  <2>3. ASSUME NEW c \in Callers, Driver!HandlerStep(c)
        PROVE  DriverInv'
    <3>1. /\ caller[c].state \in {"wrote", "ready"}
          /\ UNCHANGED <<published, written>>
          /\ \/ run' = run /\ caller' = [caller EXCEPT ![c].state = "waits"]
             \/ run' = run /\ caller' = [caller EXCEPT ![c].state = "failed"]
             \/ /\ caller[c].state = "ready" /\ run' = run
                /\ caller' = [caller EXCEPT ![c].state = "joined"]
             \/ /\ run' = [phase |-> "started", retries |-> 2, remote |-> {}, snap |-> {}]
                /\ caller' = [caller EXCEPT ![c].state = "joined"]
      BY <2>3, <2>s DEF Driver!HandlerStep, Driver!PushLocalChange, Driver!Continue, Driver!JoinOrStart
    <3> QED
      BY <3>1 DEF DriverInv
  <2>4. CASE Driver!Pull \/ Driver!Read \/ Driver!Land
    <3>1. CASE Driver!Pull
      <4>1. /\ run' = [run EXCEPT !.phase = "pulled", !.remote = published]
            /\ UNCHANGED <<published, written, caller>>
        BY <3>1 DEF Driver!Pull
      <4>2. run' \in Runs /\ run'.phase = "pulled" /\ run'.remote \subseteq published
        BY <4>1 DEF DriverInv
      <4> QED
        BY <4>1, <4>2 DEF DriverInv
    <3>2. CASE Driver!Read
      <4>1. /\ run.phase = "pulled" /\ run' = [run EXCEPT !.phase = "read", !.snap = written]
            /\ UNCHANGED <<published, written, caller>>
        BY <3>2 DEF Driver!Read
      <4>2. run' \in Runs /\ run'.remote = run.remote /\ run'.snap = written
        BY <4>1 DEF DriverInv
      <4> QED
        BY <4>1, <4>2 DEF DriverInv
    <3>3. CASE Driver!Land
      BY <3>3 DEF DriverInv, Driver!Land
    <3> QED
      BY <2>4, <3>1, <3>2, <3>3
  <2>5. ASSUME NEW result \in {"ok", "failed"}, Driver!Settle(result), UNCHANGED written,
               published \subseteq published', published' \subseteq Records,
               result = "ok" => \A c \in Callers : caller[c].state = "joined" => caller[c].rec \in published'
        PROVE  DriverInv'
    <3>1. run' = [phase |-> "none", retries |-> 0, remote |-> {}, snap |-> {}]
      BY <2>5 DEF Driver!Settle, Driver!NoRun
    <3>2. /\ caller' \in [Callers -> [rec : Records \cup {NoRec},
                 state : {"idle", "wrote", "waits", "ready", "joined", "ok", "failed"}]]
          /\ \A c \in Callers :
               /\ caller'[c].rec = caller[c].rec
               /\ caller'[c].state = (CASE caller[c].state = "joined" -> result
                                        [] caller[c].state = "waits" -> "ready"
                                        [] OTHER -> caller[c].state)
      BY <2>5 DEF Driver!Settle, DriverInv
    <3> QED
      BY <2>5, <3>1, <3>2 DEF DriverInv
  <2>6. CASE Driver!UpToDate
    BY <2>5, <2>6 DEF Driver!UpToDate, Driver!SameRecords, DriverInv
  <2>7. CASE Driver!Pushed
    BY <2>5, <2>7 DEF Driver!Pushed, DriverInv
  <2>8. CASE Driver!Conflict
    <3>1. CASE Driver!Settle("failed")
      BY <2>t, <2>5, <2>8, <3>1 DEF Driver!Conflict
    <3>2. CASE run.retries > 0 /\ run' = [Driver!NoRun EXCEPT !.phase = "started", !.retries = run.retries - 1]
      <4>1. UNCHANGED <<published, written, caller>>
        BY <2>8, <3>2 DEF Driver!Conflict, Driver!Settle, Driver!NoRun
      <4>2. run.retries - 1 \in Nat
        BY <3>2 DEF DriverInv
      <4>3. \A r \in Nat : /\ [Driver!NoRun EXCEPT !.phase = "started", !.retries = r] \in Runs
                           /\ [Driver!NoRun EXCEPT !.phase = "started", !.retries = r].phase = "started"
        BY DEF Driver!NoRun
      <4>4. run' \in Runs /\ run'.phase = "started"
        BY <3>2, <4>2, <4>3
      <4> QED
        BY <4>1, <4>4 DEF DriverInv
    <3> QED
      BY <2>8, <3>1, <3>2 DEF Driver!Conflict
  <2>9. CASE Driver!Offline \/ Driver!Fails
    BY <2>t, <2>5, <2>9 DEF Driver!Offline, Driver!Fails
  <2>10. ASSUME NEW r \in Records, Driver!OtherDevice(r)
         PROVE  DriverInv'
    BY <2>10 DEF Driver!OtherDevice, DriverInv
  <2>11. CASE Driver!Lock \/ Driver!Reread \/ UNCHANGED Driver!vars
    BY <2>11 DEF Driver!Lock, Driver!Reread, Driver!vars, DriverInv
  <2> QED
    BY <2>1, <2>2, <2>3, <2>4, <2>6, <2>7, <2>8, <2>9, <2>10, <2>11
       DEF Driver!Next, Driver!DriverStep
<1>3. DriverInv => Driver!PushedIsOnServer
  BY DEF DriverInv, Driver!PushedIsOnServer
<1> QED
  BY <1>1, <1>2, <1>3, PTL DEF Driver!Spec
===============================================================================
