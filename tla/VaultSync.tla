------------------------------- MODULE VaultSync ------------------------------
(***************************************************************************)
(* Vault sync between the browsers of one account                          *)
(* (apps/web/src/lib/vault/sync.ts, tombstones.ts, restore.ts, the record  *)
(* stores in lib/hosts.ts, snippets.ts, hostkeys.ts and keys.ts, and the   *)
(* route apps/web/src/app/api/vault/route.ts).                             *)
(*                                                                         *)
(* A browser owns one IndexedDB; its tabs share it and each runs the       *)
(* asynchronous functions of sync.ts, so every IndexedDB transaction and   *)
(* every request is a step of its own.  The server holds one document and  *)
(* a version, and accepts a PUT only on the version it was computed from.  *)
(***************************************************************************)
EXTENDS VaultMerge

CONSTANTS Browsers, Tabs,
          HomeOf,      \* the browser each tab runs in
          NoTab,       \* the sender of a request whose tab is gone
          Overlap,     \* may two writers of one browser overlap?
          MayExport,   \* does anybody export the vault to a file?
          MaxClock,    \* bound: the last time at which a person writes
          MaxFaults    \* bound: failed requests and closed tabs

MaxRetries == 2

ASSUME HomeAssumption == HomeOf \in [Tabs -> Browsers]
ASSUME NoTabAssumption == NoTab \notin Tabs
ASSUME OverlapAssumption == Overlap \in BOOLEAN /\ MayExport \in BOOLEAN
ASSUME BoundAssumption == MaxClock \in Nat /\ MaxFaults \in Nat

(* For the runs: every tab in a browser of its own, named after it, or all *)
(* of them in one.                                                         *)
ItsOwn == [t \in Tabs |-> t]
OneBrowser == [t \in Tabs |-> CHOOSE b \in Browsers : TRUE]

VARIABLES
  server,   \* the vault_blob row: version (0: no row) and document
  store,    \* what each browser's IndexedDB holds
  clock,    \* each browser's last Date.now() used as a stamp
  sync,     \* the runSync or restoreVault call of each tab
  del,      \* the deleteHost (deleteKey, unpin, ...) call of each tab
  wire,     \* PUT requests sent and not answered
  backup,   \* the exported vault file
  faults,
  saved,    \* history: last stamp a person saved each record with, here
  deleted   \* history: last time a person deleted each record, here

vars == <<server, store, clock, sync, del, wire, backup, faults, saved, deleted>>

-------------------------------------------------------------------------------
Phases == {"idle", "pull", "read", "tombs", "apply", "forget", "sent"}

(* From the first read of the local store to the last write to it. *)
Window == {"tombs", "apply", "forget"}

Call == [phase : Phases, retries : 0..MaxRetries, restoring : BOOLEAN,
         base : Nat, remote : Document, local : Document, merged : Document,
         todo : SUBSET Ids, gone : SUBSET Ids]

NoCall == [phase |-> "idle", retries |-> 0, restoring |-> FALSE,
           base |-> 0, remote |-> EmptyDoc, local |-> EmptyDoc,
           merged |-> EmptyDoc, todo |-> {}, gone |-> {}]

Deletion == [phase : {"none", "row", "read"}, ids : SUBSET Ids, tomb : [Ids -> Nat]]

NoDeletion == [phase |-> "none", ids |-> {}, tomb |-> EmptyDoc.tomb]

Request == [from : Tabs \cup {NoTab}, base : Nat, doc : Document]

TypeOK ==
  /\ server \in [version : Nat, doc : Document]
  /\ store \in [Browsers -> Document]
  /\ clock \in [Browsers -> Nat]
  /\ sync \in [Tabs -> Call]
  /\ del \in [Tabs -> Deletion]
  /\ wire \subseteq Request
  /\ backup \in Document
  /\ faults \in Nat
  /\ saved \in [Browsers -> [Ids -> Nat]]
  /\ deleted \in [Browsers -> [Ids -> Nat]]

Init ==
  /\ server = [version |-> 0, doc |-> EmptyDoc]
  /\ store = [b \in Browsers |-> EmptyDoc]
  /\ clock = [b \in Browsers |-> 0]
  /\ sync = [t \in Tabs |-> NoCall]
  /\ del = [t \in Tabs |-> NoDeletion]
  /\ wire = {}
  /\ backup = EmptyDoc
  /\ faults = 0
  /\ saved = [b \in Browsers |-> [i \in Ids |-> 0]]
  /\ deleted = [b \in Browsers |-> [i \in Ids |-> 0]]

-------------------------------------------------------------------------------
(* With Overlap FALSE a browser has one writer at a time: nobody edits or  *)
(* deletes between a sync's read of the store and its last write to it.    *)
(* Nothing in the code arranges that, it is an assumption on the user.     *)
Unclaimed(b) ==
  Overlap \/ \A t \in Tabs : HomeOf[t] = b =>
               sync[t].phase \notin Window /\ del[t].phase = "none"

PutRow(b, i, r)  == store' = [store EXCEPT ![b].rec[i] = r]
DropRow(b, i)    == store' = [store EXCEPT ![b].rec[i] = NoRecord]
PutTombs(b, m)   == store' = [store EXCEPT ![b].tomb = m]

(* saveHost, saveSnippet, pin and storing a generated key: the record is   *)
(* written with the browser's clock as its stamp.                          *)
Save(t, i, v, now) ==
  LET b == HomeOf[t] IN
  /\ Unclaimed(b)
  /\ now > clock[b]
  /\ clock' = [clock EXCEPT ![b] = now]
  /\ PutRow(b, i, [stamp |-> now, val |-> v])
  /\ saved' = [saved EXCEPT ![b][i] = now]
  /\ UNCHANGED <<server, sync, del, wire, backup, faults, deleted>>

(* deleteHost, deleteKey, deleteSnippet, unpin: the row goes first, then   *)
(* recordDeletion reads the tombstone map and writes it back with one      *)
(* entry more.                                                             *)
DeleteRow(t, i) ==
  LET b == HomeOf[t] IN
  /\ Unclaimed(b)
  /\ del[t].phase = "none"
  /\ i \in Held(store[b])
  /\ clock[b] < MaxClock
  /\ clock' = [clock EXCEPT ![b] = @ + 1]
  /\ DropRow(b, i)
  /\ saved' = [saved EXCEPT ![b][i] = 0]
  /\ del' = [del EXCEPT ![t] = [NoDeletion EXCEPT !.phase = "row", !.ids = {i}]]
  /\ UNCHANGED <<server, sync, wire, backup, faults, deleted>>

GetTombstones(t) ==
  /\ del[t].phase = "row"
  /\ del' = [del EXCEPT ![t].phase = "read", ![t].tomb = store[HomeOf[t]].tomb]
  /\ UNCHANGED <<server, store, clock, sync, wire, backup, faults, saved, deleted>>

RecordDeletion(t, now) ==
  LET b == HomeOf[t] IN
  /\ del[t].phase = "read"
  /\ now >= clock[b]
  /\ clock' = [clock EXCEPT ![b] = now]
  /\ PutTombs(b, [i \in Ids |-> IF i \in del[t].ids THEN now ELSE del[t].tomb[i]])
  /\ deleted' = [deleted EXCEPT ![b] =
                   [i \in Ids |-> IF i \in del[t].ids THEN now ELSE @[i]]]
  /\ del' = [del EXCEPT ![t] = NoDeletion]
  /\ UNCHANGED <<server, sync, wire, backup, faults, saved>>

-------------------------------------------------------------------------------
(* runSync: GET /api/vault and the decryption of what it returned.  A      *)
(* cycle starts on unlock, on focus, on a timer or after a write, with     *)
(* syncVault's two retries; "pull" is a cycle that has some of them left.  *)
Pull(t) ==
  /\ sync[t].phase \in {"idle", "pull"}
  /\ sync' = [sync EXCEPT
       ![t] = [NoCall EXCEPT !.phase = "read",
                             !.base = server.version,
                             !.remote = server.doc,
                             !.retries = IF sync[t].phase = "idle"
                                         THEN MaxRetries ELSE sync[t].retries]]
  /\ UNCHANGED <<server, store, clock, del, wire, backup, faults, saved, deleted>>

(* restoreVault: the same merge against a decrypted export, then a sync.   *)
Restore(t) ==
  /\ sync[t].phase = "idle"
  /\ backup # EmptyDoc
  /\ sync' = [sync EXCEPT ![t] = [NoCall EXCEPT !.phase = "read", !.restoring = TRUE,
                                                !.remote = backup]]
  /\ UNCHANGED <<server, store, clock, del, wire, backup, faults, saved, deleted>>

(* Saving the vault to a file: the settings page keeps the stored blob. *)
Export ==
  /\ MayExport
  /\ server.version > 0
  /\ backup' = server.doc
  /\ UNCHANGED <<server, store, clock, sync, del, wire, faults, saved, deleted>>

(* readLocalVault: the record stores and the tombstone map are separate    *)
(* transactions.                                                           *)
ReadRecords(t) ==
  /\ sync[t].phase = "read"
  /\ Unclaimed(HomeOf[t])
  /\ sync' = [sync EXCEPT ![t].phase = "tombs", ![t].local.rec = store[HomeOf[t]].rec]
  /\ UNCHANGED <<server, store, clock, del, wire, backup, faults, saved, deleted>>

Merged(t) ==
  MergeVault([sync[t].local EXCEPT !.tomb = store[HomeOf[t]].tomb], sync[t].remote)

(* removeDeleted: what the read held and the merge does not. *)
NothingGone(t, merged) == {}   \* mutant: the removal half is missing
Gone(t, merged) == Held(sync[t].local) \ Held(merged)

ReadTombstones(t) ==
  LET merged == Merged(t) IN
  /\ sync[t].phase = "tombs"
  /\ sync' = [sync EXCEPT ![t].phase = "apply", ![t].merged = merged,
                          ![t].todo = Held(merged),
                          ![t].gone = Gone(t, merged),
                          ![t].local = EmptyDoc]
  /\ UNCHANGED <<server, store, clock, del, wire, backup, faults, saved, deleted>>

(* applyVaultLocally: one upsert per merged record, the tombstone map, and *)
(* then the records the read held and the merge dropped.                   *)
ApplyRecord(t, i) ==
  /\ sync[t].phase = "apply"
  /\ i \in sync[t].todo
  /\ PutRow(HomeOf[t], i, sync[t].merged.rec[i])
  /\ sync' = [sync EXCEPT ![t].todo = @ \ {i}]
  /\ UNCHANGED <<server, clock, del, wire, backup, faults, saved, deleted>>

ApplyTombstones(t) ==
  /\ sync[t].phase = "apply"
  /\ sync[t].todo = {}
  /\ PutTombs(HomeOf[t], sync[t].merged.tomb)
  /\ sync' = [sync EXCEPT ![t].phase = "forget"]
  /\ UNCHANGED <<server, clock, del, wire, backup, faults, saved, deleted>>

ForgetRecord(t, i) ==
  /\ sync[t].phase = "forget"
  /\ i \in sync[t].gone
  /\ DropRow(HomeOf[t], i)
  /\ sync' = [sync EXCEPT ![t].gone = @ \ {i}]
  /\ UNCHANGED <<server, clock, del, wire, backup, faults, saved, deleted>>

Applied(t) == sync[t].phase = "forget" /\ sync[t].gone = {}

(* restoreVault ends with an ordinary sync. *)
Restored(t) ==
  /\ Applied(t)
  /\ sync[t].restoring
  /\ sync' = [sync EXCEPT ![t] = [NoCall EXCEPT !.phase = "pull", !.retries = MaxRetries]]
  /\ UNCHANGED <<server, store, clock, del, wire, backup, faults, saved, deleted>>

-------------------------------------------------------------------------------
(* sameRecords: nothing to say, and the server already holds a document. *)
SameRecords(t) == sync[t].base > 0 /\ sync[t].merged = sync[t].remote

UpToDate(t) ==
  /\ Applied(t)
  /\ ~sync[t].restoring
  /\ SameRecords(t)
  /\ sync' = [sync EXCEPT ![t] = NoCall]
  /\ UNCHANGED <<server, store, clock, del, wire, backup, faults, saved, deleted>>

SendPut(t) ==
  /\ Applied(t)
  /\ ~sync[t].restoring
  /\ ~SameRecords(t)
  /\ wire' = wire \cup {[from |-> t, base |-> sync[t].base, doc |-> sync[t].merged]}
  /\ sync' = [sync EXCEPT ![t] = [NoCall EXCEPT !.phase = "sent", !.retries = sync[t].retries]]
  /\ UNCHANGED <<server, store, clock, del, backup, faults, saved, deleted>>

(* PUT /api/vault: the insert of a first blob does nothing when a row      *)
(* exists, an update matches only the version it was computed from, and    *)
(* both answer 409 when nothing was written.                               *)
MatchesBlindly(m) == m.base <= server.version   \* mutant: check, then overwrite
Matches(m) == m.base = server.version

WriteBlob(m) ==
  server' = IF Matches(m) THEN [version |-> m.base + 1, doc |-> m.doc] ELSE server

(* What the waiting tab does with the answer: done, or on a 409 the whole  *)
(* cycle again while there are retries left, or an exception.              *)
Answered(m) ==
  [t \in Tabs |->
    IF t # m.from THEN sync[t]
    ELSE IF ~Matches(m) /\ sync[t].retries > 0
         THEN [NoCall EXCEPT !.phase = "pull", !.retries = sync[t].retries - 1]
         ELSE NoCall]

ServerPut(m) ==
  /\ WriteBlob(m)
  /\ sync' = Answered(m)
  /\ wire' = wire \ {m}
  /\ UNCHANGED <<store, clock, del, backup, faults, saved, deleted>>

-------------------------------------------------------------------------------
(* Failures. *)
Fault == faults < MaxFaults /\ faults' = faults + 1

(* The pull does not reach the server, or is refused, or does not decrypt. *)
PullFails(t) ==
  /\ sync[t].phase = "pull"
  /\ Fault
  /\ sync' = [sync EXCEPT ![t] = NoCall]
  /\ UNCHANGED <<server, store, clock, del, wire, backup, saved, deleted>>

(* The push is refused or never arrives; the sender sees an exception. *)
PutFails(m) ==
  /\ Fault
  /\ sync' = [t \in Tabs |-> IF t = m.from THEN NoCall ELSE sync[t]]
  /\ wire' = wire \ {m}
  /\ UNCHANGED <<server, store, clock, del, backup, saved, deleted>>

(* The server acts on the push, the answer is lost and the request is sent *)
(* again by the transport.                                                 *)
PutRepeated(m) ==
  /\ Fault
  /\ WriteBlob(m)
  /\ UNCHANGED <<store, clock, sync, del, wire, backup, saved, deleted>>

(* A reload or a closed tab ends whatever the tab was doing, between any   *)
(* two of its steps.  A request it sent may still arrive.                  *)
CloseTab(t) ==
  /\ sync[t].phase # "idle" \/ del[t].phase # "none"
  /\ Fault
  /\ sync' = [sync EXCEPT ![t] = NoCall]
  /\ del' = [del EXCEPT ![t] = NoDeletion]
  /\ wire' = {IF m.from = t THEN [m EXCEPT !.from = NoTab] ELSE m : m \in wire}
  /\ UNCHANGED <<server, store, clock, backup, saved, deleted>>

-------------------------------------------------------------------------------
DeleteStep(t) ==
  \/ GetTombstones(t)
  \/ \E now \in 1..MaxClock : RecordDeletion(t, now)

SyncStep(t) ==
  \/ Pull(t)
  \/ ReadRecords(t) \/ ReadTombstones(t)
  \/ \E i \in Ids : ApplyRecord(t, i) \/ ForgetRecord(t, i)
  \/ ApplyTombstones(t) \/ Restored(t)
  \/ UpToDate(t) \/ SendPut(t)

UserStep(t) ==
  \/ \E i \in Ids, v \in Vals, now \in 1..MaxClock : Save(t, i, v, now)
  \/ \E i \in Ids : DeleteRow(t, i)
  \/ Restore(t)

ServerStep == \E m \in wire : ServerPut(m)

FaultStep ==
  \/ \E t \in Tabs : PullFails(t) \/ CloseTab(t)
  \/ \E m \in wire : PutFails(m) \/ PutRepeated(m)

Next ==
  \/ \E t \in Tabs : UserStep(t) \/ DeleteStep(t) \/ SyncStep(t)
  \/ Export
  \/ ServerStep
  \/ FaultStep

Spec == Init /\ [][Next]_vars

(* A running call goes on, every open tab syncs again sooner or later (the *)
(* timer), and the server answers what reaches it.  Nobody has to edit,    *)
(* export or restore, and nothing has to fail.                             *)
Fairness ==
  /\ \A t \in Tabs : WF_vars(SyncStep(t)) /\ WF_vars(DeleteStep(t))
  /\ WF_vars(ServerStep)

FairSpec == Spec /\ Fairness

-------------------------------------------------------------------------------
(* Properties *)

(* A write to the server carries on everything the server held: no record  *)
(* of another device is dropped except for a newer write or a deletion,    *)
(* and no deletion is forgotten, whatever the interleaving of pulls, late  *)
(* or repeated pushes and closed tabs (route.ts PUT, sync.ts runSync).     *)
ServerNeverLoses == [][Covers(server'.doc, server.doc)]_vars

(* The server never lists a record that it also knows to be deleted. *)
ServerClean == Clean(server.doc)

(* The server's document is the account's one vault: every step of every   *)
(* device either leaves it alone or publishes a successor that loses       *)
(* nothing (sync.ts:9-10, route.ts PUT).                                   *)
Shared == INSTANCE SharedVault WITH doc <- server.doc
IsSharedVault == Shared!Spec

(* A pull that is still current: the document it returned is the server's  *)
(* as long as nobody has written since.                                    *)
PulledCurrent ==
  \A t \in Tabs :
    sync[t].phase \in Window \cup {"read"} /\ ~sync[t].restoring =>
      /\ sync[t].base <= server.version
      /\ sync[t].base = server.version => sync[t].remote = server.doc

MergedCovers ==
  \A t \in Tabs :
    sync[t].phase \in {"apply", "forget"} =>
      Clean(sync[t].merged) /\ Covers(sync[t].merged, sync[t].remote)

(* Every push in flight that the server would still accept carries on what *)
(* the server holds, and stays that way while it is delayed, repeated or   *)
(* orphaned: the argument for baseVersion (route.ts PUT).                  *)
PushIsCurrent ==
  \A m \in wire :
    /\ Clean(m.doc)
    /\ m.base <= server.version
    /\ m.base = server.version => Covers(m.doc, server.doc)

(* What a person saved here stays here until a newer write or a deletion   *)
(* replaces it: applyVaultLocally does not overwrite it with an older copy *)
(* and does not remove it.                                                 *)
EditKept ==
  \A b \in Browsers, i \in Ids :
    saved[b][i] <= store[b].rec[i].stamp \/ saved[b][i] <= store[b].tomb[i]

(* A recorded deletion stays recorded: setTombstones never writes a map    *)
(* without it.                                                             *)
DeletionKept ==
  \A b \in Browsers, i \in Ids : deleted[b][i] <= store[b].tomb[i]

(* Once people stop writing and requests stop failing, every browser holds *)
(* exactly what the server holds.                                          *)
Convergence == <>[](\A b \in Browsers : store[b] = server.doc)

(* A record deleted on one device is in the end listed on no device, save  *)
(* for a later write of it.                                                *)
DeletedStaysGone ==
  <>[](\A b, c \in Browsers, i \in Ids :
        i \in Held(store[c]) => store[c].rec[i].stamp > deleted[b][i])

(* With the devices online and nothing edited any more, both end up with   *)
(* the server's document, and what was deleted stays gone (sync.ts).       *)
Settles == Convergence /\ DeletedStaysGone

(* A restored file takes away neither a later edit nor a later deletion    *)
(* (restore.ts).                                                           *)
RestoreKeeps == EditKept /\ DeletionKept
===============================================================================
