------------------------------- MODULE Records --------------------------------
(***************************************************************************)
(* The hosts, keys and snippets pages over this browser's IndexedDB while  *)
(* a sync writes to it (dashboard/hosts, keys and snippets/page.tsx,       *)
(* lib/hosts.ts, keys.ts, snippets.ts, vault/sync.ts). One page is open.   *)
(* Hosts and keys are rows of their own; the snippets are one map, read    *)
(* and written whole. Every IndexedDB request is a step, and nothing       *)
(* orders the page's writes and the sync's. A record is its stamp, 0 for   *)
(* none; what other devices did is any change the merge may bring.         *)
(***************************************************************************)
EXTENDS Naturals

CONSTANTS Ids, None,
          MaxStamp   \* bound: the last stamp written

RecordsAssumption == None \notin Ids /\ MaxStamp \in Nat \ {0}

VARIABLES
  kind,      \* the page: "host", "key" or "snippet"
  store,     \* the records in IndexedDB
  list,      \* the list on the screen
  asked,     \* the open form or confirmation, and its record
  page,      \* the page's write in flight
  visit,     \* rememberHost between its read and its write
  sync,      \* the sync between its read and its last write
  fresh      \* history: records made here that no sync has read yet

recordVars == <<kind, store, list, asked, page, visit, sync, fresh>>

NoStore == [i \in Ids |-> 0]
NoAsk == [op |-> "none", id |-> None]
NoWrite == [op |-> "none", id |-> None, step |-> "none", map |-> NoStore]
NoSync == [step |-> "none", prev |-> NoStore, doc |-> NoStore, todo |-> {}, gone |-> {}, map |-> NoStore, at |-> None]

Init ==
  /\ kind \in {"host", "key", "snippet"}
  /\ store = NoStore /\ list = NoStore /\ asked = NoAsk /\ page = NoWrite /\ visit = None
  /\ sync = NoSync /\ fresh = {}

Held(rows) == {i \in Ids : rows[i] # 0}
Now == 1 + (CHOOSE n \in 0..MaxStamp : n \in {store[i] : i \in Ids} \cup {sync.doc[i] : i \in Ids} \cup {0}
            /\ \A i \in Ids : store[i] <= n /\ sync.doc[i] <= n)

-------------------------------------------------------------------------------
(* The dialogs: a new record has an id nobody else has; a key is made or   *)
(* deleted, never edited, and one that will sync needs the vault key.      *)
Unused(i) == 0 = store[i] /\ 0 = list[i] /\ 0 = sync.doc[i] /\ 0 = sync.prev[i] /\ visit # i

Opens(op, i) ==
  /\ asked = NoAsk /\ page = NoWrite /\ asked' = [op |-> op, id |-> i]
  /\ UNCHANGED <<kind, store, list, page, visit, sync, fresh>>

OpenHost(i) == kind = "host" /\ (Unused(i) \/ list[i] # 0) /\ Opens("save", i)
OpenSnippet(i) == kind = "snippet" /\ (Unused(i) \/ list[i] # 0) /\ Opens("save", i)
OpenGenerate(i) == kind = "key" /\ Unused(i) /\ Opens("save", i)

RemoveHost(i) == kind = "host" /\ list[i] # 0 /\ Opens("delete", i)
RemoveSnippet(i) == kind = "snippet" /\ list[i] # 0 /\ Opens("delete", i)
RemoveKey(i) == kind = "key" /\ list[i] # 0 /\ Opens("delete", i)

Cancel ==
  /\ asked # NoAsk /\ asked' = NoAsk
  /\ UNCHANGED <<kind, store, list, page, visit, sync, fresh>>

(* The handlers begin their write. *)
Begins(op, step) ==
  /\ asked.op = op /\ asked' = NoAsk
  /\ page' = [op |-> op, id |-> asked.id, map |-> NoStore, step |-> step]
  /\ UNCHANGED <<kind, store, list, visit, sync, fresh>>

SaveHost == kind = "host" /\ Begins("save", "write")
GenerateKey == kind = "key" /\ Begins("save", "write")
SaveSnippet == kind = "snippet" /\ Begins("save", "read")
DeleteHost == kind = "host" /\ Begins("delete", "write")
DeleteKey == kind = "key" /\ Begins("delete", "write")
DeleteSnippet == kind = "snippet" /\ Begins("delete", "read")

-------------------------------------------------------------------------------
(* saveSnippet and deleteSnippet read the map first. *)
ReadMap ==
  /\ page.step = "read" /\ page' = [page EXCEPT !.step = "write", !.map = store]
  /\ UNCHANGED <<kind, store, list, asked, visit, sync, fresh>>

(* The map is written back whole; a row is put or deleted by itself. *)
Base == IF kind = "snippet" THEN page.map ELSE store

Write ==
  /\ page.step = "write" /\ (page.op = "save" => Now <= MaxStamp)
  /\ store' = [Base EXCEPT ![page.id] = IF page.op = "save" THEN Now ELSE 0]
  /\ fresh' = IF page.op = "delete" THEN fresh \ {page.id}
              ELSE IF Unused(page.id) THEN fresh \cup {page.id} ELSE fresh
  /\ page' = [page EXCEPT !.step = "list", !.map = NoStore]
  /\ UNCHANGED <<kind, list, asked, visit, sync>>

WriteFails ==
  /\ page.step \in {"read", "write"} /\ page' = NoWrite
  /\ UNCHANGED <<kind, store, list, asked, visit, sync, fresh>>

(* The list is read again, and the change is pushed: see SyncDriver. *)
Relists ==
  /\ page.step = "list" /\ list' = store /\ page' = NoWrite
  /\ UNCHANGED <<kind, store, asked, visit, sync, fresh>>

ListHosts == kind = "host" /\ Relists
ListKeys == kind = "key" /\ Relists
ListSnippets == kind = "snippet" /\ Relists

(* rememberHost after a connection: the row it read goes back, restamped. *)
VisitReads(i) ==
  /\ kind = "host" /\ visit = None /\ store[i] # 0 /\ visit' = i
  /\ UNCHANGED <<kind, store, list, asked, page, sync, fresh>>

VisitWrites ==
  /\ visit # None /\ Now <= MaxStamp
  /\ store' = [store EXCEPT ![visit] = Now] /\ visit' = None
  /\ UNCHANGED <<kind, list, asked, page, sync, fresh>>

-------------------------------------------------------------------------------
(* A sync, which an unlocked vault runs, reads the stores and merges: what *)
(* it read, what another device wrote later, or nothing where it deleted.  *)
SyncReads ==
  /\ sync = NoSync
  /\ \E doc \in [Ids -> 0..MaxStamp] :
       /\ \A i \in Ids : doc[i] \in {0, store[i], store[i] + 1}
       /\ sync' = [NoSync EXCEPT !.step = "put", !.prev = store, !.doc = doc, !.todo = Held(doc)]
  /\ fresh' = fresh \ Held(store)
  /\ UNCHANGED <<kind, store, list, asked, page, visit>>

Next1(i) == i \in IF sync.step = "put" THEN sync.todo ELSE sync.gone

(* putSnippet and forgetSnippet read the map for each record. *)
SyncReadsMap(i) ==
  /\ kind = "snippet" /\ sync.at = None /\ Next1(i)
  /\ sync' = [sync EXCEPT !.map = store, !.at = i]
  /\ UNCHANGED <<kind, store, list, asked, page, visit, fresh>>

Done(i) == [sync EXCEPT !.todo = @ \ {i}, !.at = None, !.map = NoStore,
                        !.gone = IF sync.step = "forget" THEN @ \ {i} ELSE @]

SyncWrites(i) ==
  /\ Next1(i) /\ (kind = "snippet" => sync.at = i)
  /\ store' = [(IF kind = "snippet" THEN sync.map ELSE store) EXCEPT ![i] = sync.doc[i]]
  /\ sync' = Done(i)
  /\ UNCHANGED <<kind, list, asked, page, visit, fresh>>

(* setTombstones, and then removeDeleted. *)
GoneNow(rows, doc) == {i \in Held(rows) \cup Held(store) : doc[i] = 0}   \* mutant: all that is not merged
Gone(rows, doc) == {i \in Held(rows) : doc[i] = 0}

SyncForgets ==
  /\ sync.step = "put" /\ sync.todo = {} /\ sync' = [sync EXCEPT !.step = "forget", !.gone = Gone(sync.prev, sync.doc)]
  /\ UNCHANGED <<kind, store, list, asked, page, visit, fresh>>

(* It ends, the revision moves and the page reads again; or it throws.     *)
SyncEnds ==
  /\ sync.step = "forget" /\ sync.gone = {} /\ sync' = NoSync
  /\ list' = store
  /\ UNCHANGED <<kind, store, asked, page, visit, fresh>>

SyncFails ==
  /\ sync # NoSync /\ sync' = NoSync
  /\ UNCHANGED <<kind, store, list, asked, page, visit, fresh>>

Next ==
  \/ \E i \in Ids :
       \/ OpenHost(i) \/ OpenSnippet(i) \/ OpenGenerate(i)
       \/ RemoveHost(i) \/ RemoveSnippet(i) \/ RemoveKey(i)
       \/ VisitReads(i) \/ SyncReadsMap(i) \/ SyncWrites(i)
  \/ Cancel \/ SaveHost \/ GenerateKey \/ SaveSnippet \/ DeleteHost \/ DeleteKey \/ DeleteSnippet
  \/ ReadMap \/ Write \/ WriteFails \/ ListHosts \/ ListKeys \/ ListSnippets \/ VisitWrites
  \/ SyncReads \/ SyncForgets \/ SyncEnds \/ SyncFails

Spec == Init /\ [][Next]_recordVars

-------------------------------------------------------------------------------
(* A host or a key that was made here while a sync was at work is not      *)
(* touched by it (sync.ts:271-272), whatever order their writes land in.   *)
NewKept == kind # "snippet" => \A i \in fresh : store[i] # 0
===============================================================================
