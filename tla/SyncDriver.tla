------------------------------ MODULE SyncDriver ------------------------------
(***************************************************************************)
(* When the vault syncs (apps/web/src/lib/vault/auto-sync.ts), in one tab: *)
(* the single sync in flight, who joins it and who waits for the next one, *)
(* and when the pages on screen read the store again.                      *)
(*                                                                         *)
(* How two documents merge is VaultMerge's subject; here records are only  *)
(* added, so a merge is a union, and the account already has a document.   *)
(***************************************************************************)
EXTENDS Naturals

CONSTANTS Records,
          Callers,     \* page handlers that save a record and push it
          NoRec,       \* a handler that has saved nothing yet
          MaxFaults    \* bound: failed cycles and lock() calls

DriverAssumption == NoRec \notin Records /\ MaxFaults \in Nat

VARIABLES
  unlocked,  \* does this tab hold the vault key?
  server,    \* the records of the server's document
  local,     \* the records in IndexedDB
  view,      \* the records on screen
  bumped,    \* the revision moved and the page has not read again yet
  run,       \* the sync in flight
  caller,    \* the pushLocalChange call of each handler
  faults

vars == <<unlocked, server, local, view, bumped, run, caller, faults>>

MaxRetries == 2

NoRun == [phase |-> "none", retries |-> 0, remote |-> {}, snap |-> {}]

TypeOK ==
  /\ unlocked \in BOOLEAN /\ bumped \in BOOLEAN /\ faults \in 0..MaxFaults
  /\ server \subseteq Records /\ local \subseteq Records /\ view \subseteq Records
  /\ run \in [phase : {"none", "started", "pulled", "read", "landed"},
              retries : 0..MaxRetries,
              remote : SUBSET Records, snap : SUBSET Records]
  /\ caller \in [Callers -> [rec : Records \cup {NoRec},
                             state : {"idle", "wrote", "waits", "ready", "joined", "ok", "failed"}]]

Init ==
  /\ unlocked = FALSE /\ bumped = FALSE /\ faults = 0
  /\ server = {} /\ local = {} /\ view = {}
  /\ run = NoRun
  /\ caller = [c \in Callers |-> [rec |-> NoRec, state |-> "idle"]]

-------------------------------------------------------------------------------
InFlight == run.phase # "none"

(* syncNow: the sync in flight, or a new one, or nothing when locked. *)
StartRun == run' = [NoRun EXCEPT !.phase = "started", !.retries = MaxRetries]

(* Unlocking the vault is itself a trigger (VaultSync's effect). *)
Unlock ==
  /\ ~unlocked
  /\ unlocked' = TRUE
  /\ IF InFlight THEN UNCHANGED run ELSE StartRun
  /\ UNCHANGED <<server, local, view, bumped, caller, faults>>

(* focus, online, visibilitychange and the timer. *)
Trigger ==
  /\ unlocked /\ ~InFlight
  /\ StartRun
  /\ UNCHANGED <<unlocked, server, local, view, bumped, caller, faults>>

(* A page saves a record, reads the store again and calls pushLocalChange. *)
Write(c, r) ==
  /\ caller[c].state = "idle"
  /\ r \notin local
  /\ local' = local \cup {r}
  /\ view' = local'
  /\ caller' = [caller EXCEPT ![c] = [rec |-> r, state |-> "wrote"]]
  /\ UNCHANGED <<unlocked, server, bumped, run, faults>>

(* pushLocalChange: wait for a sync that is already running, because it    *)
(* may have read the store before this write; then syncNow.                *)
JoinOrStart(c) ==
  IF InFlight \/ unlocked
  THEN /\ caller' = [caller EXCEPT ![c].state = "joined"]
       /\ IF InFlight THEN UNCHANGED run ELSE StartRun
  ELSE /\ caller' = [caller EXCEPT ![c].state = "failed"]
       /\ UNCHANGED run

PushLocalChange(c) ==
  /\ caller[c].state = "wrote"
  /\ \/ /\ InFlight
        /\ caller' = [caller EXCEPT ![c].state = "waits"]
        /\ UNCHANGED run
     \/ /\ ~InFlight
        /\ JoinOrStart(c)
  /\ UNCHANGED <<unlocked, server, local, view, bumped, faults>>

(* The awaited sync has settled and the handler goes on to syncNow. *)
Continue(c) ==
  /\ caller[c].state = "ready"
  /\ JoinOrStart(c)
  /\ UNCHANGED <<unlocked, server, local, view, bumped, faults>>

-------------------------------------------------------------------------------
(* One syncVault cycle: pull, read the store, land the merge in it, push.  *)
Pull ==
  /\ run.phase = "started"
  /\ run' = [run EXCEPT !.phase = "pulled", !.remote = server]
  /\ UNCHANGED <<unlocked, server, local, view, bumped, caller, faults>>

Read ==
  /\ run.phase = "pulled"
  /\ run' = [run EXCEPT !.phase = "read", !.snap = local]
  /\ UNCHANGED <<unlocked, server, local, view, bumped, caller, faults>>

Land ==
  /\ run.phase = "read"
  /\ run' = [run EXCEPT !.phase = "landed"]
  /\ local' = local \cup run.remote
  /\ UNCHANGED <<unlocked, server, view, bumped, caller, faults>>

(* The promise settles: nothing is in flight any more, those who joined it *)
(* have their result, those who waited for it go on.                       *)
SettleDeaf(result) ==   \* mutant: those who waited are not told
  /\ run' = NoRun
  /\ caller' = [c \in Callers |->
       IF caller[c].state = "joined" THEN [caller[c] EXCEPT !.state = result]
       ELSE caller[c]]

Settle(result) ==
  /\ run' = NoRun
  /\ caller' = [c \in Callers |->
       CASE caller[c].state = "joined" -> [caller[c] EXCEPT !.state = result]
         [] caller[c].state = "waits"  -> [caller[c] EXCEPT !.state = "ready"]
         [] OTHER                      -> caller[c]]

(* sameRecords: the merge says nothing the server does not already hold. *)
SameRecords == run.snap \subseteq run.remote

UpToDate ==
  /\ run.phase = "landed"
  /\ SameRecords
  /\ Settle("ok")
  /\ UNCHANGED <<unlocked, server, local, view, bumped, faults>>

Pushed ==
  /\ run.phase = "landed"
  /\ ~SameRecords
  /\ server = run.remote
  /\ server' = server \cup run.snap
  /\ bumped' = TRUE
  /\ Settle("ok")
  /\ UNCHANGED <<unlocked, local, view, faults>>

(* A 409: the whole cycle again, twice at most, then an exception. *)
Conflict ==
  /\ run.phase = "landed"
  /\ ~SameRecords
  /\ server # run.remote
  /\ IF run.retries > 0
     THEN /\ run' = [NoRun EXCEPT !.phase = "started", !.retries = run.retries - 1]
          /\ UNCHANGED caller
     ELSE Settle("failed")
  /\ UNCHANGED <<unlocked, server, local, view, bumped, faults>>

-------------------------------------------------------------------------------
Fault == faults < MaxFaults /\ faults' = faults + 1

(* The pull does not reach the server: a status, so the revision moves. *)
Offline ==
  /\ run.phase = "started"
  /\ Fault
  /\ bumped' = TRUE
  /\ Settle("failed")
  /\ UNCHANGED <<unlocked, server, local, view>>

(* An exception: the pull is refused or does not decrypt, or the push      *)
(* fails after the merge has landed here.                                  *)
Fails ==
  /\ run.phase \in {"started", "landed"}
  /\ Fault
  /\ Settle("failed")
  /\ UNCHANGED <<unlocked, server, local, view, bumped>>

(* lock() drops the key; a sync in flight keeps the one it was given. *)
Lock ==
  /\ unlocked
  /\ Fault
  /\ unlocked' = FALSE
  /\ UNCHANGED <<server, local, view, bumped, run, caller>>

-------------------------------------------------------------------------------
(* useVaultRevision: a page that depends on it reads the store again. *)
Reread ==
  /\ bumped
  /\ bumped' = FALSE
  /\ view' = local
  /\ UNCHANGED <<unlocked, server, local, run, caller, faults>>

(* Another device of the account. *)
OtherDevice(r) ==
  /\ r \notin server
  /\ server' = server \cup {r}
  /\ UNCHANGED <<unlocked, local, view, bumped, run, caller, faults>>

DriverStep ==
  \/ Trigger
  \/ Pull \/ Read \/ Land
  \/ UpToDate \/ Pushed \/ Conflict

HandlerStep(c) == PushLocalChange(c) \/ Continue(c)

Next ==
  \/ DriverStep \/ Unlock \/ Reread
  \/ \E c \in Callers : HandlerStep(c) \/ \E r \in Records : Write(c, r)
  \/ \E r \in Records : OtherDevice(r)
  \/ Offline \/ Fails \/ Lock

Spec == Init /\ [][Next]_vars

(* The timer keeps firing in an open tab, and promises and effects run.    *)
(* Nobody has to unlock a locked one.                                      *)
FairSpec ==
  /\ Spec
  /\ WF_vars(DriverStep) /\ WF_vars(Reread)
  /\ \A c \in Callers : WF_vars(HandlerStep(c))

-------------------------------------------------------------------------------
(* pushLocalChange "always ends with a sync that began after the caller's  *)
(* write": when it reports success the record is on the server.            *)
PushedIsOnServer ==
  \A c \in Callers : caller[c].state = "ok" => caller[c].rec \in server

(* Whatever was saved here reaches the server, whoever's call carried it,  *)
(* unless the vault is locked again before it could.                       *)
WritesLeave ==
  \A r \in Records : []<>(r \in local => r \in server \/ ~unlocked)

(* Every push a page is waiting for settles: nobody waits for a sync that  *)
(* is itself waiting.                                                      *)
PushSettles ==
  \A c \in Callers : []<>(caller[c].state \notin {"wrote", "joined", "waits"})
===============================================================================
