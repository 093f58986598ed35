------------------------------ MODULE VaultRekey ------------------------------
(***************************************************************************)
(* Changing the password (apps/web/src/lib/vault/rekey.ts), together with  *)
(* everything it races: ordinary syncs, key generation, recovery codes,    *)
(* other tabs and other browsers.                                          *)
(*                                                                         *)
(* A password stands for the auth token and the vault key derived from it. *)
(* The vault blob is sealed with one vault key, and every portable SSH key *)
(* carries a wrapping of its own, in the blob and in each browser's        *)
(* IndexedDB: a wrapping is the password whose vault key opens it, 0 when  *)
(* the key is not there.  Records other than portable keys do not depend   *)
(* on the password; VaultSync has them.  The blob and the credential are   *)
(* two writes without a common transaction.                                *)
(***************************************************************************)
EXTENDS Naturals

CONSTANTS Keys,         \* portable SSH keys
          Browsers, Tabs,
          HomeOf,       \* the browser each tab runs in
          NoTab,        \* the sender of a request nobody waits for
          MaxPassword,  \* passwords are numbered as they are chosen
          MayReuse,     \* may a change go back to an earlier password?
          MayEnrol,     \* does anybody enrol recovery codes?
          MaxVersion,   \* bound: no needless push or new change from here on
          MaxFaults     \* bound: lost requests, lost answers, closed tabs

ASSUME RekeyAssumption ==
  /\ HomeOf \in [Tabs -> Browsers] /\ NoTab \notin Tabs
  /\ MaxPassword \in Nat \ {0} /\ MayReuse \in BOOLEAN /\ MayEnrol \in BOOLEAN
  /\ MaxVersion \in Nat /\ MaxFaults \in Nat

\* For the runs: every tab in a browser of its own, named after it.
ItsOwn == [t \in Tabs |-> t]

Passwords == 1..MaxPassword
Wraps == [Keys -> 0..MaxPassword]
NoKeys == [k \in Keys |-> 0]

VARIABLES
  credential,  \* the password the auth service accepts
  blob,        \* the vault_blob row
  store,       \* each browser's IndexedDB: its key wrappings
  signed,      \* has the browser a live session cookie?
  key,         \* the vault key in each tab's memory, 0 when locked
  call,        \* the syncVault or rekey call of each tab
  wire,        \* requests that change the server, sent and not handled
  codes,       \* the secrets sealed in the recovery envelopes, 0: none
  faults

vars == <<credential, blob, store, signed, key, call, wire, codes, faults>>

-------------------------------------------------------------------------------
Phases == {"idle", "pull", "apply", "put", "reread", "push", "change",
           "install", "keys", "codes", "done", "stranded"}

Free(t) == call[t].phase \in {"idle", "done", "stranded"}

(* A call with new = 0 is an ordinary sync with the vault key old. *)
Call == [phase : Phases, old : 0..MaxPassword, new : 0..MaxPassword,
         base : Nat, wraps : Wraps, resumed : BOOLEAN]

NoCall == [phase |-> "idle", old |-> 0, new |-> 0,
           base |-> 0, wraps |-> NoKeys, resumed |-> FALSE]

(* A PUT of a document sealed with new, merged from one sealed with old, or *)
(* a changePassword from old to new.  live: its session is not revoked.    *)
Request == [from : Tabs \cup {NoTab}, home : Browsers, type : {"put", "change"},
            old : Passwords, new : Passwords, base : Nat, wraps : Wraps,
            live : BOOLEAN]

TypeOK ==
  /\ credential \in Passwords
  /\ blob \in [version : Nat, key : Passwords, wraps : Wraps]
  /\ store \in [Browsers -> Wraps]
  /\ signed \in [Browsers -> BOOLEAN]
  /\ key \in [Tabs -> 0..MaxPassword]
  /\ call \in [Tabs -> Call]
  /\ wire \subseteq Request
  /\ codes \in 0..MaxPassword
  /\ faults \in Nat

(* An account after its first sync, with nobody signed in. *)
Init ==
  /\ credential = 1
  /\ blob = [version |-> 1, key |-> 1, wraps |-> NoKeys]
  /\ store = [b \in Browsers |-> NoKeys]
  /\ signed = [b \in Browsers |-> FALSE]
  /\ key = [t \in Tabs |-> 0]
  /\ call = [t \in Tabs |-> NoCall]
  /\ wire = {}
  /\ codes = 0
  /\ faults = 0

-------------------------------------------------------------------------------
(* The sign-in page: the derived token is checked, the vault key installed. *)
SignIn(t) ==
  /\ ~signed[HomeOf[t]] /\ Free(t)
  /\ signed' = [signed EXCEPT ![HomeOf[t]] = TRUE]
  /\ key' = [key EXCEPT ![t] = credential]
  /\ call' = [call EXCEPT ![t] = NoCall]
  /\ UNCHANGED <<credential, blob, store, wire, codes, faults>>

(* The unlock dialog derives a key from whatever is typed; nothing checks it. *)
Unlock(t, p) ==
  /\ signed[HomeOf[t]] /\ key[t] = 0
  /\ key' = [key EXCEPT ![t] = p]
  /\ UNCHANGED <<credential, blob, store, signed, call, wire, codes, faults>>

(* generateKey and importKey in portable mode; ids are fresh. *)
GenerateKey(t, k) ==
  /\ key[t] # 0
  /\ \A b \in Browsers : store[b][k] = 0
  /\ store' = [store EXCEPT ![HomeOf[t]][k] = key[t]]
  /\ UNCHANGED <<credential, blob, signed, key, call, wire, codes, faults>>

(* enrolRecoveryCodes: the typed password has to match the tab's vault key. *)
EnrolCodes(t) ==
  /\ MayEnrol
  /\ signed[HomeOf[t]] /\ key[t] # 0
  /\ codes' = key[t]
  /\ UNCHANGED <<credential, blob, store, signed, key, call, wire, faults>>

-------------------------------------------------------------------------------
Step(t, c) == call' = [call EXCEPT ![t] = c]

PutOf(t, new, base, wraps) ==
  [from |-> t, home |-> HomeOf[t], type |-> "put", old |-> call[t].old,
   new |-> new, base |-> base, wraps |-> wraps, live |-> TRUE]

ChangeOf(t, old, new) ==
  [from |-> t, home |-> HomeOf[t], type |-> "change", old |-> old,
   new |-> new, base |-> 0, wraps |-> NoKeys, live |-> TRUE]

(* GET /api/vault succeeds and what it returns opens with vault key k. *)
Opens(t, k) == signed[HomeOf[t]] /\ blob.key = k

(* Where a sync goes when it is over: the password change it was part of   *)
(* reads the vault again.                                                  *)
Synced(c) == IF c.new = 0 THEN NoCall ELSE [c EXCEPT !.phase = "reread", !.wraps = NoKeys]

(* runSync with vault key c.old, up to the decryption. *)
Pull(t, c) ==
  /\ Opens(t, c.old)
  /\ Step(t, [c EXCEPT !.phase = "apply", !.base = blob.version, !.wraps = blob.wraps])
  /\ UNCHANGED <<credential, blob, store, signed, key, wire, codes, faults>>

StartSync(t) ==
  /\ Free(t) /\ key[t] # 0
  /\ Pull(t, [NoCall EXCEPT !.old = key[t]])

PullAgain(t) == call[t].phase = "pull" /\ Pull(t, call[t])

(* A pull that is refused or does not decrypt ends the call; so does a     *)
(* conflict that has used up its retries.                                  *)
GiveUp(t) ==
  /\ call[t].phase = "pull"
  /\ Step(t, NoCall)
  /\ UNCHANGED <<credential, blob, store, signed, key, wire, codes, faults>>

(* mergeById on keys: createdAt never moves, so a tie, and the remote copy. *)
Merged(t) == [k \in Keys |->
  IF call[t].wraps[k] # 0 THEN call[t].wraps[k] ELSE store[HomeOf[t]][k]]

(* What is pushed: keys the server has never seen are introduced only if   *)
(* the vault key opens them.                                               *)
PublishesAll(t) == Merged(t)   \* mutant: nothing is withheld
Publishable(t) ==
  [k \in Keys |-> IF call[t].wraps[k] # 0 \/ Merged(t)[k] = call[t].old
                  THEN Merged(t)[k] ELSE 0]

(* applyVaultLocally, and the decision to push: without a new key to push, *)
(* a record of another kind may still call for it.                         *)
Apply(t) ==
  /\ call[t].phase = "apply"
  /\ store' = [store EXCEPT ![HomeOf[t]] = Merged(t)]
  /\ \/ /\ Publishable(t) = call[t].wraps
        /\ Step(t, Synced(call[t]))
        /\ UNCHANGED wire
     \/ /\ Publishable(t) # call[t].wraps \/ call[t].base < MaxVersion
        /\ wire' = wire \cup {PutOf(t, call[t].old, call[t].base, Publishable(t))}
        /\ Step(t, [call[t] EXCEPT !.phase = "put"])
  /\ UNCHANGED <<credential, blob, signed, key, codes, faults>>

-------------------------------------------------------------------------------
StartRekeyAfresh(t, old, new) ==   \* mutant: no half-finished change is detected
  /\ Free(t)
  /\ old # new /\ (MayReuse \/ new > old)
  /\ Opens(t, old) /\ blob.version < MaxVersion
  /\ Step(t, [NoCall EXCEPT !.old = old, !.new = new, !.phase = "pull"])
  /\ UNCHANGED <<credential, blob, store, signed, key, wire, codes, faults>>

(* rekey, the first read: the old key opens the vault and the device syncs *)
(* first, or the new one does, which is a half-finished change to resume.  *)
StartRekey(t, old, new) ==
  LET c == [NoCall EXCEPT !.old = old, !.new = new] IN
  /\ Free(t)
  /\ old # new /\ (MayReuse \/ new > old)
  /\ \/ /\ Opens(t, old) /\ blob.version < MaxVersion
        /\ Step(t, [c EXCEPT !.phase = "pull"])
        /\ UNCHANGED wire
     \/ /\ Opens(t, new)
        /\ Step(t, [c EXCEPT !.phase = "change", !.wraps = blob.wraps, !.resumed = TRUE])
        /\ wire' = wire \cup {ChangeOf(t, old, new)}
  /\ UNCHANGED <<credential, blob, store, signed, key, codes, faults>>

(* rewrapKey on every key; one that will not unwrap is kept as it is. *)
Rewrapped(wraps, old, new) ==
  [k \in Keys |-> IF wraps[k] = old THEN new ELSE wraps[k]]

(* The second read, after the sync: re-wrap, re-encrypt and push. *)
Reread(t) ==
  LET c == call[t]  wraps == Rewrapped(blob.wraps, c.old, c.new) IN
  /\ c.phase = "reread"
  /\ \/ /\ Opens(t, c.old)
        /\ wire' = wire \cup {PutOf(t, c.new, blob.version, wraps)}
        /\ Step(t, [c EXCEPT !.phase = "push", !.base = blob.version, !.wraps = wraps])
     \/ /\ ~Opens(t, c.old)
        /\ Step(t, NoCall)
        /\ UNCHANGED wire
  /\ UNCHANGED <<credential, blob, store, signed, key, codes, faults>>

-------------------------------------------------------------------------------
(* The server answers a request; nobody may be waiting for it any more. *)
Answer(m, c) == call' = IF m.from = NoTab THEN call ELSE [call EXCEPT ![m.from] = c]

(* PUT /api/vault is accepted on the version it was computed from. *)
MatchesBlindly(m) == m.live   \* mutant: the version is not compared
Matches(m) == m.live /\ m.base = blob.version

(* A tab that was re-encrypting goes on to change the credential. *)
AcceptPut(m) ==
  LET c == call[m.from] IN
  /\ m.type = "put" /\ Matches(m)
  /\ blob' = [version |-> blob.version + 1, key |-> m.new, wraps |-> m.wraps]
  /\ IF m.from # NoTab /\ c.phase = "push"
     THEN /\ Answer(m, [c EXCEPT !.phase = "change"])
          /\ wire' = (wire \ {m}) \cup {ChangeOf(m.from, c.old, c.new)}
     ELSE /\ Answer(m, Synced(c))
          /\ wire' = wire \ {m}
  /\ UNCHANGED <<credential, store, signed, key, codes, faults>>

RefusePutUnseen(m) ==   \* mutant: the push's status is not looked at
  LET c == call[m.from] IN
  /\ m.type = "put" /\ ~Matches(m)
  /\ IF m.from # NoTab /\ c.phase = "push"
     THEN /\ Answer(m, [c EXCEPT !.phase = "change"])
          /\ wire' = (wire \ {m}) \cup {ChangeOf(m.from, c.old, c.new)}
     ELSE /\ Answer(m, NoCall)
          /\ wire' = wire \ {m}
  /\ UNCHANGED <<credential, blob, store, signed, key, codes, faults>>

(* 409 or 401: a sync pulls again on a conflict, a password change aborts. *)
RefusePut(m) ==
  LET c == call[m.from] IN
  /\ m.type = "put" /\ ~Matches(m)
  /\ Answer(m, IF m.live /\ c.phase = "put" THEN [c EXCEPT !.phase = "pull"] ELSE NoCall)
  /\ wire' = wire \ {m}
  /\ UNCHANGED <<credential, blob, store, signed, key, codes, faults>>

(* The auth service's change-password with revokeOtherSessions: every      *)
(* session ends, and the browser that hears the answer gets a new one.     *)
AcceptChange(m) ==
  /\ m.type = "change" /\ m.live /\ m.old = credential
  /\ credential' = m.new
  /\ signed' = [b \in Browsers |-> b = m.home /\ m.from # NoTab]
  /\ Answer(m, [call[m.from] EXCEPT !.phase = "install"])
  /\ wire' = {[n EXCEPT !.live = FALSE] : n \in wire \ {m}}
  /\ UNCHANGED <<blob, store, key, codes, faults>>

RefuseChange(m) ==
  /\ m.type = "change" /\ ~(m.live /\ m.old = credential)
  /\ Answer(m, [call[m.from] EXCEPT !.phase = "stranded"])
  /\ wire' = wire \ {m}
  /\ UNCHANGED <<credential, blob, store, signed, key, codes, faults>>

-------------------------------------------------------------------------------
Install(t) ==
  /\ call[t].phase = "install"
  /\ key' = [key EXCEPT ![t] = call[t].new]
  /\ Step(t, [call[t] EXCEPT !.phase = "keys"])
  /\ UNCHANGED <<credential, blob, store, signed, wire, codes, faults>>

InstallKeys(t) ==
  /\ call[t].phase = "keys"
  /\ store' = [store EXCEPT ![HomeOf[t]] =
                 [k \in Keys |-> IF call[t].wraps[k] # 0 THEN call[t].wraps[k] ELSE @[k]]]
  /\ Step(t, [call[t] EXCEPT !.phase = "codes"])
  /\ UNCHANGED <<credential, blob, signed, key, wire, codes, faults>>

(* DELETE /api/recovery; a refusal is reported and the change still stands. *)
ClearCodes(t) ==
  /\ call[t].phase = "codes"
  /\ codes' = IF signed[HomeOf[t]] THEN 0 ELSE codes
  /\ Step(t, [call[t] EXCEPT !.phase = "done"])
  /\ UNCHANGED <<credential, blob, store, signed, key, wire, faults>>

-------------------------------------------------------------------------------
(* A request that fails strands the change once the credential was next.   *)
Failed(c) == IF c.phase = "change" THEN [c EXCEPT !.phase = "stranded"] ELSE NoCall

(* What becomes of a tab's requests when it stops listening: they never    *)
(* arrive, or they arrive later and the answer reaches nobody.             *)
Abandon(t) ==
  \/ wire' = {m \in wire : m.from # t}
  \/ wire' = {IF m.from = t THEN [m EXCEPT !.from = NoTab] ELSE m : m \in wire}

Disconnect(t) ==
  /\ faults < MaxFaults /\ faults' = faults + 1
  /\ call[t].phase \in {"put", "push", "change"}
  /\ Abandon(t)
  /\ Step(t, Failed(call[t]))
  /\ UNCHANGED <<credential, blob, store, signed, key, codes>>

(* The tab is reloaded: the vault key was only in memory. *)
Reload(t) ==
  /\ faults < MaxFaults /\ faults' = faults + 1
  /\ Abandon(t)
  /\ Step(t, NoCall)
  /\ key' = [key EXCEPT ![t] = 0]
  /\ UNCHANGED <<credential, blob, store, signed, codes>>

Continue(t) ==
  PullAgain(t) \/ Apply(t) \/ Reread(t) \/ Install(t) \/ InstallKeys(t) \/ ClearCodes(t)

Handle == \E m \in wire :
  AcceptPut(m) \/ RefusePut(m) \/ AcceptChange(m) \/ RefuseChange(m)

Next ==
  \/ \E t \in Tabs :
       \/ SignIn(t) \/ EnrolCodes(t) \/ StartSync(t) \/ Continue(t) \/ GiveUp(t)
       \/ Disconnect(t) \/ Reload(t)
       \/ \E p \in Passwords : Unlock(t, p)
       \/ \E k \in Keys : GenerateKey(t, k)
       \/ \E old, new \in Passwords : StartRekey(t, old, new)
  \/ Handle

Spec == Init /\ [][Next]_vars

(* Requests are answered, running calls go on, and the user does what the  *)
(* error of a stranded change says: signs in and runs it again.            *)
Repair(t) == SignIn(t) \/ StartRekey(t, credential, blob.key)

FairSpec ==
  /\ Spec
  /\ WF_vars(Handle)
  /\ \A t \in Tabs : WF_vars(Continue(t) \/ GiveUp(t)) /\ SF_vars(Repair(t))

-------------------------------------------------------------------------------
(* Every portable key in the vault opens with the key the vault is sealed  *)
(* with: rekey re-wraps each one, and no sync brings in another wrapping.  *)
KeysOpen == \A k \in Keys : blob.wraps[k] \in {0, blob.key}

(* A writer that still holds an earlier vault key never wins: a PUT that   *)
(* the server would accept was merged from a document under its key.       *)
StaleKeyLoses ==
  \A m \in wire : m.type = "put" /\ Matches(m) => m.old = blob.key

(* No portable key leaves the vault, whoever pushes it under what key. *)
NoKeyLeaves == [][\A k \in Keys : blob.wraps[k] # 0 => blob'.wraps[k] # 0]_vars

(* Blob first, then credential: the credential is never ahead of the vault, *)
(* the half-done state from which there is no session to repair it.        *)
BlobFirst == credential <= blob.key

(* A half-finished change is finished by running it again. *)
HalfDoneIsRepaired == (credential # blob.key) ~> (credential = blob.key)

(* What rekey says of the resume path: local changes made in that window   *)
(* are not lost, the first ordinary sync pushes them.                      *)
ResumeKeepsKeys ==
  \A t \in Tabs : call[t].phase = "done" /\ call[t].resumed =>
    \A k \in Keys : \/ store[HomeOf[t]][k] \in {0, call[t].new}
                      \/ blob.wraps[k] # 0
===============================================================================
