------------------------------- MODULE Devices --------------------------------
(***************************************************************************)
(* The device registry: a browser's identity (lib/device.ts), its          *)
(* registration and revocation (app/api/devices/route.ts), and the page    *)
(* that revokes (dashboard/devices/page.tsx). The sign-ins are of one      *)
(* browser, to any account, and register in the background; the revoking   *)
(* is done elsewhere. An identity is named after the sign-in that made it. *)
(***************************************************************************)
CONSTANTS Sessions, Users, None

DevicesAssumption == None \notin Sessions \cup Users

VARIABLES
  local,    \* the identity the browser keeps: its key, and the id of its row
  reg,      \* each sign-in's account and registration
  live,     \* the sessions that are live
  stamp,    \* session.device_id
  rows,     \* the device table
  revoking  \* the revoke in flight

deviceVars == <<local, reg, live, stamp, rows, revoking>>

NoId == [by |-> None, minted |-> FALSE]
Fresh(s) == [by |-> s, minted |-> FALSE]     \* crypto.randomUUID in the browser
Minted(s) == [by |-> s, minted |-> TRUE]     \* and on the server
NoIdentity == [key |-> None, id |-> NoId]

Init ==
  /\ local = NoIdentity /\ live = {} /\ rows = {} /\ revoking = NoId
  /\ reg = [s \in Sessions |-> [step |-> "none", user |-> None, me |-> NoIdentity, id |-> NoId, late |-> {}]]
  /\ stamp = [s \in Sessions |-> NoId]

At(s, step) == reg[s].step = step
Goes(s, step) == reg' = [reg EXCEPT ![s].step = step]
Revoked == {r.id : r \in {q \in rows : q.revoked}}

-------------------------------------------------------------------------------
(* A sign-in registers its browser: registerDevice, ensureDeviceIdentity. *)
SignIn(s, u) ==
  /\ At(s, "none") /\ live' = live \cup {s}
  /\ reg' = [reg EXCEPT ![s].step = "identity", ![s].user = u]
  /\ UNCHANGED <<local, stamp, rows, revoking>>

Identity(s) ==
  /\ At(s, "identity")
  /\ IF local = NoIdentity THEN Goes(s, "generate")
     ELSE reg' = [reg EXCEPT ![s].step = "sent", ![s].me = local, ![s].late = Revoked]
  /\ UNCHANGED <<local, live, stamp, rows, revoking>>

Generate(s) ==
  /\ At(s, "generate") /\ local' = [key |-> s, id |-> Fresh(s)]
  /\ reg' = [reg EXCEPT ![s].step = "sent", ![s].me = local', ![s].late = Revoked]
  /\ UNCHANGED <<live, stamp, rows, revoking>>

-------------------------------------------------------------------------------
(* POST: the row of this account and key, if there is one. *)
Mine(s) == {r \in rows : r.user = reg[s].user /\ r.key = reg[s].me.key}
RefusesNone(row) == FALSE   \* mutant: a revoked device registers again
Refuses(row) == row.revoked

Find(s) ==
  /\ At(s, "sent")
  /\ IF s \notin live THEN Goes(s, "failed")
     ELSE \/ Mine(s) = {} /\ Goes(s, "new")
          \/ \E r \in Mine(s) :
               IF Refuses(r) THEN Goes(s, "refused")
               ELSE reg' = [reg EXCEPT ![s].step = "bind", ![s].id = r.id]
  /\ UNCHANGED <<local, live, stamp, rows, revoking>>

(* The id is a proposal. *)
Propose(s) ==
  /\ At(s, "new")
  /\ reg' = [reg EXCEPT ![s].step = "insert",
                        ![s].id = IF \E r \in rows : r.id = reg[s].me.id THEN Minted(s) ELSE reg[s].me.id]
  /\ UNCHANGED <<local, live, stamp, rows, revoking>>

Insert(s) ==
  /\ At(s, "insert")
  /\ IF Mine(s) # {} \/ \E r \in rows : r.id = reg[s].id
     THEN Goes(s, "failed") /\ UNCHANGED rows
     ELSE /\ rows' = rows \cup {[id |-> reg[s].id, user |-> reg[s].user,
                                 key |-> reg[s].me.key, revoked |-> FALSE]}
          /\ Goes(s, "bind")
  /\ UNCHANGED <<local, live, stamp, revoking>>

(* bindSessionToDevice may fail, and then only it does. *)
Bind(s) ==
  /\ At(s, "bind") /\ Goes(s, "answered")
  /\ \/ s \in live /\ stamp' = [stamp EXCEPT ![s] = reg[s].id]
     \/ UNCHANGED stamp
  /\ UNCHANGED <<local, live, rows, revoking>>

(* The browser adopts the id it was given. *)
Adopt(s) ==
  /\ At(s, "answered") /\ Goes(s, "done")
  /\ local' = IF reg[s].id = reg[s].me.id THEN local ELSE [reg[s].me EXCEPT !.id = reg[s].id]
  /\ UNCHANGED <<live, stamp, rows, revoking>>

RequestLost(s) ==
  /\ reg[s].step \in {"sent", "answered"} /\ Goes(s, "failed")
  /\ UNCHANGED <<local, live, stamp, rows, revoking>>

Ended(s) == live' = live \ s /\ stamp' = [t \in Sessions |-> IF t \in s THEN NoId ELSE stamp[t]]

SignOut(s) ==
  /\ s \in live /\ Ended({s})
  /\ UNCHANGED <<local, reg, rows, revoking>>

-------------------------------------------------------------------------------
(* DELETE: the mark, then the sessions it is stamped on. A second request  *)
(* for a marked row is answered 404, and does neither.                     *)
Revoke(r) ==
  /\ revoking = NoId /\ r \in rows /\ ~r.revoked
  /\ rows' = (rows \ {r}) \cup {[r EXCEPT !.revoked = TRUE]} /\ revoking' = r.id
  /\ UNCHANGED <<local, reg, live, stamp>>

EndSessions ==
  /\ revoking # NoId /\ revoking' = NoId
  /\ Ended({s \in live : stamp[s] = revoking})
  /\ UNCHANGED <<local, reg, rows>>

RevokeFails ==
  /\ revoking # NoId /\ revoking' = NoId
  /\ UNCHANGED <<local, reg, live, stamp, rows>>

(* The account's deletion clears the browser's stores. *)
Forget ==
  /\ local # NoIdentity /\ local' = NoIdentity
  /\ UNCHANGED <<reg, live, stamp, rows, revoking>>

Next ==
  \/ \E s \in Sessions :
       \/ \E u \in Users : SignIn(s, u)
       \/ Identity(s) \/ Generate(s) \/ Find(s) \/ Propose(s) \/ Insert(s) \/ Bind(s)
       \/ Adopt(s) \/ RequestLost(s) \/ SignOut(s)
  \/ \E r \in rows : Revoke(r)
  \/ EndSessions \/ RevokeFails \/ Forget

Spec == Init /\ [][Next]_deviceVars

-------------------------------------------------------------------------------
(* A session is stamped with a device of its own account and of the key    *)
(* its browser sent (route.ts:156-162), never with one that was revoked    *)
(* before it registered (route.ts:130-131), and an account has one row for *)
(* a key, however the sign-ins of two accounts in one browser, their       *)
(* background registrations and a revoke interleave.                       *)
StampedRight ==
  /\ \A s \in live : stamp[s] # NoId =>
       /\ stamp[s] \notin reg[s].late
       /\ \E r \in rows : r.id = stamp[s] /\ r.user = reg[s].user /\ r.key = reg[s].me.key
  /\ \A q, r \in rows : q.id = r.id \/ <<q.user, q.key>> = <<r.user, r.key>> => q = r
===============================================================================
