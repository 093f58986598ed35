----------------------------- MODULE Recordings ------------------------------
(***************************************************************************)
(* One recording on the server, its share links and their bytes, which are *)
(* in the rows or in a bucket that fails on its own: saving, revoking,     *)
(* deleting, viewing, closing the account, and the sweep that removes what *)
(* the others left behind (app/api/recordings, app/api/shares,             *)
(* lib/recording/blobs.ts, lib/storage, lib/maintenance/objects.ts).       *)
(***************************************************************************)
EXTENDS FiniteSets, Naturals

CONSTANTS
  Links,     \* share links that may be made of the recording
  Viewers,   \* requests of /api/shares/[token]
  MaxViews,  \* a link's limit
  Ceiling    \* MAX_ACCOUNT_RECORDING_BYTES, counted in bodies

RecordingsAssumption ==
  "rec" \notin Links /\ MaxViews \in Nat \ {0} /\ Ceiling \in Nat \ {0}

Bodies == {"rec"} \cup Links

VARIABLES
  bucket,    \* is object storage configured?
  account,   \* does the account exist?
  stored,    \* each body's row: "new", where the bytes are, "null" or "gone"
  object,    \* each body's object: "absent", or "fresh" or "old" for the sweep
  saving,    \* a save whose bytes are written and whose row is not
  deleting,  \* DELETE of the recording: the bodies it has still to destroy
  revoking,  \* links whose bytes a revocation destroyed
  views,     \* each link's counter
  expired,   \* links past their expiry
  viewing,   \* each request's link, with the place of the bytes it was given
  served,    \* bodies that were sent to viewers
  sweep      \* the keys the sweep has read as claimed

recordingVars ==
  <<bucket, account, stored, object, saving, deleting, revoking, views, expired, viewing, served, sweep>>

Idle == "idle"
NoView == [of |-> Idle, at |-> Idle]

Init ==
  /\ bucket \in BOOLEAN /\ account = TRUE
  /\ stored = [k \in Bodies |-> "new"] /\ object = [k \in Bodies |-> "absent"]
  /\ saving = [k \in Bodies |-> Idle] /\ deleting = [on |-> FALSE, left |-> {}]
  /\ revoking = {} /\ views = [s \in Links |-> 0] /\ expired = {}
  /\ viewing = [v \in Viewers |-> NoView] /\ served = [s \in Links |-> 0]
  /\ sweep = [on |-> FALSE, claimed |-> {}]

HasRow(k) == stored[k] \in {"row", "object", "null"}
Claimed(k) == stored[k] = "object"

(* storedRecordingBytes: recordings and links alike. *)
Stored == Cardinality({k \in Bodies : stored[k] \in {"row", "object"}})

-------------------------------------------------------------------------------
(* POST /api/recordings, up to the row: the bytes go first. *)
Save ==
  /\ account /\ Stored < Ceiling /\ stored["rec"] = "new" /\ saving["rec"] = Idle
  /\ object["rec"] = "absent"
  /\ saving' = [saving EXCEPT !["rec"] = IF bucket THEN "object" ELSE "row"]
  /\ object' = IF bucket THEN [object EXCEPT !["rec"] = "fresh"] ELSE object
  /\ UNCHANGED <<bucket, account, stored, deleting, revoking, views, expired, viewing, served, sweep>>

(* POST /api/recordings/[id]/shares: a second copy, of a recording that is *)
(* there when it is looked up.                                             *)
Share(s) ==
  /\ account /\ Stored < Ceiling /\ HasRow("rec") /\ stored[s] = "new" /\ saving[s] = Idle
  /\ object[s] = "absent"
  /\ saving' = [saving EXCEPT ![s] = IF bucket THEN "object" ELSE "row"]
  /\ object' = IF bucket THEN [object EXCEPT ![s] = "fresh"] ELSE object
  /\ UNCHANGED <<bucket, account, stored, deleting, revoking, views, expired, viewing, served, sweep>>

(* The row: its account must be there and, for a link, its recording. If   *)
(* not, or if the database fails, the bytes are discarded as far as the    *)
(* bucket lets them be; a process that ends here leaves them too, and so   *)
(* does a write that the bucket took without its answer arriving.          *)
Insert(k) ==
  /\ saving[k] # Idle
  /\ account /\ (k \in Links => HasRow("rec"))
  /\ stored' = [stored EXCEPT ![k] = saving[k]]
  /\ saving' = [saving EXCEPT ![k] = Idle]
  /\ UNCHANGED <<bucket, account, object, deleting, revoking, views, expired, viewing, served, sweep>>

Discard(k) ==
  /\ saving[k] # Idle
  /\ saving' = [saving EXCEPT ![k] = Idle]
  /\ stored' = [stored EXCEPT ![k] = "gone"]   \* the id is not used again
  /\ \E o \in {object[k], "absent"} : object' = [object EXCEPT ![k] = o]
  /\ UNCHANGED <<bucket, account, deleting, revoking, views, expired, viewing, served, sweep>>

-------------------------------------------------------------------------------
(* DELETE of the recording reads the rows, destroys the recording's bytes  *)
(* and each link's in turn, and deletes the row, which takes the links'    *)
(* rows with it. It stops at the first object the bucket does not delete.  *)
Doomed == {k \in Bodies : Claimed(k)}

DeleteBegins ==
  /\ account /\ HasRow("rec") /\ ~deleting.on
  /\ deleting' = [on |-> TRUE, left |-> Doomed]
  /\ UNCHANGED <<bucket, account, stored, object, saving, revoking, views, expired, viewing, served, sweep>>

DestroyNext(k) ==
  /\ k \in deleting.left /\ ("rec" \in deleting.left => k = "rec")
  /\ \/ /\ object' = [object EXCEPT ![k] = "absent"]
        /\ deleting' = [deleting EXCEPT !.left = @ \ {k}]
     \/ /\ deleting' = [on |-> FALSE, left |-> {}]
        /\ UNCHANGED object
  /\ UNCHANGED <<bucket, account, stored, saving, revoking, views, expired, viewing, served, sweep>>

Cascaded == [k \in Bodies |-> IF stored[k] = "new" THEN "new" ELSE "gone"]

DeleteRow ==
  /\ deleting.on /\ deleting.left = {}
  /\ stored' = Cascaded
  /\ deleting' = [on |-> FALSE, left |-> {}]
  /\ UNCHANGED <<bucket, account, object, saving, revoking, views, expired, viewing, served, sweep>>

(* DELETE of a link: the bytes, or nothing if the bucket keeps them; then  *)
(* the row, emptied. Doing it again succeeds.                              *)
Destroyed(s) == [object EXCEPT ![s] = "absent"]

Revoke(s) ==
  /\ account /\ HasRow(s) /\ s \notin revoking
  /\ revoking' = revoking \cup {s}
  /\ object' = IF Claimed(s) THEN Destroyed(s) ELSE object
  /\ UNCHANGED <<bucket, account, stored, saving, deleting, views, expired, viewing, served, sweep>>

RevokeRow(s) ==
  /\ s \in revoking
  /\ revoking' = revoking \ {s}
  /\ stored' = IF HasRow(s) THEN [stored EXCEPT ![s] = "null"] ELSE stored
  /\ UNCHANGED <<bucket, account, object, saving, deleting, views, expired, viewing, served, sweep>>

-------------------------------------------------------------------------------
(* GET /api/shares/[token]: one statement checks the link and counts the   *)
(* view; the bytes are read after it, and the view is given back when the  *)
(* bucket does not have or does not return them.                           *)
Admits(s) == views[s] < MaxViews

View(v, s) ==
  /\ viewing[v] = NoView /\ stored[s] \in {"row", "object"} /\ s \notin expired /\ Admits(s)
  /\ views' = [views EXCEPT ![s] = @ + 1]
  /\ viewing' = [viewing EXCEPT ![v] = [of |-> s, at |-> stored[s]]]
  /\ UNCHANGED <<bucket, account, stored, object, saving, deleting, revoking, expired, served, sweep>>

(* readBody: bytes that came with the row, or the object while it exists. *)
Readable(v) == viewing[v].at = "row" \/ object[viewing[v].of] # "absent"

Answer(v) ==
  /\ viewing[v] # NoView /\ Readable(v)
  /\ served' = [served EXCEPT ![viewing[v].of] = @ + 1]
  /\ viewing' = [viewing EXCEPT ![v] = NoView]
  /\ UNCHANGED <<bucket, account, stored, object, saving, deleting, revoking, views, expired, sweep>>

Refund(v) ==
  /\ viewing[v] # NoView /\ viewing[v].at = "object"
  /\ LET s == viewing[v].of IN
       views' = IF HasRow(s) THEN [views EXCEPT ![s] = IF @ > 0 THEN @ - 1 ELSE 0] ELSE views
  /\ viewing' = [viewing EXCEPT ![v] = NoView]
  /\ UNCHANGED <<bucket, account, stored, object, saving, deleting, revoking, expired, served, sweep>>

ExpireLink(s) ==
  /\ HasRow(s) /\ s \notin expired /\ expired' = expired \cup {s}
  /\ UNCHANGED <<bucket, account, stored, object, saving, deleting, revoking, views, viewing, served, sweep>>

-------------------------------------------------------------------------------
(* Closing the account deletes every row; purgeAccountObjects then deletes *)
(* the objects under its prefixes, as many of them as the bucket lets it.  *)
CloseAccount ==
  /\ account /\ account' = FALSE
  /\ stored' = Cascaded
  /\ \E kept \in SUBSET Bodies :
       object' = [k \in Bodies |-> IF k \in kept THEN object[k] ELSE "absent"]
  /\ UNCHANGED <<bucket, saving, deleting, revoking, views, expired, viewing, served, sweep>>

(* An hour goes by after the write: no request and no sweep lasts as long. *)
Age(k) ==
  /\ object[k] = "fresh" /\ saving[k] = Idle /\ ~sweep.on
  /\ object' = [object EXCEPT ![k] = "old"]
  /\ UNCHANGED <<bucket, account, stored, saving, deleting, revoking, views, expired, viewing, served, sweep>>

(* sweepOrphanedObjects, from the cron route: the keys the rows name, then *)
(* the listing, and out of it what is unclaimed and past the grace.        *)
SweepBegins ==
  /\ bucket /\ ~sweep.on
  /\ sweep' = [on |-> TRUE, claimed |-> {k \in Bodies : Claimed(k)}]
  /\ UNCHANGED <<bucket, account, stored, object, saving, deleting, revoking, views, expired, viewing, served>>

SweptOlder(k) == k \notin sweep.claimed /\ object[k] = "old" /\ stored[k] # "gone"   \* mutant: only of live accounts' rows
Swept(k) == k \notin sweep.claimed /\ object[k] = "old"

SweepRemoves ==
  /\ sweep.on /\ sweep' = [on |-> FALSE, claimed |-> {}]
  /\ object' = [k \in Bodies |-> IF Swept(k) THEN "absent" ELSE object[k]]
  /\ UNCHANGED <<bucket, account, stored, saving, deleting, revoking, views, expired, viewing, served>>

(* The listing fails, or the deletions do. *)
SweepFails ==
  /\ sweep.on /\ sweep' = [on |-> FALSE, claimed |-> {}]
  /\ UNCHANGED <<bucket, account, stored, object, saving, deleting, revoking, views, expired, viewing, served>>

Next ==
  \/ Save \/ DeleteBegins \/ DeleteRow \/ CloseAccount
  \/ SweepBegins \/ SweepRemoves \/ SweepFails
  \/ \E k \in Bodies : Insert(k) \/ Discard(k) \/ DestroyNext(k) \/ Age(k)
  \/ \E s \in Links : Share(s) \/ Revoke(s) \/ RevokeRow(s) \/ ExpireLink(s)
  \/ \E v \in Viewers : Answer(v) \/ Refund(v) \/ \E s \in Links : View(v, s)

Spec == Init /\ [][Next]_recordingVars

(* Requests end, time passes, the cron job calls, and the bucket does not  *)
(* fail every sweep for ever.                                              *)
Ends(k) == Insert(k) \/ Discard(k)

-------------------------------------------------------------------------------
(* A saved body stays readable until its owner asks for it to be destroyed *)
(* - the sweep, a discard or another request never takes the bytes from    *)
(* under a row, and no row is written for bytes that are gone.             *)
SavedStaysReadable ==
  [][\A k \in Bodies : stored'[k] = "object" /\ object'[k] = "absent" =>
       /\ stored[k] = "object"
       /\ object[k] = "absent" \/ k \in deleting.left \/ k \in revoking']_recordingVars

(* A link is served at most as often as its limit says, refunds and        *)
(* overlapping requests included, and an emptied one in the bucket is not  *)
(* served even to a request that was admitted before.                      *)
LinkHolds ==
  [][\A s \in Links : served'[s] # served[s] =>
       served[s] < MaxViews /\ (bucket => stored[s] # "null")]_recordingVars

(* Bytes that no row names do not stay in the bucket past the grace. *)
OrphansSwept ==
  \A k \in Bodies : []<>(object[k] = "old" => Claimed(k))
===============================================================================
