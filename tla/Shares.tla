-------------------------------- MODULE Shares --------------------------------
(***************************************************************************)
(* Share links of one recording: the owner's panel (SharePanel in          *)
(* dashboard/recordings/page.tsx), the client of the routes                *)
(* (lib/recording/share.ts) and the page a link opens                      *)
(* (app/share/[token]/page.tsx). What the routes do to a row and to the    *)
(* bucket is in Recordings; here a row is live or revoked and counts its   *)
(* views. Every request may be lost on its way out or on its way back.     *)
(***************************************************************************)
EXTENDS Naturals

CONSTANTS Links, None,
          MaxViews,    \* the view limit of every link
          MaxOpened    \* bound: visits of one link

SharesAssumption == None \notin Links /\ MaxViews \in Nat \ {0} /\ MaxOpened \in Nat

VARIABLES
  rows,      \* the server's rows: none, live or revoked
  spent,     \* views counted on each row
  panel,     \* is the panel open, and has it a list?
  list,      \* the rows the panel shows
  reading,   \* the list request: its step and the rows it was answered with
  making,    \* the create request
  cutting,   \* the revoke request
  address,   \* the visitor's page: its token, and what follows the #
  fetched,   \* the token the page has asked for
  asking,    \* its request
  strays,    \* requests for each link whose page no longer listens
  view,      \* what it shows
  opened     \* history: visits with a usable key

shareVars == <<rows, spent, panel, list, reading, making, cutting, address, fetched, asking, strays, view, opened>>
owner == <<panel, list, reading, making, cutting>>
visitor == <<address, fetched, asking, strays, view, opened>>

NoRows == [l \in Links |-> "none"]
Idle == [step |-> "none", link |-> None, heard |-> TRUE]
Sent(l) == [Idle EXCEPT !.step = "sent", !.link = l]
Unread == [step |-> "none", rows |-> NoRows]
Loading == [phase |-> "loading", link |-> None]

Init ==
  /\ rows = NoRows /\ spent = [l \in Links |-> 0]
  /\ panel = "closed" /\ list = NoRows /\ reading = Unread /\ making = Idle /\ cutting = Idle
  /\ address = [link |-> None, key |-> "none"] /\ fetched = None /\ asking = Idle
  /\ strays = [l \in Links |-> 0]
  /\ view = Loading /\ opened = [l \in Links |-> 0]

-------------------------------------------------------------------------------
(* The panel opens and asks for the list. Closing it does not stop a       *)
(* create or a revoke, but nobody hears how they end.                      *)
OpenPanel ==
  /\ panel = "closed" /\ panel' = "loading" /\ list' = NoRows /\ reading' = [Unread EXCEPT !.step = "sent"]
  /\ UNCHANGED <<rows, spent, making, cutting, visitor>>

ClosePanel ==
  /\ panel # "closed" /\ panel' = "closed" /\ list' = NoRows /\ reading' = Unread
  /\ making' = [making EXCEPT !.heard = making = Idle]
  /\ cutting' = [cutting EXCEPT !.heard = cutting = Idle]
  /\ UNCHANGED <<rows, spent, visitor>>

ListServed ==
  /\ reading.step = "sent" /\ reading' = [step |-> "ok", rows |-> rows]
  /\ UNCHANGED <<rows, spent, panel, list, making, cutting, visitor>>

ListLands ==
  /\ reading.step = "ok" /\ list' = reading.rows /\ panel' = "ready" /\ reading' = Unread
  /\ UNCHANGED <<rows, spent, making, cutting, visitor>>

ListFails ==
  /\ reading.step # "none" /\ panel' = "failed" /\ reading' = Unread
  /\ UNCHANGED <<rows, spent, list, making, cutting, visitor>>

(* A fresh key seals the copy before the request; only the answer names    *)
(* the link.                                                               *)
Create(l) ==
  /\ panel # "closed" /\ making = Idle /\ rows[l] = "none"
  /\ making' = Sent(l)
  /\ UNCHANGED <<rows, spent, panel, list, reading, cutting, visitor>>

CreateServed ==
  /\ making.step = "sent" /\ rows' = [rows EXCEPT ![making.link] = "live"]
  /\ making' = [making EXCEPT !.step = "ok"]
  /\ UNCHANGED <<spent, panel, list, reading, cutting, visitor>>

CreateLands ==
  /\ making.step = "ok" /\ making' = Idle
  /\ IF ~making.heard THEN UNCHANGED <<panel, list>>
     ELSE panel' = "ready" /\ list' = [list EXCEPT ![making.link] = "live"]
  /\ UNCHANGED <<rows, spent, reading, cutting, visitor>>

CreateFails ==
  /\ making # Idle /\ making' = Idle
  /\ UNCHANGED <<rows, spent, panel, list, reading, cutting, visitor>>

Revoke(l) ==
  /\ list[l] = "live" /\ cutting = Idle /\ cutting' = Sent(l)
  /\ UNCHANGED <<rows, spent, panel, list, reading, making, visitor>>

RevokeServed ==
  /\ cutting.step = "sent" /\ rows' = [rows EXCEPT ![cutting.link] = "revoked"]
  /\ cutting' = [cutting EXCEPT !.step = "ok"]
  /\ UNCHANGED <<spent, panel, list, reading, making, visitor>>

(* The row is marked on the panel when the request has succeeded. *)
Mark(l) == IF cutting.step = "ok" THEN [list EXCEPT ![l] = "revoked"] ELSE list

RevokeEnds ==
  /\ cutting # Idle /\ cutting' = Idle
  /\ list' = IF cutting.heard THEN Mark(cutting.link) ELSE list
  /\ UNCHANGED <<rows, spent, panel, reading, making, visitor>>

(* The answer is lost: the server may have revoked it. *)
RevokeLost ==
  /\ cutting.step = "ok" /\ cutting' = Idle
  /\ UNCHANGED <<rows, spent, panel, list, reading, making, visitor>>

-------------------------------------------------------------------------------
(* The effect of the page for its address: no request if it has asked for  *)
(* this token already, and none without a key or with a mangled one. The   *)
(* cleanup before it stops listening to the request under way.             *)
AskedAlways(l, was) == FALSE   \* mutant: every run of the effect asks
Asked(l, was) == was = l

Cleanup ==
  strays' = IF asking.step = "sent" THEN [strays EXCEPT ![asking.link] = @ + 1] ELSE strays

Effect(l, key, was, before) ==
  /\ Cleanup /\ fetched' = l
  /\ asking' = IF Asked(l, was) \/ key # "good" THEN Idle ELSE Sent(l)
  /\ view' = IF Asked(l, was) \/ key = "good" THEN before ELSE [phase |-> "failed", link |-> l]

(* A link is followed, in a page of its own or in the one that is there.   *)
Visit(l, key, fresh) ==
  /\ rows[l] # "none" /\ opened[l] < MaxOpened
  /\ fresh \/ address.link \notin {None, l}
  /\ address' = [link |-> l, key |-> key]
  /\ opened' = [opened EXCEPT ![l] = IF key = "good" THEN @ + 1 ELSE @]
  /\ IF fresh THEN Effect(l, key, None, Loading) ELSE Effect(l, key, fetched, view)
  /\ UNCHANGED <<rows, spent, owner>>

(* React runs the effect again for the same token. *)
Rerun ==
  /\ address.link # None
  /\ Effect(address.link, address.key, fetched, view)
  /\ UNCHANGED <<rows, spent, owner, address, opened>>

(* The route counts the view as it serves the copy: a page that has gone   *)
(* has spent it all the same.                                              *)
Admits(l) == rows[l] = "live" /\ spent[l] < MaxViews

ViewServed ==
  /\ asking.step = "sent"
  /\ spent' = IF Admits(asking.link) THEN [spent EXCEPT ![asking.link] = @ + 1] ELSE spent
  /\ asking' = [asking EXCEPT !.step = IF Admits(asking.link) THEN "ok" ELSE "gone"]
  /\ UNCHANGED <<rows, owner, address, fetched, strays, view, opened>>

StrayServed(l) ==
  /\ strays[l] > 0 /\ strays' = [strays EXCEPT ![l] = @ - 1]
  /\ spent' = IF Admits(l) THEN [spent EXCEPT ![l] = @ + 1] ELSE spent
  /\ UNCHANGED <<rows, owner, address, fetched, asking, view, opened>>

ViewLands ==
  /\ asking.step \in {"ok", "gone"}
  /\ view' = [phase |-> IF asking.step = "ok" THEN "ready" ELSE "failed", link |-> asking.link]
  /\ asking' = Idle
  /\ UNCHANGED <<rows, spent, owner, address, fetched, strays, opened>>

ViewFails ==
  /\ asking # Idle /\ view' = [phase |-> "failed", link |-> asking.link] /\ asking' = Idle
  /\ UNCHANGED <<rows, spent, owner, address, fetched, strays, opened>>

Next ==
  \/ OpenPanel \/ ClosePanel \/ ListServed \/ ListLands \/ ListFails
  \/ \E l \in Links : Create(l) \/ Revoke(l) \/ StrayServed(l)
  \/ CreateServed \/ CreateLands \/ CreateFails \/ RevokeServed \/ RevokeEnds \/ RevokeLost
  \/ \E l \in Links, key \in {"unusable", "good"}, fresh \in BOOLEAN : Visit(l, key, fresh)
  \/ Rerun \/ ViewServed \/ ViewLands \/ ViewFails

Spec == Init /\ [][Next]_shareVars

-------------------------------------------------------------------------------
(* A visit spends at most one view of a link, however often React runs the *)
(* effect, and a visit without a usable key spends none                    *)
(* (share/[token]/page.tsx:73-80, share.ts:381-383).                       *)
ViewsAreVisits == \A l \in Links : spent[l] <= opened[l]

(* A link the panel shows as revoked opens nothing any more, whatever      *)
(* lists and answers crossed.                                              *)
RevokedIsShut == \A l \in Links : list[l] = "revoked" => rows[l] = "revoked"

(* A visit spends at most one view of a link, and a link shown as revoked  *)
(* opens nothing (share/[token]/page.tsx:73-80).                           *)
LinksHold == ViewsAreVisits /\ RevokedIsShut
===============================================================================
