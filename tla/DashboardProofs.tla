---------------------------- MODULE DashboardProofs ----------------------------
(***************************************************************************)
(* Proofs about the pages of the dashboard, each for every value of its    *)
(* constants: the editor and the explorer of the files page, the plan, the *)
(* share links, the keyboard of the terminal, the import dialogs, the      *)
(* recorder, the pages of records, the activity page, the terminal's       *)
(* sessions and panes, the playback of a recording, and a copy between two *)
(* hosts.                                                                  *)
(***************************************************************************)
EXTENDS Dashboard, Ascending, FiniteSetTheorems, WellFoundedInduction, TLAPS

-------------------------------------------------------------------------------
(* The editor: what it holds and what it loads is the file it is on. *)
EditorInv ==
  /\ loads \subseteq {Editor!Here}
  /\ text \in {Editor!NoFile, Editor!Here}
  /\ Editor!SaveGoesHome

(* The files page re-runs the editor's effect exactly when its target has  *)
(* changed, so whatever follows a change is of the new target.             *)
LEMMA EditorFollows ==
  ASSUME EditorInv, NEW target, Editor!Follow(target), target = Editor!Here', uploads' = uploads
  PROVE  EditorInv'
<1>1. loads' \subseteq {target} /\ text' \in {Editor!NoFile, target}
  BY DEF EditorInv, Editor!Follow, Editor!Disposed
<1>2. Editor!SaveGoesHome'
  BY DEF EditorInv, Editor!SaveGoesHome
<1> QED
  BY <1>1, <1>2 DEF EditorInv, Editor!NoFile

LEMMA EditorStep ==
  ASSUME EditorInv, [Editor!Next]_(Editor!filesVars)
  PROVE  EditorInv'
<1> USE DEF Editor!Here
<1>1. ASSUME NEW h \in Hosts,
             Editor!SessionCloses(h) \/ Editor!SessionOpens(h) \/ Editor!SftpOpens(h)
      PROVE  EditorInv'
  <2>1. CASE Editor!SessionCloses(h)
    BY <2>1, EditorFollows DEF Editor!SessionCloses
  <2>2. CASE Editor!SessionOpens(h)
    BY <2>2, EditorFollows DEF Editor!SessionOpens
  <2>3. CASE Editor!SftpOpens(h)
    BY <2>3, EditorFollows DEF Editor!SftpOpens
  <2> QED
    BY <1>1, <2>1, <2>2, <2>3
<1>2. ASSUME NEW p \in Editor!Panes, NEW h \in Hosts, Editor!Choose(p, h)
      PROVE  EditorInv'
  BY <1>2, EditorFollows DEF Editor!Choose
<1>3. ASSUME NEW p \in Editor!Panes, NEW path \in Paths, Editor!Edit(p, path)
      PROVE  EditorInv'
  BY <1>3, EditorFollows DEF Editor!Edit
<1>4. ASSUME Editor!ToggleSplit
      PROVE  EditorInv'
  BY <1>4, EditorFollows DEF Editor!ToggleSplit
<1>5. ASSUME Editor!CloseEditor
      PROVE  EditorInv'
  <2>1. Editor!Here' = Editor!NoFile
    BY <1>5 DEF Editor!CloseEditor, Editor!Target, Editor!NotEditing
  <2> QED
    BY <1>5, <2>1, EditorFollows DEF Editor!CloseEditor
(* The rest leaves the target alone. *)
<1>6. ASSUME Editor!Here' = Editor!Here, loads' \subseteq loads,
             text' \in {text} \cup loads,
             uploads' \subseteq uploads
               \cup IF text = Editor!NoFile THEN {} ELSE {[to |-> Editor!Here, of |-> text]}
      PROVE  EditorInv'
  <2>1. Editor!SaveGoesHome'
    BY <1>6 DEF EditorInv, Editor!SaveGoesHome
  <2> QED
    BY <1>6, <2>1 DEF EditorInv, Editor!NoFile
<1>7. ASSUME NEW f \in loads, Editor!Loaded(f) \/ Editor!LoadFails(f)
      PROVE  EditorInv'
  BY <1>6, <1>7 DEF Editor!Loaded, Editor!LoadFails
<1>8. ASSUME Editor!Type \/ Editor!Save
      PROVE  EditorInv'
  BY <1>6, <1>8 DEF Editor!Type, Editor!Save
<1>9. ASSUME NEW u \in uploads, Editor!Saved(u) \/ Editor!SaveFails(u)
      PROVE  EditorInv'
  BY <1>6, <1>9 DEF Editor!Saved, Editor!SaveFails
<1>10. CASE UNCHANGED Editor!filesVars
  BY <1>6, <1>10 DEF Editor!filesVars
<1> QED
  BY <1>1, <1>2, <1>3, <1>4, <1>5, <1>7, <1>8, <1>9, <1>10 DEF Editor!Next

(* A save of the editor writes a file with a text that was read from that  *)
(* very file on that host, for any number of hosts and files and however   *)
(* panes, sessions, loads and saves interleave (files/page.tsx,            *)
(* components/editor.tsx).                                                 *)
THEOREM EditorSavesHome == Editor!Spec => []SaveGoesHome
<1>1. Editor!Init => EditorInv
  BY DEF Editor!Init, EditorInv, Editor!SaveGoesHome
<1>2. EditorInv /\ [Editor!Next]_(Editor!filesVars) => EditorInv'
  BY EditorStep
<1>3. EditorInv => Editor!SaveGoesHome
  BY DEF EditorInv
<1> QED
  BY <1>1, <1>2, <1>3, PTL DEF Editor!Spec, SaveGoesHome

-------------------------------------------------------------------------------
(* The plan. A press of Refresh starts a read of its own, so the answer on *)
(* its way, and the plan shown once it has landed, are of the account and  *)
(* the table as they are for as long as neither has changed.               *)
PlanInv ==
  /\ reader \in Users \cup {Nobody} /\ mirror \in [Users -> Plan!Tiers]
  /\ flight \in {"none", "sent", "401", "assumed"} \cup Plan!Tiers
  /\ loading = (flight # "none") /\ error \in BOOLEAN
  /\ pressed /\ reader # Nobody =>
       /\ flight = "none" /\ ~error => shown \in {mirror[reader], "assumed"}
       /\ flight \notin {"none", "sent"} => flight \in {mirror[reader], "assumed"}

LEMMA PlanStep ==
  ASSUME PlanInv, [Plan!Next]_(Plan!viewVars)
  PROVE  PlanInv'
<1> USE DEF PlanInv, Plan!Tiers
<1>1. ASSUME NEW force \in BOOLEAN, Plan!LoadBilling(force),
             UNCHANGED <<reader, mirror, shown, busy>>,
             \/ UNCHANGED pressed
             \/ force /\ flight = "none"
      PROVE  PlanInv'
  <2>1. CASE Plan!Wants(force) /\ flight = "none"
    <3>1. flight' = "sent" /\ loading' = TRUE /\ error' = FALSE
      BY <1>1, <2>1 DEF Plan!LoadBilling
    <3> QED
      BY <1>1, <3>1
  <2>2. CASE ~(Plan!Wants(force) /\ flight = "none")
    <3>1. UNCHANGED <<flight, loading, error>> /\ UNCHANGED pressed
      BY <1>1, <2>2 DEF Plan!LoadBilling, Plan!Wants
    <3> QED
      BY <1>1, <3>1
  <2> QED
    BY <2>1, <2>2
<1>2. CASE Plan!Mount \/ Plan!Returned
  BY <1>1, <1>2 DEF Plan!Mount, Plan!Returned
<1>3. CASE Plan!Refresh
  BY <1>1, <1>3 DEF Plan!Refresh
<1>4. ASSUME NEW readable \in BOOLEAN, Plan!ServerAnswers(readable)
      PROVE  PlanInv'
  BY <1>4 DEF Plan!ServerAnswers, Plan!Answer
<1>5. CASE Plan!Arrives
  BY <1>5 DEF Plan!Arrives
<1>6. CASE Plan!Fails
  BY <1>6 DEF Plan!Fails
<1>7. ASSUME NEW what, Plan!Go(what)
      PROVE  PlanInv'
  BY <1>7 DEF Plan!Go
<1>8. CASE Plan!GoFails \/ Plan!Leaves
  <2>1. CASE Plan!GoFails
    BY <2>1 DEF Plan!GoFails
  <2>2. CASE Plan!Leaves
    BY <2>2 DEF Plan!Leaves
  <2> QED
    BY <1>8, <2>1, <2>2
<1>9. ASSUME NEW u \in Users, Plan!MirrorChanges(u)
      PROVE  PlanInv'
  BY <1>9 DEF Plan!MirrorChanges
<1>10. ASSUME NEW u \in Users, Plan!SignIn(u)
       PROVE  PlanInv'
  BY <1>10 DEF Plan!SignIn
<1>11. CASE Plan!SignOut
  BY <1>11 DEF Plan!SignOut
<1>12. CASE UNCHANGED Plan!viewVars
  BY <1>12 DEF Plan!viewVars
<1> QED
  BY <1>2, <1>3, <1>4, <1>5, <1>6, <1>7, <1>8, <1>9, <1>10, <1>11, <1>12 DEF Plan!Next

(* Once Refresh was pressed and its read has ended well, the card shows    *)
(* what the subscription table says of whoever is signed in, or the        *)
(* assumption that grants, for any number of accounts that sign in to the  *)
(* tab and however other pages' reads cross (lib/billing/client.ts).       *)
THEOREM RefreshShowsTheTable == Plan!Spec => []RefreshIsCurrent
<1>1. Plan!Init => PlanInv
  BY DEF Plan!Init, PlanInv
<1>2. PlanInv /\ [Plan!Next]_(Plan!viewVars) => PlanInv'
  BY PlanStep
<1>3. PlanInv => Plan!RefreshIsCurrent
  BY DEF PlanInv, Plan!RefreshIsCurrent
<1> QED
  BY <1>1, <1>2, <1>3, PTL DEF Plan!Spec, RefreshIsCurrent

-------------------------------------------------------------------------------
(* Share links, the owner's part: what the panel, a list on its way and a  *)
(* revoke that was served know of a row is still so.                       *)
RowStates == {"none", "live", "revoked"}
ShareRequest ==
  [step : {"none", "sent", "ok", "gone"}, link : Links \cup {None}, heard : BOOLEAN]

OwnerTypes ==
  /\ rows \in [Links -> RowStates] /\ list \in [Links -> RowStates]
  /\ reading \in [step : {"none", "sent", "ok"}, rows : [Links -> RowStates]]
  /\ making \in ShareRequest /\ (making.step # "none" => making.link \in Links)
  /\ cutting \in ShareRequest /\ (cutting.step # "none" => cutting.link \in Links)

Holds(known) == \A l \in Links :
  /\ known[l] # "none" => rows[l] # "none"
  /\ known[l] = "revoked" => rows[l] = "revoked"

OwnerInv ==
  /\ OwnerTypes
  /\ Holds(list) /\ Holds(reading.rows)
  /\ making.step = "sent" => rows[making.link] = "none"
  /\ making.step = "ok" => rows[making.link] # "none"
  /\ cutting.step = "sent" => rows[cutting.link] # "none"
  /\ cutting.step = "ok" => rows[cutting.link] = "revoked"

OwnerSteps ==
  \/ Sharing!OpenPanel \/ Sharing!ClosePanel \/ Sharing!ListServed \/ Sharing!ListLands
  \/ Sharing!ListFails \/ Sharing!CreateServed \/ Sharing!CreateLands \/ Sharing!CreateFails
  \/ Sharing!RevokeServed \/ Sharing!RevokeEnds \/ Sharing!RevokeLost
  \/ \E l \in Links : Sharing!Create(l) \/ Sharing!Revoke(l)

LEMMA OwnerStep ==
  ASSUME OwnerInv, OwnerSteps
  PROVE  OwnerInv'
<1>t. OwnerTypes
  BY DEF OwnerInv
<1>i. /\ Sharing!Idle \in ShareRequest /\ Sharing!Idle.step = "none"
      /\ Sharing!NoRows \in [Links -> RowStates] /\ \A l \in Links : Sharing!NoRows[l] = "none"
  BY DEF Sharing!Idle, Sharing!NoRows, ShareRequest, RowStates
<1>u. Sharing!Unread \in [step : {"none", "sent", "ok"}, rows : [Links -> RowStates]]
      /\ Sharing!Unread.rows = Sharing!NoRows /\ Sharing!Unread.step = "none"
  BY <1>i DEF Sharing!Unread
<1>s. \A l \in Links : /\ Sharing!Sent(l) \in ShareRequest
                       /\ Sharing!Sent(l).step = "sent" /\ Sharing!Sent(l).link = l
  BY DEF Sharing!Sent, Sharing!Idle, ShareRequest
<1>n. Holds(Sharing!NoRows)
  BY <1>i DEF Holds
<1>1. CASE Sharing!OpenPanel
  <2> DEFINE r == [Sharing!Unread EXCEPT !.step = "sent"]
  <2>1. r \in [step : {"none", "sent", "ok"}, rows : [Links -> RowStates]]
        /\ r.rows = Sharing!NoRows
    BY <1>u
  <2>2. reading' = r /\ list' = Sharing!NoRows /\ UNCHANGED <<rows, making, cutting>>
    BY <1>1 DEF Sharing!OpenPanel
  <2> HIDE DEF r
  <2> QED
    BY <1>t, <1>i, <1>n, <2>1, <2>2 DEF OwnerInv, OwnerTypes, Holds
<1>2. CASE Sharing!ClosePanel
  <2> DEFINE m == [making EXCEPT !.heard = making = Sharing!Idle]
             c == [cutting EXCEPT !.heard = cutting = Sharing!Idle]
  <2>1. /\ m \in ShareRequest /\ m.step = making.step /\ m.link = making.link
        /\ c \in ShareRequest /\ c.step = cutting.step /\ c.link = cutting.link
    BY <1>t DEF OwnerTypes, ShareRequest
  <2>2. /\ making' = m /\ cutting' = c /\ UNCHANGED rows
        /\ list' = Sharing!NoRows /\ reading' = Sharing!Unread
    BY <1>2 DEF Sharing!ClosePanel
  <2> HIDE DEF m, c
  <2> QED
    BY <1>t, <1>i, <1>n, <1>u, <2>1, <2>2 DEF OwnerInv, OwnerTypes, Holds
<1>3. CASE Sharing!ListServed
  <2>1. /\ reading' = [step |-> "ok", rows |-> rows]
        /\ UNCHANGED <<rows, list, making, cutting>>
    BY <1>3 DEF Sharing!ListServed
  <2> QED
    BY <1>t, <2>1 DEF OwnerInv, OwnerTypes, Holds
<1>4. CASE Sharing!ListLands \/ Sharing!ListFails
  <2>1. /\ list' \in {list, reading.rows} /\ reading' = Sharing!Unread
        /\ UNCHANGED <<rows, making, cutting>>
    BY <1>4 DEF Sharing!ListLands, Sharing!ListFails
  <2> QED
    BY <1>t, <1>i, <1>n, <1>u, <2>1 DEF OwnerInv, OwnerTypes, Holds
<1>5. ASSUME NEW l \in Links, Sharing!Create(l)
      PROVE  OwnerInv'
  <2>1. /\ making' = Sharing!Sent(l) /\ rows[l] = "none"
        /\ UNCHANGED <<rows, list, reading, cutting>>
    BY <1>5 DEF Sharing!Create
  <2> QED
    BY <1>t, <1>s, <2>1 DEF OwnerInv, OwnerTypes, Holds
<1>6. CASE Sharing!CreateServed
  <2> DEFINE m == [making EXCEPT !.step = "ok"]
  <2>1. m \in ShareRequest /\ m.step = "ok" /\ m.link = making.link
    BY <1>t DEF OwnerTypes, ShareRequest
  <2>2. /\ making.step = "sent" /\ making' = m /\ UNCHANGED <<list, reading, cutting>>
        /\ rows' = [rows EXCEPT ![making.link] = "live"]
    BY <1>6 DEF Sharing!CreateServed
  <2>3. making.link \in Links /\ rows[making.link] = "none"
    BY <1>t, <2>2 DEF OwnerInv, OwnerTypes
  <2> HIDE DEF m
  <2>4. /\ rows' \in [Links -> RowStates] /\ rows'[making.link] = "live"
        /\ \A l \in Links : l # making.link => rows'[l] = rows[l]
    BY <1>t, <2>2, <2>3 DEF OwnerTypes, RowStates
  <2>5. OwnerTypes'
    BY <1>t, <2>1, <2>2, <2>3, <2>4 DEF OwnerTypes
  <2>6. Holds(list)' /\ Holds(reading.rows)'
    BY <2>2, <2>3, <2>4 DEF OwnerInv, Holds
  <2>7. /\ cutting.step = "sent" => cutting.link # making.link
        /\ cutting.step = "ok" => cutting.link # making.link
    BY <2>3 DEF OwnerInv
  <2> QED
    BY <1>t, <2>1, <2>2, <2>3, <2>4, <2>5, <2>6, <2>7 DEF OwnerInv, OwnerTypes
<1>7. CASE Sharing!CreateLands \/ Sharing!CreateFails
  <2>1. /\ making' = Sharing!Idle /\ UNCHANGED <<rows, reading, cutting>>
        /\ \/ UNCHANGED list
           \/ making.step = "ok" /\ list' = [list EXCEPT ![making.link] = "live"]
    BY <1>7 DEF Sharing!CreateLands, Sharing!CreateFails
  <2>2. Holds(list)' /\ list' \in [Links -> RowStates]
    BY <1>t, <2>1 DEF OwnerInv, OwnerTypes, Holds, RowStates
  <2> QED
    BY <1>t, <1>i, <2>1, <2>2 DEF OwnerInv, OwnerTypes, Holds
<1>8. ASSUME NEW l \in Links, Sharing!Revoke(l)
      PROVE  OwnerInv'
  <2>1. /\ cutting' = Sharing!Sent(l) /\ list[l] = "live"
        /\ UNCHANGED <<rows, list, reading, making>>
    BY <1>8 DEF Sharing!Revoke
  <2>2. rows[l] # "none"
    BY <2>1 DEF OwnerInv, Holds
  <2> QED
    BY <1>t, <1>s, <2>1, <2>2 DEF OwnerInv, OwnerTypes, Holds
<1>9. CASE Sharing!RevokeServed
  <2> DEFINE c == [cutting EXCEPT !.step = "ok"]
  <2>1. c \in ShareRequest /\ c.step = "ok" /\ c.link = cutting.link
    BY <1>t DEF OwnerTypes, ShareRequest
  <2>2. /\ cutting.step = "sent" /\ cutting' = c /\ UNCHANGED <<list, reading, making>>
        /\ rows' = [rows EXCEPT ![cutting.link] = "revoked"]
    BY <1>9 DEF Sharing!RevokeServed
  <2>3. cutting.link \in Links /\ rows[cutting.link] # "none"
    BY <1>t, <2>2 DEF OwnerInv, OwnerTypes
  <2> HIDE DEF c
  <2>4. /\ rows' \in [Links -> RowStates] /\ rows'[cutting.link] = "revoked"
        /\ \A l \in Links : l # cutting.link => rows'[l] = rows[l]
    BY <1>t, <2>2, <2>3 DEF OwnerTypes, RowStates
  <2>5. OwnerTypes'
    BY <1>t, <2>1, <2>2, <2>3, <2>4 DEF OwnerTypes
  <2>6. Holds(list)' /\ Holds(reading.rows)'
    BY <2>2, <2>3, <2>4 DEF OwnerInv, Holds
  <2>7. making.step = "sent" => making.link # cutting.link
    BY <2>3 DEF OwnerInv
  <2> QED
    BY <1>t, <2>1, <2>2, <2>3, <2>4, <2>5, <2>6, <2>7 DEF OwnerInv, OwnerTypes
<1>10. CASE Sharing!RevokeEnds \/ Sharing!RevokeLost
  <2>1. /\ cutting' = Sharing!Idle /\ UNCHANGED <<rows, reading, making>>
        /\ \/ UNCHANGED list
           \/ cutting.step = "ok" /\ list' = [list EXCEPT ![cutting.link] = "revoked"]
    BY <1>10 DEF Sharing!RevokeEnds, Sharing!RevokeLost, Sharing!Mark
  <2>2. Holds(list)' /\ list' \in [Links -> RowStates]
    BY <1>t, <2>1 DEF OwnerInv, OwnerTypes, Holds, RowStates
  <2> QED
    BY <1>t, <1>i, <2>1, <2>2 DEF OwnerInv, OwnerTypes, Holds
<1> QED
  BY <1>1, <1>2, <1>3, <1>4, <1>5, <1>6, <1>7, <1>8, <1>9, <1>10 DEF OwnerSteps

(* The visitor's part: every view spent, every request nobody listens to   *)
(* any more and the one under way come from a visit of their own.          *)
Awaited(l) == IF asking.step = "sent" /\ asking.link = l THEN 1 ELSE 0

VisitorTypes ==
  /\ spent \in [Links -> Nat] /\ strays \in [Links -> Nat] /\ opened \in [Links -> Nat]
  /\ asking \in ShareRequest /\ (asking.step # "none" => asking.link \in Links)
  /\ address.link = None \/ (address.link \in Links /\ fetched = address.link)

VisitorInv ==
  /\ VisitorTypes
  /\ \A l \in Links : spent[l] + strays[l] + Awaited(l) <= opened[l]

VisitorSteps ==
  \/ \E l \in Links, key \in {"unusable", "good"}, fresh \in BOOLEAN : Sharing!Visit(l, key, fresh)
  \/ \E l \in Links : Sharing!StrayServed(l)
  \/ Sharing!Rerun \/ Sharing!ViewServed \/ Sharing!ViewLands \/ Sharing!ViewFails

LEMMA VisitorStep ==
  ASSUME VisitorInv, VisitorSteps
  PROVE  VisitorInv'
<1>t. VisitorTypes
  BY DEF VisitorInv
<1>i. Sharing!Idle \in ShareRequest /\ Sharing!Idle.step = "none"
  BY DEF Sharing!Idle, ShareRequest
<1>s. \A l \in Links : /\ Sharing!Sent(l) \in ShareRequest
                       /\ Sharing!Sent(l).step = "sent" /\ Sharing!Sent(l).link = l
  BY DEF Sharing!Sent, Sharing!Idle, ShareRequest
(* The effect gives the request under way to the strays. *)
<1>c. ASSUME Sharing!Cleanup
      PROVE  strays' \in [Links -> Nat]
             /\ \A l \in Links : strays'[l] = strays[l] + Awaited(l)
  BY <1>t, <1>c DEF Sharing!Cleanup, VisitorTypes, Awaited
<1>1. ASSUME NEW l \in Links, NEW key \in {"unusable", "good"}, NEW fresh \in BOOLEAN,
             Sharing!Visit(l, key, fresh)
      PROVE  VisitorInv'
  <2>1. /\ Sharing!Cleanup /\ fetched' = l /\ UNCHANGED spent
        /\ asking' = Sharing!Idle \/ (key = "good" /\ asking' = Sharing!Sent(l))
        /\ address'.link = l
        /\ opened' = [opened EXCEPT ![l] = IF key = "good" THEN @ + 1 ELSE @]
    <3>1. PICK was, shows : Sharing!Effect(l, key, was, shows)
      BY <1>1 DEF Sharing!Visit
    <3>2. /\ Sharing!Cleanup /\ fetched' = l
          /\ asking' = Sharing!Idle \/ (key = "good" /\ asking' = Sharing!Sent(l))
      BY <3>1 DEF Sharing!Effect, Sharing!Asked
    <3> QED
      BY <1>1, <3>2 DEF Sharing!Visit
  <2>2. VisitorTypes'
    BY <1>t, <1>c, <1>i, <1>s, <2>1 DEF VisitorTypes
  <2>3. \A k \in Links :
          Awaited(k)' + opened[k] <= opened'[k] /\ Awaited(k)' \in Nat /\ opened'[k] \in Nat
    BY <1>t, <1>i, <1>s, <2>1 DEF VisitorTypes, Awaited
  <2>4. \A k \in Links : Awaited(k) \in Nat
    BY DEF Awaited
  <2>5. \A k \in Links : spent'[k] + strays'[k] + Awaited(k)' <= opened'[k]
    <3> TAKE k \in Links
    <3>1. spent[k] \in Nat /\ strays[k] \in Nat /\ opened[k] \in Nat
      BY <1>t DEF VisitorTypes
    <3>2. spent[k] + strays[k] + Awaited(k) <= opened[k]
      BY DEF VisitorInv
    <3>3. strays'[k] = strays[k] + Awaited(k) /\ spent'[k] = spent[k]
      BY <1>c, <2>1
    <3> HIDE DEF Awaited
    <3> QED
      BY <2>3, <2>4, <3>1, <3>2, <3>3
  <2> QED
    BY <2>2, <2>5 DEF VisitorInv
<1>2. CASE Sharing!Rerun
  <2>1. /\ Sharing!Cleanup /\ asking' = Sharing!Idle /\ fetched' = address.link
        /\ UNCHANGED <<spent, address, opened>>
    BY <1>t, <1>2 DEF Sharing!Rerun, Sharing!Effect, Sharing!Asked, VisitorTypes
  <2>2. VisitorTypes'
    BY <1>t, <1>c, <1>i, <2>1 DEF VisitorTypes
  <2>3. \A k \in Links : Awaited(k)' = 0 /\ Awaited(k) \in Nat
    BY <1>i, <2>1 DEF Awaited
  <2>4. \A k \in Links : spent'[k] + strays'[k] + Awaited(k)' <= opened'[k]
    BY <1>t, <1>c, <2>1, <2>3 DEF VisitorInv, VisitorTypes
  <2> QED
    BY <2>2, <2>4 DEF VisitorInv
<1>3. CASE Sharing!ViewServed
  <2> DEFINE a == [asking EXCEPT !.step = IF Sharing!Admits(asking.link) THEN "ok" ELSE "gone"]
  <2>1. a \in ShareRequest /\ a.step \in {"ok", "gone"} /\ a.link = asking.link
    BY <1>t DEF VisitorTypes, ShareRequest
  <2>2. /\ asking.step = "sent" /\ asking' = a
        /\ spent' \in {spent, [spent EXCEPT ![asking.link] = @ + 1]}
        /\ UNCHANGED <<address, fetched, strays, opened>>
    BY <1>3 DEF Sharing!ViewServed
  <2> HIDE DEF a
  <2>3. asking.link \in Links
    BY <1>t, <2>2 DEF VisitorTypes
  <2>4. VisitorTypes'
    BY <1>t, <2>1, <2>2, <2>3 DEF VisitorTypes
  <2>5. \A k \in Links : spent'[k] + Awaited(k)' <= spent[k] + Awaited(k)
    BY <1>t, <2>1, <2>2, <2>3 DEF VisitorTypes, Awaited
  <2>6. \A k \in Links : Awaited(k) \in Nat /\ Awaited(k)' \in Nat
    BY DEF Awaited
  <2>7. \A k \in Links : spent'[k] + strays'[k] + Awaited(k)' <= opened'[k]
    BY <1>t, <2>2, <2>4, <2>5, <2>6 DEF VisitorInv, VisitorTypes
  <2> QED
    BY <2>4, <2>7 DEF VisitorInv
<1>4. ASSUME NEW l \in Links, Sharing!StrayServed(l)
      PROVE  VisitorInv'
  <2>1. /\ strays[l] > 0 /\ strays' = [strays EXCEPT ![l] = @ - 1]
        /\ spent' \in {spent, [spent EXCEPT ![l] = @ + 1]}
        /\ UNCHANGED <<address, fetched, asking, opened>>
    BY <1>4 DEF Sharing!StrayServed
  <2>2. VisitorTypes'
    BY <1>t, <2>1 DEF VisitorTypes
  <2>3. \A k \in Links : spent'[k] + strays'[k] <= spent[k] + strays[k]
    BY <1>t, <2>1 DEF VisitorTypes
  <2>4. \A k \in Links : Awaited(k) \in Nat /\ Awaited(k)' = Awaited(k)
    BY <2>1 DEF Awaited
  <2>5. \A k \in Links : spent'[k] + strays'[k] + Awaited(k)' <= opened'[k]
    BY <1>t, <2>1, <2>2, <2>3, <2>4 DEF VisitorInv, VisitorTypes
  <2> QED
    BY <2>2, <2>5 DEF VisitorInv
<1>5. CASE Sharing!ViewLands \/ Sharing!ViewFails
  <2>1. asking' = Sharing!Idle /\ UNCHANGED <<spent, address, fetched, strays, opened>>
    BY <1>5 DEF Sharing!ViewLands, Sharing!ViewFails
  <2>2. VisitorTypes'
    BY <1>t, <1>i, <2>1 DEF VisitorTypes
  <2>3. \A k \in Links : Awaited(k)' = 0 /\ Awaited(k) \in Nat
    BY <1>i, <2>1 DEF Awaited
  <2>4. \A k \in Links : spent'[k] + strays'[k] + Awaited(k)' <= opened'[k]
    BY <1>t, <2>1, <2>3 DEF VisitorInv, VisitorTypes
  <2> QED
    BY <2>2, <2>4 DEF VisitorInv
<1> QED
  BY <1>1, <1>2, <1>3, <1>4, <1>5 DEF VisitorSteps

LEMMA SharesStep ==
  ASSUME OwnerInv, VisitorInv, [Sharing!Next]_(Sharing!shareVars)
  PROVE  OwnerInv' /\ VisitorInv'
<1>1. OwnerSteps => UNCHANGED <<spent, address, fetched, asking, strays, opened>>
  BY DEF OwnerSteps, Sharing!OpenPanel, Sharing!ClosePanel, Sharing!ListServed, Sharing!ListLands,
         Sharing!ListFails, Sharing!CreateServed, Sharing!CreateLands, Sharing!CreateFails,
         Sharing!RevokeServed, Sharing!RevokeEnds, Sharing!RevokeLost, Sharing!Create,
         Sharing!Revoke, Sharing!visitor
<1>2. VisitorSteps => UNCHANGED <<rows, list, reading, making, cutting>>
  BY DEF VisitorSteps, Sharing!Visit, Sharing!StrayServed, Sharing!Rerun, Sharing!ViewServed,
         Sharing!ViewLands, Sharing!ViewFails, Sharing!owner
<1>3. UNCHANGED <<spent, address, fetched, asking, strays, opened>> => VisitorInv'
  BY DEF VisitorInv, VisitorTypes, Awaited
<1>4. UNCHANGED <<rows, list, reading, making, cutting>> => OwnerInv'
  BY DEF OwnerInv, OwnerTypes, Holds
<1>5. OwnerSteps \/ VisitorSteps \/ UNCHANGED Sharing!shareVars
  BY DEF Sharing!Next, OwnerSteps, VisitorSteps
<1>6. CASE OwnerSteps
  BY <1>1, <1>3, <1>6, OwnerStep
<1>7. CASE VisitorSteps
  BY <1>2, <1>4, <1>7, VisitorStep
<1>8. CASE UNCHANGED Sharing!shareVars
  BY <1>3, <1>4, <1>8 DEF Sharing!shareVars
<1> QED
  BY <1>5, <1>6, <1>7, <1>8

(* A visit spends at most one view of a link however often React runs the  *)
(* page's effect, and a link the panel shows as revoked opens nothing,     *)
(* whatever lists, answers and requests cross and for any number of links  *)
(* and visits (share/[token]/page.tsx, lib/recording/share.ts).            *)
THEOREM LinksAlwaysHold == Sharing!Spec => []LinksHold
<1>1. Sharing!Init => OwnerInv /\ VisitorInv
  BY DEF Sharing!Init, Sharing!NoRows, Sharing!Idle, Sharing!Unread, OwnerInv, OwnerTypes, Holds,
         VisitorInv, VisitorTypes, Awaited, ShareRequest, RowStates
<1>2. OwnerInv /\ VisitorInv /\ [Sharing!Next]_(Sharing!shareVars) => (OwnerInv /\ VisitorInv)'
  BY SharesStep
<1>3. OwnerInv /\ VisitorInv => Sharing!LinksHold
  <2> SUFFICES ASSUME OwnerInv, VisitorInv
               PROVE  Sharing!LinksHold
    OBVIOUS
  <2>1. Sharing!RevokedIsShut
    BY DEF OwnerInv, Holds, Sharing!RevokedIsShut
  <2>2. Sharing!ViewsAreVisits
    BY DEF VisitorInv, VisitorTypes, Awaited, Sharing!ViewsAreVisits
  <2> QED
    BY <2>1, <2>2 DEF Sharing!LinksHold
<1> QED
  BY <1>1, <1>2, <1>3, PTL DEF Sharing!Spec, LinksHold

-------------------------------------------------------------------------------
(* The file explorer. The one read in flight was asked for in the          *)
(* directory that is shown, and a dialog is open on it.                    *)
PaneInv ==
  /\ reads = {} \/ \E r : reads = {r}
  /\ \A r \in reads : r.from = cwd
  /\ selected \subseteq Names /\ anchor \in Names \cup {None} /\ DOMAIN picked = Names
  /\ ask # Pane!NoAsk => ask.dir = cwd /\ reads = {}
  /\ Pane!ChosenWhereShown

LEMMA PaneStep ==
  ASSUME PaneInv, [Pane!Next]_(Pane!explorerVars)
  PROVE  PaneInv'
<1> USE DEF Pane!ChosenWhereShown, Pane!SelectionChosen, Pane!ChangeWhereAsked
<1>n. Pane!NoAsk' = Pane!NoAsk /\ DOMAIN Pane!Unpicked = Names
  BY DEF Pane!NoAsk, Pane!Unpicked
<1>r. Pane!Room => reads = {}
  <2>1. \A r : Pane!Cardinality({r}) = 1
    BY FS_Singleton DEF Pane!Cardinality, Cardinality
  <2> QED
    BY <2>1 DEF PaneInv, Pane!Room
<1>1. ASSUME NEW d \in Dirs, Pane!Navigate(d)
      PROVE  PaneInv'
  <2>1. reads' = {[dir |-> d, from |-> cwd]} /\ ask = Pane!NoAsk
    BY <1>1, <1>r DEF Pane!Navigate, Pane!Reads
  <2>2. UNCHANGED <<cwd, selected, anchor, picked, ask, changed>>
    BY <1>1 DEF Pane!Navigate
  <2> QED
    BY <1>n, <2>1, <2>2 DEF PaneInv
<1>2. ASSUME NEW r \in reads, Pane!Landed(r)
      PROVE  PaneInv'
  <2>1. reads' = {} /\ cwd' = r.dir /\ r.from = cwd /\ ask = Pane!NoAsk
        /\ UNCHANGED <<ask, changed>>
    BY <1>2 DEF PaneInv, Pane!Landed
  <2>2. CASE r.dir # r.from
    BY <1>2, <1>n, <2>1, <2>2 DEF PaneInv, Pane!Landed
  <2>3. CASE r.dir = r.from
    BY <1>2, <1>n, <2>1, <2>3 DEF PaneInv, Pane!Landed
  <2> QED
    BY <2>2, <2>3
<1>3. ASSUME NEW r \in reads, Pane!ReadFails(r)
      PROVE  PaneInv'
  BY <1>3, <1>n DEF PaneInv, Pane!ReadFails
<1>4. ASSUME NEW n \in Names, Pane!Click(n)
      PROVE  PaneInv'
  BY <1>4, <1>n DEF PaneInv, Pane!Click
<1>5. ASSUME NEW n \in Names, Pane!CtrlClick(n)
      PROVE  PaneInv'
  BY <1>5, <1>n DEF PaneInv, Pane!CtrlClick
<1>6. ASSUME NEW n \in Names, Pane!ShiftClick(n)
      PROVE  PaneInv'
  BY <1>6, <1>n DEF PaneInv, Pane!ShiftClick
<1>7. ASSUME NEW n \in Names, Pane!DragStart(n)
      PROVE  PaneInv'
  BY <1>7, <1>n DEF PaneInv, Pane!DragStart
<1>8. ASSUME NEW n \in Names, Pane!OpenAsk(n)
      PROVE  PaneInv'
  BY <1>8, <1>n DEF PaneInv, Pane!OpenAsk
<1>9. CASE Pane!ClearSelection
  BY <1>9, <1>n DEF PaneInv, Pane!ClearSelection
<1>10. CASE Pane!CancelAsk
  BY <1>10, <1>n DEF PaneInv, Pane!CancelAsk
<1>11. CASE Pane!SubmitAsk
  <2>1. ask' = Pane!NoAsk /\ ask.dir = cwd /\ reads = {}
        /\ UNCHANGED <<cwd, selected, anchor, picked>>
    BY <1>11 DEF PaneInv, Pane!SubmitAsk
  <2>2. CASE Pane!Reads(cwd, cwd) /\ changed' = [asked |-> ask.dir, made |-> cwd]
    <3>1. reads' = {[dir |-> cwd, from |-> cwd]}
      BY <2>1, <2>2 DEF Pane!Reads
    <3>2. changed'.asked = changed'.made
      BY <2>1, <2>2
    <3> QED
      BY <1>n, <2>1, <3>1, <3>2 DEF PaneInv
  <2>3. CASE UNCHANGED <<reads, changed>>
    BY <1>n, <2>1, <2>3 DEF PaneInv
  <2> QED
    BY <1>11, <2>2, <2>3 DEF Pane!SubmitAsk
<1>12. CASE Pane!BeginTransfer
  BY <1>12, <1>n DEF PaneInv, Pane!BeginTransfer
<1>13. CASE Pane!TransferEnds
  BY <1>13, <1>n, <1>r DEF PaneInv, Pane!TransferEnds, Pane!Reads
<1>14. CASE UNCHANGED Pane!explorerVars
  BY <1>14, <1>n DEF PaneInv, Pane!explorerVars
<1> QED
  BY <1>1, <1>2, <1>3, <1>4, <1>5, <1>6, <1>7, <1>8, <1>9, <1>10, <1>11, <1>12, <1>13, <1>14
     DEF Pane!Next

(* While listings do not overlap, a highlighted row was chosen in the      *)
(* directory shown and a dialog's change is made in the directory it was   *)
(* opened in, for any directories and names (file-explorer.tsx).           *)
THEOREM RowsAreChosenWhereShown == Pane!Spec => []ChosenWhereShown
<1>1. Pane!Init => PaneInv
  BY DEF Pane!Init, PaneInv, Pane!Unpicked, Pane!ChosenWhereShown, Pane!SelectionChosen,
         Pane!ChangeWhereAsked
<1>2. PaneInv /\ [Pane!Next]_(Pane!explorerVars) => PaneInv'
  BY PaneStep
<1>3. PaneInv => Pane!ChosenWhereShown
  BY DEF PaneInv
<1> QED
  BY <1>1, <1>2, <1>3, PTL DEF Pane!Spec, ChosenWhereShown

-------------------------------------------------------------------------------
(* The keyboard: typed input is folded only when nothing was folded before. *)
TouchInv ==
  /\ sent \in [kind : Touch!Kinds \cup {"none"}, ctrl : {0, 1}, alt : {0, 1}]
  /\ Touch!SizeTold

LEMMA TouchStep ==
  ASSUME TouchInv, [Touch!Next]_(Touch!keyboardVars)
  PROVE  TouchInv'
<1> DEFINE Data == [kind : Touch!Kinds \cup {"none"}, ctrl : {0, 1}, alt : {0, 1}]
<1>f. ASSUME NEW data \in Data, NEW left
      PROVE  Touch!Folded(data, left) \in Data
  <2>1. \A m : Touch!One(m) \in {0, 1}
    BY DEF Touch!One
  <2>2. CASE Touch!Foldable(data)
    <3>1. data.ctrl = 0 /\ data.alt = 0
      BY <2>2 DEF Touch!Foldable
    <3>2. 0 + Touch!One(left.ctrl) \in {0, 1} /\ 0 + Touch!One(left.alt) \in {0, 1}
      BY <2>1
    <3> QED
      BY <2>2, <3>1, <3>2 DEF Touch!Folded
  <2>3. CASE ~Touch!Foldable(data)
    BY <2>3 DEF Touch!Folded
  <2> QED
    BY <2>2, <2>3
<1>s. CASE /\ sent' \in Data /\ UNCHANGED <<grid, told>>
  BY <1>s DEF TouchInv, Touch!SizeTold
<1>1. ASSUME NEW key \in Touch!Kinds, Touch!Typed(key) \/ Touch!SendKey(key)
      PROVE  TouchInv'
  <2>1. [kind |-> key, ctrl |-> 0, alt |-> 0] \in Data /\ Touch!Encoded(key) \in Data
    BY DEF Touch!Encoded, Touch!One
  <2>2. sent \in Data
    BY DEF TouchInv
  <2>3. sent' \in Data /\ UNCHANGED <<grid, told>>
    BY <1>1, <1>f, <2>1, <2>2 DEF Touch!Typed, Touch!SendKey
  <2> QED
    BY <1>s, <2>3
<1>2. CASE UNCHANGED <<sent, grid, told>>
  BY <1>2 DEF TouchInv, Touch!SizeTold
<1>3. CASE \/ \E key \in Touch!Kinds \cup Touch!Modifiers : Touch!PointerDown(key)
           \/ \E m \in Touch!Modifiers, quick \in BOOLEAN : Touch!ToggleModifier(m, quick)
           \/ \E d \in Sizes : Touch!Resize(d)
           \/ Touch!Drag \/ Touch!ShowBar \/ Touch!HideBar \/ UNCHANGED Touch!keyboardVars
  BY <1>2, <1>3 DEF Touch!PointerDown, Touch!ToggleModifier, Touch!Resize, Touch!Drag,
                    Touch!ShowBar, Touch!HideBar, Touch!keyboardVars
<1>4. CASE Touch!Mount
  BY <1>4 DEF TouchInv, Touch!SizeTold, Touch!Mount
<1>5. CASE Touch!Refit
  BY <1>5 DEF TouchInv, Touch!SizeTold, Touch!Refit, Touch!Reported
<1>6. CASE Touch!Dispose
  BY <1>6 DEF TouchInv, Touch!SizeTold, Touch!Dispose
<1> QED
  BY <1>1, <1>3, <1>4, <1>5, <1>6 DEF Touch!Next

(* Every key reaches the session with each modifier folded in at most      *)
(* once, and the session is never left with another size than the one on   *)
(* the screen, for any sizes (components/terminal.tsx).                    *)
THEOREM KeysAreTypedAsShown == Touch!Spec => []TypedAsShown
<1>1. Touch!Init => TouchInv
  BY DEF Touch!Init, Touch!NoKey, TouchInv, Touch!SizeTold
<1>2. TouchInv /\ [Touch!Next]_(Touch!keyboardVars) => TouchInv'
  BY TouchStep
<1>3. TouchInv => Touch!TypedAsShown
  BY DEF TouchInv, Touch!TypedAsShown, Touch!FoldedOnce
<1> QED
  BY <1>1, <1>2, <1>3, PTL DEF Touch!Spec, TypedAsShown

-------------------------------------------------------------------------------
(* The import dialogs: a bar that moves is of an effect that waits, and it *)
(* waits for a download; a list that is being stored is the reviewed one.  *)
ImportInv ==
  /\ core \in {"none", "loading", "ready"}
  /\ waiting => core = "loading"
  /\ open /\ progress = "moving" => waiting
  /\ kind = "config" /\ submit.op = "save" => submit.took = submit.seen
  /\ kind = "config" => \A x \in stored : x.what = x.seen

LEMMA ImportStep ==
  ASSUME ImportInv, [Import!Next]_(Import!importVars)
  PROVE  ImportInv'
<1> USE DEF ImportInv
<1>i. Import!Idle.op = "none"
  BY DEF Import!Idle
<1>j. Import!Joined \in {"none", "loading", "ready"}
      /\ (core # "ready" => Import!Joined = "loading") /\ (core = "ready" => Import!Joined = "ready")
  BY DEF Import!Joined
<1>1. CASE Import!Open
  BY <1>1, <1>j DEF Import!Open, Import!Watch
<1>2. CASE Import!Retry
  BY <1>2, <1>j DEF Import!Retry, Import!Watch
<1>3. CASE Import!OtherLoads
  BY <1>3, <1>j DEF Import!OtherLoads
<1>4. CASE Import!CoreLoads
  BY <1>4 DEF Import!CoreLoads
<1>5. CASE Import!CoreFails
  <2>1. submit' \in {submit, Import!Idle}
    BY <1>5 DEF Import!CoreFails
  <2> QED
    BY <1>5, <1>i, <2>1 DEF Import!CoreFails, Import!FailedBar
<1>6. CASE Import!Close
  BY <1>6 DEF Import!Close, Import!Closes
<1>7. ASSUME NEW t \in Texts, Import!Type(t) \/ Import!Choose(t) \/ Import!FileRead(t)
      PROVE  ImportInv'
  <2>1. UNCHANGED <<kind, core, open, waiting, progress, submit, stored>>
    BY <1>7 DEF Import!Type, Import!Choose, Import!FileRead
  <2> QED
    BY <2>1
<1>8. CASE Import!Read
  <2>1. submit'.op = "read"
    BY <1>8 DEF Import!Read, Import!Submit
  <2>2. core' = Import!Joined /\ UNCHANGED <<kind, open, waiting, progress, stored>>
    BY <1>8 DEF Import!Read
  <2> QED
    BY <1>j, <2>1, <2>2
<1>9. CASE Import!ReadLands
  BY <1>9, <1>i DEF Import!ReadLands
<1>10. CASE Import!Back
  BY <1>10 DEF Import!Back
<1>11. CASE Import!Save
  <2>1. kind = "config" => submit'.took = found /\ submit'.seen = found
    BY <1>11 DEF Import!Save, Import!Submit
  <2>2. core' \in {Import!Joined, core} /\ UNCHANGED <<kind, open, waiting, progress, stored>>
    BY <1>11 DEF Import!Save
  <2> QED
    BY <1>j, <2>1, <2>2
<1>12. CASE Import!SaveLands
  <2>1. submit' = Import!Idle /\ submit.op = "save" /\ UNCHANGED <<kind, core, progress>>
    BY <1>12 DEF Import!SaveLands
  <2>2. stored' = stored \/ stored' = stored \cup {[what |-> submit.took, seen |-> submit.seen]}
    BY <1>12 DEF Import!SaveLands
  <2>3. (open' = FALSE /\ waiting' = FALSE) \/ UNCHANGED <<open, waiting>>
    BY <1>12 DEF Import!SaveLands, Import!Closes
  <2> QED
    BY <1>i, <2>1, <2>2, <2>3
<1>13. CASE UNCHANGED Import!importVars
  BY <1>13 DEF Import!importVars
<1> QED
  BY <1>1, <1>2, <1>3, <1>4, <1>5, <1>6, <1>7, <1>8, <1>9, <1>10, <1>11, <1>12, <1>13
     DEF Import!Next

(* A progress bar on the screen is of a download that is going on, and no  *)
(* host is stored that was not in the list that was reviewed, for any      *)
(* files and however the dialog is closed, opened and retried              *)
(* (keys/page.tsx, hosts/page.tsx, lib/ssh/wasm.ts).                       *)
THEOREM BarsAreHonest == Import!Spec => []BarIsHonest
<1>1. Import!Init => ImportInv
  BY DEF Import!Init, Import!Idle, ImportInv
<1>2. ImportInv /\ [Import!Next]_(Import!importVars) => ImportInv'
  BY ImportStep
<1>3. ImportInv => Import!BarIsHonest
  BY DEF ImportInv, Import!BarIsHonest
<1> QED
  BY <1>1, <1>2, <1>3, PTL DEF Import!Spec, BarIsHonest

-------------------------------------------------------------------------------
(* The recorder. The session's entry names the one recorder that captures  *)
(* or saves: a save begins only after the capture has ended, and an end    *)
(* takes the tap away, so the entry a save empties is its own.             *)
Recorder == [state : {"new", "capturing", "ended"}, bytes : Nat, saving : BOOLEAN, retryable : BOOLEAN]

RecorderInv ==
  /\ rec \in [Recorders -> Recorder] /\ pro \in BOOLEAN
  /\ registry \in Recorders \cup {NoRecorder}
  /\ tapped \subseteq {registry} \ {NoRecorder}
  /\ \A r \in tapped : rec[r].state = "capturing"
  /\ \A r \in Recorders : rec[r].saving => registry = r /\ rec[r].state = "ended"
  /\ Recording!NothingVanishes

(* One recorder changes and the session's entry stays, or becomes it. *)
LEMMA RecorderMoves ==
  ASSUME RecorderInv, NEW r \in Recorders, NEW d \in Recorder,
         rec' = [rec EXCEPT ![r] = d], pro' = pro, registry' = r,
         registry \in {r, NoRecorder}, NoRecorder \notin Recorders,
         tapped' \subseteq {r}, tapped' # {} => d.state = "capturing",
         d.saving => d.state = "ended",
         kept \subseteq kept', dropped' = dropped
  PROVE  RecorderInv'
<1>1. /\ rec' \in [Recorders -> Recorder] /\ rec'[r] = d
      /\ \A q \in Recorders \ {r} : rec'[q] = rec[q]
  BY DEF RecorderInv
<1>2. \A q \in Recorders \ {r} : ~rec[q].saving
  BY DEF RecorderInv
<1>3. Recording!NothingVanishes'
  BY <1>1 DEF RecorderInv, Recording!NothingVanishes
<1> QED
  BY <1>1, <1>2, <1>3 DEF RecorderInv

LEMMA RecorderStep ==
  ASSUME Recording!CaptureAssumption, RecorderInv, [Recording!Next]_(Recording!captureVars)
  PROVE  RecorderInv'
<1>c. NoRecorder \notin Recorders /\ Cap \in Nat /\ Chunks \subseteq Nat
  BY DEF Recording!CaptureAssumption
<1>u. CASE /\ UNCHANGED <<registry, tapped, rec, kept, dropped>> /\ pro' \in BOOLEAN
  BY <1>u DEF RecorderInv, Recording!NothingVanishes
<1>t. rec \in [Recorders -> Recorder] /\ pro \in BOOLEAN
  BY DEF RecorderInv
<1>p. ASSUME NEW r \in Recorders, NEW f \in [Recorders -> Recorder], f[r].state = "ended",
             f = [rec EXCEPT ![r] = f[r]]
      PROVE  \E d \in Recorder : /\ Recording!Persisted(f, r) = [rec EXCEPT ![r] = d]
                                 /\ d.state = "ended"
  <2>1. CASE f[r].saving \/ ~unlocked
    BY <1>p, <2>1 DEF Recording!Persisted
  <2>2. CASE ~(f[r].saving \/ ~unlocked)
    <3> DEFINE d == [f[r] EXCEPT !.saving = TRUE, !.retryable = TRUE]
    <3>1. d \in Recorder /\ d.state = "ended"
      BY <1>p DEF Recorder
    <3>2. Recording!Persisted(f, r) = [f EXCEPT ![r] = d]
      BY <2>2 DEF Recording!Persisted
    <3> HIDE DEF d
    <3>3. [f EXCEPT ![r] = d] = [rec EXCEPT ![r] = d]
      BY <1>p, <1>t
    <3> QED
      BY <3>1, <3>2, <3>3
  <2> QED
    BY <2>1, <2>2
<1>e. ASSUME NEW r \in Recorders, rec' = Recording!Ended(rec, r), registry = r,
             tapped' = tapped \ {r}, UNCHANGED <<pro, registry, kept, dropped>>
      PROVE  RecorderInv'
  <2> DEFINE e == [rec[r] EXCEPT !.state = "ended"]
             f == [rec EXCEPT ![r] = e]
  <2>1. e \in Recorder /\ e.state = "ended"
    BY <1>t DEF Recorder
  <2>2. rec' = Recording!Persisted(f, r)
    BY <1>e DEF Recording!Ended
  <2> HIDE DEF e
  <2>3. f \in [Recorders -> Recorder] /\ f[r] = e
    BY <1>t, <2>1
  <2>4. PICK d \in Recorder : rec' = [rec EXCEPT ![r] = d] /\ d.state = "ended"
    <3> HIDE DEF f
    <3>1. f = [rec EXCEPT ![r] = f[r]]
      BY <2>3 DEF f
    <3> QED
      BY <1>p, <2>1, <2>2, <2>3, <3>1
  <2>5. tapped' = {}
    BY <1>e DEF RecorderInv
  <2> QED
    BY <1>c, <1>e, <2>4, <2>5, RecorderMoves
<1>1. CASE Recording!Start \/ Recording!Lock \/ Recording!PlanChanges
           \/ UNCHANGED Recording!captureVars
  BY <1>1, <1>t, <1>u DEF Recording!Start, Recording!Lock, Recording!PlanChanges,
                          Recording!captureVars
<1>2. CASE Recording!StartRecording
  <2>1. CASE UNCHANGED <<registry, tapped, rec>>
    BY <1>2, <1>t, <1>u, <2>1 DEF Recording!StartRecording
  <2>2. ASSUME registry = NoRecorder, NEW r \in Recorders, rec[r].state = "new", registry' = r,
               tapped' = (IF session THEN tapped \cup {r} ELSE tapped),
               rec' = [rec EXCEPT ![r].state = "capturing"], UNCHANGED <<pro, kept, dropped>>
        PROVE  RecorderInv'
    <3> DEFINE d == [rec[r] EXCEPT !.state = "capturing"]
    <3>1. d \in Recorder /\ d.state = "capturing" /\ d.saving = rec[r].saving
      BY <1>t DEF Recorder
    <3>2. ~rec[r].saving
      BY <2>2 DEF RecorderInv
    <3>3. rec' = [rec EXCEPT ![r] = d]
      BY <2>2
    <3> HIDE DEF d
    <3>4. tapped' \subseteq {r}
      BY <2>2 DEF RecorderInv
    <3> QED
      BY <1>c, <2>2, <3>1, <3>2, <3>3, <3>4, RecorderMoves
  <2> QED
    BY <1>2, <2>1, <2>2 DEF Recording!StartRecording
<1>3. ASSUME NEW n \in Chunks, Recording!Output(n)
      PROVE  RecorderInv'
  <2>1. PICK r \in tapped :
             /\ rec[r].state = "capturing"
             /\ IF Recording!Fits(r, n)
                  THEN rec' = [rec EXCEPT ![r].bytes = @ + n] /\ UNCHANGED tapped
                  ELSE rec' = Recording!Ended(rec, r) /\ tapped' = tapped \ {r}
    BY <1>3 DEF Recording!Output
  <2>2. r \in Recorders /\ registry = r /\ UNCHANGED <<pro, registry, kept, dropped>>
    BY <1>3 DEF RecorderInv, Recording!Output
  <2>3. CASE Recording!Fits(r, n)
    <3> DEFINE d == [rec[r] EXCEPT !.bytes = @ + n]
    <3>1. d \in Recorder /\ d.state = "capturing" /\ d.saving = rec[r].saving
      BY <1>c, <1>t, <2>1, <2>2 DEF Recorder
    <3>2. ~rec[r].saving
      BY <2>1, <2>2 DEF RecorderInv
    <3>3. rec' = [rec EXCEPT ![r] = d] /\ tapped' = tapped
      BY <2>1, <2>3
    <3> HIDE DEF d
    <3>4. tapped' \subseteq {r}
      BY <2>2, <3>3 DEF RecorderInv
    <3> QED
      BY <1>c, <2>2, <3>1, <3>2, <3>3, <3>4, RecorderMoves
  <2>4. CASE ~Recording!Fits(r, n)
    BY <1>e, <2>1, <2>2, <2>4
  <2> QED
    BY <2>3, <2>4
<1>4. CASE Recording!SessionCloses
  <2>1. tapped' = {} /\ UNCHANGED <<pro, registry, kept, dropped>>
    BY <1>4 DEF Recording!SessionCloses
  <2>2. CASE \E r \in tapped : rec[r].state = "capturing"
    <3> DEFINE r == CHOOSE q \in tapped : rec[q].state = "capturing"
    <3>1. rec' = Recording!Ended(rec, r)
      BY <1>4, <2>2 DEF Recording!SessionCloses
    <3>2. r \in tapped
      BY <2>2
    <3> HIDE DEF r
    <3>3. r \in Recorders /\ registry = r /\ tapped \ {r} = {}
      BY <3>2 DEF RecorderInv
    <3> QED
      BY <1>e, <2>1, <3>1, <3>3
  <2>3. CASE ~(\E r \in tapped : rec[r].state = "capturing")
    <3>1. rec' = rec
      BY <1>4, <2>3 DEF Recording!SessionCloses
    <3> QED
      BY <2>1, <3>1 DEF RecorderInv, Recording!NothingVanishes
  <2> QED
    BY <2>2, <2>3
<1>5. CASE Recording!Stop
  <2>1. registry \in Recorders
    BY <1>5 DEF RecorderInv, Recording!Stop
  <2> QED
    BY <1>5, <1>e, <2>1 DEF Recording!Stop
<1>6. CASE Recording!Retry
  <2>1. /\ registry \in Recorders /\ rec[registry].state = "ended"
        /\ rec' = Recording!Persisted(rec, registry)
        /\ UNCHANGED <<pro, registry, tapped, kept, dropped>>
    BY <1>6 DEF RecorderInv, Recording!Retry, Recording!Offered
  <2>2. rec = [rec EXCEPT ![registry] = rec[registry]]
    BY <1>t
  <2>3. PICK d \in Recorder : rec' = [rec EXCEPT ![registry] = d] /\ d.state = "ended"
    BY <1>p, <1>t, <2>1, <2>2
  <2>4. tapped = {}
    BY <2>1 DEF RecorderInv
  <2> QED
    BY <1>c, <2>1, <2>3, <2>4, RecorderMoves
<1>7. CASE Recording!Discard
  <2>1. /\ registry \in Recorders /\ ~rec[registry].saving /\ dropped' = dropped \cup {registry}
        /\ registry' = NoRecorder /\ tapped' = tapped \ {registry}
        /\ UNCHANGED <<pro, rec, kept>>
    BY <1>7 DEF RecorderInv, Recording!Discard, Recording!Offered
  <2>2. tapped' = {} /\ \A r \in Recorders : ~rec[r].saving
    BY <2>1 DEF RecorderInv
  <2> QED
    BY <2>1, <2>2 DEF RecorderInv, Recording!NothingVanishes
<1>8. ASSUME NEW r \in Recorders, Recording!Stored(r)
      PROVE  RecorderInv'
  <2> DEFINE d == [rec[r] EXCEPT !.saving = FALSE]
  <2>1. /\ registry = r /\ rec[r].state = "ended" /\ rec' = [rec EXCEPT ![r] = d]
        /\ kept' = kept \cup {r} /\ registry' = NoRecorder /\ UNCHANGED <<pro, tapped, dropped>>
    BY <1>8 DEF RecorderInv, Recording!Stored
  <2>2. d \in Recorder /\ d.state = "ended" /\ d.saving = FALSE
    BY <1>t, <2>1 DEF Recorder
  <2> HIDE DEF d
  <2>3. tapped = {}
    BY <2>1 DEF RecorderInv
  <2>4. /\ rec' \in [Recorders -> Recorder] /\ rec'[r] = d
        /\ \A q \in Recorders \ {r} : rec'[q] = rec[q]
    BY <1>t, <2>1, <2>2
  <2>5. \A q \in Recorders : ~rec'[q].saving
    BY <2>1, <2>2, <2>4 DEF RecorderInv
  <2>6. Recording!NothingVanishes'
    BY <2>1, <2>4 DEF RecorderInv, Recording!NothingVanishes
  <2> QED
    BY <1>t, <2>1, <2>3, <2>4, <2>5, <2>6 DEF RecorderInv
<1>9. ASSUME NEW r \in Recorders, Recording!SaveFails(r)
      PROVE  RecorderInv'
  <2> DEFINE d == [rec[r] EXCEPT !.saving = FALSE, !.retryable = pro]
  <2>1. /\ registry = r /\ rec[r].state = "ended" /\ rec' = [rec EXCEPT ![r] = d]
        /\ kept \subseteq kept' /\ UNCHANGED <<pro, registry, tapped, dropped>>
    BY <1>9 DEF RecorderInv, Recording!SaveFails
  <2>2. d \in Recorder /\ d.saving = FALSE
    BY <1>t, <2>1 DEF Recorder
  <2> HIDE DEF d
  <2>3. tapped = {}
    BY <2>1 DEF RecorderInv
  <2> QED
    BY <1>c, <2>1, <2>2, <2>3, RecorderMoves
<1> QED
  BY <1>1, <1>2, <1>3, <1>4, <1>5, <1>6, <1>7, <1>8, <1>9 DEF Recording!Next

(* What was captured is in the tab, on the server or was discarded by its  *)
(* user, for any number of recordings of a session and any cap, however    *)
(* saves, retries, locks and the session's close cross                     *)
(* (lib/recording/capture.ts).                                             *)
THEOREM NothingCapturedVanishes ==
  ASSUME Recording!CaptureAssumption
  PROVE  Recording!Spec => []NothingVanishes
<1>1. Recording!Init => RecorderInv
  BY DEF Recording!Init, Recording!NewRecorder, Recorder, RecorderInv, Recording!NothingVanishes
<1>2. RecorderInv /\ [Recording!Next]_(Recording!captureVars) => RecorderInv'
  BY RecorderStep
<1>3. RecorderInv => Recording!NothingVanishes
  BY DEF RecorderInv
<1> QED
  BY <1>1, <1>2, <1>3, PTL DEF Recording!Spec, NothingVanishes

-------------------------------------------------------------------------------
(* A set of numbers that is not empty has a least member. *)
LEMMA LeastOf ==
  ASSUME NEW S \in SUBSET Nat, S # {}
  PROVE  \E n \in S : \A m \in S : n <= m
<1> DEFINE Below == {p \in Nat \X Nat : p[1] < p[2]}
<1>1. IsWellFoundedOn(Below, Nat)
  BY NatLessThanWellFounded, Zenon DEF OpToRel
<1> HIDE DEF Below
<1>2. PICK n \in S : \A m \in S : ~(<<m, n>> \in Below)
  BY <1>1, WFMin, Zenon
<1>3. \A m \in S : ~(m < n)
  <2> SUFFICES ASSUME NEW m \in S, m < n
               PROVE  FALSE
    OBVIOUS
  <2>1. <<m, n>> \in Nat \X Nat /\ <<m, n>>[1] = m /\ <<m, n>>[2] = n
    OBVIOUS
  <2> QED
    BY <1>2, <2>1 DEF Below
<1> QED
  BY <1>3

(* The stores of hosts and keys. A sync puts what its document holds and   *)
(* deletes what it had read, and what was made since it read is neither    *)
(* in the one nor in the other.                                            *)
Stamps == 0..MaxStamp

StoreTypes ==
  /\ page \in {"host", "key", "snippet"}
  /\ store \in [RecordIds -> Stamps]
  /\ sync.doc \in [RecordIds -> Stamps]
  /\ asked # Stores!NoAsk => asked.id \in RecordIds
  /\ DOMAIN write = {"op", "id", "step", "map"}
  /\ write.step \in {"read", "write"} => write.id \in RecordIds /\ write.op \in {"save", "delete"}
  /\ visit \in RecordIds \cup {None}
  /\ made \subseteq RecordIds

SyncFields == {"step", "prev", "doc", "todo", "gone", "map", "at"}

StoreInv ==
  /\ StoreTypes
  /\ DOMAIN sync = SyncFields
  /\ sync.todo \subseteq Stores!Held(sync.doc)
  /\ sync.gone \subseteq Stores!Held(sync.prev)
  /\ made \cap Stores!Held(sync.prev) = {}
  /\ \A i \in made : store[i] # 0

(* A stamp that is written is not the mark of a missing record. *)
LEMMA NowIsAStamp ==
  ASSUME Stores!RecordsAssumption, StoreTypes
  PROVE  Stores!Now \in Nat \ {0}
<1> DEFINE All == {store[i] : i \in RecordIds} \cup {sync.doc[i] : i \in RecordIds} \cup {0}
           Above(n) == \A i \in RecordIds : store[i] <= n /\ sync.doc[i] <= n
           Tops == {n \in Nat : Above(n)}
<1>1. /\ MaxStamp \in Nat /\ \A i \in RecordIds : store[i] \in 0..MaxStamp /\ sync.doc[i] \in 0..MaxStamp
  BY DEF StoreTypes, Stamps, Stores!RecordsAssumption
<1>2. MaxStamp \in Tops
  BY <1>1
<1>3. PICK n \in Tops : \A m \in Tops : n <= m
  BY <1>2, LeastOf
<1>4. n \in 0..MaxStamp /\ Above(n)
  BY <1>1, <1>2, <1>3
<1>5. n \in All
  <2>1. CASE n = 0
    BY <2>1
  <2>2. CASE n # 0
    <3>1. n - 1 \in Nat /\ ~(n <= n - 1)
      BY <1>4, <2>2
    <3>2. n - 1 \notin Tops
      BY <1>3, <3>1
    <3>3. PICK i \in RecordIds : ~(store[i] <= n - 1) \/ ~(sync.doc[i] <= n - 1)
      BY <3>1, <3>2
    <3>4. store[i] = n \/ sync.doc[i] = n
      BY <1>1, <1>4, <3>3
    <3> QED
      BY <3>4
  <2> QED
    BY <2>1, <2>2
<1> DEFINE c == CHOOSE k \in 0..MaxStamp : k \in All /\ Above(k)
<1>6. c \in 0..MaxStamp
  BY <1>4, <1>5
<1>7. Stores!Now = 1 + c
  BY DEF Stores!Now
<1> HIDE DEF c
<1> QED
  BY <1>1, <1>6, <1>7

LEMMA StoreStep ==
  ASSUME Stores!RecordsAssumption, page # "snippet", StoreInv,
         [Stores!Next]_(Stores!recordVars)
  PROVE  StoreInv'
<1>c. None \notin RecordIds /\ MaxStamp \in Nat /\ 0 \in Stamps
  BY DEF Stores!RecordsAssumption, Stamps
<1>n. /\ Stores!NoAsk' = Stores!NoAsk /\ Stores!NoAsk.op = "none"
      /\ Stores!NoWrite.step = "none" /\ DOMAIN Stores!NoWrite = {"op", "id", "step", "map"}
  BY DEF Stores!NoAsk, Stores!NoWrite
<1>t. StoreTypes
  BY DEF StoreInv
<1>h. \A held : Stores!Held(held) = {i \in RecordIds : held[i] # 0}
  BY DEF Stores!Held
(* Nothing of what the invariant is about changes. *)
<1>u. ASSUME UNCHANGED <<page, store, sync, made>>, StoreTypes'
      PROVE  StoreInv'
  BY <1>u, <1>h DEF StoreInv, Stores!Held
(* One row is written: put or, by the page's own delete, taken away. *)
<1>w. ASSUME NEW i \in RecordIds, NEW v \in Stamps, store' = [store EXCEPT ![i] = v],
             UNCHANGED <<page, sync>>, StoreTypes',
             \/ v # 0 /\ (made' = made \/ (made' = made \cup {i} /\ sync.prev[i] = 0))
             \/ made' = made \ {i}
      PROVE  StoreInv'
  <2>1. store'[i] = v /\ \A k \in RecordIds \ {i} : store'[k] = store[k]
    BY <1>t, <1>w DEF StoreTypes
  <2>2. \A k \in made' : store'[k] # 0
    BY <1>w, <2>1 DEF StoreInv, StoreTypes
  <2>3. made' \cap Stores!Held(sync.prev) = {}
    BY <1>w, <1>h DEF StoreInv
  <2> QED
    BY <1>w, <2>2, <2>3 DEF StoreInv, Stores!Held
<1>1. ASSUME NEW i \in RecordIds, NEW op, Stores!Opens(op, i)
      PROVE  StoreInv'
  <2>1. asked'.id \in RecordIds /\ UNCHANGED <<page, store, write, visit, sync, made>>
    BY <1>1 DEF Stores!Opens
  <2> QED
    BY <1>t, <1>u, <2>1 DEF StoreTypes
<1>2. CASE Stores!Cancel
  BY <1>2, <1>n, <1>t, <1>u DEF StoreTypes, Stores!Cancel
<1>3. ASSUME NEW op \in {"save", "delete"}, NEW step \in {"read", "write"}, Stores!Begins(op, step)
      PROVE  StoreInv'
  <2>1. /\ asked # Stores!NoAsk /\ asked' = Stores!NoAsk
        /\ UNCHANGED <<page, store, visit, sync, made>>
    BY <1>3, <1>n DEF Stores!Begins
  <2>2. /\ write'.id = asked.id /\ write'.op = op /\ write'.step = step
        /\ DOMAIN write' = {"op", "id", "step", "map"}
    BY <1>3 DEF Stores!Begins
  <2> QED
    BY <1>n, <1>t, <1>u, <2>1, <2>2 DEF StoreTypes
<1>4. CASE Stores!ReadMap
  BY <1>4 DEF StoreInv, StoreTypes, Stores!ReadMap
<1>5. CASE Stores!Write
  <2>1. /\ write.step = "write" /\ write.id \in RecordIds /\ write.op \in {"save", "delete"}
        /\ UNCHANGED <<page, asked, visit, sync>>
    BY <1>5 DEF StoreInv, StoreTypes, Stores!Write
  <2>2. write'.step = "list" /\ DOMAIN write' = {"op", "id", "step", "map"}
    BY <1>5, <1>t DEF StoreTypes, Stores!Write
  <2>3. CASE write.op = "save"
    <3>1. Stores!Now \in Stamps \ {0}
      BY <1>5, <1>c, <1>t, <2>3, NowIsAStamp DEF Stamps, Stores!Write
    <3>2. store' = [store EXCEPT ![write.id] = Stores!Now]
      BY <1>5, <2>3 DEF Stores!Write, Stores!Base
    <3>3. made' = made \/ (made' = made \cup {write.id} /\ sync.prev[write.id] = 0)
      BY <1>5, <2>3 DEF Stores!Write, Stores!Unused
    <3>4. StoreTypes'
      BY <1>n, <1>t, <2>1, <2>2, <3>1, <3>2, <3>3 DEF StoreTypes
    <3> QED
      BY <1>w, <2>1, <3>1, <3>2, <3>3, <3>4
  <2>4. CASE write.op = "delete"
    <3>1. store' = [store EXCEPT ![write.id] = 0] /\ made' = made \ {write.id}
      BY <1>5, <2>4 DEF Stores!Write, Stores!Base
    <3>2. StoreTypes'
      BY <1>c, <1>n, <1>t, <2>1, <2>2, <3>1 DEF StoreTypes
    <3> QED
      BY <1>c, <1>w, <2>1, <3>1, <3>2
  <2> QED
    BY <2>1, <2>3, <2>4
<1>6. CASE Stores!WriteFails
  BY <1>6, <1>n, <1>t, <1>u DEF StoreTypes, Stores!WriteFails
<1>7. CASE Stores!Relists
  BY <1>7, <1>n, <1>t, <1>u DEF StoreTypes, Stores!Relists
<1>8. ASSUME NEW i \in RecordIds, Stores!VisitReads(i)
      PROVE  StoreInv'
  BY <1>8, <1>n, <1>t, <1>u DEF StoreTypes, Stores!VisitReads
<1>9. CASE Stores!VisitWrites
  <2>1. visit \in RecordIds /\ Stores!Now \in Stamps \ {0}
    BY <1>9, <1>c, <1>t, NowIsAStamp DEF StoreTypes, Stamps, Stores!VisitWrites
  <2>2. /\ store' = [store EXCEPT ![visit] = Stores!Now] /\ visit' = None
        /\ UNCHANGED <<page, asked, write, sync, made>>
    BY <1>9 DEF Stores!VisitWrites
  <2>3. StoreTypes'
    BY <1>n, <1>t, <2>1, <2>2 DEF StoreTypes
  <2> QED
    BY <1>w, <2>1, <2>2, <2>3
<1>10. CASE Stores!SyncReads
  <2>1. PICK doc \in [RecordIds -> Stamps] :
             sync' = [Stores!NoSync EXCEPT !.step = "put", !.prev = store, !.doc = doc,
                                           !.todo = Stores!Held(doc)]
    BY <1>10 DEF Stores!SyncReads, Stamps
  <2>2. /\ sync'.prev = store /\ sync'.doc = doc /\ sync'.todo = Stores!Held(doc)
        /\ sync'.gone = {} /\ DOMAIN sync' = SyncFields
    BY <2>1 DEF Stores!NoSync, SyncFields
  <2>3. made' = made \ Stores!Held(store) /\ UNCHANGED <<page, store, asked, write, visit>>
    BY <1>10 DEF Stores!SyncReads
  <2>4. StoreTypes'
    BY <1>n, <1>t, <2>2, <2>3 DEF StoreTypes
  <2> QED
    BY <1>h, <2>2, <2>3, <2>4 DEF StoreInv, Stores!Held
<1>11. ASSUME NEW i \in RecordIds, Stores!SyncWrites(i)
       PROVE  StoreInv'
  <2>1. /\ store' = [store EXCEPT ![i] = sync.doc[i]] /\ Stores!Next1(i)
        /\ UNCHANGED <<page, asked, write, visit, made>>
    BY <1>11 DEF Stores!SyncWrites
  <2>2. sync' = Stores!Done(i)
    BY <1>11 DEF Stores!SyncWrites
  <2>3. /\ sync'.doc = sync.doc /\ sync'.prev = sync.prev /\ sync'.todo \subseteq sync.todo
        /\ sync'.gone \subseteq sync.gone /\ DOMAIN sync' = SyncFields
    BY <2>2 DEF StoreInv, SyncFields, Stores!Done
  <2>4. StoreTypes'
    BY <1>n, <1>t, <2>1, <2>3 DEF StoreTypes
  <2>5. i \in made => sync.doc[i] # 0
    BY <1>h, <2>1 DEF StoreInv, Stores!Next1
  <2>6. \A k \in made' : store'[k] # 0
    BY <1>t, <2>1, <2>5 DEF StoreInv, StoreTypes
  <2> QED
    BY <1>h, <2>1, <2>3, <2>4, <2>6 DEF StoreInv, Stores!Held
<1>12. CASE Stores!SyncForgets
  <2>1. /\ sync'.doc = sync.doc /\ sync'.prev = sync.prev /\ sync'.todo = sync.todo
        /\ sync'.gone = Stores!Gone(sync.prev, sync.doc) /\ DOMAIN sync' = SyncFields
    BY <1>12 DEF StoreInv, SyncFields, Stores!SyncForgets
  <2>2. UNCHANGED <<page, store, asked, write, visit, made>>
    BY <1>12 DEF Stores!SyncForgets
  <2>3. StoreTypes'
    BY <1>n, <1>t, <2>1, <2>2 DEF StoreTypes
  <2> QED
    BY <1>h, <2>1, <2>2, <2>3 DEF StoreInv, Stores!Gone, Stores!Held
<1>13. CASE Stores!SyncEnds \/ Stores!SyncFails
  <2>1. sync' = Stores!NoSync /\ UNCHANGED <<page, store, asked, write, visit, made>>
    BY <1>13 DEF Stores!SyncEnds, Stores!SyncFails
  <2>2. /\ sync'.doc = Stores!NoStore /\ sync'.prev = Stores!NoStore /\ sync'.todo = {}
        /\ sync'.gone = {} /\ DOMAIN sync' = SyncFields
    BY <2>1 DEF Stores!NoSync, SyncFields
  <2>3. Stores!NoStore \in [RecordIds -> Stamps] /\ Stores!Held(Stores!NoStore) = {}
    BY <1>c DEF Stores!NoStore, Stores!Held
  <2>4. StoreTypes'
    BY <1>n, <1>t, <2>1, <2>2, <2>3 DEF StoreTypes
  <2> QED
    BY <1>h, <2>1, <2>2, <2>3, <2>4 DEF StoreInv, Stores!Held
<1>14. CASE UNCHANGED Stores!recordVars
  BY <1>14, <1>n, <1>t, <1>u DEF StoreTypes, Stores!recordVars
<1>15. ASSUME NEW i \in RecordIds, \/ Stores!OpenHost(i) \/ Stores!OpenSnippet(i) \/ Stores!OpenGenerate(i)
                             \/ Stores!RemoveHost(i) \/ Stores!RemoveSnippet(i) \/ Stores!RemoveKey(i)
       PROVE  StoreInv'
  BY <1>1, <1>15 DEF Stores!OpenHost, Stores!OpenSnippet, Stores!OpenGenerate, Stores!RemoveHost,
                     Stores!RemoveSnippet, Stores!RemoveKey
<1>16. CASE \/ Stores!SaveHost \/ Stores!GenerateKey \/ Stores!SaveSnippet
            \/ Stores!DeleteHost \/ Stores!DeleteKey \/ Stores!DeleteSnippet
  BY <1>3, <1>16 DEF Stores!SaveHost, Stores!GenerateKey, Stores!SaveSnippet, Stores!DeleteHost,
                     Stores!DeleteKey, Stores!DeleteSnippet
<1>17. CASE Stores!ListHosts \/ Stores!ListKeys \/ Stores!ListSnippets
  BY <1>7, <1>17 DEF Stores!ListHosts, Stores!ListKeys, Stores!ListSnippets
<1>18. ASSUME NEW i \in RecordIds, Stores!SyncReadsMap(i)
       PROVE  StoreInv'
  BY <1>18 DEF Stores!SyncReadsMap
<1> QED
  BY <1>2, <1>4, <1>5, <1>6, <1>8, <1>9, <1>10, <1>11, <1>12, <1>13, <1>14, <1>15, <1>16, <1>17, <1>18
     DEF Stores!Next

(* A host or a key made here while a sync is at work is still there after  *)
(* the sync's writes, in whatever order they and the page's land, for any  *)
(* records and stamps (lib/vault/sync.ts, lib/hosts.ts, lib/keys.ts).      *)
THEOREM NewRecordsAreKept ==
  ASSUME Stores!RecordsAssumption
  PROVE  Stores!Spec => []NewKept
<1>1. Stores!Init => StoreInv
  <2>1. Stores!NoStore \in [RecordIds -> Stamps] /\ Stores!Held(Stores!NoStore) = {}
    BY DEF Stores!RecordsAssumption, Stores!NoStore, Stores!Held, Stamps
  <2>2. /\ Stores!NoSync.doc = Stores!NoStore /\ Stores!NoSync.prev = Stores!NoStore
        /\ Stores!NoSync.todo = {} /\ Stores!NoSync.gone = {} /\ DOMAIN Stores!NoSync = SyncFields
    BY DEF Stores!NoSync, SyncFields
  <2>3. Stores!NoWrite.step = "none" /\ DOMAIN Stores!NoWrite = {"op", "id", "step", "map"}
    BY DEF Stores!NoWrite
  <2> QED
    BY <2>1, <2>2, <2>3 DEF Stores!Init, StoreInv, StoreTypes
<1>2. (page # "snippet" => StoreInv) /\ [Stores!Next]_(Stores!recordVars)
      => (page # "snippet" => StoreInv)'
  <2>1. [Stores!Next]_(Stores!recordVars) => page' = page
    BY DEF Stores!Next, Stores!recordVars, Stores!OpenHost, Stores!OpenSnippet, Stores!OpenGenerate,
           Stores!RemoveHost, Stores!RemoveSnippet, Stores!RemoveKey, Stores!Opens, Stores!Cancel,
           Stores!SaveHost, Stores!GenerateKey, Stores!SaveSnippet, Stores!DeleteHost,
           Stores!DeleteKey, Stores!DeleteSnippet, Stores!Begins, Stores!ReadMap, Stores!Write,
           Stores!WriteFails, Stores!ListHosts, Stores!ListKeys, Stores!ListSnippets,
           Stores!Relists, Stores!VisitReads, Stores!VisitWrites, Stores!SyncReads,
           Stores!SyncReadsMap, Stores!SyncWrites, Stores!SyncForgets, Stores!SyncEnds,
           Stores!SyncFails
  <2> QED
    BY <2>1, StoreStep
<1>3. (page # "snippet" => StoreInv) => Stores!NewKept
  BY DEF StoreInv, Stores!NewKept
<1> QED
  BY <1>1, <1>2, <1>3, PTL DEF Stores!Spec, NewKept

-------------------------------------------------------------------------------
(* The activity page. The newest rows of a set of events reach down to the *)
(* cursor: a page that is not full is the whole set, and one that is full  *)
(* has an event of every instant the set has from its oldest row on.       *)
Entry == [n : Nat, at : Nat]
Later(f, e) == f.at > e.at \/ (f.at = e.at /\ f.n > e.n)
Newer(S, e) == {f \in S : Later(f, e)}
Reaches(cursor, e) == cursor = Activity!NoCursor \/ e.at >= cursor
Has(list_, e) == \E r \in list_ : r.at = e.at

LEMMA OldestIsThere ==
  ASSUME NEW T \in SUBSET Entry, T # {}
  PROVE  LET o == Activity!Oldest(T) IN
         /\ o \in T
         /\ \A f \in T : o.at < f.at \/ (o.at = f.at /\ o.n <= f.n)
<1> DEFINE Ats == {f.at : f \in T}
<1>1. Ats \in SUBSET Nat /\ Ats # {}
  BY DEF Entry
<1> HIDE DEF Ats
<1>2. PICK a \in Ats : \A m \in Ats : a <= m
  BY <1>1, LeastOf
<1> USE DEF Ats
<1> DEFINE Ns == {f.n : f \in {g \in T : g.at = a}}
<1>3. Ns \in SUBSET Nat /\ Ns # {}
  BY <1>2 DEF Entry
<1> HIDE DEF Ns
<1>4. PICK n \in Ns : \A m \in Ns : n <= m
  BY <1>3, LeastOf
<1> USE DEF Ns
<1>5. PICK x \in T : x.at = a /\ x.n = n
  BY <1>4
<1>6. \A f \in T : x.at < f.at \/ (x.at = f.at /\ x.n <= f.n)
  <2> SUFFICES ASSUME NEW f \in T
               PROVE  x.at < f.at \/ (x.at = f.at /\ x.n <= f.n)
    OBVIOUS
  <2>1. x.at <= f.at /\ x.at \in Nat /\ f.at \in Nat
    BY <1>2, <1>5 DEF Entry
  <2>2. f.at = x.at => x.n <= f.n
    BY <1>4, <1>5
  <2> QED
    BY <2>1, <2>2
<1> QED
  BY <1>6 DEF Activity!Oldest

LEMMA TopReaches ==
  ASSUME NEW S \in SUBSET Entry, IsFiniteSet(S), \A e, f \in S : e.n = f.n => e = f,
         PageSize \in Nat \ {0},
         NEW e \in S, Reaches(Activity!NextCursor(Activity!Top(S, PageSize)), e)
  PROVE  Has(Activity!Top(S, PageSize), e)
<1> DEFINE top == Activity!Top(S, PageSize)
           o == Activity!Oldest(top)
<1>c. \A T : Activity!Cardinality(T) = Cardinality(T)
  BY DEF Activity!Cardinality, Cardinality
<1>1. \A f \in S : IsFiniteSet(Newer(S, f)) /\ Cardinality(Newer(S, f)) \in Nat
  BY FS_Subset, FS_CardinalityType DEF Newer
<1>2. \A f \in S : f \in top <=> Cardinality(Newer(S, f)) < PageSize
  BY <1>c DEF Activity!Top, Newer, Later
<1>t. top \subseteq S /\ IsFiniteSet(top) /\ Cardinality(top) \in Nat
  <2>1. top \subseteq S
    BY DEF Activity!Top
  <2> QED
    BY <2>1, FS_Subset, FS_CardinalityType
<1>n. Activity!NextCursor(top) = IF Cardinality(top) = PageSize THEN o.at ELSE Activity!NoCursor
  BY <1>c DEF Activity!NextCursor
<1> HIDE DEF top, o
<1>3. ASSUME NEW f \in S, NEW g \in S, Later(f, g)
      PROVE  Cardinality(Newer(S, f)) < Cardinality(Newer(S, g))
  <2>1. Newer(S, f) \subseteq Newer(S, g) /\ f \in Newer(S, g) /\ f \notin Newer(S, f)
    BY <1>3 DEF Newer, Later, Entry
  <2>2. /\ Cardinality(Newer(S, f)) <= Cardinality(Newer(S, g))
        /\ Cardinality(Newer(S, f)) # Cardinality(Newer(S, g))
    BY <1>1, <2>1, FS_Subset
  <2> QED
    BY <1>1, <2>2
<1>4. \A f, g \in S : f = g \/ Later(f, g) \/ Later(g, f)
  BY DEF Later, Entry
<1>5. ASSUME top # {}
      PROVE  o \in top /\ \A f \in top : f = o \/ Later(f, o)
  <2>1. /\ o \in top
        /\ \A f \in top : o.at < f.at \/ (o.at = f.at /\ o.n <= f.n)
    BY <1>5, <1>t, OldestIsThere DEF o
  <2> QED
    BY <1>t, <1>4, <2>1 DEF Later, Entry
<1>6. CASE e \in top
  BY <1>6 DEF Has, top
<1>7. CASE e \notin top
  <2> DEFINE Counts == {Cardinality(Newer(S, g)) : g \in S \ top}
  <2>1. Counts \in SUBSET Nat /\ Counts # {}
    BY <1>1, <1>7
  <2> HIDE DEF Counts
  <2>2. PICK k \in Counts : \A m \in Counts : k <= m
    BY <2>1, LeastOf
  <2>3. PICK g \in S \ top : k = Cardinality(Newer(S, g))
    BY <2>2 DEF Counts
  <2>4. k \in Nat /\ k >= PageSize
    BY <1>1, <1>2, <2>3
  <2>5. Newer(S, g) \subseteq top
    <3> SUFFICES ASSUME NEW f \in S, Later(f, g), f \notin top
                 PROVE  FALSE
      BY DEF Newer
    <3>1. Cardinality(Newer(S, f)) \in Counts
      BY DEF Counts
    <3>2. k <= Cardinality(Newer(S, f))
      BY <2>2, <3>1
    <3>3. Cardinality(Newer(S, f)) < k
      BY <1>3, <2>3
    <3> QED
      BY <1>1, <2>4, <3>2, <3>3
  <2>6. Cardinality(top) >= PageSize /\ top # {}
    <3>1. k <= Cardinality(top)
      BY <1>t, <2>3, <2>5, FS_Subset
    <3> QED
      BY <1>t, <2>4, <3>1, FS_EmptySet
  <2>7. o \in top /\ \A f \in top : f = o \/ Later(f, o)
    BY <1>5, <2>6
  <2>8. Cardinality(top) <= PageSize
    <3>1. top \ {o} \subseteq Newer(S, o)
      BY <1>t, <2>7 DEF Newer
    <3>2. IsFiniteSet(top \ {o}) /\ Cardinality(top \ {o}) = Cardinality(top) - 1
      BY <1>t, <2>7, FS_RemoveElement
    <3>3. Cardinality(top \ {o}) <= Cardinality(Newer(S, o))
      BY <1>1, <1>t, <2>7, <3>1, FS_Subset
    <3>4. Cardinality(Newer(S, o)) < PageSize /\ Cardinality(Newer(S, o)) \in Nat
      BY <1>1, <1>2, <1>t, <2>7
    <3> QED
      BY <1>t, <3>2, <3>3, <3>4
  <2>9. e.at >= o.at
    <3>1. Activity!NextCursor(top) = o.at
      BY <1>n, <1>t, <2>6, <2>8
    <3>2. o.at # Activity!NoCursor
      BY <1>t, <2>7 DEF Entry, Activity!NoCursor
    <3> QED
      BY <3>1, <3>2 DEF Reaches, top
  <2>10. ~Later(e, o)
    <3> SUFFICES ASSUME Later(e, o)
                 PROVE  FALSE
      OBVIOUS
    <3>1. Cardinality(Newer(S, e)) < Cardinality(Newer(S, o))
      BY <1>3, <1>t, <2>7
    <3>2. Cardinality(Newer(S, o)) < PageSize
      BY <1>2, <1>t, <2>7
    <3> QED
      BY <1>1, <1>2, <1>7, <1>t, <2>7, <3>1, <3>2
  <2>11. e.at = o.at
    BY <1>t, <2>7, <2>9, <2>10 DEF Later, Entry
  <2> QED
    BY <2>7, <2>11 DEF Has, top
<1> QED
  BY <1>6, <1>7

(* An entry that the shortest window still has. *)
Recent(e) == e.at >= Activity!Cutoff("free")

(* What is shown, and what an answer brings, is complete down to its       *)
(* cursor; what was pruned, or is to be, has left every window.            *)
FullTable ==
  table.phase = "ready" =>
    \A e \in log : e.n <= table.known /\ Recent(e) /\ Reaches(table.cursor, e) => Has(table.rows, e)

FullAnswer ==
  request.read =>
    /\ request.kind = "first" =>
         \A e \in log : e.n <= request.known /\ Recent(e) /\ Reaches(request.next, e)
                          => Has(request.rows, e)
    /\ request.kind = "older" =>
         \A e \in log : /\ e.n <= table.known /\ Recent(e)
                        /\ Reaches(request.next, e) /\ e.at < table.cursor
                        => Has(request.rows, e)

Written ==
  /\ log \subseteq Entry /\ IsFiniteSet(log) /\ day \in Nat
  /\ \A e \in log : e.n <= Cardinality(log)
  /\ \A e, f \in log : e.n = f.n => e = f

OutOfWindow ==
  /\ \A e \in pruned : e \in Entry /\ ~Recent(e)
  /\ pruning \in [on : BOOLEAN, free : Int, pro : Int]
  /\ pruning.on => /\ pruning.free <= Activity!Cutoff("free")
                   /\ pruning.pro <= Activity!Cutoff("free")

Requests == [kind : {"none", "first", "older"}, read : BOOLEAN, rows : SUBSET Entry,
             next : Int, known : Nat]
Tables == [phase : {"loading", "ready", "error"}, rows : SUBSET Entry,
           cursor : Int, readAt : Nat, known : Nat]

Asked ==
  /\ request \in Requests /\ table \in Tables
  /\ request.known <= Cardinality(log) /\ table.known <= Cardinality(log)
  /\ request.kind = "older" => table.phase = "ready" /\ table.cursor # Activity!NoCursor

LogInv == Written /\ OutOfWindow /\ Asked /\ FullTable /\ FullAnswer

LEMMA Blanks ==
  /\ Activity!NoTable \in Tables /\ Activity!NoTable.known = 0
  /\ Activity!NoRequest \in Requests /\ Activity!NoRequest.known = 0
  /\ Activity!NoRequest.kind = "none" /\ ~Activity!NoRequest.read
  /\ \A k \in {"first", "older"} :
       LET blank == [Activity!NoRequest EXCEPT !.kind = k] IN
       blank \in Requests /\ blank.kind = k /\ ~blank.read /\ blank.known = 0
<1>1. Activity!NoCursor \in Int /\ {} \in SUBSET Entry
  BY DEF Activity!NoCursor
<1>2. Activity!NoRequest \in Requests
  BY <1>1 DEF Activity!NoRequest, Requests
<1>3. Activity!NoTable \in Tables
  BY <1>1 DEF Activity!NoTable, Tables
<1>4. /\ Activity!NoRequest.known = 0 /\ Activity!NoRequest.kind = "none"
      /\ ~Activity!NoRequest.read /\ Activity!NoTable.known = 0
  BY DEF Activity!NoRequest, Activity!NoTable
<1> QED
  BY <1>2, <1>3, <1>4 DEF Requests

(* The answer to a read is complete, whoever is asking and whatever the    *)
(* subscription is taken for.                                              *)
LEMMA ReadStep ==
  ASSUME Activity!AuditAssumption, LogInv, Activity!Read
  PROVE  LogInv'
<1>c. \A T : Activity!Cardinality(T) = Cardinality(T)
  BY DEF Activity!Cardinality, Cardinality
<1>k. /\ Keep["free"] \in Nat /\ Keep["pro"] \in Nat /\ Keep["free"] <= Keep["pro"]
      /\ PageSize \in Nat \ {0} /\ day \in Nat
  BY DEF Activity!AuditAssumption, LogInv, Written
<1> PICK tier \in Activity!Tiers :
      LET S == {e \in log \ pruned : /\ e.at >= Activity!Cutoff(tier)
                                     /\ request.kind = "older" => e.at < table.cursor}
          top == Activity!Top(S, PageSize) IN
      request' = [request EXCEPT !.read = TRUE, !.rows = top, !.next = Activity!NextCursor(top),
                                 !.known = Activity!Cardinality(log)]
  BY DEF Activity!Read
<1> DEFINE S == {e \in log \ pruned : /\ e.at >= Activity!Cutoff(tier)
                                      /\ request.kind = "older" => e.at < table.cursor}
           top == Activity!Top(S, PageSize)
<1>1. /\ request' = [request EXCEPT !.read = TRUE, !.rows = top,
                                    !.next = Activity!NextCursor(top), !.known = Cardinality(log)]
      /\ UNCHANGED <<day, log, pruned, sub, table, pruning>>
  BY <1>c DEF Activity!Read
<1>2. S \in SUBSET Entry /\ IsFiniteSet(S) /\ (\A e, f \in S : e.n = f.n => e = f) /\ top \subseteq S
  <2>1. S \subseteq log /\ top \subseteq S
    BY DEF Activity!Top
  <2> HIDE DEF S, top
  <2> QED
    BY <2>1, FS_Subset DEF LogInv, Written
<1>3. ASSUME NEW e \in log, Recent(e), request.kind = "older" => e.at < table.cursor
      PROVE  e \in S
  <2>1. tier = "free" \/ tier = "pro"
    BY DEF Activity!Tiers
  <2>2. e \notin pruned /\ e.at \in Nat
    BY <1>3 DEF LogInv, OutOfWindow, Written, Entry
  <2>3. e.at >= Activity!Cutoff(tier)
    BY <1>k, <1>3, <2>1, <2>2 DEF Recent, Activity!Cutoff
  <2> QED
    BY <1>3, <2>2, <2>3
<1>4. Activity!NextCursor(top) \in Int
  <2>1. CASE Cardinality(top) = PageSize
    <3>1. top # {}
      BY <1>k, <2>1, FS_EmptySet
    <3>2. Activity!Oldest(top) \in top
      <4>1. top \in SUBSET Entry
        BY <1>2
      <4> HIDE DEF top
      <4> QED
        BY <3>1, <4>1, OldestIsThere
    <3> QED
      BY <1>c, <1>2, <3>2 DEF Entry, Activity!NextCursor, Activity!NoCursor
  <2>2. CASE Cardinality(top) # PageSize
    BY <1>c, <2>2 DEF Activity!NextCursor, Activity!NoCursor
  <2> QED
    BY <2>1, <2>2
<1>5. \A e \in S : Reaches(Activity!NextCursor(top), e) => Has(top, e)
  BY <1>2, <1>k, TopReaches
<1> HIDE DEF S, top
<1>6. Cardinality(log) \in Nat
  BY FS_CardinalityType DEF LogInv, Written
<1>7. /\ request' \in Requests
      /\ request'.kind = request.kind /\ request'.rows = top /\ request'.known = Cardinality(log)
      /\ request'.next = Activity!NextCursor(top)
  BY <1>1, <1>2, <1>4, <1>6 DEF LogInv, Asked, Requests
<1>8. Asked'
  BY <1>1, <1>6, <1>7 DEF LogInv, Asked
<1>9. FullAnswer'
  <2>1. \A e \in log : /\ Recent(e) /\ Reaches(request'.next, e)
                       /\ request.kind = "older" => e.at < table.cursor
                       => Has(request'.rows, e)
    <3>1. \A e \in log : /\ Recent(e)
                         /\ request.kind = "older" => e.at < table.cursor
                         => e \in S
      BY <1>3
    <3> QED
      BY <1>5, <1>7, <3>1
  <2>2. \A e : Recent(e)' <=> Recent(e)
    BY <1>1 DEF Recent, Activity!Cutoff
  <2>3. log' = log /\ table' = table /\ request'.kind = request.kind
    BY <1>1, <1>7
  <2>4. CASE request.kind = "older"
    BY <2>1, <2>2, <2>3, <2>4 DEF FullAnswer
  <2>5. CASE request.kind # "older"
    BY <2>1, <2>2, <2>3, <2>5 DEF FullAnswer
  <2> QED
    BY <2>4, <2>5
<1>10. Written' /\ OutOfWindow' /\ FullTable'
  BY <1>1 DEF LogInv, Written, OutOfWindow, FullTable, Recent, Activity!Cutoff
<1> QED
  BY <1>8, <1>9, <1>10 DEF LogInv

LEMMA LogStep ==
  ASSUME Activity!AuditAssumption, LogInv, [Activity!Next]_(Activity!auditVars)
  PROVE  LogInv'
<1>c. \A T : Activity!Cardinality(T) = Cardinality(T)
  BY DEF Activity!Cardinality, Cardinality
<1>k. /\ Keep["free"] \in Nat /\ Keep["pro"] \in Nat /\ Keep["free"] <= Keep["pro"] /\ day \in Nat
  BY DEF Activity!AuditAssumption, LogInv, Written
<1>t. Written /\ OutOfWindow /\ Asked /\ FullTable /\ FullAnswer
  BY DEF LogInv
<1>n. Cardinality(log) \in Nat
  BY <1>t, FS_CardinalityType DEF Written
<1>1. CASE Activity!Read
  BY <1>1, ReadStep
<1>2. CASE Activity!LandFirst
  <2>1. /\ request.kind = "first" /\ request.read
        /\ table' = [phase |-> "ready", rows |-> request.rows, cursor |-> request.next,
                     readAt |-> day, known |-> request.known]
        /\ request' = Activity!NoRequest
        /\ UNCHANGED <<day, log, pruned, sub, pruning>>
    BY <1>2 DEF Activity!LandFirst
  <2>2. Asked'
    <3>1. table' \in Tables /\ table'.known = request.known
      BY <1>k, <1>t, <2>1 DEF Asked, Requests, Tables
    <3> QED
      BY <1>n, <1>t, <2>1, <3>1, Blanks DEF Asked
  <2>3. FullTable' /\ FullAnswer'
    BY <1>t, <2>1 DEF FullTable, FullAnswer, Recent, Activity!Cutoff, Activity!NoRequest
  <2>4. Written' /\ OutOfWindow'
    BY <1>t, <2>1 DEF Written, OutOfWindow, Recent, Activity!Cutoff
  <2> QED
    BY <2>2, <2>3, <2>4 DEF LogInv
<1>3. CASE Activity!LandOlder
  <2>1. /\ request.kind = "older" /\ request.read
        /\ table' = [table EXCEPT !.rows = @ \cup request.rows, !.cursor = request.next]
        /\ request' = Activity!NoRequest
        /\ UNCHANGED <<day, log, pruned, sub, pruning>>
    BY <1>3 DEF Activity!LandOlder
  <2>2. /\ table'.rows = table.rows \cup request.rows /\ table'.cursor = request.next
        /\ table'.known = table.known /\ table.phase = "ready"
        /\ table.cursor \in Int
    BY <1>t, <2>1 DEF Asked, Tables
  <2>3. Asked'
    <3>1. table' \in Tables
      BY <1>t, <2>1 DEF Asked, Requests, Tables
    <3> QED
      BY <1>n, <1>t, <2>1, <2>2, <3>1, Blanks DEF Asked
  <2>4. FullTable'
    <3> SUFFICES ASSUME NEW e \in log, e.n <= table.known, Recent(e), Reaches(request.next, e)
                 PROVE  Has(table.rows \cup request.rows, e)
      BY <2>1, <2>2 DEF FullTable, Recent, Activity!Cutoff
    <3>1. CASE e.at < table.cursor
      BY <1>t, <2>1, <3>1 DEF FullAnswer, Has
    <3>2. CASE ~(e.at < table.cursor)
      <4>1. Reaches(table.cursor, e)
        BY <1>t, <2>2, <3>2 DEF Reaches, Written, Entry
      <4> QED
        BY <1>t, <2>2, <4>1 DEF FullTable, Has
    <3> QED
      BY <3>1, <3>2
  <2>5. Written' /\ OutOfWindow' /\ FullAnswer'
    BY <1>t, <2>1
       DEF Written, OutOfWindow, FullAnswer, Recent, Activity!Cutoff, Activity!NoRequest
  <2> QED
    BY <2>3, <2>4, <2>5 DEF LogInv
<1>4. CASE Activity!RequestFails \/ Activity!Retry \/ Activity!LoadOlder
  <2>1. /\ UNCHANGED <<day, log, pruned, sub, pruning>>
        /\ ~request'.read /\ request'.known = 0
        /\ table'.phase = "ready" => table' = table
    BY <1>4, <1>t
       DEF Asked, Tables, Activity!RequestFails, Activity!Retry, Activity!LoadOlder,
           Activity!NoRequest
  <2>2. Asked'
    <3>1. CASE Activity!RequestFails
      <4>1. table' \in Tables /\ table'.known = table.known /\ request' = Activity!NoRequest
        BY <1>t, <3>1 DEF Asked, Tables, Activity!RequestFails
      <4> QED
        BY <1>n, <1>t, <2>1, <4>1, Blanks DEF Asked
    <3>2. CASE Activity!Retry
      <4>1. /\ table' \in Tables /\ table'.known = table.known
            /\ request' = [Activity!NoRequest EXCEPT !.kind = "first"]
        BY <1>t, <3>2 DEF Asked, Tables, Activity!Retry
      <4> QED
        BY <1>n, <1>t, <2>1, <4>1, Blanks DEF Asked
    <3>3. CASE Activity!LoadOlder
      <4>1. /\ table' = table /\ table.phase = "ready" /\ table.cursor # Activity!NoCursor
            /\ request' = [Activity!NoRequest EXCEPT !.kind = "older"]
        BY <3>3 DEF Activity!LoadOlder
      <4> QED
        BY <1>n, <1>t, <2>1, <4>1, Blanks DEF Asked
    <3> QED
      BY <1>4, <3>1, <3>2, <3>3
  <2>3. Written' /\ OutOfWindow' /\ FullTable' /\ FullAnswer'
    BY <1>t, <2>1 DEF Written, OutOfWindow, FullTable, FullAnswer, Recent, Activity!Cutoff
  <2> QED
    BY <2>2, <2>3 DEF LogInv
<1>5. CASE Activity!PruneBegins \/ Activity!PruneBatch \/ Activity!SubChanges
  <2>1. UNCHANGED <<day, log, table, request>>
    BY <1>5 DEF Activity!PruneBegins, Activity!PruneBatch, Activity!SubChanges
  <2>2. OutOfWindow'
    <3>1. CASE Activity!PruneBegins
      BY <1>k, <1>t, <3>1 DEF OutOfWindow, Recent, Activity!PruneBegins, Activity!Cutoff
    <3>2. CASE Activity!PruneBatch
      <4> DEFINE expired == {e \in log \ pruned : e.at < Activity!CutoffCase}
                 batch == {e \in expired :
                             Activity!Cardinality({f \in expired : f.n < e.n}) < Batch}
      <4>0. /\ pruning.on /\ pruned' = pruned \cup batch
            /\ pruning' = [pruning EXCEPT !.on = batch # {}]
        BY <3>2 DEF Activity!PruneBatch
      <4>1. /\ \A e \in pruned' : \/ e \in pruned
                                 \/ /\ e \in log
                                    /\ e.at < Activity!CutoffCase
            /\ pruning.on /\ pruning'.free = pruning.free /\ pruning'.pro = pruning.pro
        BY <1>t, <4>0 DEF OutOfWindow
      <4> HIDE DEF expired, batch
      <4>2. Activity!CutoffCase \in Int /\ Activity!CutoffCase <= Activity!Cutoff("free")
        BY <1>t, <4>1 DEF OutOfWindow, Activity!CutoffCase
      <4> QED
        <5>1. Activity!Cutoff("free")' = Activity!Cutoff("free") /\ Activity!Cutoff("free") \in Int
          BY <1>k, <3>2 DEF Activity!Cutoff, Activity!PruneBatch
        <5>2. pruning' \in [on : BOOLEAN, free : Int, pro : Int]
          BY <1>t, <4>0 DEF OutOfWindow
        <5>3. \A e \in pruned' : e \in Entry /\ ~(e.at >= Activity!Cutoff("free"))
          BY <1>t, <4>1, <4>2, <5>1 DEF OutOfWindow, Recent, Written, Entry
        <5> QED
          BY <1>t, <4>1, <5>1, <5>2, <5>3 DEF OutOfWindow, Recent
    <3>3. CASE Activity!SubChanges
      BY <1>t, <3>3 DEF OutOfWindow, Recent, Activity!SubChanges, Activity!Cutoff
    <3> QED
      BY <1>5, <3>1, <3>2, <3>3
  <2>3. Written' /\ Asked' /\ FullTable' /\ FullAnswer'
    BY <1>t, <2>1 DEF Written, Asked, FullTable, FullAnswer, Recent, Activity!Cutoff
  <2> QED
    BY <2>2, <2>3 DEF LogInv
<1>6. CASE Activity!NextDay
  <2>1. day' = day + 1 /\ UNCHANGED <<log, pruned, sub, table, request, pruning>>
    BY <1>6 DEF Activity!NextDay
  <2>2. /\ Activity!Cutoff("free") \in Int /\ Activity!Cutoff("free")' \in Int
        /\ Activity!Cutoff("free") <= Activity!Cutoff("free")'
    BY <1>k, <2>1 DEF Activity!Cutoff
  <2>3. \A e \in Entry : Recent(e)' => Recent(e)
    BY <2>2 DEF Recent, Entry
  <2>4. Written' /\ Asked'
    BY <1>t, <1>k, <2>1 DEF Written, Asked
  <2>5. OutOfWindow'
    BY <1>t, <2>1, <2>2, <2>3 DEF OutOfWindow
  <2>6. FullTable' /\ FullAnswer'
    BY <1>t, <2>1, <2>3 DEF FullTable, FullAnswer, Written
  <2> QED
    BY <2>4, <2>5, <2>6 DEF LogInv
<1>7. CASE Activity!WriteEvent
  <2> DEFINE x == [n |-> Cardinality(log) + 1, at |-> day]
  <2>1. log' = log \cup {x} /\ UNCHANGED <<day, pruned, sub, table, request, pruning>>
    BY <1>c, <1>7 DEF Activity!WriteEvent
  <2>2. x \in Entry /\ x.n = Cardinality(log) + 1
    BY <1>k, <1>n DEF Entry
  <2> HIDE DEF x
  <2>3. x \notin log
    BY <1>n, <1>t, <2>2 DEF Written, Entry
  <2>4. IsFiniteSet(log') /\ Cardinality(log') = Cardinality(log) + 1
    BY <1>t, <2>1, <2>3, FS_AddElement DEF Written
  <2>5. Written'
    <3>1. log' \subseteq Entry /\ day' \in Nat
      BY <1>k, <1>t, <2>1, <2>2 DEF Written
    <3>2. \A e \in log' : e.n <= Cardinality(log')
      BY <1>n, <1>t, <2>1, <2>2, <2>4 DEF Written, Entry
    <3>3. \A e, f \in log' : e.n = f.n => e = f
      BY <1>n, <1>t, <2>1, <2>2 DEF Written, Entry
    <3> QED
      BY <2>4, <3>1, <3>2, <3>3 DEF Written
  <2>6. Asked'
    <3>1. request.known \in Nat /\ table.known \in Nat
      BY <1>t DEF Asked, Requests, Tables
    <3> QED
      BY <1>n, <1>t, <2>1, <2>4, <3>1 DEF Asked
  <2>7. ~(x.n <= table.known) /\ ~(x.n <= request.known)
    <3>1. request.known \in Nat /\ table.known \in Nat
      BY <1>t DEF Asked, Requests, Tables
    <3> QED
      BY <1>n, <1>t, <2>2, <3>1 DEF Asked
  <2>8. FullTable'
    BY <1>t, <2>1, <2>7 DEF FullTable, Recent, Activity!Cutoff
  <2>9. FullAnswer'
    BY <1>t, <2>1, <2>7 DEF FullAnswer, Recent, Activity!Cutoff
  <2>10. OutOfWindow'
    BY <1>t, <2>1 DEF OutOfWindow, Recent, Activity!Cutoff
  <2> QED
    BY <2>5, <2>6, <2>8, <2>9, <2>10 DEF LogInv
<1>8. CASE UNCHANGED Activity!auditVars
  BY <1>t, <1>8
     DEF Activity!auditVars, LogInv, Written, OutOfWindow, Asked, FullTable, FullAnswer, Recent,
         Activity!Cutoff
<1> QED
  BY <1>1, <1>2, <1>3, <1>4, <1>5, <1>6, <1>7, <1>8
     DEF Activity!Next, Activity!Write, Activity!Report

(* What a range of the activity page shows is complete as far as it has    *)
(* been loaded, for any retention by tier and any sizes of pages and       *)
(* batches, whatever is written, pruned or bought while the pages are      *)
(* fetched (api/audit/route.ts, lib/audit, activity/page.tsx).             *)
THEOREM RangesAreComplete ==
  ASSUME Activity!AuditAssumption
  PROVE  Activity!Spec => []RangeComplete
<1>1. Activity!Init => LogInv
  <2> SUFFICES ASSUME Activity!Init
               PROVE  LogInv
    OBVIOUS
  <2>1. /\ log = {} /\ pruned = {} /\ day = 0 /\ ~pruning.on
        /\ table = Activity!NoTable /\ pruning = [on |-> FALSE, free |-> 0, pro |-> 0]
        /\ request = [Activity!NoRequest EXCEPT !.kind = "first"]
    BY DEF Activity!Init
  <2>2. Cardinality(log) = 0 /\ IsFiniteSet(log)
    BY <2>1, FS_EmptySet
  <2>3. Asked
    BY <2>1, <2>2, Blanks DEF Asked
  <2>4. Written /\ OutOfWindow
    BY <2>1, <2>2 DEF Written, OutOfWindow
  <2>5. FullTable /\ FullAnswer
    <3>1. table.phase = "loading" /\ ~request.read
      BY <2>1, Blanks DEF Activity!NoTable
    <3> QED
      BY <3>1 DEF FullTable, FullAnswer
  <2> QED
    BY <2>3, <2>4, <2>5 DEF LogInv
<1>2. LogInv /\ [Activity!Next]_(Activity!auditVars) => LogInv'
  BY LogStep
<1>3. LogInv => Activity!RangeComplete
  <2> SUFFICES ASSUME LogInv, table.phase = "ready", NEW e \in log, NEW range \in Ranges,
                      e.n <= table.known, Recent(e), e.at >= table.readAt - range,
                      Reaches(table.cursor, e)
               PROVE  \E r \in Activity!Filtered(range) : r.at = e.at
    BY DEF Activity!RangeComplete, Recent, Reaches
  <2>1. PICK r \in table.rows : r.at = e.at
    BY DEF LogInv, FullTable, Has
  <2> QED
    BY <2>1 DEF Activity!Filtered
<1> QED
  BY <1>1, <1>2, <1>3, PTL DEF Activity!Spec, RangeComplete

-------------------------------------------------------------------------------
(* A bounded set of numbers that is not empty has a greatest member.       *)
LEMMA GreatestOf ==
  ASSUME NEW S \in SUBSET Nat, S # {}, NEW bound \in Nat, \A m \in S : m <= bound
  PROVE  \E n \in S : \A m \in S : m <= n
<1> DEFINE Above == {n \in Nat : \A m \in S : m <= n}
<1>1. PICK n \in Above : \A m \in Above : n <= m
  <2>1. Above \in SUBSET Nat /\ Above # {}
    OBVIOUS
  <2> HIDE DEF Above
  <2> QED
    BY <2>1, LeastOf
<1>2. n \in S
  <2> SUFFICES ASSUME n \notin S
               PROVE  FALSE
    OBVIOUS
  <2>1. \A m \in S : m <= n - 1 /\ n - 1 \in Nat
    OBVIOUS
  <2>2. n - 1 \in Above
    BY <2>1
  <2> QED
    BY <1>1, <2>2
<1> QED
  BY <1>2

(* A filter: the members of the set, each once and in order.               *)
LEMMA AscendingIs ==
  ASSUME NEW S \in SUBSET Nat, IsFiniteSet(S)
  PROVE  /\ Cardinality(S) \in Nat
         /\ Ascending(S) \in [1..Cardinality(S) -> S]
         /\ \A x \in S : \E k \in 1..Cardinality(S) : Ascending(S)[k] = x
         /\ \A j, k \in 1..Cardinality(S) : j < k => Ascending(S)[j] < Ascending(S)[k]
<1> DEFINE upto(i) == {j \in S : j <= i}
           rank == [i \in S |-> Cardinality(upto(i))]
           count == Cardinality(S)
<1>1. count \in Nat
  BY FS_CardinalityType
<1>2. \A i \in S : upto(i) \in SUBSET S /\ IsFiniteSet(upto(i)) /\ Cardinality(upto(i)) \in Nat
  BY FS_Subset, FS_CardinalityType
<1>3. ASSUME NEW i \in S, NEW j \in S, i < j
      PROVE  rank[i] < rank[j]
  <2>1. upto(i) \in SUBSET upto(j) /\ upto(i) # upto(j)
    <3>1. j \in upto(j) /\ j \notin upto(i)
      BY <1>3
    <3>2. \A k \in S : k <= i => k <= j
      BY <1>3
    <3> QED
      BY <3>1, <3>2
  <2> HIDE DEF upto
  <2>2. Cardinality(upto(i)) <= Cardinality(upto(j)) /\ Cardinality(upto(i)) # Cardinality(upto(j))
    BY <1>2, <2>1, FS_Subset
  <2> QED
    BY <1>2, <2>2
<1>4. rank \in [S -> 1..count]
  <2> SUFFICES ASSUME NEW i \in S
               PROVE  Cardinality(upto(i)) \in 1..count
    OBVIOUS
  <2>1. i \in upto(i)
    OBVIOUS
  <2> HIDE DEF upto
  <2>2. Cardinality(upto(i)) <= count /\ Cardinality(upto(i)) # 0
    BY <1>2, <2>1, FS_Subset, FS_EmptySet
  <2> QED
    BY <1>1, <1>2, <2>2
<1>5. rank \in Surjection(S, 1..count)
  <2>1. rank \in Injection(S, 1..count)
    <3>1. \A i, j \in S : i # j => i < j \/ j < i
      OBVIOUS
    <3>2. \A i, j \in S : rank[i] = rank[j] => i = j
      <4> HIDE DEF rank
      <4> QED
        BY <1>1, <1>3, <1>4, <3>1
    <3> HIDE DEF rank
    <3> QED
      BY <1>4, <3>2 DEF Injection, IsInjective
  <2>2. IsFiniteSet(1..count) /\ Cardinality(1..count) = count
    BY <1>1, FS_Interval
  <2> HIDE DEF rank
  <2> QED
    BY <2>1, <2>2, FS_Injection
<1>6. \A k \in 1..count : Nth(S, k) \in S /\ rank[Nth(S, k)] = k
  <2> SUFFICES ASSUME NEW k \in 1..count
               PROVE  Nth(S, k) \in S /\ rank[Nth(S, k)] = k
    OBVIOUS
  <2>1. \E i \in S : rank[i] = k
    <3> HIDE DEF rank
    <3> QED
      BY <1>5 DEF Surjection
  <2>2. \E i \in S : Cardinality({j \in S : j <= i}) = k
    BY <2>1
  <2> QED
    BY <2>2 DEF Nth
<1> HIDE DEF rank
<1>7. Ascending(S) \in [1..count -> S] /\ \A k \in 1..count : Ascending(S)[k] = Nth(S, k)
  BY <1>6 DEF Ascending
<1>8. \A x \in S : \E k \in 1..count : Ascending(S)[k] = x
  <2> SUFFICES ASSUME NEW x \in S
               PROVE  Nth(S, rank[x]) = x
    BY <1>4, <1>7
  <2>1. Nth(S, rank[x]) \in S /\ rank[Nth(S, rank[x])] = rank[x]
    BY <1>4, <1>6
  <2>2. ~(rank[x] < rank[x])
    BY <1>1, <1>4
  <2> QED
    <3>1. \A i, j \in S : i = j \/ i < j \/ j < i
      OBVIOUS
    <3>2. \A i, j \in S : rank[i] = rank[j] /\ ~(rank[j] < rank[j]) => i = j
      BY <1>3, <3>1
    <3> QED
      BY <2>1, <2>2, <3>2
<1>9. \A j, k \in 1..count : j < k => Ascending(S)[j] < Ascending(S)[k]
  <2> SUFFICES ASSUME NEW j \in 1..count, NEW k \in 1..count, j < k
               PROVE  Nth(S, j) < Nth(S, k)
    BY <1>7
  <2>1. Nth(S, j) \in Nat /\ Nth(S, k) \in Nat /\ rank[Nth(S, j)] = j /\ rank[Nth(S, k)] = k
    BY <1>6
  <2> QED
    BY <1>3, <1>6, <2>1
<1> QED
  BY <1>1, <1>7, <1>8, <1>9

(* The sessions of a tab and their panes. A pane that is kept went on      *)
(* writing what its session printed, one that is mounted starts with the   *)
(* buffer; and no pane is of a session that is still in its handshake, so  *)
(* that none was mounted without a terminal to replay into.                *)
Run(q, n) == \A k \in DOMAIN q : q[k] = n - Len(q) + k
Lesser(a, b) == IF a < b THEN a ELSE b

PaneId == Ids \cup {Empty}
PaneShape == [id : PaneId, sub : BOOLEAN, shown : Seq(Nat)]

Whole(p) ==
  /\ p.id \in Ids => live[p.id] \in {"open", "gone"}
  /\ visible /\ p.id \in Ids /\ live[p.id] = "open" =>
       /\ p.sub /\ Run(p.shown, printed[p.id])
       /\ Len(p.shown) >= Lesser(printed[p.id], BufferMax)

AllWhole == \A i \in DOMAIN panes : Whole(panes[i])

SessionTypes ==
  /\ live \in [Ids -> {"new", "asked", "handshake", "open", "gone"}]
  /\ printed \in [Ids -> Nat] /\ buffer \in [Ids -> Seq(Nat)] /\ visible \in BOOLEAN
  /\ connecting \subseteq Ids /\ prompt \in PaneId /\ panes \in Seq(PaneShape)

Replays ==
  \A s \in Ids : Len(buffer[s]) = Lesser(printed[s], BufferMax) /\ Run(buffer[s], printed[s])

Underway ==
  /\ \A s \in connecting : live[s] \in {"handshake", "open", "gone"}
  /\ prompt # Empty => live[prompt] = "asked"

SessionInv == SessionTypes /\ Replays /\ Underway /\ AllWhole

(* What Shown leaves or mounts is whole, if it may be in a pane at all.    *)
LEMMA PanesShown ==
  ASSUME SessionInv, visible' \in BOOLEAN, UNCHANGED <<printed, buffer>>,
         live' \in [Ids -> {"new", "asked", "handshake", "open", "gone"}],
         \A s \in Ids : live'[s] = "open" => live[s] \in {"handshake", "open"},
         NEW ids \in Seq(PaneId), panes' = Shells!Shown(ids, live'),
         \A i \in DOMAIN ids : ids[i] \in Ids => live'[ids[i]] \in {"open", "gone"}
  PROVE  panes' \in Seq(PaneShape) /\ AllWhole'
<1> DEFINE mount(s) ==
             [id |-> s, sub |-> visible' /\ s \in Ids /\ live'[s] \in {"handshake", "open"},
              shown |-> IF visible' /\ s \in Ids /\ live'[s] = "open" THEN buffer[s] ELSE <<>>]
           keeps(i) == i \in DOMAIN panes /\ panes[i].id = ids[i] /\ visible = visible'
<1>t. SessionTypes /\ Replays /\ AllWhole
  BY DEF SessionInv
<1>1. panes' = [i \in DOMAIN ids |-> IF keeps(i) THEN panes[i] ELSE mount(ids[i])]
  BY DEF Shells!Shown, Shells!Mount, Shells!Held
<1>2. \A s \in PaneId : /\ mount(s) \in PaneShape
                        /\ mount(s).id = s
                        /\ visible' /\ s \in Ids /\ live'[s] = "open" =>
                             mount(s).sub /\ mount(s).shown = buffer[s]
  <2> SUFFICES ASSUME NEW s \in PaneId
               PROVE  /\ mount(s) \in PaneShape
                      /\ mount(s).id = s
                      /\ visible' /\ s \in Ids /\ live'[s] = "open" =>
                           mount(s).sub /\ mount(s).shown = buffer[s]
    OBVIOUS
  <2>1. mount(s).shown \in Seq(Nat)
    BY <1>t DEF SessionTypes
  <2>2. mount(s).sub \in BOOLEAN
    OBVIOUS
  <2> QED
    BY <2>1, <2>2 DEF PaneShape
<1> HIDE DEF mount
<1>3. DOMAIN ids = 1..Len(ids) /\ Len(ids) \in Nat /\ \A i \in DOMAIN ids : ids[i] \in PaneId
  OBVIOUS
<1>4. ASSUME NEW i \in DOMAIN ids
      PROVE  panes'[i] \in PaneShape /\ panes'[i].id = ids[i]
  <2>1. CASE keeps(i)
    BY <1>1, <1>t, <1>4, <2>1 DEF SessionTypes
  <2>2. CASE ~keeps(i)
    BY <1>1, <1>2, <1>3, <1>4, <2>2
  <2> QED
    BY <2>1, <2>2
<1>5. panes' \in Seq(PaneShape) /\ DOMAIN panes' = DOMAIN ids
  <2>1. panes' \in [1..Len(ids) -> PaneShape]
    BY <1>1, <1>3, <1>4
  <2> QED
    BY <1>1, <1>3, <2>1
<1>6. ASSUME NEW i \in DOMAIN ids, visible', ids[i] \in Ids, live'[ids[i]] = "open"
      PROVE  /\ panes'[i].sub /\ Run(panes'[i].shown, printed[ids[i]])
             /\ Len(panes'[i].shown) >= Lesser(printed[ids[i]], BufferMax)
  <2>1. CASE keeps(i)
    <3>1. live[ids[i]] = "open" /\ panes'[i] = panes[i] /\ visible
      BY <1>1, <1>6, <1>t, <2>1 DEF AllWhole, Whole
    <3> QED
      BY <1>6, <1>t, <2>1, <3>1 DEF AllWhole, Whole
  <2>2. CASE ~keeps(i)
    <3>1. panes'[i].sub /\ panes'[i].shown = buffer[ids[i]]
      <4>1. panes'[i] = mount(ids[i])
        BY <1>1, <1>6, <2>2
      <4>2. mount(ids[i]).sub /\ mount(ids[i]).shown = buffer[ids[i]]
        BY <1>2, <1>3, <1>6
      <4> QED
        BY <4>1, <4>2
    <3>2. Len(buffer[ids[i]]) \in Nat
      BY <1>6, <1>t DEF SessionTypes
    <3> QED
      BY <1>6, <1>t, <3>1, <3>2 DEF Replays
  <2> QED
    BY <2>1, <2>2
<1>7. AllWhole'
  BY <1>4, <1>5, <1>6 DEF AllWhole, Whole
<1> QED
  BY <1>5, <1>7

LEMMA PaneIdsAre ==
  ASSUME SessionInv
  PROVE  /\ Shells!PaneIds \in Seq(PaneId) /\ Len(Shells!PaneIds) = Len(panes)
         /\ DOMAIN Shells!PaneIds = DOMAIN panes /\ Len(panes) \in Nat
         /\ \A i \in DOMAIN panes : /\ panes[i].id \in PaneId
                                    /\ Shells!PaneIds[i] = panes[i].id
<1>1. panes \in Seq(PaneShape)
  BY DEF SessionInv, SessionTypes
<1>2. \A i \in DOMAIN panes : panes[i].id \in PaneId
  <2>1. \A i \in DOMAIN panes : panes[i] \in PaneShape
    BY <1>1
  <2> QED
    BY <2>1 DEF PaneShape
<1> QED
  BY <1>1, <1>2 DEF Shells!PaneIds

LEMMA WithoutIs ==
  ASSUME SessionInv, NEW s
  PROVE  /\ Shells!Without(s) \in Seq(PaneId)
         /\ \A k \in DOMAIN Shells!Without(s) :
              \E i \in DOMAIN panes : Shells!Without(s)[k] = panes[i].id /\ panes[i].id # s
<1> DEFINE S == {i \in DOMAIN panes : panes[i].id # s}
           order == Ascending(S)
<1>1. DOMAIN panes = 1..Len(panes) /\ Len(panes) \in Nat /\ \A i \in DOMAIN panes : panes[i].id \in PaneId
  BY PaneIdsAre DEF SessionInv, SessionTypes
<1>2. S \in SUBSET Nat /\ IsFiniteSet(S)
  <2>1. IsFiniteSet(1..Len(panes))
    BY <1>1, FS_Interval
  <2> QED
    BY <1>1, <2>1, FS_Subset
<1>3. Shells!Ascending(S) = order
  <2>1. \A T : Shells!Cardinality(T) = Cardinality(T)
    BY DEF Shells!Cardinality, Cardinality
  <2> HIDE DEF S
  <2>2. \A k : Shells!Nth(S, k) = Nth(S, k)
    BY <2>1 DEF Shells!Nth, Nth
  <2> QED
    BY <2>1, <2>2 DEF Shells!Ascending, Ascending
<1>4. order \in [1..Cardinality(S) -> S] /\ Cardinality(S) \in Nat
  <2> HIDE DEF S
  <2> QED
    BY <1>2, AscendingIs
<1>5. Shells!Without(s) = [k \in DOMAIN order |-> panes[order[k]].id]
  BY <1>3 DEF Shells!Without
<1> HIDE DEF order
<1>6. /\ DOMAIN order = 1..Cardinality(S)
      /\ \A k \in DOMAIN order : order[k] \in DOMAIN panes /\ panes[order[k]].id # s
  BY <1>4
<1> HIDE DEF S
<1>7. \A k \in DOMAIN order : panes[order[k]].id \in PaneId
  BY <1>1, <1>6
<1>8. Shells!Without(s) \in Seq(PaneId)
  BY <1>4, <1>5, <1>6, <1>7
<1> QED
  BY <1>5, <1>6, <1>8

LEMMA RunGrows ==
  ASSUME NEW q \in Seq(Nat), NEW n \in Nat, Run(q, n)
  PROVE  /\ Append(q, n + 1) \in Seq(Nat) /\ Len(Append(q, n + 1)) = Len(q) + 1
         /\ Len(q) \in Nat /\ Run(Append(q, n + 1), n + 1)
<1> DEFINE all == Append(q, n + 1)
<1>1. /\ all \in Seq(Nat) /\ Len(all) = Len(q) + 1 /\ Len(q) \in Nat
      /\ DOMAIN all = 1..(Len(q) + 1) /\ DOMAIN q = 1..Len(q)
      /\ \A k \in 1..Len(q) : all[k] = q[k]
      /\ all[Len(q) + 1] = n + 1
  OBVIOUS
<1> HIDE DEF all
<1>2. ASSUME NEW k \in 1..(Len(q) + 1)
      PROVE  all[k] = n + 1 - Len(all) + k
  <2>1. CASE k \in 1..Len(q)
    <3>1. q[k] = n - Len(q) + k
      BY <2>1 DEF Run
    <3>2. all[k] = q[k]
      BY <1>1, <2>1
    <3> QED
      BY <1>1, <2>1, <3>1, <3>2
  <2>2. CASE k = Len(q) + 1
    BY <1>1, <2>2
  <2> QED
    BY <1>1, <2>1, <2>2
<1>3. Run(all, n + 1)
  BY <1>1, <1>2 DEF Run
<1> QED
  BY <1>1, <1>3 DEF all

(* The panes' sessions, one of them replaced. *)
From(ids, s) ==
  \A k \in DOMAIN ids : \/ ids[k] = s
                        \/ \E j \in DOMAIN panes : ids[k] = panes[j].id

LEMMA PutInPane ==
  ASSUME SessionInv, NEW i, NEW s \in PaneId
  PROVE  /\ [Shells!PaneIds EXCEPT ![i] = s] \in Seq(PaneId)
         /\ From([Shells!PaneIds EXCEPT ![i] = s], s)
<1> DEFINE q == Shells!PaneIds
           ids == [q EXCEPT ![i] = s]
<1>1. /\ q \in Seq(PaneId) /\ DOMAIN q = DOMAIN panes
      /\ \A k \in DOMAIN panes : q[k] = panes[k].id
  BY PaneIdsAre
<1> HIDE DEF q
<1>2. DOMAIN ids = DOMAIN q /\ \A k \in DOMAIN q : ids[k] = s \/ ids[k] = q[k]
  OBVIOUS
<1>3. DOMAIN q = 1..Len(q) /\ Len(q) \in Nat /\ \A k \in DOMAIN q : q[k] \in PaneId
  BY <1>1
<1>4. ids \in [1..Len(q) -> PaneId]
  BY <1>2, <1>3
<1> HIDE DEF ids
<1>5. ids \in Seq(PaneId)
  BY <1>3, <1>4
<1>6. From(ids, s)
  BY <1>1, <1>2 DEF From
<1> QED
  BY <1>5, <1>6 DEF ids, q

LEMMA FocusedIs ==
  ASSUME SessionInv, NEW s \in PaneId
  PROVE  /\ Shells!Focused(Shells!PaneIds, s) \in Seq(PaneId)
         /\ From(Shells!Focused(Shells!PaneIds, s), s)
<1>1. <<s>> \in Seq(PaneId) /\ From(<<s>>, s)
  BY DEF From
<1> QED
  BY <1>1, PutInPane DEF Shells!Focused

LEMMA SessionStep ==
  ASSUME Shells!SessionsAssumption, SessionInv, [Shells!Next]_(Shells!sessionVars)
  PROVE  SessionInv'
<1>t. SessionTypes /\ Replays /\ Underway /\ AllWhole
  BY DEF SessionInv
<1>k. Empty \notin Ids /\ BufferMax \in Nat \ {0}
  BY DEF Shells!SessionsAssumption
<1>p. /\ Shells!PaneIds \in Seq(PaneId) /\ Len(Shells!PaneIds) = Len(panes)
      /\ DOMAIN Shells!PaneIds = DOMAIN panes /\ Len(panes) \in Nat
      /\ \A i \in DOMAIN panes : panes[i].id \in PaneId /\ Shells!PaneIds[i] = panes[i].id
  BY PaneIdsAre
<1>s. \A i \in DOMAIN panes : panes[i].id \in Ids => live[panes[i].id] \in {"open", "gone"}
  BY <1>t DEF AllWhole, Whole
(* A step that only shows panes anew. *)
<1>0. ASSUME NEW ids \in Seq(PaneId), panes' = Shells!Shown(ids, live), visible' \in BOOLEAN,
             UNCHANGED <<live, connecting, printed, buffer, prompt>>,
             \A i \in DOMAIN ids : ids[i] \in Ids => live[ids[i]] \in {"open", "gone"}
      PROVE  SessionInv'
  <2>1. panes' \in Seq(PaneShape) /\ AllWhole'
    BY <1>0, <1>t, PanesShown DEF SessionTypes
  <2> QED
    BY <1>0, <1>t, <2>1 DEF SessionInv, SessionTypes, Replays, Underway
(* A step that changes how far a session is that no pane may show. *)
<1>f. ASSUME NEW s \in Ids, NEW to \in {"new", "asked", "handshake", "gone"},
             live' = [live EXCEPT ![s] = to], live[s] \in {"open", "gone"} => to = "gone",
             UNCHANGED <<printed, buffer, panes, visible>>
      PROVE  AllWhole'
  <2> SUFFICES ASSUME NEW i \in DOMAIN panes
               PROVE  Whole(panes[i])'
    BY <1>f DEF AllWhole
  <2>1. Whole(panes[i]) /\ panes'[i] = panes[i] /\ live \in [Ids -> {"new", "asked", "handshake", "open", "gone"}]
    BY <1>f, <1>t DEF AllWhole, SessionTypes
  <2> QED
    BY <1>f, <2>1 DEF Whole
<1>1. CASE \E s \in Ids : Shells!Ask(s)
  <2>1. PICK s \in Ids : /\ live[s] = "new" /\ live' = [live EXCEPT ![s] = "asked"] /\ prompt' = s
                         /\ UNCHANGED <<connecting, printed, buffer, panes, focus, visible>>
    BY <1>1 DEF Shells!Ask
  <2>2. AllWhole'
    BY <1>f, <2>1
  <2> QED
    BY <1>k, <1>t, <2>1, <2>2 DEF SessionInv, SessionTypes, Replays, Underway, PaneId
<1>2. CASE Shells!Settle
  <2>1. /\ prompt \in Ids /\ prompt' = Empty /\ live[prompt] = "asked"
        /\ UNCHANGED <<printed, buffer, panes, focus, visible>>
    BY <1>2, <1>t DEF Shells!Settle, SessionTypes, PaneId, Underway
  <2>2. PICK to \in {"handshake", "new"} :
          /\ live' = [live EXCEPT ![prompt] = to]
          /\ connecting' = IF to = "handshake" THEN connecting \cup {prompt} ELSE connecting
    BY <1>2 DEF Shells!Settle
  <2>3. AllWhole'
    BY <1>f, <2>1, <2>2
  <2> QED
    BY <1>t, <2>1, <2>2, <2>3 DEF SessionInv, SessionTypes, Replays, Underway, PaneId
<1>3. CASE \E s \in Ids : Shells!Connect(s)
  <2>1. PICK s \in Ids :
          /\ live[s] = "new" /\ live' = [live EXCEPT ![s] = "handshake"]
          /\ connecting' = connecting \cup {s}
          /\ UNCHANGED <<printed, buffer, panes, focus, visible, prompt>>
    BY <1>3 DEF Shells!Connect
  <2>2. AllWhole'
    BY <1>f, <2>1
  <2> QED
    BY <1>t, <2>1, <2>2 DEF SessionInv, SessionTypes, Replays, Underway, PaneId
<1>4. CASE \E s \in Ids : Shells!Connected(s)
  <2>1. PICK s \in Ids :
          /\ s \in connecting /\ connecting' = connecting \ {s}
          /\ live' = IF live[s] = "handshake" THEN [live EXCEPT ![s] = "open"] ELSE live
          /\ visible' = visible /\ panes' = Shells!Shown(Shells!Focused(Shells!PaneIds, s), live')
          /\ UNCHANGED <<printed, buffer, focus, prompt>>
    BY <1>4 DEF Shells!Connected
  <2> DEFINE ids == Shells!Focused(Shells!PaneIds, s)
  <2>2. ids \in Seq(PaneId) /\ From(ids, s)
    BY FocusedIs DEF PaneId
  <2> HIDE DEF ids
  <2>3. live[s] \in {"handshake", "open", "gone"}
    BY <1>t, <2>1 DEF Underway
  <2>4. /\ live' \in [Ids -> {"new", "asked", "handshake", "open", "gone"}]
        /\ live'[s] \in {"open", "gone"} /\ \A x \in Ids \ {s} : live'[x] = live[x]
        /\ \A x \in Ids : live'[x] = "open" => live[x] \in {"handshake", "open"}
    BY <1>t, <2>1, <2>3 DEF SessionTypes
  <2>5. \A i \in DOMAIN ids : ids[i] \in Ids => live'[ids[i]] \in {"open", "gone"}
    BY <1>s, <2>2, <2>4 DEF From
  <2>6. panes' \in Seq(PaneShape) /\ AllWhole'
    BY <1>t, <2>1, <2>2, <2>4, <2>5, PanesShown DEF SessionTypes, ids
  <2>7. Underway'
    BY <1>t, <2>1, <2>3, <2>4 DEF Underway, SessionTypes, PaneId
  <2> QED
    BY <1>t, <2>1, <2>4, <2>6, <2>7 DEF SessionInv, SessionTypes, Replays
<1>5. CASE \E s \in Ids : Shells!Refused(s)
  <2>1. PICK s \in Ids :
          /\ s \in connecting /\ connecting' = connecting \ {s}
          /\ live' = [live EXCEPT ![s] = "gone"]
          /\ UNCHANGED <<printed, buffer, panes, focus, visible, prompt>>
    BY <1>5 DEF Shells!Refused
  <2>2. AllWhole'
    BY <1>f, <2>1
  <2> QED
    BY <1>t, <2>1, <2>2 DEF SessionInv, SessionTypes, Replays, Underway, PaneId
<1>6. CASE \E s \in Ids : Shells!Output(s)
  <2> PICK s \in Ids : Shells!Output(s)
    BY <1>6
  <2> DEFINE n == printed[s] + 1
             all == Append(buffer[s], n)
             cut == IF Len(all) > BufferMax THEN SubSeq(all, Len(all) - BufferMax + 1, Len(all)) ELSE all
  <2>1. /\ live[s] \in {"handshake", "open"}
        /\ printed' = [printed EXCEPT ![s] = n] /\ buffer' = [buffer EXCEPT ![s] = cut]
        /\ panes' = [i \in DOMAIN panes |->
             IF panes[i].id = s /\ panes[i].sub /\ live[s] = "open"
               THEN [panes[i] EXCEPT !.shown = Append(@, n)] ELSE panes[i]]
        /\ UNCHANGED <<live, connecting, focus, visible, prompt>>
    BY DEF Shells!Output, Shells!Held, Shells!Buffered
  <2>2. /\ printed[s] \in Nat /\ buffer[s] \in Seq(Nat) /\ Run(buffer[s], printed[s])
        /\ Len(buffer[s]) = Lesser(printed[s], BufferMax)
    BY <1>t DEF SessionTypes, Replays
  <2>3. cut \in Seq(Nat) /\ Len(cut) = Lesser(n, BufferMax) /\ Run(cut, n)
    <3>1. all \in Seq(Nat) /\ Len(all) = Len(buffer[s]) + 1 /\ Run(all, n)
      BY <2>2, RunGrows
    <3> HIDE DEF all
    <3>2. CASE Len(all) > BufferMax
      <4>1. printed[s] >= BufferMax /\ Len(all) = BufferMax + 1
        BY <1>k, <2>2, <3>1, <3>2 DEF Lesser
      <4>2. cut = SubSeq(all, 2, Len(all))
        BY <1>k, <3>2, <4>1
      <4>3. /\ cut \in Seq(Nat) /\ Len(cut) = BufferMax
            /\ \A k \in 1..BufferMax : cut[k] = all[k + 1]
        BY <1>k, <3>1, <4>1, <4>2
      <4> HIDE DEF cut
      <4>4. Len(cut) = Lesser(n, BufferMax)
        BY <1>k, <2>2, <4>1, <4>3 DEF Lesser
      <4>5. \A k \in 1..BufferMax : cut[k] = n - BufferMax + k
        <5>1. \A k \in 1..Len(all) : all[k] = n - Len(all) + k
          BY <3>1 DEF Run
        <5> QED
          <6> SUFFICES ASSUME NEW k \in 1..BufferMax
                       PROVE  cut[k] = n - BufferMax + k
            OBVIOUS
          <6>1. k + 1 \in 1..Len(all) /\ cut[k] = all[k + 1]
            BY <1>k, <4>1, <4>3
          <6>2. cut[k] = n - (BufferMax + 1) + (k + 1)
            BY <4>1, <5>1, <6>1
          <6> QED
            <7>1. n \in Nat /\ BufferMax \in Nat /\ k \in Nat
              BY <1>k, <2>2
            <7> HIDE DEF n
            <7> QED
              BY <6>2, <7>1
      <4>6. DOMAIN cut = 1..BufferMax
        BY <1>k, <4>3
      <4> QED
        BY <4>3, <4>4, <4>5, <4>6 DEF Run
    <3>3. CASE ~(Len(all) > BufferMax)
      BY <1>k, <2>2, <3>1, <3>3 DEF Lesser
    <3> QED
      BY <3>2, <3>3
  <2> HIDE DEF cut
  <2>4. printed' \in [Ids -> Nat] /\ buffer' \in [Ids -> Seq(Nat)] /\ Replays'
    BY <1>t, <2>1, <2>2, <2>3 DEF SessionTypes, Replays
  <2>5. ASSUME NEW i \in DOMAIN panes
        PROVE  panes'[i] \in PaneShape /\ Whole(panes[i])'
    <3>1. panes[i] \in PaneShape /\ panes[i].shown \in Seq(Nat) /\ Whole(panes[i])
      <4>1. panes[i] \in PaneShape
        BY <1>t, <2>5 DEF SessionTypes
      <4> QED
        BY <1>t, <2>5, <4>1 DEF AllWhole, PaneShape
    <3>2. CASE panes[i].id = s /\ panes[i].sub /\ live[s] = "open"
      <4>1. panes'[i] = [panes[i] EXCEPT !.shown = Append(@, n)]
        BY <2>1, <2>5, <3>2
      <4>2. /\ panes'[i].id = s /\ panes'[i].sub /\ panes'[i].shown = Append(panes[i].shown, n)
            /\ panes'[i] \in PaneShape
        <5>1. Append(panes[i].shown, n) \in Seq(Nat)
          BY <2>2, <3>1
        <5> QED
          BY <3>1, <3>2, <4>1, <5>1 DEF PaneShape
      <4>3. visible => /\ Run(panes[i].shown, printed[s])
                       /\ Len(panes[i].shown) >= Lesser(printed[s], BufferMax)
        BY <3>1, <3>2 DEF Whole
      <4>4. Run(panes[i].shown, printed[s]) => Run(Append(panes[i].shown, n), n)
        BY <2>2, <3>1, RunGrows
      <4>5. /\ Len(Append(panes[i].shown, n)) = Len(panes[i].shown) + 1 /\ Len(panes[i].shown) \in Nat
            /\ printed'[s] = n
        BY <1>t, <2>1, <3>1 DEF SessionTypes
      <4> QED
        BY <1>k, <2>1, <2>2, <3>2, <4>2, <4>3, <4>4, <4>5 DEF Whole, Lesser
    <3>3. CASE ~(panes[i].id = s /\ panes[i].sub /\ live[s] = "open")
      <4>1. panes'[i] = panes[i]
        BY <2>1, <2>5, <3>3
      <4>2. panes[i].id \in Ids /\ panes[i].id # s => printed'[panes[i].id] = printed[panes[i].id]
        BY <1>t, <2>1 DEF SessionTypes
      <4> QED
        BY <2>1, <3>1, <3>3, <4>1, <4>2 DEF Whole
    <3> QED
      BY <3>2, <3>3
  <2>6. panes' \in Seq(PaneShape) /\ DOMAIN panes' = DOMAIN panes
    <3>1. DOMAIN panes = 1..Len(panes) /\ Len(panes) \in Nat
      BY <1>t DEF SessionTypes
    <3>2. panes' \in [1..Len(panes) -> PaneShape]
      BY <2>1, <2>5, <3>1
    <3> QED
      BY <3>1, <3>2
  <2>7. AllWhole'
    BY <2>5, <2>6 DEF AllWhole
  <2> QED
    BY <1>t, <2>1, <2>4, <2>6, <2>7 DEF SessionInv, SessionTypes, Underway
<1>7. CASE \E s \in Ids : Shells!Close(s)
  <2> PICK s \in Ids : Shells!Close(s)
    BY <1>7
  <2>1. /\ live[s] \in {"handshake", "open"} /\ live' = [live EXCEPT ![s] = "gone"]
        /\ \A x \in Ids \ {s} : live[x] # "handshake"
        /\ visible' = visible /\ UNCHANGED <<connecting, printed, buffer, focus, prompt>>
    BY DEF Shells!Close, Shells!Held, Shells!Quiet
  <2>2. /\ live' \in [Ids -> {"new", "asked", "handshake", "open", "gone"}]
        /\ live'[s] = "gone" /\ \A x \in Ids \ {s} : live'[x] = live[x]
        /\ \A x \in Ids : live'[x] = "open" => live[x] \in {"handshake", "open"}
    BY <1>t, <2>1 DEF SessionTypes
  <2>3. panes' \in Seq(PaneShape) /\ AllWhole'
    <3>1. CASE Shells!Without(s) # <<>>
      <4>1. panes' = Shells!Shown(Shells!Without(s), live')
        BY <3>1 DEF Shells!Close
      <4>2. \A k \in DOMAIN Shells!Without(s) :
              Shells!Without(s)[k] \in Ids => live'[Shells!Without(s)[k]] \in {"open", "gone"}
        BY <1>s, <2>2, WithoutIs
      <4> QED
        BY <1>t, <2>1, <2>2, <4>1, <4>2, WithoutIs, PanesShown DEF SessionTypes
    <3>2. CASE \E x \in Ids : Shells!Held(live', x) /\ panes' = Shells!Shown(<<x>>, live')
      <4>1. PICK x \in Ids : Shells!Held(live', x) /\ panes' = Shells!Shown(<<x>>, live')
        BY <3>2
      <4>2. live'[x] = "open"
        BY <2>1, <2>2, <4>1 DEF Shells!Held
      <4>3. <<x>> \in Seq(PaneId) /\ \A i \in DOMAIN <<x>> : <<x>>[i] = x
        BY DEF PaneId
      <4> HIDE DEF Shells!Shown
      <4>4. \A i \in DOMAIN <<x>> : <<x>>[i] \in Ids => live'[<<x>>[i]] \in {"open", "gone"}
        BY <4>2, <4>3
      <4> QED
        BY <1>t, <2>1, <2>2, <4>1, <4>3, <4>4, PanesShown DEF SessionTypes
    <3>3. CASE panes' = <<>>
      BY <3>3 DEF AllWhole
    <3> QED
      BY <3>1, <3>2, <3>3 DEF Shells!Close
  <2>4. Underway'
    BY <1>t, <2>1, <2>2 DEF Underway, SessionTypes, PaneId
  <2> QED
    BY <1>t, <2>1, <2>2, <2>3, <2>4 DEF SessionInv, SessionTypes, Replays
<1>8. CASE Shells!Split
  <2>0. \A x \in Ids : live[x] # "handshake"
    BY <1>8 DEF Shells!Split, Shells!Quiet
  <2>1. PICK x \in PaneId :
          /\ x \in Ids => live[x] = "open"
          /\ panes' = Shells!Shown(Append(Shells!PaneIds, x), live)
    <3> DEFINE spare == {x \in Ids : Shells!Held(live, x) /\ \A i \in DOMAIN panes : panes[i].id # x}
    <3>1. PICK x \in IF spare = {} THEN {Empty} ELSE spare :
            panes' = Shells!Shown(Append(Shells!PaneIds, x), live)
      BY <1>8 DEF Shells!Split
    <3>2. x = Empty \/ x \in spare
      BY <3>1
    <3>3. x \in spare => x \in Ids /\ live[x] = "open"
      BY <2>0 DEF Shells!Held
    <3> QED
      BY <1>k, <3>1, <3>2, <3>3 DEF PaneId
  <2>2. visible' = visible /\ UNCHANGED <<live, connecting, printed, buffer, prompt>>
    BY <1>8 DEF Shells!Split
  <2> DEFINE ids == Append(Shells!PaneIds, x)
  <2>3. ids \in Seq(PaneId) /\ From(ids, x)
    <3> DEFINE q == Shells!PaneIds
    <3>1. q \in Seq(PaneId)
      BY <1>p
    <3> HIDE DEF q
    <3>2. /\ Append(q, x) \in Seq(PaneId) /\ DOMAIN Append(q, x) = 1..(Len(q) + 1)
          /\ DOMAIN q = 1..Len(q) /\ Len(q) \in Nat
          /\ \A k \in 1..Len(q) : Append(q, x)[k] = q[k]
          /\ Append(q, x)[Len(q) + 1] = x
      BY <3>1
    <3>3. \A k \in 1..(Len(q) + 1) : k \in 1..Len(q) \/ k = Len(q) + 1
      BY <3>2
    <3>4. DOMAIN q = DOMAIN panes /\ \A k \in DOMAIN panes : q[k] = panes[k].id
      BY <1>p DEF q
    <3> QED
      BY <3>2, <3>3, <3>4 DEF From, q
  <2> HIDE DEF ids
  <2>4. \A i \in DOMAIN ids : ids[i] \in Ids => live[ids[i]] \in {"open", "gone"}
    BY <1>s, <2>1, <2>3 DEF From
  <2>5. panes' = Shells!Shown(ids, live) /\ visible' \in BOOLEAN
    BY <1>t, <2>1, <2>2 DEF ids, SessionTypes
  <2> QED
    BY <1>0, <2>2, <2>3, <2>4, <2>5
<1>9. CASE \E i \in 1..MaxPanes : Shells!ClosePane(i)
  <2>1. PICK i \in DOMAIN panes :
          panes' = Shells!Shown(SubSeq(Shells!PaneIds, 1, i - 1)
                                  \o SubSeq(Shells!PaneIds, i + 1, Len(panes)), live)
    BY <1>9 DEF Shells!ClosePane
  <2>2. visible' = visible /\ UNCHANGED <<live, connecting, printed, buffer, prompt>>
    BY <1>9 DEF Shells!ClosePane
  <2> DEFINE before == SubSeq(Shells!PaneIds, 1, i - 1)
             after == SubSeq(Shells!PaneIds, i + 1, Len(panes))
             ids == before \o after
  <2>3. ids \in Seq(PaneId) /\ \A k \in DOMAIN ids : \E j \in DOMAIN panes : ids[k] = panes[j].id
    <3>1. DOMAIN panes = 1..Len(panes) /\ i \in 1..Len(panes)
      BY <1>t DEF SessionTypes
    <3>2. /\ before \in Seq(PaneId) /\ Len(before) = i - 1
          /\ \A k \in 1..(i - 1) : before[k] = Shells!PaneIds[k]
      BY <1>p, <3>1
    <3>3. /\ after \in Seq(PaneId) /\ Len(after) = Len(panes) - i
          /\ \A k \in 1..(Len(panes) - i) : after[k] = Shells!PaneIds[i + k]
      BY <1>p, <3>1
    <3> HIDE DEF before, after
    <3>4. /\ Len(before) \in Nat /\ Len(after) \in Nat /\ Len(panes) \in Nat /\ i \in Nat
          /\ before \o after \in Seq(PaneId)
          /\ DOMAIN (before \o after) = 1..(Len(before) + Len(after))
      BY <1>p, <3>1, <3>2, <3>3
    <3>5. \A k \in 1..(Len(before) + Len(after)) :
            (before \o after)[k] = IF k <= Len(before) THEN before[k] ELSE after[k - Len(before)]
      BY <3>2, <3>3
    <3>6. ASSUME NEW k \in 1..(Len(before) + Len(after))
          PROVE  \E j \in DOMAIN panes : (before \o after)[k] = Shells!PaneIds[j]
      <4>1. CASE k <= Len(before)
        <5>1. k \in 1..(i - 1) /\ k \in DOMAIN panes
          BY <3>1, <3>2, <3>4, <3>6, <4>1
        <5> QED
          BY <3>2, <3>5, <3>6, <4>1, <5>1
      <4>2. CASE ~(k <= Len(before))
        <5> DEFINE m == k - Len(before)
        <5>1. m \in 1..(Len(panes) - i) /\ i + m \in DOMAIN panes
          BY <3>1, <3>2, <3>3, <3>4, <3>6, <4>2
        <5> QED
          BY <3>3, <3>5, <3>6, <4>2, <5>1
      <4> QED
        BY <4>1, <4>2
    <3>7. \A k \in DOMAIN ids : \E j \in DOMAIN panes : ids[k] = panes[j].id
      BY <1>p, <3>4, <3>6
    <3> QED
      BY <3>4, <3>7
  <2> HIDE DEF ids
  <2>4. \A k \in DOMAIN ids : ids[k] \in Ids => live[ids[k]] \in {"open", "gone"}
    BY <1>s, <2>3
  <2>5. panes' = Shells!Shown(ids, live) /\ visible' \in BOOLEAN
    BY <1>t, <2>1, <2>2 DEF ids, SessionTypes
  <2> QED
    BY <1>0, <2>2, <2>3, <2>4, <2>5
<1>10. CASE \E i \in 1..MaxPanes, s \in Ids : Shells!SetPane(i, s)
  <2>1. PICK i \in DOMAIN panes, s \in Ids :
          /\ live[s] = "open" /\ panes' = Shells!Shown([Shells!PaneIds EXCEPT ![i] = s], live)
          /\ visible' = visible /\ UNCHANGED <<live, connecting, printed, buffer, focus, prompt>>
    BY <1>10 DEF Shells!SetPane
  <2> DEFINE ids == [Shells!PaneIds EXCEPT ![i] = s]
  <2>2. ids \in Seq(PaneId) /\ From(ids, s)
    BY PutInPane DEF PaneId
  <2> HIDE DEF ids
  <2>3. \A k \in DOMAIN ids : ids[k] \in Ids => live[ids[k]] \in {"open", "gone"}
    BY <1>s, <2>1, <2>2 DEF From
  <2>4. panes' = Shells!Shown(ids, live) /\ visible' \in BOOLEAN
    BY <1>t, <2>1 DEF ids, SessionTypes
  <2> QED
    BY <1>0, <2>1, <2>2, <2>3, <2>4
<1>11. CASE \E s \in Ids : Shells!SetActive(s)
  <2>1. PICK s \in Ids :
          /\ live[s] = "open" /\ panes' = Shells!Shown(Shells!Focused(Shells!PaneIds, s), live)
          /\ visible' = visible /\ UNCHANGED <<live, connecting, printed, buffer, focus, prompt>>
    BY <1>11 DEF Shells!SetActive
  <2> DEFINE ids == Shells!Focused(Shells!PaneIds, s)
  <2>2. ids \in Seq(PaneId) /\ From(ids, s)
    BY FocusedIs DEF PaneId
  <2> HIDE DEF ids
  <2>3. \A k \in DOMAIN ids : ids[k] \in Ids => live[ids[k]] \in {"open", "gone"}
    BY <1>s, <2>1, <2>2 DEF From
  <2>4. panes' = Shells!Shown(ids, live) /\ visible' \in BOOLEAN
    BY <1>t, <2>1 DEF ids, SessionTypes
  <2> QED
    BY <1>0, <2>1, <2>2, <2>3, <2>4
<1>12. CASE \E i \in 1..MaxPanes : Shells!Focus(i)
  BY <1>12, <1>t
     DEF Shells!Focus, SessionInv, SessionTypes, Replays, Underway, AllWhole, Whole
<1>13. CASE Shells!Navigate
  <2>1. visible' \in BOOLEAN /\ panes' = Shells!Shown(Shells!PaneIds, live)
        /\ UNCHANGED <<live, connecting, printed, buffer, focus, prompt>>
    BY <1>13 DEF Shells!Navigate
  <2>2. \A i \in DOMAIN Shells!PaneIds :
          Shells!PaneIds[i] \in Ids => live[Shells!PaneIds[i]] \in {"open", "gone"}
    BY <1>p, <1>s
  <2> QED
    BY <1>0, <1>p, <2>1, <2>2
<1>14. CASE UNCHANGED Shells!sessionVars
  BY <1>14, <1>t
     DEF Shells!sessionVars, SessionInv, SessionTypes, Replays, Underway, AllWhole, Whole
<1> QED
  BY <1>1, <1>2, <1>3, <1>4, <1>5, <1>6, <1>7, <1>8, <1>9, <1>10, <1>11, <1>12, <1>13, <1>14
     DEF Shells!Next

(* "A pane opened later still shows the banner and everything printed      *)
(* before it existed", for any sessions, panes and size of the buffer, as  *)
(* long as panes do not change while a handshake is under way              *)
(* (ssh/session-provider.tsx, dashboard/terminal/page.tsx).                *)
THEOREM PanesShowEverything ==
  ASSUME Shells!SessionsAssumption
  PROVE  Shells!Spec => []OutputShown
<1>1. Shells!Init => SessionInv
  <2> SUFFICES ASSUME Shells!Init
               PROVE  SessionInv
    OBVIOUS
  <2>1. /\ live = [s \in Ids |-> "new"] /\ connecting = {} /\ printed = [s \in Ids |-> 0]
        /\ buffer = [s \in Ids |-> <<>>] /\ panes = <<>> /\ visible = FALSE /\ prompt = Empty
    BY DEF Shells!Init
  <2>2. SessionTypes /\ Underway /\ AllWhole
    <3>1. panes \in Seq(PaneShape) /\ DOMAIN panes = {}
      BY <2>1
    <3>2. buffer \in [Ids -> Seq(Nat)]
      BY <2>1
    <3> QED
      BY <2>1, <3>1, <3>2 DEF SessionTypes, Underway, AllWhole, PaneId
  <2>3. Replays
    BY <2>1 DEF Replays, Run, Lesser, Shells!SessionsAssumption
  <2> QED
    BY <2>2, <2>3 DEF SessionInv
<1>2. SessionInv /\ [Shells!Next]_(Shells!sessionVars) => SessionInv'
  BY SessionStep
<1>3. SessionInv => Shells!OutputShown
  BY DEF SessionInv, AllWhole, Whole, Run, Lesser, Shells!OutputShown, Shells!Least
<1> QED
  BY <1>1, <1>2, <1>3, PTL DEF Shells!Spec, OutputShown

-------------------------------------------------------------------------------
(* The playback of a cast. What comes before the index is what lies at or  *)
(* before the playhead, since the events are in order of their times; the  *)
(* emulator has the outputs among it, and the size of its last resize.     *)
Amount == Len(cast.events)
Before(n, k) == {i \in DOMAIN cast.events : i < n /\ cast.events[i].kind = k}

Lists(q, S) ==
  /\ q \in Seq(S) /\ Len(q) = Cardinality(S)
  /\ \A x \in S : \E k \in DOMAIN q : q[k] = x
  /\ \A j, k \in DOMAIN q : j < k => q[j] < q[k]

Passed(n, t) == \A i \in DOMAIN cast.events : i < n <=> cast.events[i].at <= t
LastOf(x, S) == x \in {0} \cup S /\ \A i \in S : i <= x

PlayInv ==
  /\ cast \in Playback!Casts
  /\ playhead \in Nat /\ playhead <= Playback!End /\ scrub \subseteq Nat
  /\ index \in 1..(Amount + 1) /\ Passed(index, playhead)
  /\ Lists(written, Before(index, "output")) /\ LastOf(size, Before(index, "resize"))

LEMMA CastIs ==
  ASSUME Playback!PlayerAssumption, cast \in Playback!Casts
  PROVE  /\ Amount \in Nat /\ DOMAIN cast.events = 1..Amount /\ cast.duration \in Nat
         /\ \A i \in DOMAIN cast.events : /\ cast.events[i].at \in Nat
                                          /\ cast.events[i].kind \in {"output", "resize"}
         /\ \A i, j \in DOMAIN cast.events : i < j => cast.events[i].at <= cast.events[j].at
<1>1. PICK n \in Lengths, d \in Times :
        /\ cast.duration = d /\ cast.events \in [1..n -> Playback!Event]
        /\ Playback!Ordered(cast.events)
  BY DEF Playback!Casts
<1>2. n \in Nat /\ d \in Nat /\ Times \subseteq Nat
  BY DEF Playback!PlayerAssumption
<1>3. DOMAIN cast.events = 1..n /\ Amount = n
  BY <1>1, <1>2 DEF Amount
<1>4. \A i \in DOMAIN cast.events : cast.events[i] \in Playback!Event
  BY <1>1
<1> QED
  BY <1>1, <1>2, <1>3, <1>4 DEF Playback!Event, Playback!Ordered

LEMMA EndIs ==
  ASSUME Playback!PlayerAssumption, cast \in Playback!Casts
  PROVE  Playback!End \in Nat
<1> DEFINE ats == {cast.duration} \cup {cast.events[i].at : i \in DOMAIN cast.events}
           last == IF Amount = 0 THEN 0 ELSE cast.events[Amount].at
<1>1. ats \in SUBSET Nat /\ ats # {} /\ cast.duration \in Nat
  BY CastIs
<1>2. last \in Nat /\ \A i \in DOMAIN cast.events : cast.events[i].at <= last
  <2>1. CASE Amount = 0
    BY <2>1, CastIs
  <2>2. CASE Amount # 0
    <3>1. Amount \in DOMAIN cast.events /\ last = cast.events[Amount].at
      BY <2>2, CastIs
    <3>2. \A i \in DOMAIN cast.events : i = Amount \/ i < Amount
      BY CastIs
    <3> HIDE DEF last
    <3> QED
      BY <3>1, <3>2, CastIs
  <2> QED
    BY <2>1, <2>2
<1> HIDE DEF last
<1>3. \A m \in ats : m <= cast.duration + last
  BY <1>1, <1>2, CastIs
<1>4. cast.duration + last \in Nat
  BY <1>1, <1>2
<1> HIDE DEF ats
<1>5. \E n \in ats : \A m \in ats : m <= n
  BY <1>1, <1>3, <1>4, GreatestOf
<1> QED
  BY <1>1, <1>5 DEF Playback!End, Playback!Latest, ats

LEMMA FirstAfterIs ==
  ASSUME Playback!PlayerAssumption, cast \in Playback!Casts,
         NEW from \in 1..(Amount + 1), NEW t \in Nat,
         \A i \in DOMAIN cast.events : i < from => cast.events[i].at <= t
  PROVE  LET next == Playback!FirstAfter(from, t) IN
         next \in from..(Amount + 1) /\ Passed(next, t)
<1> DEFINE S == {Amount + 1} \cup {i \in DOMAIN cast.events : i >= from /\ cast.events[i].at > t}
           next == Playback!FirstAfter(from, t)
<1>c. /\ Amount \in Nat /\ DOMAIN cast.events = 1..Amount
      /\ \A i \in DOMAIN cast.events : cast.events[i].at \in Nat
      /\ \A i, j \in DOMAIN cast.events : i < j => cast.events[i].at <= cast.events[j].at
  BY CastIs
<1>1. S \in SUBSET Nat /\ S # {}
  BY <1>c
<1>2. next = CHOOSE x \in S : \A y \in S : x <= y
  BY DEF Playback!FirstAfter, Playback!Earliest, Amount
<1> HIDE DEF S, next
<1>3. next \in S /\ \A y \in S : next <= y
  <2>1. \E x \in S : \A y \in S : x <= y
    BY <1>1, LeastOf
  <2> QED
    BY <1>2, <2>1
<1>4. next \in from..(Amount + 1)
  BY <1>c, <1>3 DEF S
<1>5. ASSUME NEW i \in DOMAIN cast.events
      PROVE  i < next <=> cast.events[i].at <= t
  <2>1. CASE i < next
    <3>1. i \notin S
      BY <1>c, <1>3, <1>4, <2>1
    <3>2. i >= from => cast.events[i].at <= t
      BY <1>c, <3>1 DEF S
    <3> QED
      BY <1>c, <2>1, <3>2
  <2>2. CASE ~(i < next)
    <3>1. next \in DOMAIN cast.events /\ cast.events[next].at > t
      BY <1>c, <1>3, <1>4, <2>2 DEF S
    <3>2. next = i \/ next < i
      BY <1>c, <1>4, <2>2
    <3> QED
      BY <1>c, <2>2, <3>1, <3>2
  <2> QED
    BY <2>1, <2>2
<1> QED
  BY <1>4, <1>5 DEF Passed, next

LEMMA SizeAtIs ==
  ASSUME Playback!PlayerAssumption, cast \in Playback!Casts,
         NEW n \in 1..(Amount + 1), NEW x \in Nat
  PROVE  LET new == Playback!SizeAt(n, x) IN
         new \in {x} \cup Before(n, "resize") /\ \A y \in {x} \cup Before(n, "resize") : y <= new
<1> DEFINE S == {x} \cup Before(n, "resize")
<1>c. Amount \in Nat /\ DOMAIN cast.events = 1..Amount
  BY CastIs
<1>1. S \in SUBSET Nat /\ S # {} /\ \A m \in S : m <= x + Amount
  BY <1>c DEF Before
<1>2. Playback!SizeAt(n, x) = CHOOSE u \in S : \A v \in S : v <= u
  BY DEF Playback!SizeAt, Playback!Latest, Before
<1>3. x + Amount \in Nat
  BY <1>c
<1> HIDE DEF S
<1>4. \E u \in S : \A v \in S : v <= u
  BY <1>1, <1>3, GreatestOf
<1>5. Playback!SizeAt(n, x) \in S /\ \A v \in S : v <= Playback!SizeAt(n, x)
  BY <1>2, <1>4
<1> QED
  BY <1>5 DEF S

LEMMA ListsMore ==
  ASSUME NEW A \in SUBSET Nat, IsFiniteSet(A), NEW B \in SUBSET Nat, IsFiniteSet(B),
         \A a \in A, b \in B : a < b,
         NEW q, Lists(q, A), NEW r, Lists(r, B)
  PROVE  Lists(q \o r, A \cup B)
<1> DEFINE m == Len(q)
           n == Len(r)
           all == q \o r
<1>1. /\ q \in Seq(A) /\ r \in Seq(B) /\ m \in Nat /\ n \in Nat
      /\ DOMAIN q = 1..m /\ DOMAIN r = 1..n /\ m = Cardinality(A) /\ n = Cardinality(B)
      /\ \A k \in 1..m : q[k] \in A
      /\ \A k \in 1..n : r[k] \in B
  BY DEF Lists
<1>2. q \in Seq(A \cup B) /\ r \in Seq(A \cup B)
  BY <1>1
<1>3. /\ all \in Seq(A \cup B) /\ Len(all) = m + n /\ DOMAIN all = 1..(m + n)
      /\ \A k \in 1..m : all[k] = q[k]
      /\ \A k \in 1..n : all[m + k] = r[k]
  BY <1>1, <1>2
<1> HIDE DEF all
<1>4. Cardinality(A \cup B) = m + n
  <2>1. A \cap B = {}
    <3>1. \A a \in A : ~(a < a)
      OBVIOUS
    <3> QED
      BY <3>1
  <2>2. Cardinality(A \cap B) = 0
    BY <2>1, FS_EmptySet
  <2>3. Cardinality(A \cup B) = Cardinality(A) + Cardinality(B) - Cardinality(A \cap B)
    BY FS_Union
  <2> HIDE DEF m, n
  <2> QED
    BY <1>1, <2>2, <2>3
<1>5. \A x \in A \cup B : \E k \in DOMAIN all : all[k] = x
  <2>1. ASSUME NEW x \in A
        PROVE  \E k \in DOMAIN all : all[k] = x
    <3>1. PICK k \in 1..m : q[k] = x
      BY <1>1 DEF Lists
    <3>2. k \in DOMAIN all /\ all[k] = x
      BY <1>1, <1>3, <3>1
    <3> QED
      BY <3>2
  <2>2. ASSUME NEW x \in B
        PROVE  \E k \in DOMAIN all : all[k] = x
    <3>1. PICK k \in 1..n : r[k] = x
      BY <1>1 DEF Lists
    <3>2. m + k \in DOMAIN all /\ all[m + k] = x
      BY <1>1, <1>3, <3>1
    <3> QED
      BY <3>2
  <2> QED
    BY <2>1, <2>2
<1>6. ASSUME NEW j \in DOMAIN all, NEW k \in DOMAIN all, j < k
      PROVE  all[j] < all[k]
  <2>1. CASE k <= m
    <3>1. j \in 1..m /\ k \in 1..m
      BY <1>1, <1>3, <1>6, <2>1
    <3> QED
      BY <1>1, <1>3, <1>6, <3>1 DEF Lists
  <2>2. CASE j > m
    <3>1. j - m \in 1..n /\ k - m \in 1..n /\ j - m < k - m
      BY <1>1, <1>3, <1>6, <2>2
    <3>2. r[j - m] < r[k - m]
      BY <1>1, <3>1 DEF Lists
    <3>3. all[m + (j - m)] = r[j - m] /\ all[m + (k - m)] = r[k - m]
      BY <1>3, <3>1
    <3>4. m + (j - m) = j /\ m + (k - m) = k
      BY <1>1, <1>3, <1>6
    <3> QED
      BY <3>2, <3>3, <3>4
  <2>3. CASE j <= m /\ ~(k <= m)
    <3>1. j \in 1..m /\ k - m \in 1..n /\ m + (k - m) = k
      BY <1>1, <1>3, <1>6, <2>3
    <3>2. all[j] \in A /\ all[k] \in B
      BY <1>1, <1>3, <3>1
    <3> QED
      BY <3>2
  <2> QED
    BY <1>1, <1>3, <2>1, <2>2, <2>3
<1> QED
  BY <1>1, <1>3, <1>4, <1>5, <1>6 DEF Lists, all

LEMMA OutputsAre ==
  ASSUME Playback!PlayerAssumption, cast \in Playback!Casts, NEW from \in Nat, NEW n \in Nat
  PROVE  LET S == {i \in Before(n, "output") : i >= from} IN
         S \in SUBSET Nat /\ IsFiniteSet(S) /\ Lists(Playback!Outputs(from, n), S)
<1> DEFINE S == {i \in Before(n, "output") : i >= from}
<1>1. S \in SUBSET Nat /\ IsFiniteSet(S)
  <2>1. Amount \in Nat /\ DOMAIN cast.events = 1..Amount /\ IsFiniteSet(1..Amount)
    BY CastIs, FS_Interval
  <2> QED
    BY <2>1, FS_Subset DEF Before
<1>2. Playback!Outputs(from, n) = Playback!Ascending(S)
  <2>1. S = {i \in DOMAIN cast.events : i >= from /\ i < n /\ cast.events[i].kind = "output"}
    BY DEF Before
  <2> HIDE DEF S
  <2> QED
    BY <2>1 DEF Playback!Outputs
<1> HIDE DEF S
<1>3. Playback!Ascending(S) = Ascending(S)
  <2>1. \A T : Playback!Cardinality(T) = Cardinality(T)
    BY DEF Playback!Cardinality, Cardinality
  <2>2. \A k : Playback!Nth(S, k) = Nth(S, k)
    BY <2>1 DEF Playback!Nth, Nth
  <2> QED
    BY <2>1, <2>2 DEF Playback!Ascending, Ascending
<1> DEFINE q == Ascending(S)
<1>4. /\ Cardinality(S) \in Nat /\ q \in [1..Cardinality(S) -> S]
      /\ \A x \in S : \E k \in 1..Cardinality(S) : q[k] = x
      /\ \A j, k \in 1..Cardinality(S) : j < k => q[j] < q[k]
  BY <1>1, AscendingIs
<1> HIDE DEF q
<1>5. q \in Seq(S) /\ Len(q) = Cardinality(S) /\ DOMAIN q = 1..Cardinality(S)
  BY <1>4
<1>6. Lists(q, S)
  BY <1>4, <1>5 DEF Lists
<1> QED
  BY <1>1, <1>2, <1>3, <1>6 DEF q, S

(* seek, from wherever the playback is. *)
LEMMA SeekStep ==
  ASSUME Playback!PlayerAssumption, PlayInv, NEW t \in Nat, Playback!Seek(t),
         cast' = cast, scrub' \subseteq Nat
  PROVE  PlayInv'
<1> DEFINE to == IF t > Playback!End THEN Playback!End ELSE t
           next == Playback!FirstAfter(1, to)
<1>c. cast \in Playback!Casts /\ Amount \in Nat
  BY CastIs DEF PlayInv
<1>1. to \in Nat /\ to <= Playback!End
  BY <1>c, EndIs
<1>2. written' = Playback!Outputs(1, next) /\ size' = Playback!SizeAt(next, 0) /\ index' = next /\ playhead' = to
  BY DEF Playback!Seek
<1> HIDE DEF to, next
<1>3. next \in 1..(Amount + 1) /\ Passed(next, to)
  <2>1. 1 \in 1..(Amount + 1) /\ \A i \in DOMAIN cast.events : ~(i < 1)
    BY <1>c, CastIs
  <2> QED
    BY <1>1, <1>c, <2>1, FirstAfterIs DEF next
<1>4. Lists(Playback!Outputs(1, next), Before(next, "output"))
  <2>1. {i \in Before(next, "output") : i >= 1} = Before(next, "output")
    BY <1>c, CastIs DEF Before
  <2>2. next \in Nat /\ 1 \in Nat
    BY <1>c, <1>3
  <2> QED
    BY <1>c, <2>1, <2>2, OutputsAre
<1>5. LastOf(Playback!SizeAt(next, 0), Before(next, "resize"))
  BY <1>c, <1>3, SizeAtIs DEF LastOf
<1>6. /\ Amount' = Amount /\ Playback!End' = Playback!End
      /\ Before(next, "output")' = Before(next', "output") /\ Passed(index, playhead)' = Passed(next, to)
      /\ Before(index, "output")' = Before(next, "output")
      /\ Before(index, "resize")' = Before(next, "resize")
  BY <1>2 DEF Amount, Before, Passed, Playback!End
<1> QED
  BY <1>1, <1>2, <1>3, <1>4, <1>5, <1>6, <1>c DEF PlayInv, Lists, LastOf

(* The frame at the time 0, on a fresh emulator. *)
LEMMA PlayStart ==
  ASSUME Playback!PlayerAssumption, Playback!Init
  PROVE  PlayInv
<1>1. /\ cast \in Playback!Casts /\ index = Playback!FirstAfter(1, 0) /\ playhead = 0
      /\ written = Playback!Outputs(1, index) /\ size = Playback!SizeAt(index, 0) /\ scrub = {}
  BY DEF Playback!Init
<1>2. Amount \in Nat /\ Playback!End \in Nat
  BY <1>1, CastIs, EndIs
<1>3. index \in 1..(Amount + 1) /\ Passed(index, 0)
  <2>1. 1 \in 1..(Amount + 1) /\ \A i \in DOMAIN cast.events : ~(i < 1)
    BY <1>1, <1>2, CastIs
  <2> QED
    BY <1>1, <2>1, FirstAfterIs
<1>4. Lists(written, Before(index, "output"))
  <2>1. {i \in Before(index, "output") : i >= 1} = Before(index, "output")
    BY <1>1, <1>2, CastIs DEF Before
  <2>2. index \in Nat /\ 1 \in Nat
    BY <1>2, <1>3
  <2> QED
    BY <1>1, <2>1, <2>2, OutputsAre
<1>5. LastOf(size, Before(index, "resize"))
  BY <1>1, <1>3, SizeAtIs DEF LastOf
<1> QED
  BY <1>1, <1>2, <1>3, <1>4, <1>5 DEF PlayInv

(* A frame: the outputs passed since the last one follow those written. *)
LEMMA FrameStep ==
  ASSUME Playback!PlayerAssumption, PlayInv, NEW t \in Nat, Playback!Frame(t)
  PROVE  PlayInv'
<1> DEFINE to == IF t > Playback!End THEN Playback!End ELSE t
           next == Playback!FirstAfter(index, to)
           old == Before(index, "output")
           new == {i \in Before(next, "output") : i >= index}
<1>c. /\ cast \in Playback!Casts /\ Amount \in Nat /\ Playback!End \in Nat
      /\ DOMAIN cast.events = 1..Amount
      /\ \A i \in DOMAIN cast.events : cast.events[i].at \in Nat
  BY CastIs, EndIs DEF PlayInv
<1>p. /\ playhead \in Nat /\ playhead <= Playback!End /\ scrub \subseteq Nat
      /\ index \in 1..(Amount + 1) /\ Passed(index, playhead)
      /\ Lists(written, Before(index, "output")) /\ LastOf(size, Before(index, "resize"))
  BY DEF PlayInv
<1>1. to \in Nat /\ to <= Playback!End /\ playhead <= to
  BY <1>c, <1>p DEF Playback!Frame
<1>2. /\ written' = written \o Playback!Outputs(index, next) /\ size' = Playback!SizeAt(next, size)
      /\ index' = next /\ playhead' = to /\ cast' = cast /\ scrub' = scrub
  BY DEF Playback!Frame
<1> HIDE DEF to, next
<1>3. next \in index..(Amount + 1) /\ next \in 1..(Amount + 1) /\ Passed(next, to)
  <2>1. \A i \in DOMAIN cast.events : i < index => cast.events[i].at <= to
    BY <1>1, <1>c, <1>p DEF Passed
  <2>2. next \in index..(Amount + 1) /\ Passed(next, to)
    BY <1>1, <1>c, <1>p, <2>1, FirstAfterIs DEF next
  <2> QED
    BY <1>c, <1>p, <2>2
<1>4. Before(next, "output") = old \cup new /\ old \in SUBSET Nat /\ IsFiniteSet(old)
      /\ \A a \in old, b \in new : a < b
  <2>1. IsFiniteSet(1..Amount)
    <3>1. 1 \in Int /\ Amount \in Int
      BY <1>c
    <3> HIDE DEF old, new
    <3> QED
      BY <3>1, FS_Interval
  <2>2. old \in SUBSET (1..Amount) /\ IsFiniteSet(old)
    BY <1>c, <2>1, FS_Subset DEF Before
  <2>3. Before(next, "output") = old \cup new
    BY <1>c, <1>p, <1>3 DEF Before
  <2>4. \A a \in old, b \in new : a < b
    BY <1>c, <1>p, <1>3 DEF Before
  <2> QED
    BY <1>c, <2>2, <2>3, <2>4
<1>5. new \in SUBSET Nat /\ IsFiniteSet(new) /\ Lists(Playback!Outputs(index, next), new)
  <2>1. index \in Nat /\ next \in Nat
    BY <1>c, <1>p, <1>3
  <2> QED
    BY <1>c, <2>1, OutputsAre
<1>6. Lists(written \o Playback!Outputs(index, next), Before(next, "output"))
  <2> HIDE DEF old, new
  <2>1. Lists(written, old)
    BY <1>p DEF old
  <2> QED
    BY <1>4, <1>5, <2>1, ListsMore
<1>7. LastOf(Playback!SizeAt(next, size), Before(next, "resize"))
  <2>1. size \in Nat /\ size \in {0} \cup Before(index, "resize")
        /\ \A i \in Before(index, "resize") : i <= size
    BY <1>c, <1>p DEF LastOf, Before
  <2>2. Before(index, "resize") \subseteq Before(next, "resize")
    BY <1>c, <1>p, <1>3 DEF Before
  <2> DEFINE last == Playback!SizeAt(next, size)
  <2>3. last \in {size} \cup Before(next, "resize")
        /\ \A y \in {size} \cup Before(next, "resize") : y <= last
    BY <1>c, <1>3, <2>1, SizeAtIs
  <2> HIDE DEF last
  <2> QED
    BY <2>1, <2>2, <2>3 DEF LastOf, last
<1>8. /\ Amount' = Amount /\ Playback!End' = Playback!End
      /\ Passed(index, playhead)' = Passed(next, to)
      /\ Before(index, "output")' = Before(next, "output")
      /\ Before(index, "resize")' = Before(next, "resize")
  BY <1>2 DEF Amount, Before, Passed, Playback!End
<1> QED
  BY <1>1, <1>2, <1>3, <1>6, <1>7, <1>8, <1>c, <1>p DEF PlayInv, Lists, LastOf

LEMMA PlayStep ==
  ASSUME Playback!PlayerAssumption, PlayInv, [Playback!Next]_(Playback!playerVars)
  PROVE  PlayInv'
<1>s. Times \subseteq Nat /\ scrub \subseteq Nat
  BY DEF Playback!PlayerAssumption, PlayInv
<1>u. ASSUME UNCHANGED <<cast, written, size, index, playhead>>, scrub' \subseteq Nat
      PROVE  PlayInv'
  BY <1>u DEF PlayInv, Playback!End, Amount, Passed, Before, Lists, LastOf
<1>p. Playback!End \in Nat /\ playhead \in Nat
  BY EndIs DEF PlayInv
<1>1. CASE Playback!Play
  <2>1. CASE Playback!AtEnd
    BY <1>1, <1>s, <2>1, SeekStep DEF Playback!Play
  <2>2. CASE ~Playback!AtEnd
    BY <1>1, <1>s, <1>u, <2>2 DEF Playback!Play
  <2> QED
    BY <2>1, <2>2
<1>2. CASE Playback!Restart
  BY <1>2, <1>s, SeekStep DEF Playback!Restart
<1>3. CASE Playback!BeginScrub
  BY <1>3, <1>p, <1>u DEF Playback!BeginScrub
<1>4. CASE Playback!CommitScrub
  BY <1>4, <1>s, SeekStep DEF Playback!CommitScrub
<1>5. CASE \E t \in Times : Playback!Frame(t)
  BY <1>5, <1>s, FrameStep
<1>6. CASE \E t \in Times : Playback!MoveScrub(t)
  BY <1>6, <1>s, <1>u DEF Playback!MoveScrub
<1>7. CASE UNCHANGED Playback!playerVars
  BY <1>7, <1>s, <1>u DEF Playback!playerVars
<1> QED
  BY <1>1, <1>2, <1>3, <1>4, <1>5, <1>6, <1>7 DEF Playback!Next

(* However playback, pauses and seeks follow each other, the screen shows  *)
(* every output up to the playhead, once and in order, at the size of the  *)
(* last resize before it: for casts of any length and any times            *)
(* (components/recording-player.tsx, lib/recording/format.ts).             *)
THEOREM ScreenFollowsPlayhead ==
  ASSUME Playback!PlayerAssumption
  PROVE  Playback!Spec => []ScreenIsPlayhead
<1>1. Playback!Init => PlayInv
  BY PlayStart
<1>2. PlayInv /\ [Playback!Next]_(Playback!playerVars) => PlayInv'
  BY PlayStep
<1>3. ASSUME PlayInv
      PROVE  Playback!ScreenIsPlayhead
  <2> DEFINE past == {i \in DOMAIN cast.events : cast.events[i].at <= playhead}
             outputs == {i \in past : cast.events[i].kind = "output"}
             resizes == past \ outputs
  <2>1. outputs = Before(index, "output") /\ resizes = Before(index, "resize")
    <3>1. \A i \in DOMAIN cast.events : cast.events[i].kind \in {"output", "resize"}
      BY <1>3, CastIs DEF PlayInv
    <3>2. \A i \in DOMAIN cast.events : i < index <=> cast.events[i].at <= playhead
      BY <1>3 DEF PlayInv, Passed
    <3> QED
      BY <3>1, <3>2 DEF Before
  <2>2. Lists(written, outputs) /\ LastOf(size, resizes)
    BY <1>3, <2>1 DEF PlayInv
  <2> HIDE DEF outputs, resizes
  <2>3. \A k \in DOMAIN written : written[k] \in outputs
    BY <2>2 DEF Lists
  <2>4. {written[k] : k \in DOMAIN written} = outputs
    BY <2>2, <2>3 DEF Lists
  <2>5. /\ Len(written) = Cardinality(outputs)
        /\ \A j, k \in DOMAIN written : j < k => written[j] < written[k]
        /\ size \in {0} \cup resizes /\ \A i \in resizes : i <= size
    BY <2>2 DEF Lists, LastOf
  <2> QED
    BY <2>4, <2>5 DEF Playback!ScreenIsPlayhead, Playback!Cardinality, Cardinality, outputs, resizes
<1> QED
  BY <1>1, <1>2, <1>3, PTL DEF Playback!Spec, ScreenIsPlayhead

-------------------------------------------------------------------------------
(* A copy between two hosts. The queue is the chunks that were pushed and  *)
(* not pulled, in order, what landed is those pulled before, and only the  *)
(* one being written is in neither, so that nothing is skipped or doubled. *)
CONSTANTS HighWater, Entries
VARIABLES entry, source, sink, bridge, aborted, copying, landed
Copy == INSTANCE RemoteCopy
          WITH Sizes <- Entries, reader <- source, writer <- sink, transfer <- copying

Why == {"none", "error", "cancelled"}
HereLanded == landed[entry]
Underhand == IF sink.at = "writing" THEN 1 ELSE 0

CopyTypes ==
  /\ entry \in 1..Len(Entries)
  /\ source \in [at : {"busy", "parked", "woken", "done", "failed"}, n : Nat, why : Why]
  /\ sink \in [at : {"busy", "parked", "woken", "writing", "closing", "done", "failed"},
               n : Nat, why : Why]
  /\ bridge \in [queue : Seq(Nat), ended : BOOLEAN, failure : Why]
  /\ landed \in [1..Len(Entries) -> Seq(Nat)]

InOrder ==
  /\ Run(HereLanded, Len(HereLanded)) /\ Run(bridge.queue, source.n)
  /\ sink.at # "failed" => source.n = Len(HereLanded) + Underhand + Len(bridge.queue)
  /\ sink.at = "writing" => sink.n = Len(HereLanded) + 1

Finished ==
  /\ source.n <= Entries[entry]
  /\ bridge.ended => source.at = "done" /\ source.n = Entries[entry]
  /\ sink.at \in {"closing", "done"} => bridge.ended /\ bridge.queue = <<>>
  /\ copying = "complete" => entry = Len(Entries) /\ sink.at = "done"

InMemory ==
  /\ Len(bridge.queue) <= HighWater
  /\ source.at = "busy" /\ bridge.failure = "none" => Len(bridge.queue) < HighWater

FilesLanded ==
  /\ \A i \in 1..Len(Entries) : i < entry => Run(landed[i], Len(landed[i])) /\ Len(landed[i]) = Entries[i]
  /\ \A i \in 1..Len(Entries) : i > entry => landed[i] = <<>>

CopyInv == CopyTypes /\ InOrder /\ Finished /\ InMemory /\ FilesLanded

LEMMA CopySizes ==
  ASSUME Copy!CopyAssumption
  PROVE  /\ HighWater \in Nat /\ HighWater > 0 /\ Len(Entries) \in Nat /\ Len(Entries) > 0
         /\ DOMAIN Entries = 1..Len(Entries)
         /\ \A i \in 1..Len(Entries) : Entries[i] \in Nat
BY DEF Copy!CopyAssumption

LEMMA RunFromOne ==
  ASSUME NEW q \in Seq(Nat), NEW n \in Nat, Len(q) = n, Run(q, n)
  PROVE  q = [k \in 1..n |-> k]
BY DEF Run

LEMMA RunShrinks ==
  ASSUME NEW q \in Seq(Nat), NEW n \in Nat, Run(q, n), q # <<>>
  PROVE  /\ Head(q) \in Nat /\ Head(q) = n - Len(q) + 1
         /\ Tail(q) \in Seq(Nat) /\ Len(Tail(q)) = Len(q) - 1 /\ Run(Tail(q), n)
<1> DEFINE rest == Tail(q)
<1>1. /\ Len(q) \in Nat /\ Len(q) > 0 /\ DOMAIN q = 1..Len(q) /\ Head(q) = q[1]
      /\ rest \in Seq(Nat) /\ Len(rest) = Len(q) - 1 /\ DOMAIN rest = 1..(Len(q) - 1)
      /\ \A k \in 1..(Len(q) - 1) : rest[k] = q[k + 1]
  OBVIOUS
<1> HIDE DEF rest
<1>2. ASSUME NEW k \in 1..(Len(q) - 1)
      PROVE  rest[k] = n - Len(rest) + k
  <2>1. k + 1 \in DOMAIN q /\ rest[k] = q[k + 1]
    BY <1>1
  <2>2. q[k + 1] = n - Len(q) + (k + 1)
    BY <2>1 DEF Run
  <2> QED
    BY <1>1, <2>1, <2>2
<1>3. Run(rest, n)
  BY <1>1, <1>2 DEF Run
<1>4. q[1] \in Nat /\ q[1] = n - Len(q) + 1
  <2>1. 1 \in DOMAIN q
    BY <1>1
  <2> QED
    BY <2>1 DEF Run
<1> QED
  BY <1>1, <1>3, <1>4 DEF rest

(* Waking a half that waits changes only whether it waits. *)
LEMMA WokenIs ==
  ASSUME CopyTypes
  PROVE  /\ Copy!Woken(source) \in [at : {"busy", "parked", "woken", "done", "failed"}, n : Nat, why : Why]
         /\ Copy!Woken(source).n = source.n
         /\ Copy!Woken(source).at \in {"busy", "done"} => Copy!Woken(source).at = source.at
         /\ source.at = "done" => Copy!Woken(source).at = "done"
         /\ Copy!Woken(sink) \in [at : {"busy", "parked", "woken", "writing", "closing", "done", "failed"},
                                  n : Nat, why : Why]
         /\ Copy!Woken(sink).n = sink.n
         /\ \A a \in {"writing", "closing", "done", "failed"} : (Copy!Woken(sink).at = a) = (sink.at = a)
BY DEF CopyTypes, Copy!Woken

LEMMA CopyStep ==
  ASSUME Copy!CopyAssumption, CopyInv, [Copy!Next]_(Copy!copyVars)
  PROVE  CopyInv'
<1>f. CopyTypes /\ InOrder /\ Finished /\ InMemory /\ FilesLanded
  BY DEF CopyInv
<1>s. /\ HighWater \in Nat /\ HighWater > 0 /\ Len(Entries) \in Nat
      /\ \A i \in 1..Len(Entries) : Entries[i] \in Nat
  BY CopySizes
<1>l. /\ Len(bridge.queue) \in Nat /\ Len(HereLanded) \in Nat /\ HereLanded \in Seq(Nat)
      /\ bridge.queue \in Seq(Nat) /\ source.n \in Nat /\ Entries[entry] \in Nat
  <2>1. HereLanded \in Seq(Nat) /\ bridge.queue \in Seq(Nat) /\ source.n \in Nat
    BY <1>f DEF CopyTypes, HereLanded
  <2>2. Entries[entry] \in Nat
    BY <1>f, <1>s DEF CopyTypes
  <2> QED
    BY <2>1, <2>2
(* A step that fails a half or wakes one, with the bridge's queue as it is. *)
<1>1. ASSUME UNCHANGED <<entry, copying, landed>>,
             bridge' \in [queue : Seq(Nat), ended : BOOLEAN, failure : Why],
             bridge'.queue = bridge.queue, bridge'.ended = bridge.ended,
             bridge'.failure = "none" => bridge.failure = "none",
             source' \in [at : {"busy", "parked", "woken", "done", "failed"}, n : Nat, why : Why],
             source'.n = source.n, source.at = "done" => source'.at = "done",
             source'.at = "busy" => source.at = "busy" \/ Len(bridge.queue) < HighWater \/ bridge'.failure # "none",
             sink' \in [at : {"busy", "parked", "woken", "writing", "closing", "done", "failed"},
                       n : Nat, why : Why],
             sink'.at = "failed" \/ (sink'.n = sink.n /\
               \A a \in {"writing", "closing", "done", "failed"} : (sink'.at = a) = (sink.at = a)),
             copying = "complete" => sink'.at = sink.at
      PROVE  CopyInv'
  <2>1. CopyTypes'
    BY <1>f, <1>1 DEF CopyTypes
  <2>2. InOrder'
    BY <1>f, <1>l, <1>1 DEF InOrder, HereLanded, Underhand
  <2>3. Finished' /\ InMemory' /\ FilesLanded'
    BY <1>f, <1>1 DEF Finished, InMemory, FilesLanded
  <2> QED
    BY <2>1, <2>2, <2>3 DEF CopyInv
<1>w. /\ Copy!Woken(source) \in [at : {"busy", "parked", "woken", "done", "failed"}, n : Nat, why : Why]
      /\ Copy!Woken(source).n = source.n
      /\ Copy!Woken(source).at \in {"busy", "done"} => Copy!Woken(source).at = source.at
      /\ source.at = "done" => Copy!Woken(source).at = "done"
      /\ Copy!Woken(sink) \in [at : {"busy", "parked", "woken", "writing", "closing", "done", "failed"},
                               n : Nat, why : Why]
      /\ Copy!Woken(sink).n = sink.n
      /\ \A a \in {"writing", "closing", "done", "failed"} : (Copy!Woken(sink).at = a) = (sink.at = a)
  BY <1>f, WokenIs
<1>2. CASE Copy!Push
  <2>0. copying = "running" /\ source.at = "busy" /\ source.n < Entries[entry]
        /\ UNCHANGED <<entry, copying, landed>> /\ sink' = Copy!Woken(sink)
    BY <1>2 DEF Copy!Push
  <2>1. CASE bridge.failure # "none"
    <3>1. source' = [source EXCEPT !.at = "failed", !.why = bridge.failure] /\ bridge' = bridge
      BY <1>2, <2>1 DEF Copy!Push
    <3>2. source' \in [at : {"busy", "parked", "woken", "done", "failed"}, n : Nat, why : Why]
          /\ source'.n = source.n /\ source'.at = "failed"
      BY <1>f, <3>1 DEF CopyTypes
    <3> QED
      BY <1>f, <1>1, <1>w, <2>0, <3>1, <3>2 DEF CopyTypes
  <2>2. CASE bridge.failure = "none"
    <3> DEFINE q == Append(bridge.queue, source.n + 1)
               b == [bridge EXCEPT !.queue = q]
               at == IF Copy!Full(b) THEN "parked" ELSE "busy"
    <3>1. bridge' = b /\ source' = [source EXCEPT !.n = @ + 1, !.at = at]
      BY <1>2, <2>2 DEF Copy!Push
    <3>2. q \in Seq(Nat) /\ Len(q) = Len(bridge.queue) + 1 /\ Run(q, source.n + 1)
      BY <1>f, <1>l, RunGrows DEF InOrder
    <3> HIDE DEF q
    <3>3. b \in [queue : Seq(Nat), ended : BOOLEAN, failure : Why]
          /\ b.queue = q /\ b.ended = bridge.ended /\ b.failure = bridge.failure
      BY <1>f, <3>2 DEF CopyTypes
    <3> HIDE DEF b
    <3>4. at \in {"parked", "busy"} /\ (at = "busy" => Len(q) < HighWater)
      BY <1>f, <1>s, <1>l, <2>0, <2>2, <3>2, <3>3 DEF Copy!Full, Finished
    <3> HIDE DEF at
    <3>5. source' \in [at : {"busy", "parked", "woken", "done", "failed"}, n : Nat, why : Why]
          /\ source'.n = source.n + 1 /\ source'.at = at
      <4>1. source \in [at : {"busy", "parked", "woken", "done", "failed"}, n : Nat, why : Why]
        BY <1>f DEF CopyTypes
      <4>2. source' = [[source EXCEPT !.n = source.n + 1] EXCEPT !.at = at]
        BY <3>1, <4>1
      <4>3. [source EXCEPT !.n = source.n + 1]
              \in [at : {"busy", "parked", "woken", "done", "failed"}, n : Nat, why : Why]
            /\ [source EXCEPT !.n = source.n + 1].n = source.n + 1
        BY <4>1
      <4> QED
        BY <3>4, <4>2, <4>3
    <3>6. CopyTypes'
      BY <1>f, <1>w, <2>0, <3>1, <3>3, <3>5 DEF CopyTypes
    <3>7. InOrder'
      <4>1. /\ HereLanded' = HereLanded /\ Underhand' = Underhand
            /\ (sink'.at = "failed") = (sink.at = "failed")
            /\ (sink'.at = "writing") = (sink.at = "writing") /\ sink'.n = sink.n
        BY <1>w, <2>0 DEF HereLanded, Underhand
      <4>2. bridge'.queue = q /\ source'.n = source.n + 1
        BY <3>1, <3>3, <3>5
      <4>3. sink.at # "failed" =>
              source.n + 1 = Len(HereLanded) + Underhand + Len(q)
        <5>1. Underhand \in Nat
          BY DEF Underhand
        <5>2. sink.at # "failed" => source.n = Len(HereLanded) + Underhand + Len(bridge.queue)
          BY <1>f DEF InOrder
        <5>3. Len(q) = Len(bridge.queue) + 1
          BY <3>2
        <5>4. PICK h \in Nat : h = Len(HereLanded)
          BY <1>l
        <5>5. PICK r \in Nat : r = Len(bridge.queue)
          BY <1>l
        <5>6. PICK m \in Nat : m = source.n
          BY <1>l
        <5>7. PICK u \in Nat : u = Underhand
          BY <5>1
        <5>8. m = h + u + r => m + 1 = h + u + (r + 1)
          OBVIOUS
        <5> QED
          BY <5>2, <5>3, <5>4, <5>5, <5>6, <5>7, <5>8, Zenon
      <4> QED
        BY <1>f, <3>2, <4>1, <4>2, <4>3 DEF InOrder
    <3>8. ~bridge.ended
      BY <1>f, <2>0 DEF Finished
    <3>9. Finished'
      BY <1>f, <1>l, <1>w, <2>0, <3>1, <3>3, <3>5, <3>8 DEF Finished
    <3>10. InMemory' /\ FilesLanded'
      BY <1>f, <1>l, <1>s, <2>0, <2>2, <3>1, <3>2, <3>3, <3>4, <3>5 DEF InMemory, FilesLanded
    <3> QED
      BY <3>6, <3>7, <3>9, <3>10 DEF CopyInv
  <2> QED
    BY <2>1, <2>2
<1>3. CASE Copy!PushAgain
  <2>0. source.at = "woken" /\ UNCHANGED <<entry, bridge, copying, landed>>
        /\ sink' \in {sink, Copy!Woken(sink)}
    BY <1>3 DEF Copy!PushAgain
  <2>1. CASE bridge.failure # "none" /\ source' = [source EXCEPT !.at = "failed", !.why = bridge.failure]
    <3>1. source' \in [at : {"busy", "parked", "woken", "done", "failed"}, n : Nat, why : Why]
          /\ source'.n = source.n /\ source'.at = "failed"
      BY <1>f, <2>1 DEF CopyTypes
    <3> QED
      BY <1>f, <1>1, <1>w, <2>0, <3>1 DEF CopyTypes, Finished
  <2>2. CASE /\ bridge.failure = "none"
             /\ source' = [source EXCEPT !.at = IF Copy!Full(bridge) THEN "parked" ELSE "busy"]
    <3>1. source' \in [at : {"busy", "parked", "woken", "done", "failed"}, n : Nat, why : Why]
          /\ source'.n = source.n /\ (source'.at = "busy" => ~Copy!Full(bridge))
      BY <1>f, <2>2 DEF CopyTypes
    <3>2. source'.at = "busy" => Len(bridge.queue) < HighWater
      BY <1>f, <1>l, <1>s, <2>0, <2>2, <3>1 DEF Copy!Full, Finished
    <3> QED
      BY <1>f, <1>1, <1>w, <2>0, <3>1, <3>2 DEF CopyTypes, Finished
  <2> QED
    BY <1>3, <2>1, <2>2 DEF Copy!PushAgain
<1>4. CASE Copy!ReadEnds
  <2>1. /\ copying = "running" /\ source.n = Entries[entry] /\ UNCHANGED <<entry, copying, landed>>
        /\ source' = [source EXCEPT !.at = "done"] /\ bridge' = [bridge EXCEPT !.ended = TRUE]
        /\ sink' = Copy!Woken(sink)
    BY <1>4 DEF Copy!ReadEnds
  <2>2. /\ source' \in [at : {"busy", "parked", "woken", "done", "failed"}, n : Nat, why : Why]
        /\ source'.n = source.n /\ source'.at = "done"
        /\ bridge' \in [queue : Seq(Nat), ended : BOOLEAN, failure : Why]
        /\ bridge'.queue = bridge.queue /\ bridge'.ended
    BY <1>f, <2>1 DEF CopyTypes
  <2>3. CopyTypes' /\ InOrder'
    BY <1>f, <1>l, <1>w, <2>1, <2>2 DEF CopyTypes, InOrder, HereLanded, Underhand
  <2>4. Finished' /\ InMemory' /\ FilesLanded'
    BY <1>f, <1>l, <1>w, <2>1, <2>2 DEF Finished, InMemory, FilesLanded
  <2> QED
    BY <2>3, <2>4 DEF CopyInv
<1>5. CASE Copy!ReadBreaks \/ Copy!Abort
  <2>1. /\ copying = "running" /\ UNCHANGED <<entry, copying, landed>>
        /\ sink' = Copy!Woken(sink)
        /\ \E why \in Why : why # "none" /\ bridge' = [bridge EXCEPT !.failure = why]
        /\ \/ source' = Copy!Woken(source)
           \/ source.at = "busy" /\ source' = [source EXCEPT !.at = "failed", !.why = "error"]
    BY <1>5 DEF Copy!ReadBreaks, Copy!Abort, Copy!Failed, Why
  <2>2. /\ bridge' \in [queue : Seq(Nat), ended : BOOLEAN, failure : Why]
        /\ bridge'.queue = bridge.queue /\ bridge'.ended = bridge.ended /\ bridge'.failure # "none"
    BY <1>f, <2>1 DEF CopyTypes
  <2>3. /\ source' \in [at : {"busy", "parked", "woken", "done", "failed"}, n : Nat, why : Why]
        /\ source'.n = source.n /\ (source.at = "done" => source'.at = "done")
    BY <1>f, <1>w, <2>1 DEF CopyTypes, Why
  <2> QED
    BY <1>1, <1>w, <2>1, <2>2, <2>3
<1>6. CASE Copy!WriteBreaks
  <2>1. /\ sink.at \in {"writing", "closing"} /\ UNCHANGED <<entry, copying, landed>>
        /\ sink' = [sink EXCEPT !.at = "failed", !.why = "error"]
        /\ bridge' = [bridge EXCEPT !.failure = "error"] /\ source' = Copy!Woken(source)
    BY <1>6 DEF Copy!WriteBreaks, Copy!Failed, Copy!WriteFailedWakes
  <2>2. /\ bridge' \in [queue : Seq(Nat), ended : BOOLEAN, failure : Why]
        /\ bridge'.queue = bridge.queue /\ bridge'.ended = bridge.ended /\ bridge'.failure # "none"
        /\ sink' \in [at : {"busy", "parked", "woken", "writing", "closing", "done", "failed"},
                       n : Nat, why : Why]
        /\ sink'.at = "failed"
    BY <1>f, <2>1 DEF CopyTypes, Why
  <2>3. copying # "complete"
    BY <1>f, <2>1 DEF Finished
  <2> QED
    BY <1>1, <1>w, <2>1, <2>2, <2>3
<1>7. CASE Copy!Pull
  <2>0. /\ copying = "running" /\ sink.at \in {"busy", "woken"}
        /\ UNCHANGED <<entry, copying, landed>>
    BY <1>7 DEF Copy!Pull
  <2>1. CASE /\ sink' = [sink EXCEPT !.at = "failed", !.why = bridge.failure]
             /\ source' = Copy!Woken(source) /\ UNCHANGED bridge
    <3>1. sink' \in [at : {"busy", "parked", "woken", "writing", "closing", "done", "failed"},
                     n : Nat, why : Why] /\ sink'.at = "failed"
      BY <1>f, <2>1 DEF CopyTypes
    <3> QED
      BY <1>f, <1>1, <1>w, <2>0, <2>1, <3>1 DEF CopyTypes
  <2>2. CASE sink' = [sink EXCEPT !.at = "parked"] /\ UNCHANGED <<source, bridge>>
    <3>1. sink' \in [at : {"busy", "parked", "woken", "writing", "closing", "done", "failed"},
                     n : Nat, why : Why] /\ sink'.at = "parked" /\ sink'.n = sink.n
      BY <1>f, <2>2 DEF CopyTypes
    <3> QED
      BY <1>f, <1>1, <2>0, <2>2, <3>1 DEF CopyTypes
  <2>3. CASE Copy!Ends /\ sink' = [sink EXCEPT !.at = "closing"] /\ UNCHANGED <<source, bridge>>
    <3>1. sink' \in [at : {"busy", "parked", "woken", "writing", "closing", "done", "failed"},
                     n : Nat, why : Why] /\ sink'.at = "closing"
      BY <1>f, <2>3 DEF CopyTypes
    <3>2. bridge.ended /\ bridge.queue = <<>>
      BY <2>3 DEF Copy!Ends
    <3>3. CopyTypes' /\ InOrder'
      BY <1>f, <1>l, <2>0, <2>3, <3>1 DEF CopyTypes, InOrder, HereLanded, Underhand
    <3>4. Finished' /\ InMemory' /\ FilesLanded'
      BY <1>f, <2>0, <2>3, <3>1, <3>2 DEF Finished, InMemory, FilesLanded
    <3> QED
      BY <3>3, <3>4 DEF CopyInv
  <2>4. CASE /\ bridge.queue # <<>> /\ sink' = [sink EXCEPT !.at = "writing", !.n = Head(bridge.queue)]
             /\ bridge' = [bridge EXCEPT !.queue = Tail(@)] /\ source' = Copy!Woken(source)
    <3>1. /\ Head(bridge.queue) \in Nat /\ Head(bridge.queue) = source.n - Len(bridge.queue) + 1
          /\ Tail(bridge.queue) \in Seq(Nat) /\ Len(Tail(bridge.queue)) = Len(bridge.queue) - 1
          /\ Run(Tail(bridge.queue), source.n)
      BY <1>f, <1>l, <2>4, RunShrinks DEF InOrder
    <3>2. /\ sink' \in [at : {"busy", "parked", "woken", "writing", "closing", "done", "failed"},
                        n : Nat, why : Why]
          /\ sink'.at = "writing" /\ sink'.n = Head(bridge.queue)
      BY <1>f, <2>4, <3>1 DEF CopyTypes
    <3>3. /\ bridge' \in [queue : Seq(Nat), ended : BOOLEAN, failure : Why]
          /\ bridge'.queue = Tail(bridge.queue) /\ bridge'.ended = bridge.ended
          /\ bridge'.failure = bridge.failure
      BY <1>f, <2>4, <3>1 DEF CopyTypes
    <3>4. source.n = Len(HereLanded) + Len(bridge.queue)
      <4>1. Underhand = 0 /\ sink.at # "failed"
        BY <2>0 DEF Underhand
      <4>2. source.n = Len(HereLanded) + Underhand + Len(bridge.queue)
        BY <1>f, <4>1 DEF InOrder
      <4> QED
        BY <1>l, <4>1, <4>2
    <3>5. CopyTypes'
      BY <1>f, <1>w, <2>0, <2>4, <3>2, <3>3 DEF CopyTypes
    <3>6. InOrder'
      BY <1>f, <1>l, <1>w, <2>0, <2>4, <3>1, <3>2, <3>3, <3>4 DEF InOrder, HereLanded, Underhand
    <3>7. Finished'
      BY <1>f, <1>w, <2>0, <2>4, <3>2, <3>3 DEF Finished
    <3>8. InMemory' /\ FilesLanded'
      BY <1>f, <1>l, <1>s, <1>w, <2>0, <2>4, <3>1, <3>3 DEF InMemory, FilesLanded
    <3> QED
      BY <3>5, <3>6, <3>7, <3>8 DEF CopyInv
  <2> QED
    BY <1>7, <2>1, <2>2, <2>3, <2>4 DEF Copy!Pull
<1>8. CASE Copy!Written
  <2>0. sink.at \in {"writing", "closing"} /\ UNCHANGED <<entry, source, bridge, copying>>
    BY <1>8 DEF Copy!Written
  <2>1. copying # "complete"
    BY <1>f, <2>0 DEF Finished
  <2>2. CASE sink.at = "writing"
    <3>1. /\ landed' = [landed EXCEPT ![entry] = Append(landed[entry], sink.n)]
          /\ sink' = [sink EXCEPT !.at = "busy"]
      BY <1>8, <2>2 DEF Copy!Written
    <3>2. sink.n = Len(HereLanded) + 1 /\ Run(HereLanded, Len(HereLanded))
      BY <1>f, <2>2 DEF InOrder
    <3>3. /\ Append(HereLanded, sink.n) \in Seq(Nat)
          /\ Len(Append(HereLanded, sink.n)) = Len(HereLanded) + 1
          /\ Run(Append(HereLanded, sink.n), Len(HereLanded) + 1)
      BY <1>l, <3>2, RunGrows
    <3>4. /\ landed' \in [1..Len(Entries) -> Seq(Nat)]
          /\ HereLanded' = Append(HereLanded, sink.n)
          /\ \A i \in 1..Len(Entries) : i # entry => landed'[i] = landed[i]
      BY <1>f, <2>0, <3>1, <3>3 DEF CopyTypes, HereLanded
    <3>5. /\ sink' \in [at : {"busy", "parked", "woken", "writing", "closing", "done", "failed"},
                        n : Nat, why : Why]
          /\ sink'.at = "busy"
      BY <1>f, <3>1 DEF CopyTypes
    <3>6. source.n = Len(HereLanded) + 1 + Len(bridge.queue)
      BY <1>f, <2>2 DEF InOrder, Underhand
    <3>7. Run(HereLanded', Len(HereLanded')) /\ source.n = Len(HereLanded') + Len(bridge.queue)
      BY <1>l, <3>3, <3>4, <3>6
    <3>8. InOrder'
      <4>1. Underhand' = 0
        BY <3>5 DEF Underhand
      <4>2. Len(HereLanded') \in Nat
        BY <1>l, <3>3, <3>4
      <4>3. source'.n = Len(HereLanded') + Underhand' + Len(bridge'.queue)
        BY <1>l, <2>0, <3>7, <4>1, <4>2
      <4> QED
        BY <1>f, <2>0, <3>5, <3>7, <4>3 DEF InOrder
    <3>9. CopyTypes' /\ Finished' /\ InMemory' /\ FilesLanded'
      BY <1>f, <2>0, <2>1, <3>4, <3>5 DEF CopyTypes, Finished, InMemory, FilesLanded
    <3> QED
      BY <3>8, <3>9 DEF CopyInv
  <2>3. CASE sink.at = "closing"
    <3>1. landed' = landed /\ sink' = [sink EXCEPT !.at = "done"]
      BY <1>8, <2>3 DEF Copy!Written
    <3>2. /\ sink' \in [at : {"busy", "parked", "woken", "writing", "closing", "done", "failed"},
                        n : Nat, why : Why]
          /\ sink'.at = "done"
      BY <1>f, <3>1 DEF CopyTypes
    <3>3. CopyTypes' /\ Finished' /\ InMemory' /\ FilesLanded'
      BY <1>f, <2>0, <2>1, <2>3, <3>1, <3>2 DEF CopyTypes, Finished, InMemory, FilesLanded
    <3>4. HereLanded' = HereLanded /\ Underhand' = Underhand
      BY <2>0, <2>3, <3>1, <3>2 DEF HereLanded, Underhand
    <3>5. InOrder'
      BY <1>f, <2>0, <2>3, <3>2, <3>4 DEF InOrder
    <3> QED
      BY <3>3, <3>5 DEF CopyInv
  <2> QED
    BY <2>0, <2>2, <2>3
<1>9. CASE Copy!Settle
  <2>0. copying = "running" /\ UNCHANGED landed
    BY <1>9 DEF Copy!Settle
  <2>1. source.at = "done" /\ sink.at = "done" =>
          Len(HereLanded) = Entries[entry] /\ Run(HereLanded, Len(HereLanded))
    <3> SUFFICES ASSUME sink.at = "done"
                 PROVE  Len(HereLanded) = Entries[entry] /\ Run(HereLanded, Len(HereLanded))
      OBVIOUS
    <3>1. Underhand = 0
      BY DEF Underhand
    <3>2. source.n = Entries[entry] /\ Len(bridge.queue) = 0
      BY <1>f DEF Finished
    <3>3. source.n = Len(HereLanded) + Underhand + Len(bridge.queue)
      BY <1>f DEF InOrder
    <3> QED
      BY <1>f, <1>l, <3>1, <3>2, <3>3 DEF InOrder
  <2>2. CASE /\ source.at = "done" /\ sink.at = "done" /\ entry < Len(Entries)
             /\ entry' = entry + 1 /\ source' = Copy!Fresh /\ sink' = Copy!Fresh
             /\ bridge' = Copy!NewBridge /\ UNCHANGED copying
    <3>1. entry' \in 1..Len(Entries) /\ entry' = entry + 1
      BY <1>f, <1>s, <2>2 DEF CopyTypes
    <3>2. HereLanded' = <<>>
      BY <1>f, <1>s, <2>0, <3>1 DEF HereLanded, FilesLanded, CopyTypes
    <3>3. CopyTypes'
      BY <1>f, <2>0, <2>2, <3>1 DEF CopyTypes, Copy!Fresh, Copy!NewBridge, Why
    <3>4. Run(<<>>, 0) /\ Len(<<>>) = 0
      BY DEF Run
    <3>5. InOrder'
      BY <2>2, <3>2, <3>4 DEF InOrder, Copy!Fresh, Copy!NewBridge, Underhand
    <3>6. Finished' /\ InMemory'
      BY <1>s, <2>0, <2>2, <3>1, <3>4 DEF Finished, InMemory, Copy!Fresh, Copy!NewBridge
    <3>7. FilesLanded'
      BY <1>f, <1>s, <2>0, <2>1, <2>2, <3>1 DEF FilesLanded, HereLanded, CopyTypes
    <3> QED
      BY <3>3, <3>5, <3>6, <3>7 DEF CopyInv
  <2>3. CASE /\ UNCHANGED <<entry, source, sink, bridge>>
             /\ copying' = "complete" => entry = Len(Entries) /\ sink.at = "done"
    <3>1. CopyTypes' /\ InOrder'
      BY <1>f, <2>0, <2>3 DEF CopyTypes, InOrder, HereLanded, Underhand
    <3>2. Finished' /\ InMemory' /\ FilesLanded'
      BY <1>f, <2>0, <2>3 DEF Finished, InMemory, FilesLanded
    <3> QED
      BY <3>1, <3>2 DEF CopyInv
  <2> QED
    BY <1>9, <2>2, <2>3 DEF Copy!Settle, Copy!Outcome
<1>10. CASE UNCHANGED Copy!copyVars
  <2>1. UNCHANGED <<entry, source, sink, bridge, copying, landed>>
    BY <1>10 DEF Copy!copyVars
  <2>2. CopyTypes' /\ InOrder'
    BY <1>f, <2>1 DEF CopyTypes, InOrder, HereLanded, Underhand
  <2>3. Finished' /\ InMemory' /\ FilesLanded'
    BY <1>f, <2>1 DEF Finished, InMemory, FilesLanded
  <2> QED
    BY <2>2, <2>3 DEF CopyInv
<1> QED
  BY <1>2, <1>3, <1>4, <1>5, <1>6, <1>7, <1>8, <1>9, <1>10 DEF Copy!Next

LEMMA CopyInit ==
  ASSUME Copy!CopyAssumption, Copy!Init
  PROVE  CopyInv
<1>s. /\ HighWater \in Nat /\ HighWater > 0 /\ Len(Entries) \in Nat /\ Len(Entries) > 0
      /\ DOMAIN Entries = 1..Len(Entries)
      /\ \A i \in 1..Len(Entries) : Entries[i] \in Nat
  BY CopySizes
<1>1. Run(<<>>, 0) /\ Len(<<>>) = 0
  BY DEF Run
<1>2. landed = [i \in 1..Len(Entries) |-> <<>>] /\ entry = 1 /\ entry \in 1..Len(Entries)
  BY <1>s DEF Copy!Init
<1>3. CopyTypes
  BY <1>2 DEF Copy!Init, CopyTypes, Copy!Fresh, Copy!NewBridge, Why
<1>4. InOrder
  BY <1>1, <1>2 DEF Copy!Init, InOrder, HereLanded, Underhand, Copy!Fresh, Copy!NewBridge
<1>5. Finished /\ InMemory /\ FilesLanded
  BY <1>s, <1>1, <1>2 DEF Copy!Init, Finished, InMemory, FilesLanded, Copy!Fresh, Copy!NewBridge
<1> QED
  BY <1>3, <1>4, <1>5 DEF CopyInv

(* When the last entry's upload is done every entry is whole. *)
LEMMA AllLanded ==
  ASSUME Copy!CopyAssumption, CopyInv, entry = Len(Entries), sink.at = "done",
         NEW i \in DOMAIN Entries
  PROVE  landed[i] = [k \in 1..Entries[i] |-> k] /\ Len(landed[i]) = Entries[i]
<1>1. /\ entry = Len(Entries) /\ sink.at = "done" /\ bridge.ended /\ bridge.queue = <<>>
      /\ source.n = Entries[entry]
  BY DEF CopyInv, Finished
<1>2. i \in 1..Len(Entries) /\ Entries[i] \in Nat /\ landed[i] \in Seq(Nat) /\ source.n \in Nat
  BY CopySizes DEF CopyInv, CopyTypes
<1>3. Len(landed[i]) = Entries[i] /\ Run(landed[i], Len(landed[i]))
  <2>1. CASE i < entry
    BY <1>2, <2>1 DEF CopyInv, FilesLanded
  <2>2. CASE i = entry
    <3>1. source.n = Len(landed[i]) + Underhand + Len(bridge.queue) /\ Run(landed[i], Len(landed[i]))
      BY <1>1, <2>2 DEF CopyInv, InOrder, HereLanded
    <3>2. Underhand = 0 /\ Len(bridge.queue) = 0
      BY <1>1 DEF Underhand
    <3> QED
      BY <1>1, <1>2, <2>2, <3>1, <3>2
  <2> QED
    BY CopySizes, <1>1, <1>2, <2>1, <2>2
<1> QED
  BY <1>2, <1>3, RunFromOne

(* A copy that is reported complete is whole and in order in every file,   *)
(* and its queue never passes the high-water mark, for any number of       *)
(* entries of any sizes and any mark, however the two halves interleave,   *)
(* break or are cancelled (lib/transfers/remote.ts).                       *)
THEOREM CompleteCopiesAreWhole ==
  ASSUME Copy!CopyAssumption
  PROVE  Copy!Spec => []Copy!CopyWhole
<1>1. Copy!Init => CopyInv
  BY CopyInit
<1>2. CopyInv /\ [Copy!Next]_(Copy!copyVars) => CopyInv'
  BY CopyStep
<1>3. CopyInv => Copy!CopyWhole
  BY AllLanded DEF Copy!CopyWhole, CopyInv, InMemory, Finished
<1> QED
  BY <1>1, <1>2, <1>3, PTL DEF Copy!Spec

(* Once the outcome is known neither half is at work any more. *)
CopyOver == copying # "running" => sink.at \in {"done", "failed"}

(* What a copy shows of itself is a transfer: its chunks arrive in order,  *)
(* entry after entry, it completes with every entry whole, and nothing     *)
(* arrives in a file of a copy that has ended, not even the chunk that was *)
(* on its way when it was cancelled (lib/transfers/remote.ts).             *)
THEOREM CopiesAreTransfers ==
  ASSUME Copy!CopyAssumption
  PROVE  Copy!Spec => Copy!IsTransfer
<1>s. /\ HighWater \in Nat /\ HighWater > 0 /\ Len(Entries) \in Nat /\ Len(Entries) > 0
      /\ DOMAIN Entries = 1..Len(Entries)
      /\ \A i \in 1..Len(Entries) : Entries[i] \in Nat
  BY CopySizes
<1>1. Copy!Init => /\ CopyInv /\ CopyOver
                   /\ copying = "running" /\ \A i \in DOMAIN Entries : landed[i] = <<>>
  BY CopyInit DEF Copy!Init, CopyOver
<1>2. CopyInv /\ [Copy!Next]_(Copy!copyVars) => CopyInv'
  BY CopyStep
<1>3. CopyInv /\ CopyOver /\ [Copy!Next]_(Copy!copyVars) => CopyOver'
  <2> SUFFICES ASSUME CopyInv, CopyOver, [Copy!Next]_(Copy!copyVars), copying' # "running"
               PROVE  sink'.at \in {"done", "failed"}
    BY DEF CopyOver
  <2>1. CASE Copy!Settle
    <3>1. /\ sink.at \in {"done", "failed"} /\ copying = "running"
          /\ UNCHANGED copying \/ UNCHANGED sink
      BY <2>1 DEF Copy!Settle
    <3> QED
      BY <3>1
  <2>2. CASE ~Copy!Settle
    <3>1. copying' = copying /\ sink.at \in {"done", "failed"}
      BY <2>2 DEF Copy!Next, Copy!Push, Copy!PushAgain, Copy!ReadEnds, Copy!ReadBreaks, Copy!Pull,
                  Copy!Written, Copy!WriteBreaks, Copy!Abort, Copy!copyVars, CopyOver
    <3>2. Copy!PushAgain \/ UNCHANGED Copy!copyVars
      BY <2>2, <3>1 DEF Copy!Next, Copy!Push, Copy!ReadEnds, Copy!ReadBreaks, Copy!Pull,
                        Copy!Written, Copy!WriteBreaks, Copy!Abort
    <3>3. sink' \in {sink, Copy!Woken(sink)}
      BY <3>2 DEF Copy!PushAgain, Copy!copyVars
    <3> QED
      BY <3>1, <3>3 DEF Copy!Woken
  <2> QED
    BY <2>1, <2>2
<1>4. CopyInv /\ CopyOver /\ [Copy!Next]_(Copy!copyVars)
        => [copying = "running" /\ (Copy!ChunkLands \/ Copy!CopyStops)]_<<copying, landed>>
  <2> SUFFICES ASSUME CopyInv, CopyOver, [Copy!Next]_(Copy!copyVars),
                      ~UNCHANGED <<copying, landed>>
               PROVE  copying = "running" /\ (Copy!ChunkLands \/ Copy!CopyStops)
    OBVIOUS
  <2>f. CopyTypes /\ InOrder /\ Finished /\ FilesLanded
    BY DEF CopyInv
  <2>1. Copy!Written \/ Copy!Settle
    BY DEF Copy!Next, Copy!Push, Copy!PushAgain, Copy!ReadEnds, Copy!ReadBreaks, Copy!Pull,
           Copy!WriteBreaks, Copy!Abort, Copy!copyVars
  <2>2. CASE Copy!Settle
    <3>1. copying = "running" /\ landed' = landed /\ copying' # "running"
      BY <2>2 DEF Copy!Settle, Copy!Outcome
    <3>2. ASSUME copying' = "complete", NEW i \in DOMAIN Entries
          PROVE  Len(landed[i]) = Entries[i]
      <4>1. entry = Len(Entries) /\ sink.at = "done"
        BY <2>2, <3>1, <3>2 DEF Copy!Settle, Copy!Outcome
      <4> QED
        BY <4>1, AllLanded
    <3> QED
      BY <3>1, <3>2 DEF Copy!CopyStops
  <2>3. CASE Copy!Written
    <3>1. /\ sink.at = "writing" /\ landed' = [landed EXCEPT ![entry] = Append(@, sink.n)]
          /\ copying' = copying
      BY <2>3 DEF Copy!Written
    <3>2. copying = "running"
      BY <3>1 DEF CopyOver
    <3>3. entry \in 1..Len(Entries) /\ entry \in Nat /\ sink.n = Len(landed[entry]) + 1
      BY <2>f, <3>1 DEF CopyTypes, InOrder, HereLanded
    <3>4. /\ source.n = Len(landed[entry]) + 1 + Len(bridge.queue)
          /\ source.n <= Entries[entry]
      BY <2>f, <3>1 DEF InOrder, Finished, HereLanded, Underhand
    <3>5. Len(landed[entry]) \in Nat /\ Len(bridge.queue) \in Nat /\ Entries[entry] \in Nat
      BY <1>s, <2>f, <3>3 DEF CopyTypes
    <3>6. PICK here, there, all \in Nat :
            here = Len(landed[entry]) /\ there = Len(bridge.queue) /\ all = Entries[entry]
      BY <3>5
    <3>7. here < all
      <4>1. here + 1 + there <= all
        BY <3>4, <3>6, Zenon
      <4> QED
        BY <4>1
    <3>8. Len(landed[entry]) < Entries[entry]
      BY <3>6, <3>7
    <3>9. landed' = [landed EXCEPT ![entry] = Append(@, Len(@) + 1)]
      BY <3>1, <3>3
    <3>10. \A j \in DOMAIN Entries : /\ j < entry => Len(landed[j]) = Entries[j]
                                     /\ j > entry => landed[j] = <<>>
      BY <1>s, <2>f DEF FilesLanded
    <3> QED
      BY <1>s, <3>1, <3>2, <3>3, <3>8, <3>9, <3>10 DEF Copy!ChunkLands
  <2> QED
    BY <2>1, <2>2, <2>3
<1> QED
  BY <1>1, <1>2, <1>3, <1>4, PTL DEF Copy!Spec, Copy!IsTransfer
===============================================================================
