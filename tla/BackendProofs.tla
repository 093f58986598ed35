----------------------------- MODULE BackendProofs -----------------------------
(***************************************************************************)
(* Proofs about what the server keeps, each for every value of its         *)
(* constants: the recovery codes, the device registry, the keys the tabs   *)
(* of a browser hold, the mirror of a subscription, the commands that      *)
(* machines carry out; and about relay tokens, enrolment, recordings, the  *)
(* daemon and the machines page, what MCWeb says of their every state or   *)
(* step.                                                                   *)
(***************************************************************************)
EXTENDS Backend, FiniteSetTheorems, TLAPS

-------------------------------------------------------------------------------
(* The recovery codes. The one request between its read and its write      *)
(* still sees the row as it is, no code in the row was handed out, and     *)
(* neither was one of a set yet to be enrolled.                            *)
OneRedeems ==
  \A q, p \in Requests : req[q].busy /\ req[p].busy => q = p

ReadIsCurrent ==
  \A q \in Requests : req[q].busy =>
    req[q].id = blob.id /\ req[q].codes = blob.codes /\ req[q].spend \subseteq blob.codes

LiveIsUnspent == \A c \in blob.codes : handed[c] = 0
FutureIsUnspent == \A c \in Recovery!Codes : c[1] > enrolled => handed[c] = 0

RecoveryInv ==
  /\ Recovery!TypeOK /\ created <= enrolled
  /\ OneRedeems /\ ReadIsCurrent /\ LiveIsUnspent /\ FutureIsUnspent
  /\ Recovery!AtMostOnce /\ Recovery!OldCodesRetired

LEMMA RecoveryStep ==
  ASSUME Recovery!RecoveryAssumption, RecoveryInv, [Recovery!Next]_(Recovery!vars)
  PROVE  RecoveryInv'
<1> USE DEF Recovery!RecoveryAssumption
<1> DEFINE Request == [busy : BOOLEAN, id : 0..MaxSets, codes : SUBSET Recovery!Codes,
                       spend : SUBSET Recovery!Codes]
<1>t. /\ blob \in [id : 0..MaxSets, codes : SUBSET Recovery!Codes]
      /\ enrolled \in 0..MaxSets /\ created \in 0..MaxSets
      /\ req \in [Requests -> Request]
      /\ handed \in [Recovery!Codes -> 0..2]
  BY DEF RecoveryInv, Recovery!TypeOK
<1>n. Recovery!NoRow \in [id : 0..MaxSets, codes : SUBSET Recovery!Codes]
      /\ Recovery!NoRequest \in Request /\ Recovery!NoRequest.busy = FALSE
      /\ Recovery!NoRow.codes = {}
  BY DEF Recovery!NoRow, Recovery!NoRequest
<1>1. ASSUME Recovery!Enrol
      PROVE  RecoveryInv'
  <2> DEFINE new == {enrolled + 1} \X Slots
             id == IF blob.id = 0 THEN created + 1 ELSE blob.id
  <2>1. /\ \A q \in Requests : ~req[q].busy
        /\ enrolled < MaxSets /\ enrolled' = enrolled + 1
        /\ created' = (IF blob.id = 0 THEN created + 1 ELSE created)
        /\ blob' = [id |-> id, codes |-> new]
        /\ UNCHANGED <<req, handed>>
    BY <1>1 DEF Recovery!Enrol, Recovery!Free, Recovery!Replace
  <2>2. enrolled + 1 \in 1..MaxSets
    BY <1>t, <2>1
  <2>3. new \subseteq Recovery!Codes /\ \A c \in new : c[1] = enrolled + 1
    BY <2>2 DEF Recovery!Codes
  <2>4. created + 1 \in 0..MaxSets /\ created' \in 0..MaxSets /\ created' <= enrolled'
        /\ enrolled' \in 0..MaxSets
    BY <1>t, <2>1 DEF RecoveryInv
  <2>5. id \in 0..MaxSets
    BY <1>t, <2>4
  <2> HIDE DEF id, new
  <2>6. blob' \in [id : 0..MaxSets, codes : SUBSET Recovery!Codes] /\ blob'.codes = new
    BY <2>1, <2>3, <2>5
  <2>7. Recovery!TypeOK'
    BY <1>t, <2>1, <2>4, <2>6 DEF Recovery!TypeOK
  <2>8. \A c \in new : handed[c] = 0
    BY <1>t, <2>3 DEF RecoveryInv, FutureIsUnspent
  <2>9. FutureIsUnspent'
    <3> SUFFICES ASSUME NEW c \in Recovery!Codes, c[1] > enrolled + 1
                 PROVE  handed[c] = 0
      BY <2>1 DEF FutureIsUnspent
    <3>1. c[1] \in Nat
      BY DEF Recovery!Codes
    <3> QED
      BY <1>t, <3>1 DEF RecoveryInv, FutureIsUnspent
  <2> QED
    BY <2>1, <2>3, <2>4, <2>6, <2>7, <2>8, <2>9
       DEF RecoveryInv, OneRedeems, ReadIsCurrent, LiveIsUnspent, Recovery!AtMostOnce,
           Recovery!OldCodesRetired
<1>2. ASSUME Recovery!Disable
      PROVE  RecoveryInv'
  <2>1. /\ \A q \in Requests : ~req[q].busy
        /\ blob' = Recovery!NoRow /\ UNCHANGED <<enrolled, created, req, handed>>
    BY <1>2 DEF Recovery!Disable, Recovery!Free
  <2> QED
    BY <1>n, <2>1
       DEF RecoveryInv, OneRedeems, ReadIsCurrent, LiveIsUnspent, FutureIsUnspent,
           Recovery!TypeOK, Recovery!AtMostOnce, Recovery!OldCodesRetired
<1>3. ASSUME NEW q \in Requests, NEW c \in Recovery!Codes, Recovery!RedeemRead(q, c)
      PROVE  RecoveryInv'
  <2> DEFINE r == [busy |-> TRUE, id |-> blob.id, codes |-> blob.codes, spend |-> {c}]
  <2>1. /\ \A p \in Requests : ~req[p].busy
        /\ c \in blob.codes /\ req' = [req EXCEPT ![q] = r]
        /\ UNCHANGED <<blob, enrolled, created, handed>>
    BY <1>3 DEF Recovery!RedeemRead, Recovery!Free
  <2>2. r \in Request /\ r.id = blob.id /\ r.codes = blob.codes /\ r.spend \subseteq blob.codes
    BY <1>t, <2>1
  <2> HIDE DEF r, Request
  <2>3. req' \in [Requests -> Request]
    BY <1>t, <2>1, <2>2
  <2>4. OneRedeems' /\ ReadIsCurrent'
    BY <1>t, <2>1, <2>2 DEF OneRedeems, ReadIsCurrent
  <2>5. Recovery!TypeOK'
    BY <1>t, <2>1, <2>3 DEF Recovery!TypeOK, Request
  <2> QED
    BY <2>1, <2>4, <2>5
       DEF RecoveryInv, LiveIsUnspent, FutureIsUnspent, Recovery!AtMostOnce,
           Recovery!OldCodesRetired
<1>4. ASSUME NEW q \in Requests, Recovery!RedeemWrite(q)
      PROVE  RecoveryInv'
  <2>1. /\ req[q].busy
        /\ req[q].id = blob.id /\ req[q].codes = blob.codes /\ req[q].spend \subseteq blob.codes
    BY <1>4 DEF Recovery!RedeemWrite, RecoveryInv, ReadIsCurrent
  <2>2. /\ blob' = [blob EXCEPT !.codes = blob.codes \ req[q].spend]
        /\ req' = [req EXCEPT ![q] = Recovery!NoRequest]
        /\ handed' = [c \in Recovery!Codes |->
                        IF c \in req[q].spend THEN handed[c] + 1 ELSE handed[c]]
        /\ UNCHANGED <<enrolled, created>>
    BY <1>4, <2>1 DEF Recovery!RedeemWrite, Recovery!Remaining
  <2>3. \A c \in Recovery!Codes :
          handed'[c] = IF c \in req[q].spend THEN 1 ELSE handed[c]
    BY <1>t, <2>1, <2>2 DEF RecoveryInv, LiveIsUnspent
  <2>4. Recovery!AtMostOnce'
    BY <1>t, <2>3 DEF RecoveryInv, Recovery!AtMostOnce
  <2>5. blob' \in [id : 0..MaxSets, codes : SUBSET Recovery!Codes]
        /\ blob'.codes = blob.codes \ req[q].spend
    BY <1>t, <2>2
  <2>6. handed' \in [Recovery!Codes -> 0..2]
    BY <1>t, <2>2, <2>3
  <2>7. req' \in [Requests -> Request] /\ \A p \in Requests : ~req'[p].busy
    BY <1>t, <1>n, <2>1, <2>2 DEF RecoveryInv, OneRedeems
  <2>8. OneRedeems' /\ ReadIsCurrent'
    BY <2>7 DEF OneRedeems, ReadIsCurrent
  <2>9. LiveIsUnspent' /\ Recovery!OldCodesRetired'
    BY <1>t, <2>2, <2>3, <2>5 DEF RecoveryInv, LiveIsUnspent, Recovery!OldCodesRetired
  <2>10. FutureIsUnspent'
    <3> SUFFICES ASSUME NEW c \in Recovery!Codes, c[1] > enrolled
                 PROVE  handed'[c] = 0
      BY <2>2 DEF FutureIsUnspent
    <3>1. c \notin blob.codes
      BY <1>t DEF RecoveryInv, Recovery!OldCodesRetired
    <3> QED
      BY <2>1, <2>3, <3>1 DEF RecoveryInv, FutureIsUnspent
  <2>11. Recovery!TypeOK'
    BY <1>t, <2>2, <2>5, <2>6, <2>7 DEF Recovery!TypeOK
  <2> QED
    BY <2>2, <2>4, <2>8, <2>9, <2>10, <2>11 DEF RecoveryInv
<1>5. CASE UNCHANGED Recovery!vars
  BY <1>5 DEF Recovery!vars, RecoveryInv, OneRedeems, ReadIsCurrent, LiveIsUnspent,
              FutureIsUnspent, Recovery!TypeOK, Recovery!AtMostOnce, Recovery!OldCodesRetired
<1> QED
  BY <1>1, <1>2, <1>3, <1>4, <1>5 DEF Recovery!Next

(* While the requests for one account do not overlap, a recovery code's    *)
(* envelope is handed out at most once and regenerating the codes retires  *)
(* the earlier ones, for any number of codes, sets and requests            *)
(* (api/recovery/route.ts).                                                *)
THEOREM CodesAreRight ==
  ASSUME Recovery!RecoveryAssumption
  PROVE  Recovery!Spec => []CodesRight
<1>1. Recovery!Init => RecoveryInv
  BY DEF Recovery!RecoveryAssumption, Recovery!Init, Recovery!NoRow, Recovery!NoRequest,
         RecoveryInv, OneRedeems, ReadIsCurrent, LiveIsUnspent, FutureIsUnspent,
         Recovery!TypeOK, Recovery!AtMostOnce, Recovery!OldCodesRetired
<1>2. RecoveryInv /\ [Recovery!Next]_(Recovery!vars) => RecoveryInv'
  BY RecoveryStep
<1>3. RecoveryInv => Recovery!CodesRight
  BY DEF RecoveryInv, Recovery!CodesRight
<1> QED
  BY <1>1, <1>2, <1>3, PTL DEF Recovery!Spec, CodesRight

-------------------------------------------------------------------------------
(* The device registry. *)
DeviceId == [by : Sessions \cup {Absent}, minted : BOOLEAN]
DeviceIdentity == [key : Sessions \cup {Absent}, id : DeviceId]
DeviceRow ==
  [id : DeviceId, user : Members \cup {Absent}, key : Sessions \cup {Absent}, revoked : BOOLEAN]
Registration ==
  [step : {"none", "identity", "generate", "sent", "new", "refused", "insert", "bind",
           "answered", "done", "failed"},
   user : Members \cup {Absent}, me : DeviceIdentity, id : DeviceId, late : SUBSET DeviceId]

DeviceTypes ==
  /\ local \in DeviceIdentity /\ reg \in [Sessions -> Registration]
  /\ signedIn \subseteq Sessions /\ stamp \in [Sessions -> DeviceId] /\ devices \subseteq DeviceRow

(* The row a registration goes by: of its account and key, and not one     *)
(* that was revoked before it was sent.                                    *)
Grounded(s, id) ==
  /\ id \notin reg[s].late
  /\ \E r \in devices : r.id = id /\ r.user = reg[s].user /\ r.key = reg[s].me.key

OneRowEach ==
  \A q, r \in devices : q.id = r.id \/ <<q.user, q.key>> = <<r.user, r.key>> => q = r

(* What was revoked stays so, and a stamp comes with a registration that   *)
(* has got as far as its answer.                                           *)
DeviceInv ==
  /\ DeviceTypes
  /\ OneRowEach
  /\ \A s \in Sessions : \A x \in reg[s].late : \E r \in devices : r.id = x /\ r.revoked
  /\ \A s \in Sessions : reg[s].step = "bind" => Grounded(s, reg[s].id)
  /\ \A s \in Sessions : stamp[s] # Browsers!NoId =>
       reg[s].step \in {"answered", "done", "failed"} /\ Grounded(s, stamp[s])

LEMMA DeviceStep ==
  ASSUME DeviceInv, [Browsers!Next]_(Browsers!deviceVars)
  PROVE  DeviceInv'
<1>t. DeviceTypes
  BY DEF DeviceInv
<1>i. Browsers!NoId \in DeviceId /\ Browsers!NoIdentity \in DeviceIdentity
  BY DEF Browsers!NoId, Browsers!NoIdentity, DeviceId, DeviceIdentity
(* A step of a registration that leaves its account and identity alone,    *)
(* and stamps and rows too.                                                *)
<1>g. ASSUME NEW s \in Sessions, NEW e \in Registration,
             reg' = [reg EXCEPT ![s] = e], UNCHANGED <<stamp, devices>>,
             local' \in DeviceIdentity, signedIn' \subseteq Sessions,
             \/ stamp[s] = Browsers!NoId
             \/ /\ e.step \in {"answered", "done", "failed"}
                /\ e.user = reg[s].user /\ e.me = reg[s].me /\ e.late = reg[s].late,
             \A x \in e.late : \E r \in devices : r.id = x /\ r.revoked,
             e.step = "bind" =>
               /\ e.id \notin e.late
               /\ \E r \in devices : r.id = e.id /\ r.user = e.user /\ r.key = e.me.key
      PROVE  DeviceInv'
  <2>1. DeviceTypes' /\ OneRowEach'
    BY <1>t, <1>g DEF DeviceTypes, DeviceInv, OneRowEach
  <2>2. \A t \in Sessions : t # s => reg'[t] = reg[t]
    BY <1>t, <1>g DEF DeviceTypes
  <2>3. reg'[s] = e
    BY <1>t, <1>g DEF DeviceTypes
  <2>4. \A t \in Sessions : \A x \in reg'[t].late : \E r \in devices' : r.id = x /\ r.revoked
    BY <1>g, <2>2, <2>3 DEF DeviceInv
  <2>5. \A t \in Sessions : reg'[t].step = "bind" => Grounded(t, reg[t].id)'
    BY <1>g, <2>2, <2>3 DEF DeviceInv, Grounded
  <2>6. \A t \in Sessions : stamp'[t] # Browsers!NoId' =>
          reg'[t].step \in {"answered", "done", "failed"} /\ Grounded(t, stamp[t])'
    BY <1>g, <2>2, <2>3 DEF DeviceInv, Grounded, Browsers!NoId
  <2> QED
    BY <2>1, <2>4, <2>5, <2>6 DEF DeviceInv
(* Stamps that are cleared, and sessions that end. *)
<1>e. ASSUME NEW S, Browsers!Ended(S), UNCHANGED <<local, reg, devices>>
      PROVE  DeviceInv'
  <2>1. signedIn' \subseteq Sessions /\ stamp' \in [Sessions -> DeviceId]
    BY <1>t, <1>i, <1>e DEF Browsers!Ended, DeviceTypes
  <2>2. \A t \in Sessions : stamp'[t] \in {stamp[t], Browsers!NoId}
    BY <1>e DEF Browsers!Ended
  <2> QED
    BY <1>e, <2>1, <2>2 DEF DeviceInv, DeviceTypes, OneRowEach, Grounded, Browsers!NoId
<1>1. ASSUME NEW s \in Sessions, NEW u \in Members, Browsers!SignIn(s, u)
      PROVE  DeviceInv'
  <2> DEFINE e == [reg[s] EXCEPT !.step = "identity", !.user = u]
  <2>1. reg[s] \in Registration /\ reg[s].step = "none"
    BY <1>t, <1>1 DEF DeviceTypes, Browsers!SignIn, Browsers!At
  <2>2. e \in Registration /\ e.step = "identity" /\ e.late = reg[s].late
    BY <2>1 DEF Registration
  <2>3. reg' = [reg EXCEPT ![s] = e] /\ UNCHANGED <<local, stamp, devices>>
        /\ signedIn' = signedIn \cup {s}
    BY <1>1 DEF Browsers!SignIn
  <2>4. stamp[s] = Browsers!NoId
    BY <2>1 DEF DeviceInv
  <2> HIDE DEF e
  <2> QED
    BY <1>t, <1>g, <2>2, <2>3, <2>4 DEF DeviceInv, DeviceTypes
<1>2. ASSUME NEW s \in Sessions, Browsers!Identity(s) \/ Browsers!Generate(s)
      PROVE  DeviceInv'
  <2>1. reg[s] \in Registration /\ reg[s].step \in {"identity", "generate"}
        /\ stamp[s] = Browsers!NoId
    BY <1>t, <1>2 DEF DeviceTypes, DeviceInv, Browsers!Identity, Browsers!Generate, Browsers!At
  <2>2. Browsers!Revoked \subseteq DeviceId
        /\ \A x \in Browsers!Revoked : \E r \in devices : r.id = x /\ r.revoked
    BY <1>t DEF Browsers!Revoked, DeviceTypes, DeviceRow
  <2>3. \A x \in reg[s].late : \E r \in devices : r.id = x /\ r.revoked
    BY DEF DeviceInv
  <2>4. ASSUME NEW m \in DeviceIdentity, local' = m, UNCHANGED <<signedIn, stamp, devices>>,
               reg' = [reg EXCEPT ![s].step = "sent", ![s].me = m, ![s].late = Browsers!Revoked]
        PROVE  DeviceInv'
    <3> DEFINE e == [reg[s] EXCEPT !.step = "sent", !.me = m, !.late = Browsers!Revoked]
    <3>1. e \in Registration /\ e.step = "sent" /\ e.late = Browsers!Revoked
      BY <2>1, <2>2 DEF Registration
    <3>2. reg' = [reg EXCEPT ![s] = e]
      BY <2>4
    <3> HIDE DEF e
    <3> QED
      BY <1>t, <1>g, <2>1, <2>2, <2>4, <3>1, <3>2 DEF DeviceTypes
  <2>5. CASE Browsers!Identity(s) /\ local = Browsers!NoIdentity
    <3> DEFINE e == [reg[s] EXCEPT !.step = "generate"]
    <3>1. e \in Registration /\ e.step = "generate" /\ e.late = reg[s].late
      BY <2>1 DEF Registration
    <3>2. reg' = [reg EXCEPT ![s] = e] /\ UNCHANGED <<local, signedIn, stamp, devices>>
      BY <2>5 DEF Browsers!Identity, Browsers!Goes
    <3> HIDE DEF e
    <3> QED
      BY <1>t, <1>g, <2>1, <2>3, <3>1, <3>2 DEF DeviceTypes
  <2>6. CASE Browsers!Identity(s) /\ local # Browsers!NoIdentity
    BY <1>t, <2>4, <2>6 DEF Browsers!Identity, DeviceTypes
  <2>7. CASE Browsers!Generate(s)
    <3> DEFINE m == [key |-> s, id |-> Browsers!Fresh(s)]
    <3>1. m \in DeviceIdentity
      BY DEF DeviceIdentity, DeviceId, Browsers!Fresh
    <3>2. local' = m /\ UNCHANGED <<signedIn, stamp, devices>>
          /\ reg' = [reg EXCEPT ![s].step = "sent", ![s].me = m, ![s].late = Browsers!Revoked]
      BY <2>7 DEF Browsers!Generate
    <3> HIDE DEF m
    <3> QED
      BY <2>4, <3>1, <3>2
  <2> QED
    BY <1>2, <2>5, <2>6, <2>7
(* A registration that only moves on. *)
<1>m. ASSUME NEW s \in Sessions, NEW v \in {"new", "refused", "failed", "answered", "done"},
             Browsers!Goes(s, v), UNCHANGED <<signedIn, stamp, devices>>, local' \in DeviceIdentity,
             stamp[s] = Browsers!NoId \/ v \in {"answered", "done", "failed"}
      PROVE  DeviceInv'
  <2> DEFINE e == [reg[s] EXCEPT !.step = v]
  <2>1. reg[s] \in Registration
    BY <1>t DEF DeviceTypes
  <2>2. e \in Registration /\ e.step = v /\ e.late = reg[s].late /\ e.user = reg[s].user
        /\ e.me = reg[s].me
    BY <2>1 DEF Registration
  <2>3. reg' = [reg EXCEPT ![s] = e]
    BY <1>m DEF Browsers!Goes
  <2> HIDE DEF e
  <2> QED
    BY <1>t, <1>g, <1>m, <2>2, <2>3 DEF DeviceInv, DeviceTypes
<1>3. ASSUME NEW s \in Sessions, Browsers!Find(s)
      PROVE  DeviceInv'
  <2>1. reg[s] \in Registration /\ reg[s].step = "sent" /\ stamp[s] = Browsers!NoId
        /\ UNCHANGED <<local, signedIn, stamp, devices>>
    BY <1>t, <1>3 DEF DeviceTypes, DeviceInv, Browsers!Find, Browsers!At
  <2>2. CASE Browsers!Goes(s, "failed") \/ Browsers!Goes(s, "new") \/ Browsers!Goes(s, "refused")
    BY <1>t, <1>m, <2>1, <2>2 DEF DeviceTypes
  <2>3. ASSUME NEW r \in Browsers!Mine(s), ~r.revoked,
               reg' = [reg EXCEPT ![s].step = "bind", ![s].id = r.id]
        PROVE  DeviceInv'
    <3> DEFINE e == [reg[s] EXCEPT !.step = "bind", !.id = r.id]
    <3>1. r \in devices /\ r \in DeviceRow /\ r.id \in DeviceId /\ r.user = reg[s].user
          /\ r.key = reg[s].me.key
      BY <1>t, <2>3 DEF Browsers!Mine, DeviceTypes, DeviceRow
    <3>2. e \in Registration /\ e.step = "bind" /\ e.id = r.id /\ e.late = reg[s].late
          /\ e.user = reg[s].user /\ e.me = reg[s].me
      BY <2>1, <3>1 DEF Registration
    <3>3. reg' = [reg EXCEPT ![s] = e]
      BY <2>3
    <3>4. r.id \notin reg[s].late
      BY <2>3, <3>1 DEF DeviceInv, OneRowEach
    <3>5. \A x \in reg[s].late : \E q \in devices : q.id = x /\ q.revoked
      BY DEF DeviceInv
    <3> HIDE DEF e
    <3>6. /\ e.id \notin e.late
          /\ \E q \in devices : q.id = e.id /\ q.user = e.user /\ q.key = e.me.key
      BY <3>1, <3>2, <3>4
    <3>7. local' \in DeviceIdentity /\ signedIn' \subseteq Sessions
      BY <1>t, <2>1 DEF DeviceTypes
    <3> QED
      BY <1>g, <2>1, <3>2, <3>3, <3>5, <3>6, <3>7
  <2> QED
    BY <1>3, <2>2, <2>3 DEF Browsers!Find, Browsers!Refuses
<1>4. ASSUME NEW s \in Sessions, Browsers!Propose(s)
      PROVE  DeviceInv'
  <2> DEFINE d == IF \E r \in devices : r.id = reg[s].me.id THEN Browsers!Minted(s) ELSE reg[s].me.id
             e == [reg[s] EXCEPT !.step = "insert", !.id = d]
  <2>1. reg[s] \in Registration /\ stamp[s] = Browsers!NoId /\ UNCHANGED <<local, signedIn, stamp, devices>>
    BY <1>t, <1>4 DEF DeviceTypes, DeviceInv, Browsers!Propose, Browsers!At
  <2>2. d \in DeviceId
    BY <2>1 DEF Registration, DeviceIdentity, DeviceId, Browsers!Minted
  <2>3. reg' = [reg EXCEPT ![s].step = "insert", ![s].id = d]
    BY <1>4 DEF Browsers!Propose
  <2> HIDE DEF d
  <2>4. e \in Registration /\ e.step = "insert" /\ e.late = reg[s].late
    BY <2>1, <2>2 DEF Registration
  <2>5. reg' = [reg EXCEPT ![s] = e]
    BY <2>3
  <2> HIDE DEF e
  <2> QED
    BY <1>t, <1>g, <2>1, <2>4, <2>5 DEF DeviceInv, DeviceTypes
<1>5. ASSUME NEW s \in Sessions, Browsers!Insert(s)
      PROVE  DeviceInv'
  <2>1. reg[s] \in Registration /\ stamp[s] = Browsers!NoId /\ UNCHANGED <<local, signedIn, stamp>>
    BY <1>t, <1>5 DEF DeviceTypes, DeviceInv, Browsers!Insert, Browsers!At
  <2>2. CASE Browsers!Goes(s, "failed") /\ UNCHANGED devices
    BY <1>t, <1>m, <2>1, <2>2 DEF DeviceTypes
  <2>3. CASE ~(Browsers!Goes(s, "failed") /\ UNCHANGED devices)
    <3> DEFINE n == [id |-> reg[s].id, user |-> reg[s].user, key |-> reg[s].me.key,
                     revoked |-> FALSE]
               e == [reg[s] EXCEPT !.step = "bind"]
    <3>1. /\ \A r \in devices : r.id # reg[s].id
          /\ \A r \in devices : ~(r.user = reg[s].user /\ r.key = reg[s].me.key)
          /\ devices' = devices \cup {n} /\ reg' = [reg EXCEPT ![s] = e]
      BY <1>5, <2>3 DEF Browsers!Insert, Browsers!Mine, Browsers!Goes
    <3>2. /\ n \in DeviceRow /\ n.id = reg[s].id /\ n.user = reg[s].user
          /\ n.key = reg[s].me.key
      BY <2>1 DEF Registration, DeviceIdentity, DeviceRow
    <3>3. /\ e \in Registration /\ e.step = "bind" /\ e.late = reg[s].late
          /\ e.user = reg[s].user /\ e.me = reg[s].me /\ e.id = reg[s].id
      BY <2>1 DEF Registration
    <3> HIDE DEF n, e
    <3>4. DeviceTypes'
      BY <1>t, <2>1, <3>1, <3>2, <3>3 DEF DeviceTypes
    <3>5. OneRowEach'
      BY <3>1, <3>2 DEF DeviceInv, OneRowEach
    <3>6. \A t \in Sessions : reg'[t] = IF t = s THEN e ELSE reg[t]
      BY <1>t, <3>1 DEF DeviceTypes
    <3>7. \A t \in Sessions : \A x \in reg'[t].late : \E r \in devices' : r.id = x /\ r.revoked
      BY <3>1, <3>3, <3>6 DEF DeviceInv
    <3>8. \A t \in Sessions : \A x : Grounded(t, x) => Grounded(t, x)'
      BY <3>1, <3>3, <3>6 DEF Grounded
    <3>9. Grounded(s, reg[s].id)'
      BY <3>1, <3>2, <3>3, <3>6 DEF Grounded, DeviceInv
    <3>10. \A t \in Sessions : reg'[t].step = "bind" => Grounded(t, reg[t].id)'
      BY <3>3, <3>6, <3>8, <3>9 DEF DeviceInv
    <3>11. \A t \in Sessions : stamp'[t] # Browsers!NoId' =>
             reg'[t].step \in {"answered", "done", "failed"} /\ Grounded(t, stamp[t])'
      BY <2>1, <3>6, <3>8 DEF DeviceInv, Browsers!NoId
    <3> QED
      BY <3>4, <3>5, <3>7, <3>10, <3>11 DEF DeviceInv
  <2> QED
    BY <2>2, <2>3
<1>6. ASSUME NEW s \in Sessions, Browsers!Bind(s)
      PROVE  DeviceInv'
  <2> DEFINE e == [reg[s] EXCEPT !.step = "answered"]
  <2>1. /\ reg[s] \in Registration /\ reg[s].step = "bind"
        /\ reg' = [reg EXCEPT ![s] = e] /\ UNCHANGED <<local, signedIn, devices>>
        /\ stamp' = [stamp EXCEPT ![s] = reg[s].id] \/ UNCHANGED stamp
    BY <1>t, <1>6 DEF DeviceTypes, Browsers!Bind, Browsers!At, Browsers!Goes
  <2>2. /\ e \in Registration /\ e.step = "answered" /\ e.late = reg[s].late
        /\ e.user = reg[s].user /\ e.me = reg[s].me /\ e.id = reg[s].id
    BY <2>1 DEF Registration
  <2>3. reg[s].id \in DeviceId
    BY <2>1 DEF Registration
  <2> HIDE DEF e
  <2>4. \A t \in Sessions : reg'[t] = IF t = s THEN e ELSE reg[t]
    BY <1>t, <2>1 DEF DeviceTypes
  <2>5. DeviceTypes' /\ OneRowEach'
    BY <1>t, <2>1, <2>2, <2>3 DEF DeviceTypes, DeviceInv, OneRowEach
  <2>6. \A t \in Sessions : \A x : Grounded(t, x)' <=> Grounded(t, x)
    BY <2>1, <2>2, <2>4 DEF Grounded
  <2>7. \A t \in Sessions : \A x \in reg'[t].late : \E r \in devices' : r.id = x /\ r.revoked
    BY <2>1, <2>2, <2>4 DEF DeviceInv
  <2>8. \A t \in Sessions : reg'[t].step = "bind" => Grounded(t, reg[t].id)'
    BY <2>2, <2>4, <2>6 DEF DeviceInv
  <2>9. ASSUME NEW t \in Sessions, stamp'[t] # Browsers!NoId
        PROVE  reg'[t].step \in {"answered", "done", "failed"} /\ Grounded(t, stamp[t])'
    <3>1. CASE t = s /\ stamp' = [stamp EXCEPT ![s] = reg[s].id]
      <4>1. stamp'[t] = reg[s].id
        BY <1>t, <3>1 DEF DeviceTypes
      <4>2. Grounded(s, reg[s].id)
        BY <2>1 DEF DeviceInv
      <4> QED
        BY <2>2, <2>4, <2>6, <3>1, <4>1, <4>2
    <3>2. CASE ~(t = s /\ stamp' = [stamp EXCEPT ![s] = reg[s].id])
      <4>1. stamp'[t] = stamp[t]
        BY <1>t, <2>1, <3>2 DEF DeviceTypes
      <4> QED
        BY <2>2, <2>4, <2>6, <2>9, <4>1 DEF DeviceInv
    <3> QED
      BY <3>1, <3>2
  <2> QED
    BY <2>5, <2>7, <2>8, <2>9 DEF DeviceInv, Browsers!NoId
<1>7. ASSUME NEW s \in Sessions, Browsers!Adopt(s) \/ Browsers!RequestLost(s)
      PROVE  DeviceInv'
  <2>1. reg[s] \in Registration /\ UNCHANGED <<signedIn, stamp, devices>>
        /\ (Browsers!Goes(s, "done") \/ Browsers!Goes(s, "failed"))
    BY <1>t, <1>7 DEF DeviceTypes, Browsers!Adopt, Browsers!RequestLost
  <2>2. [reg[s].me EXCEPT !.id = reg[s].id] \in DeviceIdentity
    BY <2>1 DEF Registration, DeviceIdentity
  <2>3. local' \in DeviceIdentity
    BY <1>t, <1>7, <2>2 DEF DeviceTypes, Browsers!Adopt, Browsers!RequestLost
  <2> QED
    BY <1>m, <2>1, <2>3
<1>8. ASSUME NEW r \in devices, Browsers!Revoke(r)
      PROVE  DeviceInv'
  <2> DEFINE n == [r EXCEPT !.revoked = TRUE]
  <2>1. /\ r \in DeviceRow /\ ~r.revoked /\ devices' = (devices \ {r}) \cup {n}
        /\ UNCHANGED <<local, reg, signedIn, stamp>>
    BY <1>t, <1>8 DEF DeviceTypes, Browsers!Revoke
  <2>2. n \in DeviceRow /\ n.id = r.id /\ n.user = r.user /\ n.key = r.key /\ n.revoked
    BY <2>1 DEF DeviceRow
  <2> HIDE DEF n
  <2>3. DeviceTypes'
    BY <1>t, <2>1, <2>2 DEF DeviceTypes
  <2>4. OneRowEach'
    BY <2>1, <2>2 DEF DeviceInv, OneRowEach
  <2>5. \A t \in Sessions : \A x : Grounded(t, x) => Grounded(t, x)'
    <3> TAKE t \in Sessions
    <3> TAKE x
    <3> HAVE Grounded(t, x)
    <3>1. PICK q \in devices : q.id = x /\ q.user = reg[t].user /\ q.key = reg[t].me.key
      BY DEF Grounded
    <3>2. \E p \in devices' : p.id = x /\ p.user = reg[t].user /\ p.key = reg[t].me.key
      BY <2>1, <2>2, <3>1
    <3> QED
      BY <2>1, <3>2 DEF Grounded
  <2>6. \A t \in Sessions : \A x \in reg'[t].late : \E q \in devices' : q.id = x /\ q.revoked
    BY <2>1, <2>2 DEF DeviceInv
  <2> QED
    BY <2>1, <2>3, <2>4, <2>5, <2>6 DEF DeviceInv, Browsers!NoId
<1>9. ASSUME NEW s \in Sessions, Browsers!SignOut(s)
      PROVE  DeviceInv'
  BY <1>e, <1>9 DEF Browsers!SignOut
<1>10. ASSUME Browsers!EndSessions
      PROVE  DeviceInv'
  BY <1>e, <1>10 DEF Browsers!EndSessions
<1>11. CASE /\ local' \in DeviceIdentity
            /\ UNCHANGED <<reg, signedIn, stamp, devices>>
  BY <1>11 DEF DeviceInv, DeviceTypes, OneRowEach, Grounded, Browsers!NoId
<1>12. CASE Browsers!RevokeFails \/ Browsers!Forget \/ UNCHANGED Browsers!deviceVars
  BY <1>t, <1>i, <1>11, <1>12
     DEF Browsers!RevokeFails, Browsers!Forget, Browsers!deviceVars, DeviceTypes
<1> QED
  BY <1>1, <1>2, <1>3, <1>4, <1>5, <1>6, <1>7, <1>8, <1>9, <1>10, <1>12 DEF Browsers!Next

(* A session is stamped with a device of its own account and of the key    *)
(* its browser sent, never with one revoked before it registered, and an   *)
(* account has one row for a key, for any number of sign-ins, accounts and *)
(* revokes (api/devices/route.ts, lib/device.ts).                          *)
THEOREM StampsAreRight == Browsers!Spec => []StampedRight
<1>1. Browsers!Init => DeviceInv
  BY DEF Browsers!Init, DeviceInv, DeviceTypes, OneRowEach, Grounded, Registration,
         DeviceIdentity, DeviceId, Browsers!NoId, Browsers!NoIdentity
<1>2. DeviceInv /\ [Browsers!Next]_(Browsers!deviceVars) => DeviceInv'
  BY DeviceStep
<1>3. DeviceInv => Browsers!StampedRight
  BY DEF DeviceInv, DeviceTypes, OneRowEach, Grounded, Browsers!StampedRight
<1> QED
  BY <1>1, <1>2, <1>3, PTL DEF Browsers!Spec, StampedRight

-------------------------------------------------------------------------------
(* The keys of the tabs. *)
MaybePassword == Passwords \cup {Nothing}
TabRequest ==
  [op : {"none", "signup", "signin", "verify", "recover", "bootstrap", "unlock", "signout"},
   p : MaybePassword,
   step : {"none", "sent", "token", "challenge", "write", "ok", "already-set", "error"}]
TabKey ==
  [key : MaybePassword,
   by : {"none", "signup", "signin", "verify", "recover", "bootstrap", "unlock", "signout"}]

TabTypes ==
  /\ account \in {"none", "open", "deleted"} /\ credential \in MaybePassword
  /\ codes \in MaybePassword /\ cookie \in BOOLEAN
  /\ doing \in [Windows -> TabRequest] /\ held \in [Windows -> TabKey]

(* A request typed by hand carries a password, and so does a redeemed code. *)
Typed(d) ==
  /\ d.op \in {"signup", "signin", "verify", "bootstrap"} => d.p \in Passwords
  /\ d.op = "recover" /\ d.step = "token" => d.p \in Passwords

(* The server has let this request in, or has asked it for a code only. *)
LetIn(d) ==
  \/ d.step = "ok" /\ d.op \notin {"unlock", "signout"}
  \/ d.step = "challenge"
  \/ d.op = "verify"

ByServer(h) == h # SignIn!Locked /\ h.by # "unlock"

(* Nobody is let in, and nobody holds a key, before the account has a      *)
(* password; from then on it is the only one until the account is deleted. *)
TabsInv ==
  /\ TabTypes
  /\ account = "none" => credential = Nothing
  /\ cookie => account = "open"
  /\ \A w \in Windows : Typed(doing[w])
  /\ account # "deleted" => \A w \in Windows :
       /\ LetIn(doing[w]) => doing[w].p = credential /\ credential # Nothing
       /\ ByServer(held[w]) => held[w].key = credential /\ credential # Nothing

LEMMA TabsStep ==
  ASSUME SignIn!AccountsAssumption, TabsInv, [SignIn!Next]_(SignIn!accountVars)
  PROVE  TabsInv'
<1>t. TabTypes
  BY DEF TabsInv
<1>r. /\ SignIn!Rest \in TabRequest /\ Typed(SignIn!Rest) /\ ~LetIn(SignIn!Rest)
      /\ SignIn!Locked \in TabKey
  BY DEF SignIn!Rest, SignIn!Locked, TabRequest, TabKey, MaybePassword, Typed, LetIn
(* A step of one tab, on an account whose password stays. *)
<1>g. ASSUME NEW w \in Windows, NEW d \in TabRequest, NEW h \in TabKey,
             doing' = [doing EXCEPT ![w] = d], held' = [held EXCEPT ![w] = h],
             account' \in {"none", "open"} \/ account' = account,
             account' = "none" => account = "none", account = "deleted" => account' = account,
             cookie' \in BOOLEAN, cookie' => account' = "open",
             codes' \in MaybePassword, UNCHANGED credential,
             Typed(d),
             account # "deleted" =>
               /\ LetIn(d) => d.p = credential /\ credential # Nothing
               /\ ByServer(h) => h.key = credential /\ credential # Nothing
      PROVE  TabsInv'
  <2>1. TabTypes'
    BY <1>t, <1>g DEF TabTypes
  <2>2. /\ doing'[w] = d /\ held'[w] = h
        /\ \A v \in Windows : v # w => doing'[v] = doing[v] /\ held'[v] = held[v]
    BY <1>t, <1>g DEF TabTypes
  <2>3. \A v \in Windows : Typed(doing'[v])
    BY <1>g, <2>2 DEF TabsInv
  <2>4. account' # "deleted" => \A v \in Windows :
          /\ LetIn(doing'[v]) => doing'[v].p = credential' /\ credential' # Nothing
          /\ ByServer(held'[v]) => held'[v].key = credential' /\ credential' # Nothing
    BY <1>g, <2>2 DEF TabsInv
  <2>5. \A v \in Windows : ByServer(held[v])' <=> ByServer(held'[v])
    BY DEF ByServer, SignIn!Locked
  <2> HIDE DEF ByServer
  <2> QED
    BY <1>g, <2>1, <2>3, <2>4, <2>5 DEF TabsInv, Typed, LetIn
(* Another step of the request of a tab alone. *)
<1>d. ASSUME NEW w \in Windows, NEW d \in TabRequest, doing' = [doing EXCEPT ![w] = d],
             UNCHANGED <<account, credential, codes, held>>,
             cookie' \in BOOLEAN, cookie' => account = "open", Typed(d),
             account # "deleted" => (LetIn(d) => d.p = credential /\ credential # Nothing)
      PROVE  TabsInv'
  <2>1. held' = [held EXCEPT ![w] = held[w]] /\ held[w] \in TabKey
    BY <1>t, <1>d DEF TabTypes
  <2>2. account # "deleted" =>
          (ByServer(held[w]) => held[w].key = credential /\ credential # Nothing)
    BY DEF TabsInv
  <2> QED
    BY <1>t, <1>d, <1>g, <2>1, <2>2 DEF TabTypes
<1>q. \A w \in Windows : /\ doing[w] \in TabRequest /\ Typed(doing[w])
                         /\ account # "deleted" =>
                              (LetIn(doing[w]) => doing[w].p = credential /\ credential # Nothing)
  BY <1>t DEF TabsInv, TabTypes
<1>c. cookie \in BOOLEAN /\ (cookie => account = "open")
  BY <1>t DEF TabsInv, TabTypes
<1>1. ASSUME NEW w \in Windows, NEW op \in {"signup", "signin", "bootstrap", "unlock", "recover", "signout"},
             NEW p \in MaybePassword, op \in {"recover", "signout"} \/ p \in Passwords,
             SignIn!Submit(w, op, p)
      PROVE  TabsInv'
  <2> DEFINE d == [op |-> op, p |-> p, step |-> "sent"]
  <2>1. d \in TabRequest /\ Typed(d) /\ ~LetIn(d)
    BY <1>1 DEF TabRequest, Typed, LetIn
  <2>2. doing' = [doing EXCEPT ![w] = d] /\ UNCHANGED <<account, credential, codes, cookie, held>>
    BY <1>1 DEF SignIn!Submit, SignIn!Server, SignIn!Extra
  <2> HIDE DEF d
  <2> QED
    BY <1>c, <1>d, <2>1, <2>2
<1>2. ASSUME NEW w \in Windows, SignIn!Verify(w)
      PROVE  TabsInv'
  <2> DEFINE d == [doing[w] EXCEPT !.op = "verify", !.step = "sent"]
  <2>1. doing[w].op = "signin" /\ doing[w].step = "challenge"
    BY <1>2 DEF SignIn!Verify
  <2>2. d \in TabRequest /\ d.p = doing[w].p /\ Typed(d) /\ LetIn(doing[w])
    BY <1>q, <2>1 DEF TabRequest, Typed, LetIn
  <2>3. doing' = [doing EXCEPT ![w] = d] /\ UNCHANGED <<account, credential, codes, cookie, held>>
    BY <1>2 DEF SignIn!Verify, SignIn!Server, SignIn!Extra
  <2> HIDE DEF d
  <2> QED
    BY <1>c, <1>d, <1>q, <2>2, <2>3
(* The server gives the account its password. *)
<1>p. ASSUME NEW w \in Windows, doing[w].op \in {"signup", "bootstrap"}, credential = Nothing,
             credential' = doing[w].p, account' = "open", cookie' \in BOOLEAN,
             account # "deleted", doing' = [doing EXCEPT ![w].step = "ok"], UNCHANGED <<codes, held>>
      PROVE  TabsInv'
  <2> DEFINE d == [doing[w] EXCEPT !.step = "ok"]
  <2>1. /\ doing' = [doing EXCEPT ![w] = d] /\ d \in TabRequest
        /\ d.p = doing[w].p /\ Typed(d) /\ d.p \in Passwords
    BY <1>p, <1>q DEF TabRequest, Typed
  <2>2. d.p # Nothing /\ d.p \in MaybePassword
    BY <2>1 DEF SignIn!AccountsAssumption, MaybePassword
  <2> HIDE DEF d
  <2>3. TabTypes'
    BY <1>t, <1>p, <2>1, <2>2 DEF TabTypes
  <2>4. \A v \in Windows : ~ByServer(held[v]) /\ ~LetIn(doing[v])
    BY <1>p DEF TabsInv
  <2>5. doing'[w] = d /\ \A v \in Windows : v # w => doing'[v] = doing[v]
    BY <1>t, <2>1 DEF TabTypes
  <2>6. \A v \in Windows : /\ Typed(doing'[v])
                           /\ LetIn(doing'[v]) => doing'[v].p = credential'
    BY <1>p, <1>q, <2>1, <2>4, <2>5
  <2>7. \A v \in Windows : ~ByServer(held[v])'
    BY <1>p, <2>4 DEF ByServer, SignIn!Locked
  <2> QED
    BY <1>p, <2>1, <2>2, <2>3, <2>6, <2>7 DEF TabsInv, Typed, LetIn
(* An answer that lets nobody in. *)
<1>n. ASSUME NEW w \in Windows, NEW step \in {"already-set", "write", "error"},
             SignIn!Answers(w, step), UNCHANGED <<account, credential, codes, cookie, held>>
      PROVE  TabsInv'
  <2> DEFINE d == [doing[w] EXCEPT !.step = step]
  <2>1. /\ doing' = [doing EXCEPT ![w] = d] /\ d \in TabRequest
        /\ d.p = doing[w].p /\ Typed(d) /\ (LetIn(d) => LetIn(doing[w]))
    BY <1>n, <1>q DEF SignIn!Answers, TabRequest, Typed, LetIn
  <2> HIDE DEF d
  <2> QED
    BY <1>c, <1>d, <1>n, <1>q, <2>1
<1>3. ASSUME NEW w \in Windows, SignIn!ServeSignUp(w)
      PROVE  TabsInv'
  <2>1. CASE account = "none"
    <3>1. credential = Nothing
      BY <2>1 DEF TabsInv
    <3> QED
      BY <1>3, <1>p, <2>1, <3>1 DEF SignIn!ServeSignUp, SignIn!Answers, SignIn!Extra
  <2>2. CASE account # "none"
    BY <1>3, <1>n, <2>2 DEF SignIn!ServeSignUp, SignIn!Extra
  <2> QED
    BY <2>1, <2>2
<1>4. ASSUME NEW w \in Windows, SignIn!ServeRedeem(w)
      PROVE  TabsInv'
  <2> DEFINE d == [doing[w] EXCEPT !.p = codes,
                                   !.step = IF codes = Nothing THEN "error" ELSE "token"]
  <2>1. doing[w].op = "recover" /\ doing' = [doing EXCEPT ![w] = d]
        /\ UNCHANGED <<account, credential, codes, cookie, held>>
    BY <1>4 DEF SignIn!ServeRedeem, SignIn!Server, SignIn!Extra
  <2>2. d \in TabRequest /\ Typed(d) /\ ~LetIn(d)
    BY <1>t, <1>q, <2>1 DEF TabTypes, TabRequest, MaybePassword, Typed, LetIn
  <2> HIDE DEF d
  <2> QED
    BY <1>c, <1>d, <2>1, <2>2
<1>5. ASSUME NEW w \in Windows, SignIn!ServeSignIn(w)
      PROVE  TabsInv'
  <2>1. doing[w].op = "signin" \/ (doing[w].op = "recover" /\ doing[w].step = "token")
    BY <1>5 DEF SignIn!ServeSignIn
  <2>2. doing[w].p \in Passwords /\ doing[w].p # Nothing
    BY <1>q, <2>1 DEF Typed, SignIn!AccountsAssumption
  <2>3. PICK step \in {"error", "challenge", "ok"} :
          /\ doing' = [doing EXCEPT ![w].step = step]
          /\ step # "error" => account = "open" /\ doing[w].p = credential
          /\ cookie' = (cookie \/ step = "ok")
    BY <1>c, <1>5 DEF SignIn!ServeSignIn, SignIn!Answers
  <2> DEFINE d == [doing[w] EXCEPT !.step = step]
  <2>4. /\ doing' = [doing EXCEPT ![w] = d] /\ d \in TabRequest
        /\ d.p = doing[w].p /\ Typed(d) /\ (LetIn(d) => step # "error")
    BY <1>q, <2>1, <2>2, <2>3 DEF TabRequest, Typed, LetIn
  <2>5. UNCHANGED <<account, credential, codes, held>>
    BY <1>5 DEF SignIn!ServeSignIn, SignIn!Extra
  <2>6. cookie' \in BOOLEAN /\ (cookie' => account = "open")
    <3>1. CASE cookie' = cookie
      BY <1>c, <3>1
    <3>2. CASE cookie' = FALSE
      BY <3>2
    <3> QED
      BY <2>3, <3>1, <3>2
  <2> HIDE DEF d
  <2> QED
    BY <1>d, <2>2, <2>3, <2>4, <2>5, <2>6
<1>6. ASSUME NEW w \in Windows, SignIn!ServeVerify(w)
      PROVE  TabsInv'
  <2>1. PICK op \in {"signin", "verify"}, step \in {"ok", "challenge"} :
          /\ doing' = [doing EXCEPT ![w].op = op, ![w].step = step]
          /\ cookie' = cookie \/ (account = "open" /\ cookie' = TRUE)
    <3>1. CASE account = "open" /\ cookie' = TRUE /\ SignIn!Answers(w, "ok")
      <4>1. doing' = [doing EXCEPT ![w].op = "verify", ![w].step = "ok"]
        BY <1>t, <1>6, <3>1 DEF SignIn!Answers, SignIn!ServeVerify, TabTypes, TabRequest
      <4> QED
        BY <3>1, <4>1
    <3>2. CASE UNCHANGED cookie
               /\ doing' = [doing EXCEPT ![w].op = "signin", ![w].step = "challenge"]
      BY <3>2
    <3> QED
      BY <1>6, <3>1, <3>2 DEF SignIn!ServeVerify
  <2> DEFINE d == [doing[w] EXCEPT !.op = op, !.step = step]
  <2>2. LetIn(doing[w]) /\ doing[w].op = "verify"
    BY <1>6 DEF SignIn!ServeVerify, LetIn
  <2>3. /\ doing' = [doing EXCEPT ![w] = d] /\ d \in TabRequest
        /\ d.p = doing[w].p /\ Typed(d)
    BY <1>q, <2>1, <2>2 DEF TabRequest, Typed
  <2>4. UNCHANGED <<account, credential, codes, held>>
    BY <1>6 DEF SignIn!ServeVerify, SignIn!Extra
  <2>5. cookie' \in BOOLEAN /\ (cookie' => account = "open")
    <3>1. CASE cookie' = cookie
      BY <1>c, <3>1
    <3>2. CASE account = "open" /\ cookie' = TRUE
      BY <3>2
    <3> QED
      BY <2>1, <3>1, <3>2
  <2> HIDE DEF d
  <2> QED
    BY <1>d, <1>q, <2>2, <2>3, <2>4, <2>5
<1>7. ASSUME NEW w \in Windows, SignIn!LookForCredential(w) \/ SignIn!RequestLost(w)
      PROVE  TabsInv'
  <2>1. UNCHANGED <<account, credential, codes, cookie, held>>
    BY <1>7 DEF SignIn!LookForCredential, SignIn!RequestLost, SignIn!Server, SignIn!Extra
  <2>2. \E step \in {"already-set", "write", "error"} : SignIn!Answers(w, step)
    BY <1>7 DEF SignIn!LookForCredential, SignIn!RequestLost
  <2> QED
    BY <1>n, <2>1, <2>2
<1>8. ASSUME NEW w \in Windows, SignIn!SetPassword(w)
      PROVE  TabsInv'
  <2>1. CASE cookie /\ credential = Nothing
    <3>1. account = "open" /\ doing[w].op = "bootstrap"
      BY <1>c, <1>8, <2>1 DEF SignIn!SetPassword
    <3> QED
      BY <1>c, <1>8, <1>p, <2>1, <3>1 DEF SignIn!SetPassword, SignIn!Answers, SignIn!Extra
  <2>2. CASE ~(cookie /\ credential = Nothing)
    BY <1>8, <1>n, <2>2 DEF SignIn!SetPassword, SignIn!Extra
  <2> QED
    BY <2>1, <2>2
<1>9. ASSUME NEW w \in Windows, SignIn!ServeSignOut(w) \/ SignIn!Derived(w)
      PROVE  TabsInv'
  <2> DEFINE d == [doing[w] EXCEPT !.step = "ok"]
  <2>1. doing[w].op \in {"signout", "unlock"} /\ doing' = [doing EXCEPT ![w] = d]
    BY <1>9 DEF SignIn!ServeSignOut, SignIn!Derived, SignIn!Answers
  <2>2. d \in TabRequest /\ Typed(d) /\ ~LetIn(d)
    BY <1>q, <2>1 DEF TabRequest, Typed, LetIn
  <2>3. UNCHANGED <<account, credential, codes, held>> /\ cookie' \in {cookie, FALSE}
    BY <1>9 DEF SignIn!ServeSignOut, SignIn!Derived, SignIn!Server, SignIn!Extra
  <2>4. cookie' \in BOOLEAN /\ (cookie' => account = "open")
    <3>1. CASE cookie' = cookie
      BY <1>c, <3>1
    <3>2. CASE cookie' = FALSE
      BY <3>2
    <3> QED
      BY <2>3, <3>1, <3>2
  <2> HIDE DEF d
  <2> QED
    BY <1>d, <2>1, <2>2, <2>3, <2>4
(* The tab is told, or starts over. *)
<1>10. ASSUME NEW w \in Windows, SignIn!Land(w) \/ SignIn!Load(w)
       PROVE  TabsInv'
  <2> DEFINE k == [key |-> doing[w].p, by |-> doing[w].op]
  <2>1. UNCHANGED <<account, credential, codes, cookie>>
    BY <1>10 DEF SignIn!Land, SignIn!Load, SignIn!Server, SignIn!Extra
  <2>2. \/ /\ doing[w].step = "ok" /\ doing[w].op # "signout"
           /\ held' = [held EXCEPT ![w] = k] /\ doing' = [doing EXCEPT ![w] = SignIn!Rest]
        \/ /\ held' = [held EXCEPT ![w] = SignIn!Locked]
           /\ doing' = [doing EXCEPT ![w] = SignIn!Rest]
        \/ UNCHANGED <<held, doing>>
        \/ UNCHANGED held /\ doing' = [doing EXCEPT ![w] = SignIn!Rest]
    BY <1>10 DEF SignIn!Land, SignIn!Load, SignIn!Install, SignIn!Installs
  <2>3. k \in TabKey /\ k.key = doing[w].p /\ k.by = doing[w].op
    BY <1>q DEF TabRequest, TabKey
  <2> HIDE DEF k
  <2>4. CASE /\ doing[w].step = "ok" /\ doing[w].op # "signout"
             /\ held' = [held EXCEPT ![w] = k] /\ doing' = [doing EXCEPT ![w] = SignIn!Rest]
    <3>1. ByServer(k) => LetIn(doing[w])
      BY <2>3, <2>4 DEF ByServer, LetIn
    <3>2. account # "deleted" => (ByServer(k) => k.key = credential /\ credential # Nothing)
      BY <1>q, <2>3, <3>1
    <3> QED
      BY <1>t, <1>r, <1>c, <1>g, <2>1, <2>3, <2>4, <3>2 DEF TabTypes
  <2>5. CASE /\ held' = [held EXCEPT ![w] = SignIn!Locked]
             /\ doing' = [doing EXCEPT ![w] = SignIn!Rest]
    <3>1. ~ByServer(SignIn!Locked)
      BY DEF ByServer
    <3> QED
      BY <1>t, <1>r, <1>c, <1>g, <2>1, <2>5, <3>1 DEF TabTypes
  <2>6. CASE UNCHANGED held /\ doing' = [doing EXCEPT ![w] = SignIn!Rest]
    BY <1>r, <1>c, <1>d, <2>1, <2>6
  <2>7. CASE UNCHANGED <<held, doing>>
    BY <2>1, <2>7 DEF TabsInv, TabTypes, Typed, LetIn, ByServer, SignIn!Locked
  <2> QED
    BY <2>2, <2>4, <2>5, <2>6, <2>7
(* Steps that give nobody a key. *)
<1>11. ASSUME UNCHANGED <<credential, doing, held>>, account' \in {account, "open"},
              account' = "open" => account # "deleted",
              codes' \in MaybePassword, cookie' \in BOOLEAN, cookie' => account' = "open"
       PROVE  TabsInv'
  <2>1. TabTypes'
    BY <1>t, <1>11 DEF TabTypes
  <2> QED
    BY <1>11, <2>1 DEF TabsInv, Typed, LetIn, ByServer, SignIn!Locked
<1>12. ASSUME NEW w \in Windows, SignIn!GitHub(w) \/ SignIn!Passkey(w)
       PROVE  TabsInv'
  BY <1>t, <1>11, <1>12 DEF SignIn!GitHub, SignIn!Passkey, SignIn!Extra, TabTypes
<1>13. ASSUME NEW w \in Windows, SignIn!Lock(w)
       PROVE  TabsInv'
  <2>1. /\ doing' = [doing EXCEPT ![w] = doing[w]] /\ held' = [held EXCEPT ![w] = SignIn!Locked]
        /\ UNCHANGED <<account, credential, codes, cookie>> /\ ~ByServer(SignIn!Locked)
    BY <1>t, <1>13 DEF SignIn!Lock, SignIn!Server, SignIn!Extra, TabTypes, ByServer
  <2> QED
    BY <1>t, <1>r, <1>q, <1>c, <1>g, <2>1 DEF TabTypes
<1>14. ASSUME NEW w \in Windows,
              \/ SignIn!BeginSecondFactor(w) \/ SignIn!ConfirmSecondFactor(w)
              \/ SignIn!TurnOffSecondFactor(w) \/ SignIn!ChangePasskey(w)
              \/ SignIn!DisableCodes(w)
              \/ \E p \in Passwords : SignIn!EnrolCodes(w, p)
       PROVE  TabsInv'
  <2>1. UNCHANGED <<account, credential, cookie, doing, held>>
        /\ codes' \in {codes, Nothing} \cup Passwords
        /\ account = "open"
    BY <1>14 DEF SignIn!BeginSecondFactor, SignIn!ConfirmSecondFactor, SignIn!TurnOffSecondFactor,
                 SignIn!ChangePasskey, SignIn!DisableCodes, SignIn!EnrolCodes, SignIn!AtSettings
  <2> QED
    BY <1>t, <1>c, <1>11, <2>1 DEF TabTypes, MaybePassword
<1>15. ASSUME NEW w \in Windows, SignIn!DeleteAccount(w)
       PROVE  TabsInv'
  <2>1. /\ account' = "deleted" /\ credential' = Nothing /\ codes' = Nothing /\ cookie' = FALSE
        /\ held' = [held EXCEPT ![w] = SignIn!Locked] /\ UNCHANGED doing
    BY <1>15 DEF SignIn!DeleteAccount
  <2>2. TabTypes'
    BY <1>t, <1>r, <2>1 DEF TabTypes, MaybePassword
  <2> QED
    BY <2>1, <2>2 DEF TabsInv, Typed
<1>16. CASE UNCHANGED SignIn!accountVars
  BY <1>16 DEF SignIn!accountVars, TabsInv, TabTypes, Typed, LetIn, ByServer, SignIn!Locked
<1>17. Passwords \subseteq MaybePassword /\ Nothing \in MaybePassword
  BY DEF MaybePassword
<1>18. ASSUME SignIn!Next
       PROVE  TabsInv'
  <2>1. PICK w \in Windows :
       \/ \E p \in Passwords, op \in {"signup", "signin", "bootstrap", "unlock"} : SignIn!Submit(w, op, p)
       \/ \E op \in {"recover", "signout"} : SignIn!Submit(w, op, Nothing)
       \/ SignIn!Verify(w) \/ SignIn!ServeSignUp(w) \/ SignIn!ServeRedeem(w) \/ SignIn!ServeSignIn(w)
       \/ SignIn!ServeVerify(w) \/ SignIn!LookForCredential(w)
       \/ SignIn!SetPassword(w) \/ SignIn!ServeSignOut(w) \/ SignIn!Derived(w) \/ SignIn!RequestLost(w)
       \/ SignIn!Land(w) \/ SignIn!GitHub(w) \/ SignIn!Passkey(w) \/ SignIn!Load(w) \/ SignIn!Lock(w)
       \/ SignIn!BeginSecondFactor(w) \/ SignIn!ConfirmSecondFactor(w) \/ SignIn!TurnOffSecondFactor(w)
       \/ SignIn!ChangePasskey(w) \/ SignIn!DisableCodes(w) \/ SignIn!DeleteAccount(w)
       \/ \E p \in Passwords : SignIn!EnrolCodes(w, p)
    BY <1>18 DEF SignIn!Next
  <2>2. CASE \E p \in Passwords, op \in {"signup", "signin", "bootstrap", "unlock"} :
               SignIn!Submit(w, op, p)
    BY <1>1, <1>17, <2>2
  <2>3. CASE \E op \in {"recover", "signout"} : SignIn!Submit(w, op, Nothing)
    BY <1>1, <1>17, <2>3
  <2> QED
    BY <1>2, <1>3, <1>4, <1>5, <1>6, <1>7, <1>8, <1>9, <1>10, <1>12, <1>13, <1>14, <1>15,
       <2>1, <2>2, <2>3
<1> QED
  BY <1>16, <1>18

(* A key that came by a sign-up, a sign-in, the first vault password or a  *)
(* recovery code is the key of the account's password, for any number of   *)
(* tabs and passwords and whatever the other tabs do meanwhile             *)
(* (lib/auth-client.ts, app/(auth)/actions.ts).                            *)
THEOREM KeysAreOfTheCredential ==
  ASSUME SignIn!AccountsAssumption
  PROVE  SignIn!Spec => []KeyOfCredential
<1>1. SignIn!Init => TabsInv
  <2> SUFFICES ASSUME SignIn!Init
               PROVE  TabsInv
    OBVIOUS
  <2>1. SignIn!Rest \in TabRequest /\ SignIn!Locked \in TabKey /\ Nothing \in MaybePassword
    BY DEF SignIn!Rest, SignIn!Locked, TabRequest, TabKey, MaybePassword
  <2>2. Typed(SignIn!Rest) /\ ~LetIn(SignIn!Rest) /\ ~ByServer(SignIn!Locked)
    BY DEF SignIn!Rest, Typed, LetIn, ByServer
  <2>3. TabTypes
    BY <2>1 DEF SignIn!Init, TabTypes
  <2>4. \A w \in Windows : doing[w] = SignIn!Rest /\ held[w] = SignIn!Locked
    BY DEF SignIn!Init
  <2> QED
    BY <2>2, <2>3, <2>4 DEF SignIn!Init, TabsInv
<1>2. TabsInv /\ [SignIn!Next]_(SignIn!accountVars) => TabsInv'
  BY TabsStep
<1>3. TabsInv => SignIn!KeyOfCredential
  BY DEF TabsInv, ByServer, SignIn!KeyOfCredential
<1> QED
  BY <1>1, <1>2, <1>3, PTL DEF SignIn!Spec, KeyOfCredential

-------------------------------------------------------------------------------
(* The mirror of the subscription. *)
SubStates == {"none", "active", "past_due", "canceled"}
MaybeTab == Checkouts \cup {Absent}
Subscription == [status : SubStates, customer : MaybeTab, end : Nat, cancelling : BOOLEAN, since : Nat]
Delivery == [of : Checkouts, sub : Subscription, fetch : BOOLEAN, at : Nat]
MirrorRow == [there : BOOLEAN, sub : MaybeTab, customer : MaybeTab, status : SubStates,
              end : Nat, cancelling : BOOLEAN, at : Nat]
Hand == [phase : {"idle", "fetch", "read", "decide"}, event : Delivery \cup {Absent},
         sub : Subscription, row : MirrorRow]

BillTypes ==
  /\ user \in BOOLEAN /\ clock \in Nat /\ row \in MirrorRow
  /\ tab \in [Checkouts -> [phase : {"new", "refused", "customer", "created", "resolved", "open", "paid"},
                       customer : MaybeTab]]
  /\ stripe \in [Checkouts -> Subscription]
  /\ events \subseteq Delivery
  /\ hand \in [Deliveries -> Hand]

Handling(d) == hand[d].phase # "idle"
OneHandled ==
  /\ \A c, d \in Deliveries : Handling(c) /\ Handling(d) => c = d
  /\ \A d \in Deliveries : Handling(d) => hand[d].event \in events
  /\ \A d \in Deliveries : ~Handling(d) => hand[d] = Paying!Idle

(* Checkouts, subscriptions, events and handlers have the customer the row *)
(* names.                                                                  *)
Subscribed(t) == stripe[t].status # "none"
OneCustomer ==
  /\ \A t \in Checkouts : Subscribed(t) => row.there /\ stripe[t].customer = row.customer
  /\ \A t \in Checkouts : tab[t].phase \in {"resolved", "open", "paid"}
                       => row.there /\ tab[t].customer = row.customer
  /\ \A e \in events : ~e.fetch => e.sub.customer = row.customer
  /\ \A d \in Deliveries : hand[d].phase \in {"read", "decide"} => hand[d].sub.customer = row.customer
  /\ \A d \in Deliveries : hand[d].phase = "decide" => hand[d].row = row

(* The event of a subscription's last change carries what it is now.       *)
LastOf(e) == e.at = stripe[e.of].since
EventsFit ==
  /\ \A t \in Checkouts : Subscribed(t) <=> tab[t].phase = "paid"
  /\ \A t \in Checkouts : ~Subscribed(t) => stripe[t] = Paying!NoSub
  /\ \A e \in events : Subscribed(e.of) /\ e.at <= stripe[e.of].since
  /\ \A e \in events : ~e.fetch /\ LastOf(e) => e.sub = stripe[e.of]
  /\ \A d \in Deliveries : hand[d].phase \in {"read", "decide"} /\ LastOf(hand[d].event)
                             => hand[d].sub = stripe[hand[d].event.of]
  /\ row.sub # Absent => Subscribed(row.sub) /\ row.at <= stripe[row.sub].since

(* A marked event is being handled, or it was left behind. *)
MarkedIsHandled ==
  /\ marks \subseteq events
  /\ stuck = {} => \A e \in events \cap marks : \E d \in Deliveries : Handling(d) /\ hand[d].event = e

Mirrors(t) ==
  /\ row.sub = t /\ row.at = stripe[t].since
  /\ row.status = stripe[t].status /\ row.end = stripe[t].end /\ row.cancelling = stripe[t].cancelling

(* The row is the one subscription there is, or an event will make it so.  *)
Sole(t) == Subscribed(t) /\ \A s \in Checkouts \ {t} : ~Subscribed(s)
Awaits(t) == \E e \in events : e.of = t /\ LastOf(e)
CatchesUp == stuck = {} => \A t \in Checkouts : Sole(t) => Mirrors(t) \/ Awaits(t)

BillInv ==
  /\ BillTypes /\ OneHandled /\ EventsFit /\ MarkedIsHandled
  /\ user => OneCustomer /\ CatchesUp

LEMMA BillWrites ==
  ASSUME BillInv, BillTypes', OneHandled', EventsFit', MarkedIsHandled',
         user' => user, user' => OneCustomer' /\ CatchesUp'
  PROVE  BillInv'
  BY DEF BillInv

(* A step of a checkout before it is paid. *)
LEMMA CheckoutStep ==
  ASSUME BillInv, NEW t \in Checkouts, Paying!Checkout(t)
  PROVE  BillInv'
<1>t. BillTypes /\ OneHandled /\ EventsFit /\ MarkedIsHandled /\ (user => OneCustomer /\ CatchesUp)
  BY DEF BillInv
<1> DEFINE Phase == {"new", "refused", "customer", "created", "resolved", "open", "paid"}
           Checked == [phase : Phase, customer : MaybeTab]
<1>1. \E c \in Checked :
        /\ tab' = [tab EXCEPT ![t] = c] /\ tab[t].phase # "paid" /\ c.phase # "paid"
        /\ \/ /\ row' = row
              /\ \/ c.phase \notin {"resolved", "open"}
                 \/ row.there /\ c.customer = row.customer
                 \/ tab[t].phase = "resolved" /\ c.customer = tab[t].customer
           \/ /\ ~row.there /\ row' = [Paying!NoRow EXCEPT !.there = TRUE, !.customer = t]
              /\ c.customer = t
  <2>t. tab[t] \in Checked /\ tab \in [Checkouts -> Checked] /\ row \in MirrorRow
    BY <1>t DEF BillTypes
  <2>1. CASE Paying!StartCheckout(t)
    <3> DEFINE c == [tab[t] EXCEPT !.phase = IF Paying!GrantsPro(row) THEN "refused" ELSE "customer"]
    <3> SUFFICES c \in Checked /\ c.phase \notin {"resolved", "open", "paid"}
      BY <2>1 DEF Paying!StartCheckout
    <3> QED
      BY <2>t
  <2>2. CASE Paying!FindCustomer(t)
    <3> DEFINE c == IF row.there THEN [phase |-> "resolved", customer |-> row.customer]
                                 ELSE [phase |-> "created", customer |-> t]
    <3>1. c \in Checked
      BY <2>t DEF MirrorRow, MaybeTab
    <3> QED
      BY <2>2, <3>1 DEF Paying!FindCustomer
  <2>3. CASE Paying!SaveCustomer(t)
    <3> DEFINE c == [phase |-> "resolved", customer |-> row'.customer]
    <3>1. /\ row' = (IF row.there THEN row ELSE [Paying!NoRow EXCEPT !.there = TRUE, !.customer = t])
          /\ tab' = [tab EXCEPT ![t] = c] /\ tab[t].phase = "created"
      BY <2>3 DEF Paying!SaveCustomer, Paying!Settled
    <3>2. row.there => row' = row
      BY <3>1
    <3>3. ~row.there => row'.customer = t /\ row' = [Paying!NoRow EXCEPT !.there = TRUE, !.customer = t]
      BY <3>1 DEF Paying!NoRow
    <3>4. c \in Checked
      BY <2>t, <3>2, <3>3 DEF MirrorRow, MaybeTab
    <3> QED
      BY <3>1, <3>2, <3>3, <3>4
  <2>4. CASE Paying!OpenSession(t)
    <3> DEFINE c == [tab[t] EXCEPT !.phase =
                       IF \E s \in Checkouts : stripe[s].customer = tab[t].customer
                                            /\ Paying!GrantsPro(stripe[s])
                       THEN "refused" ELSE "open"]
    <3>1. c \in Checked /\ c.phase # "paid" /\ c.customer = tab[t].customer
      BY <2>t
    <3>2. tab' = [tab EXCEPT ![t] = c] /\ tab[t].phase = "resolved" /\ row' = row
      BY <2>4 DEF Paying!OpenSession
    <3> QED
      BY <3>1, <3>2
  <2> QED
    BY <2>1, <2>2, <2>3, <2>4 DEF Paying!Checkout
<1>p. PICK c \in Checked :
        /\ tab' = [tab EXCEPT ![t] = c] /\ tab[t].phase # "paid" /\ c.phase # "paid"
        /\ \/ /\ row' = row
              /\ \/ c.phase \notin {"resolved", "open"}
                 \/ row.there /\ c.customer = row.customer
                 \/ tab[t].phase = "resolved" /\ c.customer = tab[t].customer
           \/ /\ ~row.there /\ row' = [Paying!NoRow EXCEPT !.there = TRUE, !.customer = t]
              /\ c.customer = t
  BY <1>1
<1>2. UNCHANGED <<user, stripe, events, marks, hand, clock, stuck>>
  BY DEF Paying!Checkout, Paying!StartCheckout, Paying!FindCustomer, Paying!SaveCustomer,
         Paying!OpenSession
<1>3. /\ tab' \in [Checkouts -> Checked] /\ tab'[t] = c
      /\ \A s \in Checkouts : s # t => tab'[s] = tab[s]
  BY <1>t, <1>p DEF BillTypes
<1>4. row' \in MirrorRow /\ (row' = row \/ row'.sub = Absent)
  <2>1. Paying!NoRow \in MirrorRow /\ t \in MaybeTab /\ Paying!NoRow.sub = Absent
    BY DEF MirrorRow, MaybeTab, SubStates, Paying!NoRow
  <2>2. [Paying!NoRow EXCEPT !.there = TRUE, !.customer = t] \in MirrorRow
    BY <2>1 DEF MirrorRow
  <2> QED
    BY <1>t, <1>p, <2>1, <2>2 DEF BillTypes, Paying!NoRow
<1>5. BillTypes'
  BY <1>t, <1>2, <1>3, <1>4 DEF BillTypes
<1>6. OneHandled' /\ MarkedIsHandled'
  BY <1>t, <1>2 DEF OneHandled, MarkedIsHandled, Handling
<1>7. EventsFit'
  BY <1>t, <1>2, <1>3, <1>4, <1>p DEF EventsFit, LastOf, Subscribed
<1>8. ASSUME user'
      PROVE  OneCustomer' /\ CatchesUp'
  <2>1. OneCustomer /\ CatchesUp
    BY <1>t, <1>2, <1>8
  <2>2. CASE row' = row
    <3>1. c.phase \in {"resolved", "open"} => row.there /\ c.customer = row.customer
      BY <1>p, <2>1, <2>2 DEF OneCustomer, Paying!NoRow
    <3>2. OneCustomer'
      BY <1>2, <1>3, <1>p, <2>1, <2>2, <3>1 DEF OneCustomer, Subscribed
    <3> QED
      BY <1>2, <2>1, <2>2, <3>2 DEF CatchesUp, Sole, Subscribed, Mirrors, Awaits, LastOf
  <2>3. CASE row' # row
    <3>1. ~row.there /\ row'.there /\ row'.customer = t /\ c.customer = t
      BY <1>p, <2>3 DEF Paying!NoRow
    <3>2. /\ \A s \in Checkouts : ~Subscribed(s)
          /\ \A s \in Checkouts : tab[s].phase \notin {"resolved", "open", "paid"}
      BY <2>1, <3>1 DEF OneCustomer
    <3>3. events = {}
      BY <1>t, <3>2 DEF EventsFit, BillTypes, Delivery
    <3>4. \A d \in Deliveries : hand[d].phase = "idle"
      BY <1>t, <3>3 DEF OneHandled, Handling
    <3>5. OneCustomer'
      BY <1>2, <1>3, <1>p, <3>1, <3>2, <3>3, <3>4 DEF OneCustomer, Subscribed
    <3> QED
      BY <1>2, <3>2, <3>5 DEF CatchesUp, Sole, Subscribed
  <2> QED
    BY <2>2, <2>3
<1> QED
  BY <1>2, <1>5, <1>6, <1>7, <1>8, BillWrites

(* Stripe changes a subscription, and says so. *)
LEMMA StripeMoves ==
  ASSUME Paying!BillingAssumption, BillInv, NEW t \in Checkouts, NEW s \in Subscription, s.status # "none", s.since = clock,
         stripe' = [stripe EXCEPT ![t] = s],
         \/ Paying!Quiet(t) /\ Subscribed(t) /\ tab' = tab /\ s.customer = stripe[t].customer
         \/ /\ tab[t].phase = "open" /\ s.customer = tab[t].customer
            /\ tab' = [tab EXCEPT ![t].phase = "paid"],
         NEW E \in SUBSET {Paying!Event(t, s, FALSE), Paying!Event(t, Paying!NoSub, TRUE)},
         Paying!Event(t, s, FALSE) \in E, events' = events \cup E,
         UNCHANGED <<user, row, marks, hand, clock, stuck>>
  PROVE  BillInv'
<1> DEFINE own == Paying!Event(t, s, FALSE)
           named == Paying!Event(t, Paying!NoSub, TRUE)
<1>t. BillTypes /\ OneHandled /\ EventsFit /\ MarkedIsHandled /\ (user => OneCustomer /\ CatchesUp)
  BY DEF BillInv
<1>1. /\ own = [of |-> t, sub |-> s, fetch |-> FALSE, at |-> clock]
      /\ named = [of |-> t, sub |-> Paying!NoSub, fetch |-> TRUE, at |-> clock]
  BY DEF Paying!Event
<1>2. /\ s \in [status : SubStates, customer : MaybeTab, end : Nat, cancelling : BOOLEAN, since : Nat]
      /\ Paying!NoSub \in Subscription
  BY DEF Subscription, SubStates, MaybeTab, Paying!NoSub
<1>3. own \in Delivery /\ named \in Delivery /\ E \subseteq {own, named} /\ own \in E
  <2>1. E \subseteq {own, named} /\ own \in E
    OBVIOUS
  <2> HIDE DEF own, named
  <2>2. clock \in Nat
    BY <1>t DEF BillTypes
  <2> QED
    BY <1>1, <1>2, <2>1, <2>2 DEF Delivery
<1> HIDE DEF own, named
<1>4. \A e \in E : e.of = t /\ e.at = clock /\ (~e.fetch => e.sub = s)
  BY <1>1, <1>3
<1>5. /\ stripe' \in [Checkouts -> Subscription] /\ stripe'[t] = s
      /\ \A r \in Checkouts : r # t => stripe'[r] = stripe[r]
  BY <1>t DEF BillTypes
<1>6. /\ stripe[t].since \in Nat /\ clock \in Nat
      /\ Subscribed(t) => stripe[t].since < clock
  BY <1>t DEF BillTypes, Subscription, Paying!Quiet, EventsFit, Subscribed
<1>7. \A e \in events : e.of = t => e.at < clock /\ e.at # s.since
  BY <1>t, <1>6 DEF EventsFit, BillTypes, Delivery
<1>8. row.sub = t => row.at < clock
  BY <1>t, <1>6 DEF EventsFit, BillTypes, MirrorRow, Paying!BillingAssumption
<1>9. BillTypes'
  <2>1. tab' \in [Checkouts -> [phase : {"new", "refused", "customer", "created", "resolved", "open", "paid"},
                          customer : MaybeTab]]
    BY <1>t DEF BillTypes
  <2> QED
    BY <1>t, <1>3, <1>5, <2>1 DEF BillTypes
<1>10. OneHandled'
  BY <1>t DEF OneHandled, Handling
<1>11. MarkedIsHandled'
  <2>1. \A e \in E : e \notin events
    BY <1>4, <1>7, <1>t
  <2>2. events' \cap marks' = events \cap marks
    BY <1>t, <2>1 DEF MarkedIsHandled
  <2> QED
    BY <1>t, <2>2 DEF MarkedIsHandled, Handling
<1>12. EventsFit'
  <2>1. \A r \in Checkouts : Subscribed(r)' <=> tab'[r].phase = "paid"
    BY <1>t, <1>5 DEF EventsFit, Subscribed, BillTypes
  <2>2. \A r \in Checkouts : Subscribed(r) => Subscribed(r)'
    BY <1>5 DEF Subscribed
  <2>3. \A r \in Checkouts : ~Subscribed(r)' => stripe'[r] = Paying!NoSub
    BY <1>t, <1>5 DEF EventsFit, Subscribed
  <2>4. \A e \in events' : Subscribed(e.of)' /\ e.at <= stripe'[e.of].since
    BY <1>t, <1>4, <1>5, <1>6, <1>7, <2>2 DEF EventsFit, Subscribed, BillTypes, Delivery
  <2>5. \A e \in events' : ~e.fetch /\ LastOf(e)' => e.sub = stripe'[e.of]
    BY <1>t, <1>4, <1>5, <1>7 DEF EventsFit, LastOf, BillTypes, Delivery
  <2>6. \A d \in Deliveries : hand[d].phase \in {"read", "decide"} /\ LastOf(hand[d].event)'
                               => hand[d].sub = stripe'[hand[d].event.of]
    <3> SUFFICES ASSUME NEW d \in Deliveries, hand[d].phase \in {"read", "decide"},
                        LastOf(hand[d].event)'
                 PROVE  hand[d].sub = stripe'[hand[d].event.of]
      OBVIOUS
    <3>1. hand[d].event \in events
      BY <1>t DEF OneHandled, Handling
    <3>2. hand[d].event.of \in Checkouts /\ hand[d].event.of # t
      BY <1>t, <1>5, <1>7, <3>1 DEF LastOf, BillTypes, Delivery
    <3> QED
      BY <1>t, <1>5, <3>2 DEF EventsFit, LastOf
  <2>7. row.sub # Absent => Subscribed(row.sub)' /\ row.at <= stripe'[row.sub].since
    BY <1>t, <1>5, <1>6, <1>8, <2>2 DEF EventsFit, BillTypes, MirrorRow, MaybeTab
  <2> QED
    BY <2>1, <2>3, <2>4, <2>5, <2>6, <2>7 DEF EventsFit, Subscribed, LastOf
<1>13. ASSUME user'
       PROVE  OneCustomer' /\ CatchesUp'
  <2>1. OneCustomer /\ CatchesUp
    BY <1>t, <1>13
  <2>2. row.there /\ s.customer = row.customer
    BY <2>1 DEF OneCustomer
  <2>3. OneCustomer'
    <3>1. \A r \in Checkouts : Subscribed(r)' => row.there /\ stripe'[r].customer = row.customer
      BY <1>5, <2>1, <2>2 DEF OneCustomer, Subscribed
    <3>2. \A r \in Checkouts : tab'[r].phase \in {"resolved", "open", "paid"}
                           => row.there /\ tab'[r].customer = row.customer
      BY <1>t, <2>1, <2>2 DEF OneCustomer, BillTypes
    <3>3. \A e \in events' : ~e.fetch => e.sub.customer = row.customer
      BY <1>4, <2>1, <2>2 DEF OneCustomer
    <3> QED
      BY <2>1, <3>1, <3>2, <3>3 DEF OneCustomer, Subscribed
  <2>4. Awaits(t)'
    BY <1>3, <1>4, <1>5 DEF Awaits, LastOf
  <2>5. \A r \in Checkouts : Sole(r)' => r = t
    BY <1>5 DEF Sole, Subscribed
  <2> QED
    BY <2>3, <2>4, <2>5 DEF CatchesUp
<1> QED
  BY <1>9, <1>10, <1>11, <1>12, <1>13, BillWrites

(* What Stripe does with its subscriptions. *)
LEMMA StripeStep ==
  ASSUME Paying!BillingAssumption, BillInv, NEW t \in Checkouts,
         Paying!Pay(t) \/ Paying!CardFails(t) \/ Paying!Ends(t)
  PROVE  BillInv'
<1>t. BillTypes /\ EventsFit
  BY DEF BillInv
<1>1. clock \in Nat /\ clock + 1 \in Nat /\ stripe[t] \in Subscription /\ tab[t].customer \in MaybeTab
  BY <1>t DEF BillTypes
<1>2. CASE Paying!Pay(t)
  <2> DEFINE s == [status |-> "active", customer |-> tab[t].customer, end |-> clock + 1,
                   cancelling |-> FALSE, since |-> clock]
             E == {Paying!Event(t, s, FALSE), Paying!Event(t, Paying!NoSub, TRUE)}
  <2>1. s \in Subscription /\ s.status # "none" /\ s.since = clock /\ s.customer = tab[t].customer
    BY <1>1 DEF Subscription, SubStates
  <2>2. /\ tab[t].phase = "open" /\ tab' = [tab EXCEPT ![t].phase = "paid"]
        /\ stripe' = [stripe EXCEPT ![t] = s] /\ events' = events \cup E
        /\ UNCHANGED <<user, row, marks, hand, clock, stuck>>
    BY <1>2 DEF Paying!Pay, Paying!EmitAlso, Paying!EmitAll
  <2>3. E \in SUBSET {Paying!Event(t, s, FALSE), Paying!Event(t, Paying!NoSub, TRUE)}
        /\ Paying!Event(t, s, FALSE) \in E
    OBVIOUS
  <2> HIDE DEF s, E
  <2> QED
    BY <2>1, <2>2, <2>3, StripeMoves
<1>3. CASE Paying!CardFails(t)
  <2> DEFINE s == [stripe[t] EXCEPT !.status = "past_due", !.since = clock]
             E == {Paying!Event(t, s, FALSE), Paying!Event(t, Paying!NoSub, TRUE)}
  <2>1. /\ s \in Subscription /\ s.status # "none" /\ s.since = clock
        /\ s.customer = stripe[t].customer
    BY <1>1 DEF Subscription, SubStates
  <2>2. /\ Subscribed(t) /\ Paying!Quiet(t)
        /\ stripe' = [stripe EXCEPT ![t] = s] /\ events' = events \cup E
        /\ UNCHANGED <<user, row, tab, marks, hand, clock, stuck>>
    BY <1>3 DEF Paying!CardFails, Paying!Change, Paying!EmitAlso, Paying!EmitAll, Subscribed
  <2>3. E \in SUBSET {Paying!Event(t, s, FALSE), Paying!Event(t, Paying!NoSub, TRUE)}
        /\ Paying!Event(t, s, FALSE) \in E
    OBVIOUS
  <2> HIDE DEF s, E
  <2> QED
    BY <2>1, <2>2, <2>3, StripeMoves
<1>4. CASE Paying!Ends(t)
  <2> PICK c \in BOOLEAN : /\ stripe[t].status \in {"active", "past_due"}
                           /\ Paying!Change(t, Paying!Canceled(t, c))
                           /\ Paying!Emit(t, Paying!Canceled(t, c))
    BY <1>4 DEF Paying!Ends
  <2> DEFINE s == Paying!Canceled(t, c)
             E == {Paying!Event(t, s, FALSE)}
  <2>1. /\ s \in Subscription /\ s.status # "none" /\ s.since = clock
        /\ s.customer = stripe[t].customer
    BY <1>1 DEF Subscription, SubStates, Paying!Canceled
  <2>2. /\ Subscribed(t) /\ Paying!Quiet(t)
        /\ stripe' = [stripe EXCEPT ![t] = s] /\ events' = events \cup E
        /\ UNCHANGED <<user, row, tab, marks, hand, clock, stuck>>
    BY DEF Paying!Change, Paying!Emit, Paying!EmitAll, Subscribed
  <2>3. E \in SUBSET {Paying!Event(t, s, FALSE), Paying!Event(t, Paying!NoSub, TRUE)}
        /\ Paying!Event(t, s, FALSE) \in E
    OBVIOUS
  <2> HIDE DEF s, E
  <2> QED
    BY <2>1, <2>2, <2>3, StripeMoves
<1> QED
  BY <1>2, <1>3, <1>4

(* cancelSubscriptionForDeletion asks for the same. *)
LEMMA LeaveStep ==
  ASSUME Paying!BillingAssumption, BillInv, Paying!CancelForDeletion
  PROVE  BillInv'
<1>t. BillTypes /\ OneHandled /\ EventsFit /\ MarkedIsHandled /\ (user => OneCustomer /\ CatchesUp)
  BY DEF BillInv
<1>1. CASE Paying!Live(row) /\ stripe[row.sub].status # "canceled"
  <2> DEFINE t == row.sub
             s == Paying!Canceled(t, FALSE)
             E == {Paying!Event(t, s, FALSE)}
  <2>1. t \in Checkouts /\ Subscribed(t) /\ stripe[t] \in Subscription /\ clock \in Nat
    BY <1>t, <1>1 DEF Paying!Live, BillTypes, MirrorRow, MaybeTab, EventsFit
  <2>2. /\ s \in Subscription /\ s.status # "none" /\ s.since = clock
        /\ s.customer = stripe[t].customer
    BY <2>1 DEF Subscription, SubStates, Paying!Canceled
  <2>3. /\ Paying!Quiet(t)
        /\ stripe' = [stripe EXCEPT ![t] = s] /\ events' = events \cup E
        /\ UNCHANGED <<user, row, tab, marks, hand, clock, stuck>>
    BY <1>1 DEF Paying!CancelForDeletion, Paying!Emit, Paying!EmitAll
  <2>4. E \in SUBSET {Paying!Event(t, s, FALSE), Paying!Event(t, Paying!NoSub, TRUE)}
        /\ Paying!Event(t, s, FALSE) \in E
    OBVIOUS
  <2> HIDE DEF t, s, E
  <2> QED
    BY <2>1, <2>2, <2>3, <2>4, StripeMoves
<1>2. CASE ~(Paying!Live(row) /\ stripe[row.sub].status # "canceled")
  <2>1. UNCHANGED <<user, row, tab, stripe, events, marks, hand, clock, stuck>>
    BY <1>2 DEF Paying!CancelForDeletion
  <2> QED
    BY <1>t, <2>1
       DEF BillInv, BillTypes, OneHandled, OneCustomer, EventsFit, MarkedIsHandled, CatchesUp,
           Handling, Subscribed, LastOf, Mirrors, Sole, Awaits
<1> QED
  BY <1>1, <1>2

(* A handler moves on without touching the mirror or Stripe's queue. *)
LEMMA HandMoves ==
  ASSUME BillInv, NEW d \in Deliveries, NEW h \in Hand,
         hand' = [hand EXCEPT ![d] = h],
         UNCHANGED <<user, row, tab, stripe, events, clock>>,
         marks' \subseteq events,
         stuck' = {} =>
           /\ stuck = {}
           /\ \A e \in events \cap marks' :
                \/ e \in marks /\ e # hand[d].event
                \/ h.phase # "idle" /\ h.event = e,
         h.phase = "idle" => h = Paying!Idle,
         h.phase # "idle" =>
           /\ h.event \in events /\ \A c \in Deliveries : Handling(c) => c = d
           /\ h.phase \in {"read", "decide"} =>
                /\ user => h.sub.customer = row.customer
                /\ LastOf(h.event) => h.sub = stripe[h.event.of]
           /\ h.phase = "decide" => h.row = row
  PROVE  BillInv'
<1>t. BillTypes /\ OneHandled /\ EventsFit /\ MarkedIsHandled /\ (user => OneCustomer /\ CatchesUp)
  BY DEF BillInv
<1>1. hand'[d] = h /\ \A c \in Deliveries : c # d => hand'[c] = hand[c]
  BY <1>t DEF BillTypes
<1>2. BillTypes'
  BY <1>t DEF BillTypes
<1>3. OneHandled'
  BY <1>t, <1>1 DEF OneHandled, Handling
<1>4. EventsFit'
  BY <1>t, <1>1 DEF EventsFit, LastOf, Subscribed
<1>5. MarkedIsHandled'
  <2> SUFFICES ASSUME stuck' = {}, NEW e \in events \cap marks'
               PROVE  \E c \in Deliveries : Handling(c)' /\ hand'[c].event = e
    BY DEF MarkedIsHandled, Handling
  <2>1. CASE h.phase # "idle" /\ h.event = e
    BY <1>1, <2>1 DEF Handling
  <2>2. CASE e \in marks /\ e # hand[d].event
    <3>1. PICK c \in Deliveries : Handling(c) /\ hand[c].event = e
      BY <1>t, <2>2 DEF MarkedIsHandled
    <3> QED
      BY <1>1, <2>2, <3>1 DEF Handling
  <2> QED
    BY <2>1, <2>2
<1>6. ASSUME user'
      PROVE  OneCustomer' /\ CatchesUp'
  <2>1. OneCustomer /\ CatchesUp
    BY <1>t, <1>6
  <2>2. OneCustomer'
    BY <1>1, <1>6, <2>1 DEF OneCustomer, Subscribed
  <2> QED
    BY <2>1, <2>2 DEF CatchesUp, Sole, Subscribed, Mirrors, Awaits, LastOf
<1> QED
  BY <1>2, <1>3, <1>4, <1>5, <1>6, BillWrites

(* The webhook, up to its decision. *)
LEMMA WebhookStep ==
  ASSUME Paying!BillingAssumption, BillInv, NEW d \in Deliveries,
         \/ \E e \in events : Paying!Claim(d, e) /\ e \notin marks
         \/ Paying!Retrieve(d) \/ Paying!ReadRow(d) \/ Paying!Release(d) \/ Paying!Die(d)
  PROVE  BillInv'
<1>t. BillTypes /\ OneHandled /\ EventsFit /\ MarkedIsHandled /\ (user => OneCustomer /\ CatchesUp)
  BY DEF BillInv
<1>h. /\ hand[d] \in Hand /\ marks \subseteq events
      /\ Paying!Idle \in Hand /\ Paying!Idle.phase = "idle"
  BY <1>t DEF BillTypes, MarkedIsHandled, Hand, MirrorRow, Subscription, SubStates, MaybeTab,
              Paying!Idle, Paying!NoSub, Paying!NoRow
<1>c. Handling(d) => /\ hand[d].event \in events /\ hand[d].event \in Delivery
                     /\ \A c \in Deliveries : Handling(c) => c = d
  BY <1>t DEF OneHandled, BillTypes
<1>1. ASSUME NEW e \in events, Paying!Claim(d, e), e \notin marks
      PROVE  BillInv'
  <2> DEFINE h == [Paying!Idle EXCEPT !.phase = IF e.fetch THEN "fetch" ELSE "read",
                                      !.event = e, !.sub = e.sub]
  <2>1. /\ hand' = [hand EXCEPT ![d] = h] /\ marks' = marks \cup {e}
        /\ UNCHANGED <<user, row, tab, stripe, events, clock, stuck>>
        /\ \A c \in Deliveries : hand[c] = Paying!Idle
    BY <1>1 DEF Paying!Claim, Paying!Free
  <2>2. e \in Delivery /\ e.sub \in Subscription
    BY <1>t DEF BillTypes, Delivery
  <2>3. /\ h \in Hand /\ h.event = e /\ h.sub = e.sub
        /\ h.phase \in {"fetch", "read"} /\ (h.phase = "read" => ~e.fetch)
    BY <1>h, <2>2 DEF Hand, Paying!Idle
  <2>4. /\ \A c \in Deliveries : ~Handling(c)
        /\ stuck = {} => marks = {}
    BY <1>h, <1>t, <2>1 DEF Handling, MarkedIsHandled
  <2>5. ~e.fetch => /\ user => e.sub.customer = row.customer
                    /\ LastOf(e) => e.sub = stripe[e.of]
    BY <1>t DEF OneCustomer, EventsFit
  <2> HIDE DEF h
  <2> QED
    BY <1>h, <2>1, <2>3, <2>4, <2>5, HandMoves
<1>2. ASSUME Paying!Retrieve(d)
      PROVE  BillInv'
  <2> DEFINE h == [hand[d] EXCEPT !.phase = "read", !.sub = stripe[hand[d].event.of]]
  <2>1. /\ hand' = [hand EXCEPT ![d] = h] /\ hand[d].phase = "fetch"
        /\ UNCHANGED <<user, row, tab, stripe, events, marks, clock, stuck>>
    BY <1>2 DEF Paying!Retrieve
  <2>2. /\ Handling(d) /\ hand[d].event.of \in Checkouts /\ stripe[hand[d].event.of] \in Subscription
        /\ Subscribed(hand[d].event.of)
    BY <1>c, <1>t, <2>1 DEF Handling, BillTypes, Delivery, EventsFit
  <2>3. /\ h \in Hand /\ h.phase = "read" /\ h.event = hand[d].event
        /\ h.sub = stripe[hand[d].event.of]
    BY <1>h, <2>2 DEF Hand
  <2>4. user => h.sub.customer = row.customer
    BY <1>t, <2>2, <2>3 DEF OneCustomer
  <2>5. stuck = {} => \A e \in events \cap marks : e = h.event
    BY <1>c, <1>t, <2>2, <2>3 DEF MarkedIsHandled
  <2> HIDE DEF h
  <2> QED
    BY <1>c, <1>h, <2>1, <2>2, <2>3, <2>4, <2>5, HandMoves
<1>3. ASSUME Paying!ReadRow(d)
      PROVE  BillInv'
  <2> DEFINE h == [hand[d] EXCEPT !.phase = "decide", !.row = row]
  <2>1. /\ hand' = [hand EXCEPT ![d] = h] /\ hand[d].phase = "read"
        /\ UNCHANGED <<user, row, tab, stripe, events, marks, clock, stuck>>
    BY <1>3 DEF Paying!ReadRow
  <2>2. Handling(d)
    BY <2>1 DEF Handling
  <2>3. /\ h \in Hand /\ h.phase = "decide" /\ h.event = hand[d].event
        /\ h.sub = hand[d].sub /\ h.row = row
    BY <1>h, <1>t DEF Hand, BillTypes
  <2>4. /\ user => h.sub.customer = row.customer
        /\ LastOf(h.event) => h.sub = stripe[h.event.of]
    BY <1>t, <2>1, <2>3 DEF OneCustomer, EventsFit
  <2>5. stuck = {} => \A e \in events \cap marks : e = h.event
    BY <1>c, <1>t, <2>2, <2>3 DEF MarkedIsHandled
  <2> HIDE DEF h
  <2> QED
    BY <1>c, <1>h, <2>1, <2>2, <2>3, <2>4, <2>5, HandMoves
<1>4. ASSUME Paying!Release(d)
      PROVE  BillInv'
  <2>1. /\ hand' = [hand EXCEPT ![d] = Paying!Idle] /\ marks' = marks \ {hand[d].event}
        /\ UNCHANGED <<user, row, tab, stripe, events, clock, stuck>>
    BY <1>4 DEF Paying!Release, Paying!Freed
  <2>2. marks' \subseteq events /\ \A e \in marks' : e \in marks /\ e # hand[d].event
    BY <1>h, <2>1
  <2>3. stuck' = {} => /\ stuck = {}
                       /\ \A e \in events \cap marks' :
                            \/ e \in marks /\ e # hand[d].event
                            \/ Paying!Idle.phase # "idle" /\ Paying!Idle.event = e
    BY <2>1, <2>2
  <2> QED
    BY <1>h, <2>1, <2>2, <2>3, HandMoves
<1>5. ASSUME Paying!Die(d)
      PROVE  BillInv'
  <2>1. /\ hand' = [hand EXCEPT ![d] = Paying!Idle] /\ stuck' # {}
        /\ UNCHANGED <<user, row, tab, stripe, events, marks, clock>>
    BY <1>5 DEF Paying!Die
  <2> QED
    BY <1>h, <2>1, HandMoves
<1> QED
  BY <1>1, <1>2, <1>3, <1>4, <1>5

(* mirrorSubscription's decision. The handler alone is at work, so the row *)
(* it read is the row; an event before the last one is stale once the row  *)
(* has the last one's stamp, and the last one carries what is.             *)
LEMMA DecisionStep ==
  ASSUME Paying!BillingAssumption, BillInv, NEW d \in Deliveries,
         Paying!Skip(d) \/ Paying!Mirror(d)
  PROVE  BillInv'
<1> DEFINE h == hand[d]
           e == hand[d].event
<1>t. BillTypes /\ OneHandled /\ EventsFit /\ MarkedIsHandled /\ (user => OneCustomer /\ CatchesUp)
  BY DEF BillInv
<1>1. /\ h.phase = "decide" /\ UNCHANGED <<user, tab, stripe, clock, stuck>>
      /\ hand' = [hand EXCEPT ![d] = Paying!Idle]
      /\ events' = events \ {e} /\ marks' = marks \ {e}
  BY DEF Paying!Skip, Paying!Mirror, Paying!Answered
<1>2. /\ Handling(d) /\ e \in events /\ e \in Delivery /\ h \in Hand
      /\ \A c \in Deliveries : Handling(c) => c = d
      /\ Paying!Idle \in Hand /\ Paying!Idle.phase = "idle"
  BY <1>t, <1>1 DEF OneHandled, BillTypes, Handling, Hand, MirrorRow, Subscription, SubStates,
                    MaybeTab, Paying!Idle, Paying!NoSub, Paying!NoRow
<1>3. \A c \in Deliveries : hand'[c].phase = "idle" /\ hand'[c] = Paying!Idle
  BY <1>t, <1>1, <1>2 DEF OneHandled, BillTypes, Handling
<1>4. OneHandled'
  BY <1>3 DEF OneHandled, Handling
<1>5. MarkedIsHandled'
  BY <1>t, <1>1, <1>2 DEF MarkedIsHandled, Handling
<1>6. \/ row' = row
      \/ /\ user /\ row' = [there |-> TRUE, sub |-> e.of, customer |-> h.sub.customer,
                            status |-> h.sub.status, end |-> h.sub.end,
                            cancelling |-> h.sub.cancelling, at |-> e.at]
  BY DEF Paying!Skip, Paying!Mirror
<1>7. row' \in MirrorRow
  <2>1. /\ row \in MirrorRow /\ e.of \in MaybeTab /\ e.at \in Nat /\ h.sub \in Subscription
    BY <1>t, <1>2 DEF BillTypes, Hand, Delivery, MaybeTab
  <2>2. [there |-> TRUE, sub |-> e.of, customer |-> h.sub.customer, status |-> h.sub.status,
         end |-> h.sub.end, cancelling |-> h.sub.cancelling, at |-> e.at] \in MirrorRow
    BY <2>1 DEF MirrorRow, Subscription
  <2> QED
    BY <1>6, <2>1, <2>2
<1>8. BillTypes'
  BY <1>t, <1>1, <1>2, <1>7 DEF BillTypes
<1>9. EventsFit'
  <2>1. row'.sub # Absent => Subscribed(row'.sub) /\ row'.at <= stripe[row'.sub].since
    BY <1>t, <1>2, <1>6 DEF EventsFit
  <2> QED
    BY <1>t, <1>1, <1>3, <2>1 DEF EventsFit, LastOf, Subscribed
<1>10. ASSUME user'
       PROVE  OneCustomer' /\ CatchesUp'
  <2>1. OneCustomer /\ CatchesUp /\ user
    BY <1>t, <1>1, <1>10
  <2>2. h.sub.customer = row.customer /\ h.row = row
    BY <1>1, <2>1 DEF OneCustomer
  <2>3. row.there /\ row'.there /\ row'.customer = row.customer
    BY <1>2, <1>6, <1>t, <2>1, <2>2 DEF OneCustomer, EventsFit, Delivery
  <2>4. OneCustomer'
    BY <1>1, <1>3, <2>1, <2>3 DEF OneCustomer, Subscribed
  <2>5. SUFFICES ASSUME stuck = {}, NEW t \in Checkouts, Sole(t)
                 PROVE  Mirrors(t)' \/ Awaits(t)'
    BY <1>1, <2>4 DEF CatchesUp, Sole, Subscribed
  <2>6. e.of = t /\ (row.sub = Absent \/ row.sub = t)
    BY <1>2, <1>t, <2>5 DEF EventsFit, Sole, Subscribed, Delivery, BillTypes, MirrorRow, MaybeTab
  <2>7. Paying!SameSub(h) <=> row.sub = t
    BY <2>2, <2>3, <2>6 DEF Paying!SameSub
  <2>8. Paying!Stale(h) <=> row.sub = t /\ e.at < row.at
    BY <2>2, <2>7 DEF Paying!Stale
  <2>9. ~Paying!TakesAccess(h)
    BY <2>2, <2>6, <2>7 DEF Paying!TakesAccess
  <2>10. /\ row.sub = t => row.at <= stripe[t].since
         /\ e.at <= stripe[t].since /\ e.at \in Nat /\ row.at \in Nat /\ stripe[t].since \in Nat
    BY <1>2, <1>t, <2>6 DEF EventsFit, BillTypes, Delivery, MirrorRow, Subscription,
                            Paying!BillingAssumption
  <2>11. ASSUME e.at # stripe[t].since, Awaits(t)
         PROVE  Awaits(t)'
    <3>1. PICK f \in events : f.of = t /\ f.at = stripe[t].since
      BY <2>11 DEF Awaits, LastOf
    <3>2. f \in events'
      BY <1>1, <2>11, <3>1
    <3> QED
      BY <1>1, <3>1, <3>2 DEF Awaits, LastOf
  <2>12. Mirrors(t) \/ Awaits(t)
    BY <2>1, <2>5 DEF CatchesUp
  <2>13. CASE Paying!Skip(d)
    <3>1. row.sub = t /\ e.at < row.at /\ row' = row
      BY <2>8, <2>9, <2>13 DEF Paying!Skip
    <3>2. e.at # stripe[t].since
      BY <2>10, <3>1
    <3>3. Mirrors(t) => Mirrors(t)'
      BY <1>1, <3>1 DEF Mirrors
    <3> QED
      BY <2>11, <2>12, <3>2, <3>3
  <2>14. CASE Paying!Mirror(d)
    <3>1. /\ ~(row.sub = t /\ e.at < row.at)
          /\ row' = [there |-> TRUE, sub |-> e.of, customer |-> h.sub.customer,
                     status |-> h.sub.status, end |-> h.sub.end,
                     cancelling |-> h.sub.cancelling, at |-> e.at]
      BY <2>8, <2>14 DEF Paying!Mirror
    <3>2. CASE e.at = stripe[t].since
      <4>1. h.sub = stripe[t]
        BY <1>1, <1>t, <2>6, <3>2 DEF EventsFit, LastOf
      <4> QED
        BY <1>1, <2>6, <3>1, <3>2, <4>1 DEF Mirrors
    <3>3. CASE e.at # stripe[t].since
      <4>1. ~Mirrors(t)
        BY <2>10, <3>1, <3>3 DEF Mirrors
      <4> QED
        BY <2>11, <2>12, <3>3, <4>1
    <3> QED
      BY <3>2, <3>3
  <2> QED
    BY <2>13, <2>14
<1> QED
  BY <1>1, <1>4, <1>5, <1>8, <1>9, <1>10, BillWrites

LEMMA BillStep ==
  ASSUME Paying!BillingAssumption, BillInv, [Paying!Next]_(Paying!vars)
  PROVE  BillInv'
<1>t. BillTypes /\ OneHandled /\ EventsFit /\ MarkedIsHandled /\ (user => OneCustomer /\ CatchesUp)
  BY DEF BillInv
<1>1. ASSUME NEW t \in Checkouts, Paying!Checkout(t)
      PROVE  BillInv'
  BY <1>1, CheckoutStep
<1>2. ASSUME NEW t \in Checkouts, Paying!Pay(t) \/ Paying!CardFails(t) \/ Paying!Ends(t)
      PROVE  BillInv'
  BY <1>2, StripeStep
<1>3. ASSUME NEW d \in Deliveries, Paying!Handler(d) \/ Paying!Release(d) \/ Paying!Die(d)
      PROVE  BillInv'
  BY <1>3, WebhookStep, DecisionStep DEF Paying!Handler
<1>4. ASSUME NEW d \in Deliveries, NEW e \in events, Paying!Claim(d, e)
      PROVE  BillInv'
  <2>1. CASE e \notin marks
    BY <1>4, <2>1, WebhookStep
  (* Marked and not in hand: it was left behind. *)
  <2>2. CASE e \in marks
    <3>1. /\ \A c \in Deliveries : hand[c] = Paying!Idle
          /\ events' = events \ {e} /\ marks' = marks \ {e}
          /\ UNCHANGED <<user, row, tab, stripe, hand, clock, stuck>>
      BY <1>4, <2>2 DEF Paying!Claim, Paying!Free
    <3>2. \A c \in Deliveries : hand[c].phase = "idle"
      BY <3>1 DEF Paying!Idle
    <3>3. stuck # {}
      BY <1>t, <2>2, <3>2 DEF MarkedIsHandled, Handling
    <3>4. BillTypes' /\ OneHandled'
      BY <1>t, <3>1, <3>2 DEF BillTypes, OneHandled, Handling
    <3>5. EventsFit' /\ MarkedIsHandled'
      BY <1>t, <3>1, <3>3 DEF EventsFit, MarkedIsHandled, Subscribed, LastOf
    <3>6. user' => OneCustomer' /\ CatchesUp'
      BY <1>t, <3>1, <3>3 DEF OneCustomer, CatchesUp, Subscribed
    <3> QED
      BY <3>1, <3>4, <3>5, <3>6, BillWrites
  <2> QED
    BY <2>1, <2>2
<1>5. CASE Paying!CancelForDeletion
  BY <1>5, LeaveStep
<1>6. CASE Paying!DeleteUser
  <2>1. /\ ~user' /\ row' = Paying!NoRow
        /\ UNCHANGED <<tab, stripe, events, marks, hand, clock, stuck>>
    BY <1>6 DEF Paying!DeleteUser
  <2>2. user' \in BOOLEAN /\ row' \in MirrorRow /\ row'.sub = Absent
    <3>1. Paying!NoRow \in MirrorRow /\ Paying!NoRow.sub = Absent
      BY DEF MirrorRow, MaybeTab, SubStates, Paying!NoRow
    <3>2. user' = FALSE
      BY <1>6 DEF Paying!DeleteUser
    <3> QED
      BY <2>1, <3>1, <3>2
  <2>3. BillTypes' /\ OneHandled' /\ EventsFit' /\ MarkedIsHandled'
    BY <1>t, <2>1, <2>2 DEF BillTypes, OneHandled, EventsFit, MarkedIsHandled, Handling,
                            Subscribed, LastOf
  <2> QED
    BY <2>1, <2>3, BillWrites
<1>7. CASE Paying!Tick
  <2>1. clock + 1 \in Nat /\ clock' = clock + 1
        /\ UNCHANGED <<user, row, tab, stripe, events, marks, hand, stuck>>
    BY <1>7, <1>t DEF Paying!Tick, BillTypes
  <2> QED
    BY <1>t, <2>1
       DEF BillInv, BillTypes, OneHandled, OneCustomer, EventsFit, MarkedIsHandled, CatchesUp,
           Handling, Subscribed, LastOf, Mirrors, Sole, Awaits
<1>8. CASE UNCHANGED Paying!vars
  BY <1>t, <1>8
     DEF Paying!vars, BillInv, BillTypes, OneHandled, OneCustomer, EventsFit, MarkedIsHandled,
         CatchesUp, Handling, Subscribed, LastOf, Mirrors, Sole, Awaits
<1> QED
  BY <1>1, <1>2, <1>3, <1>4, <1>5, <1>6, <1>7, <1>8 DEF Paying!Next

(* While deliveries are handled one at a time, an account has one customer *)
(* at Stripe, and once its deliveries are through the mirror grants what   *)
(* its one subscription grants: for any number of checkouts and events, in *)
(* any order, repeated and failing (lib/billing/subscription.ts,           *)
(* api/billing/webhook/route.ts).                                          *)
THEOREM BillingAlwaysFollows ==
  ASSUME Paying!BillingAssumption
  PROVE  Paying!Spec => []BillingFollows
<1>1. Paying!Init => BillInv
  <2> SUFFICES ASSUME Paying!Init
               PROVE  BillInv
    OBVIOUS
  <2>1. /\ Paying!NoRow \in MirrorRow /\ Paying!NoRow.sub = Absent
        /\ Paying!NoSub \in Subscription /\ Paying!NoSub.status = "none"
    BY DEF MirrorRow, Subscription, SubStates, MaybeTab, Paying!NoRow, Paying!NoSub
  <2>2. Paying!Idle \in Hand /\ Paying!Idle.phase = "idle"
    BY <2>1 DEF Hand, Paying!Idle
  <2>3. BillTypes
    BY <2>1, <2>2 DEF Paying!Init, BillTypes, MaybeTab
  <2>4. /\ \A t \in Checkouts : stripe[t] = Paying!NoSub /\ tab[t].phase = "new"
        /\ \A d \in Deliveries : hand[d] = Paying!Idle
        /\ events = {} /\ marks = {} /\ row = Paying!NoRow
    BY DEF Paying!Init
  <2>5. OneHandled /\ MarkedIsHandled
    BY <2>2, <2>4 DEF OneHandled, MarkedIsHandled, Handling
  <2>6. EventsFit
    BY <2>1, <2>2, <2>4 DEF EventsFit, Subscribed
  <2>7. OneCustomer /\ CatchesUp
    BY <2>1, <2>2, <2>4 DEF OneCustomer, CatchesUp, Sole, Subscribed
  <2> QED
    BY <2>3, <2>5, <2>6, <2>7 DEF BillInv
<1>2. BillInv /\ [Paying!Next]_(Paying!vars) => BillInv'
  BY BillStep
<1>3. BillInv => Paying!BillingFollows
  <2> SUFFICES ASSUME BillInv
               PROVE  Paying!OneInvoiceHistory /\ Paying!MirrorCaughtUp
    BY DEF Paying!BillingFollows
  <2>t. EventsFit /\ (user => OneCustomer /\ CatchesUp)
    BY DEF BillInv
  <2>1. \A t \in Checkouts : Subscribed(t) \/ stripe[t] = Paying!NoSub
    BY <2>t DEF EventsFit
  <2>2. Paying!OneInvoiceHistory
    BY <2>1, <2>t DEF OneCustomer, Paying!OneInvoiceHistory, Paying!NoSub
  <2>3. ASSUME NEW t \in Checkouts, events = {}, stuck = {}, user, stripe[t] # Paying!NoSub,
               \A s \in Checkouts \ {t} : stripe[s] = Paying!NoSub
        PROVE  Paying!GrantsPro(row) = Paying!GrantsPro(stripe[t])
    <3>1. Sole(t)
      BY <2>1, <2>3 DEF Sole, Subscribed, Paying!NoSub
    <3>2. Mirrors(t)
      BY <2>3, <2>t, <3>1 DEF CatchesUp, Awaits
    <3> QED
      BY <3>2 DEF Mirrors, Paying!GrantsPro
  <2> QED
    BY <2>2, <2>3 DEF Paying!MirrorCaughtUp
<1> QED
  BY <1>1, <1>2, <1>3, PTL DEF Paying!Spec, BillingFollows
-------------------------------------------------------------------------------
(* Commands. A nonce is remembered from the moment it was spent, and by    *)
(* the time it is forgotten the command it belongs to has expired.         *)
KeyTypes ==
  /\ secret \in Rotation!Keys /\ previous \in Rotation!Keys \cup {Absent}
  /\ minted \in [Envelopes -> Rotation!Command \cup {Absent}]
  /\ seen \in [Agents -> [Envelopes -> Nat \cup {Absent}]]
  /\ carried \in [Agents -> [Envelopes -> Nat]]
  /\ now \in Nat

Late(e) == now > minted[e].expires + Skew

(* No command expires later than one minted just now would. *)
Dated == \A e \in Envelopes : minted[e] # Absent => minted[e].expires <= now + Behind + Ttl

SpentInv(a, e) ==
  /\ seen[a][e] # Absent => minted[e] # Absent /\ minted[e].expires + Skew <= seen[a][e] + Memory
  /\ \/ carried[a][e] = 0
     \/ /\ carried[a][e] = 1 /\ minted[e] # Absent
        /\ seen[a][e] # Absent \/ Late(e)

CarryInv == KeyTypes /\ Dated /\ \A a \in Agents, e \in Envelopes : SpentInv(a, e)

LEMMA CarryStep ==
  ASSUME Rotation!KeysAssumption, CarryInv, [Rotation!Next]_(Rotation!keyVars)
  PROVE  CarryInv'
<1>t. KeyTypes
  BY DEF CarryInv
<1>k. /\ Ttl \in Nat /\ Skew \in Nat /\ Memory \in Nat /\ Behind \in Nat
      /\ Behind <= Skew /\ Ttl + 2 * Skew <= Memory
      /\ Absent \notin Rotation!Command /\ Absent \notin Nat
  BY DEF Rotation!KeysAssumption
<1>x. \A e \in Envelopes : minted[e] # Absent => minted[e] \in Rotation!Command /\ minted[e].expires \in Nat
  BY <1>t DEF KeyTypes, Rotation!Command
(* A command is minted. *)
<1>1. ASSUME NEW e \in Envelopes, NEW m \in Rotation!Command, m.expires = now + Behind + Ttl,
             minted[e] = Absent, minted' = [minted EXCEPT ![e] = m],
             UNCHANGED <<secret, previous, seen, carried, now>>
      PROVE  CarryInv'
  <2>1. KeyTypes'
    BY <1>t, <1>1 DEF KeyTypes
  <2>2. minted'[e] = m /\ \A f \in Envelopes : f # e => minted'[f] = minted[f]
    BY <1>t, <1>1 DEF KeyTypes
  <2>3. Dated'
    BY <1>t, <1>k, <1>1, <2>2 DEF CarryInv, Dated, KeyTypes
  <2>4. ASSUME NEW a \in Agents, NEW f \in Envelopes
        PROVE  SpentInv(a, f)'
    <3>1. CASE f = e
      <4>1. seen[a][e] = Absent /\ carried[a][e] = 0
        BY <1>1 DEF CarryInv, SpentInv
      <4> QED
        BY <1>1, <3>1, <4>1 DEF SpentInv
    <3>2. CASE f # e
      BY <1>1, <2>2, <3>2 DEF CarryInv, SpentInv, Late
    <3> QED
      BY <3>1, <3>2
  <2> QED
    BY <2>1, <2>3, <2>4 DEF CarryInv
<1>2. ASSUME NEW a \in Agents, NEW e \in Envelopes,
             Rotation!DispatchCommand(e, a) \/ Rotation!Visit(a, e)
      PROVE  CarryInv'
  <2>1. PICK what \in {"order"} \cup Rotation!Keys, key \in Rotation!Keys \cup {Absent} :
          minted' = [minted EXCEPT ![e] = Rotation!Signed(a, what, key)]
    BY <1>t, <1>2 DEF Rotation!DispatchCommand, Rotation!Visit, Rotation!SignRotation,
                      Rotation!SigningKey, Rotation!PreviousSigningKey, KeyTypes
  <2> DEFINE m == Rotation!Signed(a, what, key)
  <2>2. m \in Rotation!Command /\ m.expires = now + Behind + Ttl
    BY <1>t, <1>k DEF Rotation!Signed, Rotation!Command, KeyTypes
  <2>3. minted[e] = Absent /\ UNCHANGED <<secret, previous, seen, carried, now>>
    BY <1>2 DEF Rotation!DispatchCommand, Rotation!Visit
  <2> HIDE DEF m
  <2>4. minted' = [minted EXCEPT ![e] = m]
    BY <2>1 DEF m
  <2> QED
    BY <1>1, <2>2, <2>3, <2>4
(* A command arrives: what the machine has forgotten has expired. *)
<1>3. ASSUME NEW a \in Agents, NEW e \in Envelopes, NEW saved \in BOOLEAN,
             Rotation!Arrives(e, a, saved)
      PROVE  CarryInv'
  <2> DEFINE m == minted[e]
             fresh == Rotation!Remembered(a)[e] = Absent
             mind == [Rotation!Remembered(a) EXCEPT ![e] = IF fresh THEN now ELSE @]
  <2>1. m # Absent /\ UNCHANGED <<secret, previous, minted, now>>
    BY <1>3 DEF Rotation!Arrives
  <2>2. CASE ~Rotation!Verifies(a, m)
    <3>1. UNCHANGED <<seen, carried>>
      BY <1>3, <2>2 DEF Rotation!Arrives
    <3> QED
      BY <2>1, <3>1 DEF CarryInv, KeyTypes, Dated, SpentInv, Late
  <2>3. CASE Rotation!Verifies(a, m)
    <3>1. /\ seen' = [seen EXCEPT ![a] = mind]
          /\ carried' = IF fresh THEN [carried EXCEPT ![a][e] = @ + 1] ELSE carried
      BY <1>3, <2>3 DEF Rotation!Arrives
    <3>2. ~Late(e)
      BY <2>3 DEF Rotation!Verifies, Rotation!Expired, Late
    <3>3. \A f \in Envelopes :
            /\ Rotation!Remembered(a)[f] \in Nat \cup {Absent}
            /\ Rotation!Remembered(a)[f] \in {Absent, seen[a][f]}
            /\ Rotation!Remembered(a)[f] = Absent /\ seen[a][f] # Absent => Late(f)
      <4> TAKE f \in Envelopes
      <4>1. CASE seen[a][f] = Absent
        BY <4>1 DEF Rotation!Remembered
      <4>2. CASE seen[a][f] # Absent
        <5>1. seen[a][f] \in Nat /\ now \in Nat
          BY <1>t, <4>2 DEF KeyTypes
        <5>2. minted[f] # Absent /\ minted[f].expires + Skew <= seen[a][f] + Memory
          BY <4>2 DEF CarryInv, SpentInv
        <5>3. minted[f].expires \in Nat
          BY <1>x, <5>2
        <5>4. Rotation!Forgets(seen[a][f]) => Late(f)
          BY <1>k, <5>1, <5>2, <5>3 DEF Rotation!Forgets, Late
        <5>5. Rotation!Remembered(a)[f]
                = IF Rotation!Forgets(seen[a][f]) THEN Absent ELSE seen[a][f]
          BY <4>2 DEF Rotation!Remembered
        <5> QED
          BY <5>1, <5>4, <5>5
      <4> QED
        BY <4>1, <4>2
    <3>4. DOMAIN Rotation!Remembered(a) = Envelopes
      BY DEF Rotation!Remembered
    <3>5. /\ mind \in [Envelopes -> Nat \cup {Absent}]
          /\ mind[e] = IF fresh THEN now ELSE seen[a][e]
          /\ \A f \in Envelopes : f # e => mind[f] = Rotation!Remembered(a)[f]
      <4>1. Rotation!Remembered(a) \in [Envelopes -> Nat \cup {Absent}]
        BY <3>3, <3>4 DEF Rotation!Remembered
      <4>2. now \in Nat
        BY <1>t DEF KeyTypes
      <4> HIDE DEF Rotation!Remembered
      <4> QED
        BY <3>3, <4>1, <4>2
    <3>6. fresh => carried[a][e] = 0
      BY <3>2, <3>3 DEF CarryInv, SpentInv
    <3> HIDE DEF mind, fresh
    <3>7. /\ seen' \in [Agents -> [Envelopes -> Nat \cup {Absent}]]
          /\ seen'[a] = mind /\ \A b \in Agents : b # a => seen'[b] = seen[b]
      BY <1>t, <3>1, <3>5 DEF KeyTypes
    <3>8. /\ carried' \in [Agents -> [Envelopes -> Nat]]
          /\ carried'[a][e] = IF fresh THEN 1 ELSE carried[a][e]
          /\ \A b \in Agents, f \in Envelopes :
               b # a \/ f # e => carried'[b][f] = carried[b][f]
      BY <1>t, <3>1, <3>6 DEF KeyTypes
    <3>9. KeyTypes' /\ Dated'
      BY <1>t, <2>1, <3>7, <3>8 DEF CarryInv, KeyTypes, Dated
    <3>10. ASSUME NEW b \in Agents, NEW f \in Envelopes
           PROVE  SpentInv(b, f)'
      <4>1. CASE b # a
        BY <2>1, <3>7, <3>8, <4>1 DEF CarryInv, SpentInv, Late
      <4>2. CASE b = a /\ f # e
        <5>1. /\ seen'[b][f] \in {Absent, seen[b][f]}
              /\ seen'[b][f] = Absent /\ seen[b][f] # Absent => Late(f)
          BY <3>3, <3>5, <3>7, <4>2
        <5>2. carried'[b][f] = carried[b][f]
          BY <3>8, <4>2
        <5> QED
          BY <2>1, <5>1, <5>2 DEF CarryInv, SpentInv, Late
      <4>3. CASE b = a /\ f = e /\ fresh
        <5>1. seen'[b][f] = now /\ carried'[b][f] = 1
          BY <3>5, <3>7, <3>8, <4>3
        <5>2. minted[e].expires \in Nat /\ minted[e].expires <= now + Behind + Ttl /\ now \in Nat
          BY <1>t, <1>x, <2>1 DEF CarryInv, Dated, KeyTypes
        <5>3. minted[e].expires + Skew <= now + Memory
          BY <1>k, <5>2
        <5> QED
          BY <1>k, <2>1, <4>3, <5>1, <5>2, <5>3 DEF SpentInv
      <4>4. CASE b = a /\ f = e /\ ~fresh
        <5>1. seen'[b][f] = seen[b][f] /\ carried'[b][f] = carried[b][f]
          BY <3>5, <3>7, <3>8, <4>4
        <5> QED
          BY <2>1, <5>1 DEF CarryInv, SpentInv, Late
      <4> QED
        BY <4>1, <4>2, <4>3, <4>4
    <3> QED
      BY <3>9, <3>10 DEF CarryInv
  <2> QED
    BY <2>2, <2>3
<1>4. ASSUME NEW a \in Agents, Rotation!Restarts(a)
      PROVE  CarryInv'
  <2>1. /\ seen' = [seen EXCEPT ![a] = [e \in Envelopes |-> Absent]]
        /\ carried' = [carried EXCEPT ![a] = [e \in Envelopes |-> 0]]
        /\ UNCHANGED <<secret, previous, minted, now>>
    BY <1>4 DEF Rotation!Restarts
  <2>2. KeyTypes' /\ Dated'
    BY <1>t, <2>1 DEF CarryInv, KeyTypes, Dated
  <2>3. \A b \in Agents, e \in Envelopes :
          \/ seen'[b][e] = Absent /\ carried'[b][e] = 0
          \/ seen'[b][e] = seen[b][e] /\ carried'[b][e] = carried[b][e]
    BY <1>t, <2>1 DEF KeyTypes
  <2>4. ASSUME NEW b \in Agents, NEW e \in Envelopes
        PROVE  SpentInv(b, e)'
    BY <2>1, <2>3 DEF CarryInv, SpentInv, Late
  <2> QED
    BY <2>2, <2>4 DEF CarryInv
<1>5. CASE Rotation!Tick
  <2>1. now' = now + 1 /\ UNCHANGED <<secret, previous, minted, seen, carried>>
    BY <1>5 DEF Rotation!Tick
  <2>2. KeyTypes'
    BY <1>t, <2>1 DEF KeyTypes
  <2>3. Dated'
    BY <1>t, <1>k, <1>x, <2>1 DEF CarryInv, Dated, KeyTypes
  <2>4. \A e \in Envelopes : minted[e] # Absent /\ Late(e) => Late(e)'
    BY <1>t, <1>k, <1>x, <2>1 DEF Late, KeyTypes
  <2>5. ASSUME NEW a \in Agents, NEW e \in Envelopes
        PROVE  SpentInv(a, e)'
    BY <2>1, <2>4 DEF CarryInv, SpentInv
  <2> QED
    BY <2>2, <2>3, <2>5 DEF CarryInv
<1>6. CASE Rotation!SetSecrets \/ Rotation!RetirePrevious
  <2>1. /\ UNCHANGED <<minted, seen, carried, now>>
        /\ secret' \in Rotation!Keys /\ previous' \in Rotation!Keys \cup {Absent}
    BY <1>t, <1>6 DEF Rotation!SetSecrets, Rotation!RetirePrevious, Rotation!Keys, KeyTypes
  <2> QED
    BY <1>t, <2>1 DEF CarryInv, KeyTypes, Dated, SpentInv, Late
(* The rest neither mints, carries out, remembers nor lets time pass. *)
<1>7. CASE UNCHANGED <<secret, previous, minted, seen, carried, now>>
  BY <1>7 DEF CarryInv, KeyTypes, Dated, SpentInv, Late
<1>8. ASSUME \/ \E dry \in BOOLEAN : Rotation!SweepBegins(dry)
             \/ \E acc \in Accounts : Rotation!PresenceFails(acc) \/ Rotation!PresenceAnswers(acc)
             \/ Rotation!NoAnswer \/ Rotation!NextAccount
             \/ \E a \in Agents : Rotation!Enrol(a) \/ Rotation!Revoke(a) \/ Rotation!Connect(a)
             \/ UNCHANGED Rotation!keyVars
      PROVE  CarryInv'
  BY <1>7, <1>8 DEF Rotation!SweepBegins, Rotation!PresenceFails, Rotation!PresenceAnswers,
                    Rotation!NoAnswer, Rotation!NextAccount, Rotation!Enrol, Rotation!Revoke,
                    Rotation!Connect, Rotation!keyVars
<1> QED
  BY <1>2, <1>3, <1>4, <1>5, <1>6, <1>8 DEF Rotation!Next

(* The sweep. It only visits machines that enrolled once, which keep what  *)
(* they trust, and the answer it waits for is to the key of now.           *)
Job ==
  [at : {"idle", "accounts", "visit", "done"}, dry : BOOLEAN, accounts : SUBSET Accounts,
   ids : SUBSET Agents, waits : Envelopes \cup {Absent}, took : SUBSET Agents,
   failed : SUBSET Agents, offline : SUBSET Agents, truncated : BOOLEAN]

Enrolled == {a \in Agents : agent[a] # "none"}

TookInv ==
  /\ agent \in [Agents -> {"none", "active", "revoked"}]
  /\ trusted \in [Agents -> SUBSET Rotation!Keys]
  /\ job \in Job
  /\ job.ids \subseteq Enrolled /\ job.took \subseteq Enrolled
  /\ job.waits # Absent =>
       /\ minted[job.waits] # Absent /\ minted[job.waits].what = secret
       /\ minted[job.waits].to \in Enrolled
  /\ Rotation!TookMeansHeld

LEMMA TookStep ==
  ASSUME Rotation!KeysAssumption, KeyTypes, TookInv, [Rotation!Next]_(Rotation!keyVars)
  PROVE  TookInv'
<1>k. Absent \notin Envelopes /\ Absent \notin Rotation!Command /\ Owner \in [Agents -> Accounts]
  BY DEF Rotation!KeysAssumption
<1>i. Rotation!Idle \in Job /\ Rotation!Idle.took = {} /\ Rotation!Idle.ids = {}
      /\ Rotation!Idle.waits = Absent
  BY DEF Rotation!Idle, Job
(* A new report of the job, on a fleet that stays. *)
<1>j. ASSUME NEW j \in Job, job' = j, UNCHANGED <<secret, agent, trusted, minted>>,
             j.ids \subseteq Enrolled, j.took \subseteq Enrolled, j.waits \in {Absent, job.waits},
             ~j.dry => \A a \in j.took : secret \in trusted[a]
      PROVE  TookInv'
  BY <1>j DEF TookInv, Enrolled, Rotation!TookMeansHeld
(* The job as it is, or a fresh one, on a fleet that may have grown. *)
<1>f. ASSUME job' = job \/ job' = Rotation!Idle, secret' = secret \/ job' = Rotation!Idle,
             agent' \in [Agents -> {"none", "active", "revoked"}],
             trusted' \in [Agents -> SUBSET Rotation!Keys],
             \A a \in Enrolled : agent'[a] # "none" /\ trusted[a] \subseteq trusted'[a],
             job.waits # Absent => minted'[job.waits] = minted[job.waits]
      PROVE  TookInv'
  BY <1>i, <1>f DEF TookInv, Enrolled, Rotation!TookMeansHeld
<1>1. ASSUME NEW dry \in BOOLEAN, Rotation!SweepBegins(dry)
      PROVE  TookInv'
  <2> DEFINE active == {a \in Agents : agent[a] = "active"}
             long == Rotation!Cardinality(active) > MaxPerRun
  <2>1. PICK batch \in SUBSET active :
          job' = IF Rotation!RotationInProgress /\ batch # {}
                 THEN [Rotation!Idle EXCEPT !.at = "accounts", !.dry = dry, !.ids = batch,
                          !.accounts = {Owner[a] : a \in batch}, !.truncated = long]
                 ELSE [Rotation!Idle EXCEPT !.at = "done"]
    BY <1>1 DEF Rotation!SweepBegins
  <2>2. UNCHANGED <<secret, agent, trusted, minted>>
    BY <1>1 DEF Rotation!SweepBegins
  <2>3. batch \subseteq Enrolled /\ batch \subseteq Agents /\ {Owner[a] : a \in batch} \subseteq Accounts
    BY <1>k DEF Enrolled
  <2>4. job' \in Job /\ job'.took = {} /\ job'.ids \subseteq batch /\ job'.waits = Absent
    <3> DEFINE accs == {Owner[a] : a \in batch}
    <3>1. long \in BOOLEAN
      OBVIOUS
    <3>2. accs \subseteq Accounts
      BY <2>3
    <3>3. job' = IF Rotation!RotationInProgress /\ batch # {}
                 THEN [Rotation!Idle EXCEPT !.at = "accounts", !.dry = dry, !.ids = batch,
                          !.accounts = accs, !.truncated = long]
                 ELSE [Rotation!Idle EXCEPT !.at = "done"]
      BY <2>1
    <3> HIDE DEF accs, long
    <3>4. CASE Rotation!RotationInProgress /\ batch # {}
      <4>1. job' = [at |-> "accounts", dry |-> dry, accounts |-> accs, ids |-> batch, waits |-> Absent,
                    took |-> {}, failed |-> {}, offline |-> {}, truncated |-> long]
        BY <3>3, <3>4 DEF Rotation!Idle
      <4> QED
        BY <2>3, <3>1, <3>2, <4>1 DEF Job
    <3>5. CASE ~(Rotation!RotationInProgress /\ batch # {})
      <4>1. job' = [at |-> "done", dry |-> FALSE, accounts |-> {}, ids |-> {}, waits |-> Absent,
                    took |-> {}, failed |-> {}, offline |-> {}, truncated |-> FALSE]
        BY <3>3, <3>5 DEF Rotation!Idle
      <4> QED
        BY <4>1 DEF Job
    <3> QED
      BY <3>4, <3>5
  <2> QED
    BY <1>j, <2>2, <2>3, <2>4
<1>2. ASSUME NEW acc \in Accounts, Rotation!PresenceFails(acc)
      PROVE  TookInv'
  <2> DEFINE j == [job EXCEPT !.accounts = @ \ {acc}, !.ids = @ \ Rotation!Mine(acc)]
  <2>1. j \in Job /\ j.took = job.took /\ j.ids \subseteq job.ids /\ j.waits = job.waits
        /\ j.dry = job.dry
    BY DEF TookInv, Job
  <2>2. job' = j /\ UNCHANGED <<secret, agent, trusted, minted>>
    BY <1>2 DEF Rotation!PresenceFails
  <2> HIDE DEF j
  <2> QED
    BY <1>j, <2>1, <2>2 DEF TookInv, Rotation!TookMeansHeld
<1>3. ASSUME NEW acc \in Accounts, Rotation!PresenceAnswers(acc)
      PROVE  TookInv'
  <2> DEFINE away == Rotation!Mine(acc) \ online
             there == Rotation!Mine(acc) \cap online
             j == [job EXCEPT !.at = "visit", !.accounts = @ \ {acc}, !.offline = @ \cup away,
                              !.took = IF job.dry THEN @ \cup there ELSE @,
                              !.ids = @ \ (IF job.dry THEN Rotation!Mine(acc) ELSE away)]
  <2>1. away \subseteq job.ids /\ there \subseteq job.ids
    BY DEF Rotation!Mine
  <2>2. job' = j /\ UNCHANGED <<secret, agent, trusted, minted>>
    BY <1>3 DEF Rotation!PresenceAnswers
  <2> HIDE DEF away, there
  <2>3. /\ j \in Job /\ j.ids \subseteq job.ids /\ j.waits = job.waits /\ j.dry = job.dry
        /\ j.took = IF job.dry THEN job.took \cup there ELSE job.took
    BY <2>1 DEF TookInv, Job
  <2> HIDE DEF j
  <2> QED
    BY <1>j, <2>1, <2>2, <2>3 DEF TookInv, Rotation!TookMeansHeld
<1>4. ASSUME NEW a \in Agents, NEW e \in Envelopes, Rotation!DispatchCommand(e, a)
      PROVE  TookInv'
  <2>1. /\ minted[e] = Absent /\ \E m : minted' = [minted EXCEPT ![e] = m]
        /\ UNCHANGED <<secret, agent, trusted, job>>
    BY <1>4 DEF Rotation!DispatchCommand
  <2>2. job.waits # Absent => minted'[job.waits] = minted[job.waits]
    BY <2>1 DEF TookInv, KeyTypes, Job
  <2> QED
    BY <1>f, <2>1, <2>2 DEF TookInv, Enrolled
<1>5. ASSUME NEW a \in Agents, NEW e \in Envelopes, Rotation!Visit(a, e)
      PROVE  TookInv'
  <2> DEFINE j == [job EXCEPT !.waits = e]
             m == Rotation!SignRotation(a)
  <2>1. /\ a \in job.ids /\ minted[e] = Absent /\ job' = j /\ minted' = [minted EXCEPT ![e] = m]
        /\ UNCHANGED <<secret, agent, trusted>>
    BY <1>5 DEF Rotation!Visit, Rotation!Visited
  <2>2. /\ j \in Job /\ j.ids = job.ids /\ j.took = job.took /\ j.dry = job.dry
        /\ j.waits = e
    BY DEF TookInv, Job
  <2>3. m.to = a /\ m.what = secret /\ m \in Rotation!Command
    BY DEF Rotation!SignRotation, Rotation!Signed, Rotation!SigningKey, KeyTypes, Rotation!Command,
           Rotation!PreviousSigningKey, Rotation!KeysAssumption
  <2> HIDE DEF j, m
  <2>4. minted'[e] = m /\ m # Absent
    BY <1>k, <2>1, <2>3 DEF KeyTypes
  <2> QED
    BY <2>1, <2>2, <2>3, <2>4 DEF TookInv, Enrolled, Rotation!TookMeansHeld
(* The answer to a visit counts the machine it was sent to. *)
<1>c. ASSUME NEW a \in Enrolled, NEW ok \in BOOLEAN
      PROVE  /\ Rotation!Counts(a, ok) \in Job
             /\ Rotation!Counts(a, ok).waits = Absent
             /\ Rotation!Counts(a, ok).dry = job.dry
             /\ Rotation!Counts(a, ok).ids \subseteq Enrolled
             /\ Rotation!Counts(a, ok).took = IF ok THEN job.took \cup {a} ELSE job.took
  BY <1>c DEF Rotation!Counts, TookInv, Job, Enrolled
<1>6. CASE Rotation!NoAnswer
  <2>1. /\ job.waits # Absent /\ job' = Rotation!Counts(minted[job.waits].to, FALSE)
        /\ UNCHANGED <<secret, agent, trusted, minted>>
    BY <1>6 DEF Rotation!NoAnswer
  <2>2. minted[job.waits].to \in Enrolled
    BY <2>1 DEF TookInv
  <2> QED
    BY <1>c, <1>j, <2>1, <2>2 DEF TookInv, Rotation!TookMeansHeld
<1>7. CASE Rotation!NextAccount
  <2> DEFINE j == [job EXCEPT !.at = IF job.accounts = {} THEN "done" ELSE "accounts"]
  <2>1. j \in Job /\ j.took = job.took /\ j.ids = job.ids /\ j.waits = job.waits
        /\ j.dry = job.dry
    BY DEF TookInv, Job
  <2>2. job' = j /\ UNCHANGED <<secret, agent, trusted, minted>>
    BY <1>7 DEF Rotation!NextAccount
  <2> HIDE DEF j
  <2> QED
    BY <1>j, <2>1, <2>2 DEF TookInv, Rotation!TookMeansHeld
<1>8. ASSUME NEW a \in Agents, NEW e \in Envelopes, NEW saved \in BOOLEAN,
             Rotation!Arrives(e, a, saved)
      PROVE  TookInv'
  <2> DEFINE m == minted[e]
             runs == Rotation!Verifies(a, m) /\ Rotation!Remembered(a)[e] = Absent
             ok == runs /\ Rotation!Accepted(a, m, saved)
  <2>1. /\ m # Absent /\ m.to = a /\ UNCHANGED <<secret, agent, minted>>
        /\ IF runs /\ m.what # "order" THEN Rotation!RotateKey(a, m.what, saved) ELSE UNCHANGED trusted
        /\ \/ UNCHANGED job
           \/ job.waits = e /\ job' = Rotation!Counts(a, ok)
    BY <1>8 DEF Rotation!Arrives
  <2>2. m.what \in {"order"} \cup Rotation!Keys
    BY <2>1 DEF KeyTypes, Rotation!Command
  <2>3. /\ trusted' \in [Agents -> SUBSET Rotation!Keys]
        /\ \A b \in Agents : trusted[b] \subseteq trusted'[b]
        /\ runs /\ m.what # "order" /\ saved => m.what \in trusted'[a]
    BY <2>1, <2>2 DEF Rotation!RotateKey, TookInv
  <2>4. CASE UNCHANGED job
    BY <1>f, <2>1, <2>3, <2>4 DEF TookInv, Enrolled
  <2>5. CASE job.waits = e /\ job' = Rotation!Counts(a, ok)
    <3>1. m.what = secret /\ a \in Enrolled
      BY <1>k, <2>1, <2>5 DEF TookInv
    <3>2. secret # "order"
      BY DEF KeyTypes, Rotation!Keys
    <3>3. ok \in BOOLEAN
      OBVIOUS
    <3>4. ok => secret \in trusted'[a]
      BY <2>3, <3>1, <3>2 DEF Rotation!Accepted, Rotation!Verifies
    <3> HIDE DEF ok
    <3>5. /\ job' \in Job /\ job'.waits = Absent /\ job'.dry = job.dry
          /\ job'.ids \subseteq Enrolled
          /\ job'.took = IF ok THEN job.took \cup {a} ELSE job.took
      BY <1>c, <2>5, <3>1, <3>3
    <3>6. \A b \in Agents : secret \in trusted[b] => secret \in trusted'[b]
      BY <2>3
    <3>7. job.took \subseteq Agents
      BY DEF TookInv, Job
    <3>8. Rotation!TookMeansHeld'
      BY <2>1, <3>4, <3>5, <3>6, <3>7 DEF TookInv, Rotation!TookMeansHeld
    <3> QED
      BY <2>1, <2>3, <3>1, <3>5, <3>8 DEF TookInv, Enrolled
  <2> QED
    BY <2>1, <2>4, <2>5
<1>9. ASSUME NEW a \in Agents, Rotation!Enrol(a)
      PROVE  TookInv'
  <2>1. /\ agent[a] = "none" /\ agent' = [agent EXCEPT ![a] = "active"]
        /\ trusted' = [trusted EXCEPT ![a] = {secret} \ {Absent}]
        /\ UNCHANGED <<secret, minted, job>>
    BY <1>9 DEF Rotation!Enrol, Rotation!SigningKey
  <2>2. /\ agent' \in [Agents -> {"none", "active", "revoked"}]
        /\ trusted' \in [Agents -> SUBSET Rotation!Keys]
    BY <2>1 DEF TookInv, KeyTypes
  <2>3. \A b \in Enrolled : agent'[b] # "none" /\ trusted[b] \subseteq trusted'[b]
    BY <2>1 DEF TookInv, Enrolled
  <2> QED
    BY <1>f, <2>1, <2>2, <2>3
<1>10. ASSUME NEW a \in Agents, Rotation!Revoke(a)
       PROVE  TookInv'
  <2>1. /\ agent' = [agent EXCEPT ![a] = "revoked"]
        /\ UNCHANGED <<secret, trusted, minted, job>>
    BY <1>10 DEF Rotation!Revoke
  <2>2. agent' \in [Agents -> {"none", "active", "revoked"}]
        /\ \A b \in Enrolled : agent'[b] # "none"
    BY <2>1 DEF TookInv, Enrolled
  <2> QED
    BY <1>f, <2>1, <2>2 DEF TookInv
<1>11. CASE \/ \E a \in Agents : Rotation!Connect(a) \/ Rotation!Restarts(a)
            \/ Rotation!Tick \/ UNCHANGED Rotation!keyVars
  <2>1. UNCHANGED <<secret, agent, trusted, minted, job>>
    BY <1>11 DEF Rotation!Connect, Rotation!Restarts, Rotation!Tick, Rotation!keyVars
  <2> QED
    BY <1>f, <2>1 DEF TookInv, Enrolled
<1>12. CASE Rotation!SetSecrets \/ Rotation!RetirePrevious
  <2>1. job' = Rotation!Idle /\ UNCHANGED <<agent, trusted, minted>>
    BY <1>12 DEF Rotation!SetSecrets, Rotation!RetirePrevious
  <2> QED
    BY <1>f, <2>1 DEF TookInv, Enrolled
<1> QED
  BY <1>1, <1>2, <1>3, <1>4, <1>5, <1>6, <1>7, <1>8, <1>9, <1>10, <1>11, <1>12 DEF Rotation!Next

(* One run of a daemon carries a command out at most once however often    *)
(* the relay repeats it, because what it forgets has expired, and a        *)
(* machine a rotation counts as done holds the new key; for any fleet, any *)
(* number of commands and any clocks within the skew that command.go       *)
(* allows (command.go, lib/maintenance/rotate-keys.ts).                    *)
THEOREM CommandsRunOnce ==
  ASSUME Rotation!KeysAssumption
  PROVE  Rotation!Spec => []CommandsOnce
<1>1. Rotation!Init => CarryInv /\ TookInv
  <2> SUFFICES ASSUME Rotation!Init
               PROVE  CarryInv /\ TookInv
    OBVIOUS
  <2>1. KeyTypes
    BY DEF Rotation!Init, KeyTypes, Rotation!Keys
  <2>2. CarryInv
    BY <2>1 DEF Rotation!Init, CarryInv, Dated, SpentInv
  <2>3. Rotation!Idle \in Job /\ Rotation!Idle.took = {} /\ Rotation!Idle.ids = {}
        /\ Rotation!Idle.waits = Absent
    BY DEF Rotation!Idle, Job
  <2>4. TookInv
    BY <2>3 DEF Rotation!Init, TookInv, Rotation!TookMeansHeld
  <2> QED
    BY <2>2, <2>4
<1>2. CarryInv /\ TookInv /\ [Rotation!Next]_(Rotation!keyVars) => (CarryInv /\ TookInv)'
  BY CarryStep, TookStep DEF CarryInv
<1>3. CarryInv /\ TookInv => Rotation!CommandsOnce
  BY DEF CarryInv, KeyTypes, SpentInv, TookInv, Rotation!CommandsOnce, Rotation!CarriedOnce
<1> QED
  BY <1>1, <1>2, <1>3, PTL DEF Rotation!Spec, CommandsOnce

-------------------------------------------------------------------------------
(* How machines join an account, which takes time and is checked with the  *)
(* other promises that do (MCWeb); here its rows in every state.           *)
CONSTANTS Tokens, Keys, NoKey, MaxTokens
VARIABLES enrolment, agentKey, tombstones, claim, dialog
Joining == INSTANCE Enrolment WITH revoked <- tombstones

JoinInv ==
  /\ enrolment \in [Tokens -> {"none", "waiting", "expired", "used", "gone"}]
  /\ agentKey \in [Tokens -> Keys \cup {NoKey}]
  /\ claim \in [Tokens -> SUBSET Keys]
  /\ Joining!SpentOnSuccess

(* A token is spent exactly when a machine came of it, and a key has one   *)
(* row, for any number of machines that enrol, race for a token, present   *)
(* a key enrolled before, expire and are forgotten (agents/enroll).        *)
THEOREM TokensAreSpentOnSuccess ==
  ASSUME Joining!EnrolmentAssumption
  PROVE  Joining!Spec => []Joining!SpentOnSuccess
<1> USE DEF Joining!EnrolmentAssumption
<1>1. Joining!Init => JoinInv
  BY DEF Joining!Init, JoinInv, Joining!SpentOnSuccess
<1>2. JoinInv /\ [Joining!Next]_(Joining!enrolmentVars) => JoinInv'
  <2> SUFFICES ASSUME JoinInv, [Joining!Next]_(Joining!enrolmentVars)
               PROVE  JoinInv'
    OBVIOUS
  <2>f. /\ enrolment \in [Tokens -> {"none", "waiting", "expired", "used", "gone"}]
        /\ agentKey \in [Tokens -> Keys \cup {NoKey}]
        /\ claim \in [Tokens -> SUBSET Keys]
        /\ \A t \in Tokens : (enrolment[t] = "used") = (agentKey[t] # NoKey)
        /\ \A s, t \in Tokens : s # t /\ agentKey[s] # NoKey => agentKey[s] # agentKey[t]
    BY DEF JoinInv, Joining!SpentOnSuccess
  <2>1. ASSUME NEW t \in Tokens, NEW to \in {"waiting", "expired", "gone"},
               enrolment[t] # "used", enrolment' = [enrolment EXCEPT ![t] = to],
               UNCHANGED <<agentKey, claim>>
        PROVE  JoinInv'
    BY <2>f, <2>1 DEF JoinInv, Joining!SpentOnSuccess
  <2>2. ASSUME NEW t \in Tokens, Joining!AddMachine(t)
        PROVE  JoinInv'
    <3>1. /\ enrolment[t] # "used" /\ UNCHANGED <<agentKey, claim>>
          /\ \/ enrolment' = [enrolment EXCEPT ![t] = "waiting"]
             \/ UNCHANGED enrolment
      BY <2>2 DEF Joining!AddMachine
    <3>2. CASE enrolment' = [enrolment EXCEPT ![t] = "waiting"]
      BY <2>1, <3>1, <3>2
    <3>3. CASE UNCHANGED enrolment
      BY <2>f, <3>1, <3>3 DEF JoinInv, Joining!SpentOnSuccess
    <3> QED
      BY <3>1, <3>2, <3>3
  <2>3. ASSUME NEW t \in Tokens, Joining!Expire(t) \/ Joining!Prune(t)
        PROVE  JoinInv'
    BY <2>1, <2>3 DEF Joining!Expire, Joining!Prune
  <2>4. ASSUME NEW t \in Tokens, Joining!Forget(t)
        PROVE  JoinInv'
    <3>1. /\ enrolment' = [enrolment EXCEPT ![t] = "gone"]
          /\ agentKey' = [agentKey EXCEPT ![t] = NoKey]
          /\ UNCHANGED claim
      BY <2>4 DEF Joining!Forget
    <3> QED
      BY <2>f, <3>1 DEF JoinInv, Joining!SpentOnSuccess
  <2>5. ASSUME NEW t \in Tokens, NEW k \in Keys, Joining!Enrol(t, k)
        PROVE  JoinInv'
    <3>1. claim' = [claim EXCEPT ![t] = @ \ {k}]
      BY <2>5 DEF Joining!Enrol
    <3>2. claim' \in [Tokens -> SUBSET Keys]
      BY <2>f, <3>1
    <3>3. CASE UNCHANGED <<enrolment, agentKey>>
      BY <2>f, <3>2, <3>3 DEF JoinInv, Joining!SpentOnSuccess
    <3>4. CASE enrolment' = [enrolment EXCEPT ![t] = enrolment[t]] /\ UNCHANGED agentKey
      BY <2>f, <3>2, <3>4 DEF JoinInv, Joining!SpentOnSuccess
    <3>5. CASE /\ enrolment[t] \in {"waiting", "expired"}
               /\ ~\E s \in Tokens : agentKey[s] = k
               /\ enrolment' = [enrolment EXCEPT ![t] = "used"]
               /\ agentKey' = [agentKey EXCEPT ![t] = k]
      BY <2>f, <3>2, <3>5 DEF JoinInv, Joining!SpentOnSuccess
    <3> QED
      BY <2>5, <3>3, <3>4, <3>5 DEF Joining!Enrol, Joining!RolledBack
  <2>6. ASSUME NEW t \in Tokens, NEW k \in Keys, Joining!Present(t, k)
        PROVE  JoinInv'
    <3>1. claim' = [claim EXCEPT ![t] = @ \cup {k}] /\ UNCHANGED <<enrolment, agentKey>>
      BY <2>6 DEF Joining!Present
    <3>2. claim' \in [Tokens -> SUBSET Keys]
      BY <2>f, <3>1
    <3> QED
      BY <2>f, <3>1, <3>2 DEF JoinInv, Joining!SpentOnSuccess
  <2>7. CASE \/ \E t \in Tokens : Joining!Revoke(t)
             \/ Joining!Poll \/ Joining!CloseDialog \/ UNCHANGED Joining!enrolmentVars
    <3>1. UNCHANGED <<enrolment, agentKey, claim>>
      BY <2>7 DEF Joining!Revoke, Joining!Poll, Joining!CloseDialog, Joining!enrolmentVars
    <3> QED
      BY <2>f, <3>1 DEF JoinInv, Joining!SpentOnSuccess
  <2> QED
    BY <2>2, <2>3, <2>4, <2>5, <2>6, <2>7 DEF Joining!Next
<1>3. JoinInv => Joining!SpentOnSuccess
  BY DEF JoinInv
<1> QED
  BY <1>1, <1>2, <1>3, PTL DEF Joining!Spec

-------------------------------------------------------------------------------
(* A recording, its share links and their bytes. No row of a save is there *)
(* before its bytes are, a deletion is about rows there were, and what a   *)
(* row names the sweep has read as claimed or finds too new.               *)
CONSTANTS Links, Viewers, MaxViews, Ceiling
VARIABLES bucket, open, stored, object, saving, deleting, emptying, views, expired, viewing,
          served, sweep
Kept == INSTANCE Recordings WITH account <- open, revoking <- emptying

BytesTypes ==
  /\ bucket \in BOOLEAN /\ open \in BOOLEAN
  /\ stored \in [Kept!Bodies -> {"new", "row", "object", "null", "gone"}]
  /\ object \in [Kept!Bodies -> {"absent", "fresh", "old"}]
  /\ saving \in [Kept!Bodies -> {"idle", "row", "object"}]
  /\ deleting \in [on : BOOLEAN, left : SUBSET Kept!Bodies]
  /\ emptying \subseteq Links
  /\ sweep \in [on : BOOLEAN, claimed : SUBSET Kept!Bodies]

SavedInv ==
  \A k \in Kept!Bodies :
    /\ saving[k] # "idle" => stored[k] = "new"
    /\ open /\ saving[k] = "object" => object[k] = "fresh"
    /\ k \in deleting.left => stored[k] # "new"
    /\ sweep.on /\ stored[k] = "object" /\ object[k] = "old" => k \in sweep.claimed

(* In a bucket, what a revocation emptied has no bytes to be served.       *)
EmptiedInv ==
  bucket =>
    /\ \A k \in Kept!Bodies :
         stored[k] # "row" /\ saving[k] # "row" /\ (stored[k] = "null" => object[k] = "absent")
    /\ \A s \in emptying : stored[s] # "new" /\ object[s] = "absent"

GivenInv == bucket => \A v \in Viewers : viewing[v].at # "row"

BytesInv == BytesTypes /\ SavedInv /\ EmptiedInv

(* Every view that was counted was served, is under way, or is lost.       *)
Watching(s) == {v \in Viewers : viewing[v].of = s /\ viewing[v].at # "idle"}

ViewInv ==
  /\ views \in [Links -> 0..MaxViews] /\ served \in [Links -> Nat]
  /\ viewing \in [Viewers -> [of : Links \cup {"idle"}, at : {"idle", "row", "object"}]]
  /\ \A v \in Viewers : viewing[v] = Kept!NoView \/ (viewing[v].of \in Links /\ viewing[v].at # "idle")
  /\ \A s \in Links : IsFiniteSet(Watching(s)) /\ served[s] + Cardinality(Watching(s)) <= views[s]

LEMMA BytesStep ==
  ASSUME Kept!RecordingsAssumption, BytesInv, [Kept!Next]_(Kept!recordingVars)
  PROVE  BytesInv'
<1> USE DEF Kept!Idle
<1>f. BytesTypes /\ SavedInv /\ EmptiedInv
  BY DEF BytesInv
<1>b. Links \subseteq Kept!Bodies /\ "rec" \in Kept!Bodies
  BY DEF Kept!Bodies
<1>1. CASE Kept!Save
  BY <1>f, <1>b, <1>1
     DEF BytesInv, BytesTypes, SavedInv, EmptiedInv, Kept!Save
<1>2. ASSUME NEW s \in Links, Kept!Share(s)
     PROVE  BytesInv'
  BY <1>f, <1>b, <1>2
     DEF BytesInv, BytesTypes, SavedInv, EmptiedInv, Kept!Share, Kept!HasRow
<1>3. ASSUME NEW k \in Kept!Bodies, Kept!Insert(k)
     PROVE  BytesInv'
  BY <1>f, <1>b, <1>3
     DEF BytesInv, BytesTypes, SavedInv, EmptiedInv, Kept!Insert
<1>4. ASSUME NEW k \in Kept!Bodies, Kept!Discard(k)
     PROVE  BytesInv'
  BY <1>f, <1>b, <1>4
     DEF BytesInv, BytesTypes, SavedInv, EmptiedInv, Kept!Discard
<1>5. CASE Kept!DeleteBegins
  BY <1>f, <1>b, <1>5
     DEF BytesInv, BytesTypes, SavedInv, EmptiedInv, Kept!DeleteBegins, Kept!Doomed, Kept!Claimed
<1>6. ASSUME NEW k \in Kept!Bodies, Kept!DestroyNext(k)
     PROVE  BytesInv'
  <2>1. k \in deleting.left /\ UNCHANGED <<bucket, open, stored, saving, emptying, sweep>>
    BY <1>6 DEF Kept!DestroyNext
  <2>2. CASE /\ object' = [object EXCEPT ![k] = "absent"]
             /\ deleting' = [deleting EXCEPT !.left = @ \ {k}]
    <3>1. /\ deleting' \in [on : BOOLEAN, left : SUBSET Kept!Bodies]
          /\ deleting'.left \subseteq deleting.left
      BY <1>f, <2>2 DEF BytesTypes
    <3>2. stored[k] # "new"
      BY <1>f, <2>1 DEF BytesTypes, SavedInv
    <3> QED
      BY <1>f, <1>b, <2>1, <2>2, <3>1, <3>2 DEF BytesInv, BytesTypes, SavedInv, EmptiedInv
  <2>3. CASE deleting' = [on |-> FALSE, left |-> {}] /\ UNCHANGED object
    BY <1>f, <2>1, <2>3 DEF BytesInv, BytesTypes, SavedInv, EmptiedInv
  <2> QED
    BY <1>6, <2>2, <2>3 DEF Kept!DestroyNext
<1>7. CASE Kept!DeleteRow
  BY <1>f, <1>b, <1>7
     DEF BytesInv, BytesTypes, SavedInv, EmptiedInv, Kept!DeleteRow, Kept!Cascaded
<1>8. ASSUME NEW s \in Links, Kept!Revoke(s)
     PROVE  BytesInv'
  BY <1>f, <1>b, <1>8
     DEF BytesInv, BytesTypes, SavedInv, EmptiedInv, Kept!Revoke, Kept!Destroyed, Kept!Claimed, Kept!HasRow
<1>9. ASSUME NEW s \in Links, Kept!RevokeRow(s)
     PROVE  BytesInv'
  BY <1>f, <1>b, <1>9
     DEF BytesInv, BytesTypes, SavedInv, EmptiedInv, Kept!RevokeRow, Kept!HasRow
<1>10. CASE Kept!CloseAccount
  BY <1>f, <1>b, <1>10
     DEF BytesInv, BytesTypes, SavedInv, EmptiedInv, Kept!CloseAccount, Kept!Cascaded
<1>11. ASSUME NEW k \in Kept!Bodies, Kept!Age(k)
     PROVE  BytesInv'
  BY <1>f, <1>b, <1>11
     DEF BytesInv, BytesTypes, SavedInv, EmptiedInv, Kept!Age
<1>12. CASE Kept!SweepBegins
  BY <1>f, <1>b, <1>12
     DEF BytesInv, BytesTypes, SavedInv, EmptiedInv, Kept!SweepBegins, Kept!Claimed
<1>13. CASE Kept!SweepRemoves
  BY <1>f, <1>b, <1>13
     DEF BytesInv, BytesTypes, SavedInv, EmptiedInv, Kept!SweepRemoves, Kept!Swept
<1>14. CASE Kept!SweepFails
  BY <1>f, <1>b, <1>14
     DEF BytesInv, BytesTypes, SavedInv, EmptiedInv, Kept!SweepFails
<1>15. CASE \/ \E v \in Viewers : \/ Kept!Answer(v) \/ Kept!Refund(v)
                                \/ \E s \in Links : Kept!View(v, s)
            \/ \E s \in Links : Kept!ExpireLink(s)
            \/ UNCHANGED Kept!recordingVars
  <2>1. UNCHANGED <<bucket, open, stored, object, saving, deleting, emptying, sweep>>
    BY <1>15 DEF Kept!Answer, Kept!Refund, Kept!View, Kept!ExpireLink, Kept!recordingVars
  <2> QED
    BY <1>f, <2>1 DEF BytesInv, BytesTypes, SavedInv, EmptiedInv
<1> QED
  BY <1>1, <1>2, <1>3, <1>4, <1>5, <1>6, <1>7, <1>8, <1>9, <1>10, <1>11, <1>12, <1>13, <1>14, <1>15
     DEF Kept!Next

LEMMA ViewStep ==
  ASSUME Kept!RecordingsAssumption, ViewInv, [Kept!Next]_(Kept!recordingVars)
  PROVE  ViewInv'
<1> USE DEF Kept!Idle, Kept!NoView, Kept!RecordingsAssumption
<1> DEFINE Given == [of : Links \cup {"idle"}, at : {"idle", "row", "object"}]
<1>f. /\ views \in [Links -> 0..MaxViews] /\ served \in [Links -> Nat]
      /\ viewing \in [Viewers -> Given]
      /\ \A v \in Viewers : viewing[v] = Kept!NoView \/ (viewing[v].of \in Links /\ viewing[v].at # "idle")
      /\ \A s \in Links : /\ IsFiniteSet(Watching(s)) /\ Cardinality(Watching(s)) \in Nat
                          /\ served[s] + Cardinality(Watching(s)) <= views[s]
  BY FS_CardinalityType DEF ViewInv
<1>1. ASSUME NEW v \in Viewers, NEW s \in Links, Kept!View(v, s)
      PROVE  ViewInv'
  <2>1. /\ viewing[v] = Kept!NoView /\ stored[s] \in {"row", "object"} /\ views[s] < MaxViews
        /\ views' = [views EXCEPT ![s] = @ + 1]
        /\ viewing' = [viewing EXCEPT ![v] = [of |-> s, at |-> stored[s]]]
        /\ UNCHANGED served
    BY <1>1 DEF Kept!View, Kept!Admits
  <2>2. views' \in [Links -> 0..MaxViews] /\ viewing' \in [Viewers -> Given]
    BY <1>f, <2>1
  <2>3. v \notin Watching(s) /\ Watching(s)' = Watching(s) \cup {v}
    BY <1>f, <2>1 DEF Watching
  <2>4. \A r \in Links : r # s => Watching(r)' = Watching(r)
    BY <1>f, <2>1 DEF Watching
  <2>5. IsFiniteSet(Watching(s)') /\ Cardinality(Watching(s)') = Cardinality(Watching(s)) + 1
    BY <1>f, <2>3, FS_AddElement
  <2>6. \A r \in Links : r # s =>
          IsFiniteSet(Watching(r)') /\ served'[r] + Cardinality(Watching(r)') <= views'[r]
    BY <1>f, <2>1, <2>4
  <2>7. served'[s] + Cardinality(Watching(s)') <= views'[s]
    BY <1>f, <2>1, <2>5
  <2>8. \A w \in Viewers :
          viewing'[w] = Kept!NoView \/ (viewing'[w].of \in Links /\ viewing'[w].at # "idle")
    BY <1>f, <2>1
  <2> QED
    BY <1>f, <2>1, <2>2, <2>5, <2>6, <2>7, <2>8 DEF ViewInv
<1>2. ASSUME NEW v \in Viewers, NEW s \in Links, s = viewing[v].of,
             viewing[v] # Kept!NoView, viewing' = [viewing EXCEPT ![v] = Kept!NoView]
      PROVE  /\ viewing' \in [Viewers -> Given]
             /\ IsFiniteSet(Watching(s)') /\ Cardinality(Watching(s)') = Cardinality(Watching(s)) - 1
             /\ Cardinality(Watching(s)') \in Nat
             /\ \A r \in Links : r # s => Watching(r)' = Watching(r)
             /\ \A w \in Viewers :
                  viewing'[w] = Kept!NoView \/ (viewing'[w].of \in Links /\ viewing'[w].at # "idle")
  <2>1. viewing[v].at # "idle" /\ viewing' \in [Viewers -> Given]
    BY <1>f, <1>2
  <2>2. v \in Watching(s) /\ Watching(s)' = Watching(s) \ {v}
    BY <1>f, <1>2, <2>1 DEF Watching
  <2>3. \A r \in Links : r # s => Watching(r)' = Watching(r)
    BY <1>f, <1>2, <2>1 DEF Watching
  <2>4. IsFiniteSet(Watching(s)') /\ Cardinality(Watching(s)') = Cardinality(Watching(s)) - 1
    BY <1>f, <2>2, FS_RemoveElement
  <2> QED
    BY <1>f, <1>2, <2>1, <2>3, <2>4, FS_CardinalityType
<1>3. ASSUME NEW v \in Viewers, Kept!Answer(v)
      PROVE  ViewInv'
  <2>1. PICK s \in Links : /\ s = viewing[v].of /\ viewing[v] # Kept!NoView
                           /\ viewing' = [viewing EXCEPT ![v] = Kept!NoView]
                           /\ served' = [served EXCEPT ![s] = @ + 1] /\ UNCHANGED views
    BY <1>f, <1>3 DEF Kept!Answer
  <2>2. served' \in [Links -> Nat] /\ served'[s] = served[s] + 1
        /\ \A r \in Links : r # s => served'[r] = served[r]
    BY <1>f, <2>1
  <2>3. /\ IsFiniteSet(Watching(s)') /\ Cardinality(Watching(s)') = Cardinality(Watching(s)) - 1
        /\ \A r \in Links : r # s => Watching(r)' = Watching(r)
        /\ viewing' \in [Viewers -> Given]
        /\ \A w \in Viewers :
             viewing'[w] = Kept!NoView \/ (viewing'[w].of \in Links /\ viewing'[w].at # "idle")
    BY <1>2, <2>1
  <2>4. served'[s] + Cardinality(Watching(s)') <= views'[s]
    BY <1>f, <2>1, <2>2, <2>3
  <2>5. \A r \in Links : r # s =>
          IsFiniteSet(Watching(r)') /\ served'[r] + Cardinality(Watching(r)') <= views'[r]
    BY <1>f, <2>1, <2>2, <2>3
  <2> QED
    BY <1>f, <2>1, <2>2, <2>3, <2>4, <2>5 DEF ViewInv
<1>4. ASSUME NEW v \in Viewers, Kept!Refund(v)
      PROVE  ViewInv'
  <2>1. PICK s \in Links : /\ s = viewing[v].of /\ viewing[v] # Kept!NoView
                           /\ viewing' = [viewing EXCEPT ![v] = Kept!NoView]
                           /\ \/ views' = [views EXCEPT ![s] = IF @ > 0 THEN @ - 1 ELSE 0]
                              \/ UNCHANGED views
                           /\ UNCHANGED served
    BY <1>f, <1>4 DEF Kept!Refund
  <2>2. views' \in [Links -> 0..MaxViews] /\ views'[s] >= views[s] - 1
        /\ \A r \in Links : r # s => views'[r] = views[r]
    BY <1>f, <2>1
  <2>3. /\ IsFiniteSet(Watching(s)') /\ Cardinality(Watching(s)') = Cardinality(Watching(s)) - 1
        /\ \A r \in Links : r # s => Watching(r)' = Watching(r)
        /\ viewing' \in [Viewers -> Given]
        /\ \A w \in Viewers :
             viewing'[w] = Kept!NoView \/ (viewing'[w].of \in Links /\ viewing'[w].at # "idle")
    BY <1>2, <2>1
  <2>4. served'[s] + Cardinality(Watching(s)') <= views'[s]
    BY <1>f, <2>1, <2>2, <2>3
  <2>5. \A r \in Links : r # s =>
          IsFiniteSet(Watching(r)') /\ served'[r] + Cardinality(Watching(r)') <= views'[r]
    BY <1>f, <2>1, <2>2, <2>3
  <2> QED
    BY <1>f, <2>1, <2>2, <2>3, <2>4, <2>5 DEF ViewInv
<1>5. CASE UNCHANGED <<views, viewing, served>>
  BY <1>f, <1>5 DEF ViewInv, Watching
<1>6. \/ UNCHANGED <<views, viewing, served>>
      \/ \E v \in Viewers : \/ Kept!Answer(v) \/ Kept!Refund(v)
                            \/ \E s \in Links : Kept!View(v, s)
  BY DEF Kept!Next, Kept!recordingVars, Kept!Save, Kept!DeleteBegins, Kept!DeleteRow,
         Kept!CloseAccount, Kept!SweepBegins, Kept!SweepRemoves, Kept!SweepFails, Kept!Insert,
         Kept!Discard, Kept!DestroyNext, Kept!Age, Kept!Share, Kept!Revoke, Kept!RevokeRow,
         Kept!ExpireLink
<1> QED
  BY <1>1, <1>3, <1>4, <1>5, <1>6

(* In a bucket nobody was given bytes with the row.                        *)
LEMMA GivenStep ==
  ASSUME BytesInv, ViewInv, GivenInv, [Kept!Next]_(Kept!recordingVars)
  PROVE  GivenInv'
<1>f. viewing \in [Viewers -> [of : Links \cup {"idle"}, at : {"idle", "row", "object"}]]
  BY DEF ViewInv
<1>1. CASE UNCHANGED <<bucket, viewing>>
  BY <1>1 DEF GivenInv
<1>2. ASSUME NEW v \in Viewers, Kept!Answer(v) \/ Kept!Refund(v)
      PROVE  GivenInv'
  <2>1. viewing' = [viewing EXCEPT ![v] = Kept!NoView] /\ UNCHANGED bucket
    BY <1>2 DEF Kept!Answer, Kept!Refund
  <2> QED
    BY <1>f, <2>1 DEF GivenInv, Kept!NoView, Kept!Idle
<1>3. ASSUME NEW v \in Viewers, NEW s \in Links, Kept!View(v, s)
      PROVE  GivenInv'
  <2>1. viewing' = [viewing EXCEPT ![v] = [of |-> s, at |-> stored[s]]] /\ UNCHANGED bucket
    BY <1>3 DEF Kept!View
  <2>2. bucket => stored[s] # "row"
    BY DEF BytesInv, EmptiedInv, Kept!Bodies
  <2> QED
    BY <1>f, <2>1, <2>2 DEF GivenInv
<1>4. \/ UNCHANGED <<bucket, viewing>>
      \/ \E v \in Viewers : \/ Kept!Answer(v) \/ Kept!Refund(v)
                            \/ \E s \in Links : Kept!View(v, s)
  BY DEF Kept!Next, Kept!recordingVars, Kept!Save, Kept!DeleteBegins, Kept!DeleteRow,
         Kept!CloseAccount, Kept!SweepBegins, Kept!SweepRemoves, Kept!SweepFails, Kept!Insert,
         Kept!Discard, Kept!DestroyNext, Kept!Age, Kept!Share, Kept!Revoke, Kept!RevokeRow,
         Kept!ExpireLink
<1> QED
  BY <1>1, <1>2, <1>3, <1>4

LEMMA RecordingsInductive ==
  ASSUME Kept!RecordingsAssumption
  PROVE  Kept!Spec => [](BytesInv /\ ViewInv /\ GivenInv)
<1>1. Kept!Init => BytesInv /\ ViewInv /\ GivenInv
  <2> SUFFICES ASSUME Kept!Init
               PROVE  BytesInv /\ ViewInv /\ GivenInv
    OBVIOUS
  <2> USE DEF Kept!Init, Kept!Idle, Kept!NoView
  <2>1. BytesInv
    BY DEF BytesInv, BytesTypes, SavedInv, EmptiedInv
  <2>2. \A s \in Links : Watching(s) = {}
    BY DEF Watching
  <2>3. \A s \in Links :
          /\ IsFiniteSet(Watching(s)) /\ views[s] = 0 /\ served[s] = 0
          /\ Cardinality(Watching(s)) = 0
    BY <2>2, FS_EmptySet
  <2>4. /\ views \in [Links -> 0..MaxViews] /\ served \in [Links -> Nat]
        /\ viewing \in [Viewers -> [of : Links \cup {"idle"}, at : {"idle", "row", "object"}]]
        /\ \A v \in Viewers : viewing[v] = Kept!NoView
    BY DEF Kept!RecordingsAssumption
  <2>5. ViewInv
    BY <2>3, <2>4 DEF ViewInv
  <2> QED
    BY <2>1, <2>5 DEF GivenInv
<1>2. BytesInv /\ ViewInv /\ GivenInv /\ [Kept!Next]_(Kept!recordingVars)
        => (BytesInv /\ ViewInv /\ GivenInv)'
  BY BytesStep, ViewStep, GivenStep
<1> QED
  BY <1>1, <1>2, PTL DEF Kept!Spec

(* A saved body stays readable until its owner asks for it to be           *)
(* destroyed, whatever number of links, saves, revocations and deletions   *)
(* go on while the sweep runs, and whichever of them the bucket fails      *)
(* (lib/maintenance/objects.ts, lib/recording/blobs.ts).                   *)
THEOREM SavedBodiesStayReadable ==
  ASSUME Kept!RecordingsAssumption
  PROVE  Kept!Spec => Kept!SavedStaysReadable
<1> DEFINE Stays ==
      \A k \in Kept!Bodies : stored'[k] = "object" /\ object'[k] = "absent" =>
        /\ stored[k] = "object"
        /\ object[k] = "absent" \/ k \in deleting.left \/ k \in emptying'
<1>1. BytesInv /\ [Kept!Next]_(Kept!recordingVars) => [Stays]_(Kept!recordingVars)
  <2> SUFFICES ASSUME BytesInv, Kept!Next, NEW k \in Kept!Bodies,
                      stored'[k] = "object", object'[k] = "absent"
               PROVE  /\ stored[k] = "object"
                      /\ object[k] = "absent" \/ k \in deleting.left \/ k \in emptying'
    OBVIOUS
  <2> USE DEF Kept!Idle
  <2>f. BytesTypes /\ SavedInv
    BY DEF BytesInv
  <2>1. CASE UNCHANGED <<stored, object>>
    BY <2>1
  <2>2. CASE Kept!Save
    BY <2>f, <2>2 DEF Kept!Save, BytesTypes, SavedInv
  <2>3. ASSUME NEW s \in Links, Kept!Share(s)
        PROVE  stored[k] = "object" /\ object[k] = "absent"
    BY <2>f, <2>3 DEF Kept!Share, BytesTypes, SavedInv
  <2>4. ASSUME NEW j \in Kept!Bodies, Kept!Insert(j)
        PROVE  stored[k] = "object" /\ object[k] = "absent"
    BY <2>f, <2>4 DEF Kept!Insert, BytesTypes, SavedInv
  <2>5. ASSUME NEW j \in Kept!Bodies, Kept!Discard(j)
        PROVE  stored[k] = "object" /\ object[k] = "absent"
    BY <2>f, <2>5 DEF Kept!Discard, BytesTypes, SavedInv
  <2>6. ASSUME NEW j \in Kept!Bodies, Kept!DestroyNext(j)
        PROVE  stored[k] = "object" /\ (object[k] = "absent" \/ k \in deleting.left)
    BY <2>f, <2>6 DEF Kept!DestroyNext, BytesTypes
  <2>7. CASE Kept!DeleteRow \/ Kept!CloseAccount
    BY <2>f, <2>7 DEF Kept!DeleteRow, Kept!CloseAccount, Kept!Cascaded, BytesTypes
  <2>8. ASSUME NEW s \in Links, Kept!Revoke(s)
        PROVE  stored[k] = "object" /\ (object[k] = "absent" \/ k \in emptying')
    BY <2>f, <2>8 DEF Kept!Revoke, Kept!Destroyed, BytesTypes
  <2>9. ASSUME NEW s \in Links, Kept!RevokeRow(s)
        PROVE  stored[k] = "object" /\ object[k] = "absent"
    BY <2>f, <2>9 DEF Kept!RevokeRow, BytesTypes
  <2>10. ASSUME NEW j \in Kept!Bodies, Kept!Age(j)
         PROVE  stored[k] = "object" /\ object[k] = "absent"
    BY <2>f, <2>10 DEF Kept!Age, BytesTypes
  <2>11. CASE Kept!SweepRemoves
    BY <2>f, <2>11 DEF Kept!SweepRemoves, Kept!Swept, BytesTypes, SavedInv
  <2> QED
    BY <2>1, <2>2, <2>3, <2>4, <2>5, <2>6, <2>7, <2>8, <2>9, <2>10, <2>11
       DEF Kept!Next, Kept!DeleteBegins, Kept!SweepBegins, Kept!SweepFails, Kept!ExpireLink,
           Kept!Answer, Kept!Refund, Kept!View
<1> QED
  BY <1>1, RecordingsInductive, PTL DEF Kept!Spec, Kept!SavedStaysReadable

(* A link is served at most as often as its limit says, for any number of  *)
(* requests at once and any refunds, and an emptied one in a bucket is not *)
(* served even to a request let in before (api/shares/[token]).            *)
THEOREM LinksHoldAtTheServer ==
  ASSUME Kept!RecordingsAssumption
  PROVE  Kept!Spec => Kept!LinkHolds
<1> DEFINE Holds ==
      \A s \in Links : served'[s] # served[s] =>
        served[s] < MaxViews /\ (bucket => stored[s] # "null")
<1>1. BytesInv /\ ViewInv /\ GivenInv /\ [Kept!Next]_(Kept!recordingVars)
        => [Holds]_(Kept!recordingVars)
  <2> SUFFICES ASSUME BytesInv, ViewInv, GivenInv, Kept!Next, NEW s \in Links,
                      served'[s] # served[s]
               PROVE  served[s] < MaxViews /\ (bucket => stored[s] # "null")
    OBVIOUS
  <2>1. PICK v \in Viewers : Kept!Answer(v)
    BY DEF Kept!Next, Kept!Save, Kept!DeleteBegins, Kept!DeleteRow,
           Kept!CloseAccount, Kept!SweepBegins, Kept!SweepRemoves, Kept!SweepFails, Kept!Insert,
           Kept!Discard, Kept!DestroyNext, Kept!Age, Kept!Share, Kept!Revoke, Kept!RevokeRow,
           Kept!ExpireLink, Kept!Refund, Kept!View
  <2>2. viewing[v].of = s /\ viewing[v] # Kept!NoView /\ Kept!Readable(v)
    BY <2>1 DEF Kept!Answer, ViewInv
  <2>3. viewing[v].at # "idle"
    BY <2>2 DEF ViewInv
  <2>4. v \in Watching(s) /\ IsFiniteSet(Watching(s))
    BY <2>2, <2>3 DEF Watching, ViewInv
  <2>5. Cardinality(Watching(s)) \in Nat /\ Cardinality(Watching(s)) # 0
    BY <2>4, FS_CardinalityType, FS_EmptySet
  <2>6. views[s] \in 0..MaxViews /\ served[s] \in Nat
        /\ served[s] + Cardinality(Watching(s)) <= views[s]
    BY DEF ViewInv
  <2>7. served[s] < MaxViews
    BY <2>5, <2>6 DEF Kept!RecordingsAssumption
  <2>8. ASSUME bucket
        PROVE  stored[s] # "null"
    <3>1. object[s] # "absent"
      BY <2>2, <2>8 DEF Kept!Readable, GivenInv
    <3> QED
      BY <2>8, <3>1 DEF BytesInv, EmptiedInv, Kept!Bodies
  <2> QED
    BY <2>7, <2>8
<1> QED
  BY <1>1, RecordingsInductive, PTL DEF Kept!Spec, Kept!LinkHolds

-------------------------------------------------------------------------------
(* The daemon on a machine. A name that the supervisor may start has no    *)
(* loop, because a reconcile lists what it starts from the directory as it *)
(* is, and a stopped name comes back only when its loop has ended.         *)
CONSTANTS Names, Loops, MaxSessions
VARIABLES file, marker, up, running, live, rejected, loop, grace, recon, restart
Daemon == INSTANCE Agent WITH None <- Absent, Overlap <- FALSE

LoopTypes ==
  /\ file \subseteq Names /\ marker \subseteq Names /\ grace \subseteq Loops
  /\ running \in [Names -> Loops \cup {Absent}]
  /\ loop \in [Loops -> [of : Names \cup {Absent}, sessions : Nat,
                        state : {"none", "on", "updating", "leaving", "cancelled", "refused"}]]
  /\ recon \in [step : {"none", "read", "start"}, want : SUBSET Names, starts : SUBSET Names]

LoopInv ==
  /\ \A l \in Loops : loop[l].state # "none" => loop[l].of # Absent
  /\ \A n \in Names : running[n] # Absent => loop[running[n]].of = n
  /\ \A l, m \in Loops : loop[l].of = loop[m].of /\ loop[l].of # Absent => l = m
  /\ \A n \in file \ marker, l \in Loops : running[n] = Absent => loop[l].of # n
  /\ recon.step # "none" => recon.want = file \ marker
  /\ recon.step = "start" => \A n \in recon.starts : n \in recon.want /\ running[n] = Absent
  /\ \A l \in Loops :
       loop[l].state \in {"on", "updating"} => running[loop[l].of] = l \/ l \in grace

LEMMA LoopStep ==
  ASSUME Daemon!AgentAssumption, LoopTypes, LoopInv, [Daemon!Next]_(Daemon!agentVars)
  PROVE  LoopTypes' /\ LoopInv'
<1> USE DEF Daemon!AgentAssumption
<1>f. LoopTypes /\ LoopInv
  OBVIOUS
<1>n. /\ Daemon!NoLoop = [of |-> Absent, state |-> "none", sessions |-> 0]
      /\ Daemon!NoRecon = [step |-> "none", want |-> {}, starts |-> {}]
      /\ Daemon!Nobody = [n \in Names |-> Absent]
      /\ Absent \notin Names /\ Absent \notin Loops
  BY DEF Daemon!NoLoop, Daemon!NoRecon, Daemon!Nobody
<1>1. ASSUME NEW n \in Names, Daemon!Enrol(n) \/ Daemon!StartIdentity(n)
      PROVE  LoopTypes' /\ LoopInv'
  <2>1. /\ \A l \in Loops : loop[l].of # n
        /\ recon.step = "none"
        /\ file' \subseteq file \cup {n} /\ marker' = marker \ {n}
        /\ UNCHANGED <<running, loop, grace, recon>>
    BY <1>1, <1>n DEF Daemon!Enrol, Daemon!StartIdentity, Daemon!Again, Daemon!Of
  <2> QED
    BY <1>f, <2>1 DEF LoopTypes, LoopInv
<1>2. ASSUME NEW n \in Names, Daemon!Remove(n) \/ Daemon!StopIdentity(n)
      PROVE  LoopTypes' /\ LoopInv'
  <2>1. /\ recon.step = "none" /\ file' \subseteq Names /\ marker' \subseteq Names
        /\ file' \ marker' \subseteq file \ marker
        /\ UNCHANGED <<running, loop, grace, recon>>
    BY <1>f, <1>2, <1>n DEF Daemon!Remove, Daemon!StopIdentity, LoopTypes
  <2> QED
    BY <1>f, <2>1 DEF LoopTypes, LoopInv
<1>3. CASE Daemon!Reads
  <2>1. /\ recon' = [step |-> "read", want |-> file \ marker, starts |-> {}]
        /\ UNCHANGED <<file, marker, running, loop, grace>>
    BY <1>3, <1>n DEF Daemon!Reads, Daemon!Desired, Daemon!disk
  <2> QED
    BY <1>f, <2>1 DEF LoopTypes, LoopInv
<1>4. CASE Daemon!Applies
  <2>1. /\ recon.step = "read" /\ UNCHANGED <<file, marker, grace>>
        /\ running' = [n \in Names |-> IF n \in recon.want THEN running[n] ELSE Absent]
        /\ recon'.step = "start" /\ recon'.want = recon.want
        /\ \A n \in recon'.starts : n \in recon.want /\ running[n] = Absent
        /\ recon' \in [step : {"none", "read", "start"}, want : SUBSET Names, starts : SUBSET Names]
    BY <1>f, <1>4 DEF Daemon!Applies, Daemon!Forgets, Daemon!disk, LoopTypes
  <2>2. /\ loop' \in [Loops -> [of : Names \cup {Absent}, sessions : Nat,
                        state : {"none", "on", "updating", "leaving", "cancelled", "refused"}]]
        /\ \A l \in Loops : /\ loop'[l].of = loop[l].of
                            /\ loop'[l].state # "none" => loop[l].state # "none"
                            /\ loop'[l].state \in {"on", "updating"} => loop'[l] = loop[l]
    BY <1>f, <1>4 DEF Daemon!Applies, Daemon!Cancelled, LoopTypes
  <2>3. ASSUME NEW l \in Loops, loop'[l].state \in {"on", "updating"}, l \notin grace
        PROVE  running'[loop'[l].of] = l
    <3>1. loop[l].of \in Names /\ running[loop[l].of] = l
      BY <1>f, <2>2, <2>3 DEF LoopTypes, LoopInv
    <3>2. l \notin {running[n] : n \in Names \ recon.want}
      BY <1>f, <1>4, <2>2, <2>3 DEF Daemon!Applies, Daemon!Cancelled, LoopTypes, LoopInv
    <3> QED
      BY <2>1, <2>2, <3>1, <3>2
  <2>4. running' \in [Names -> Loops \cup {Absent}]
    BY <1>f, <2>1 DEF LoopTypes
  <2>5. LoopTypes'
    BY <1>f, <2>1, <2>2, <2>4 DEF LoopTypes
  <2>6. ASSUME NEW n \in file \ marker, NEW l \in Loops, running'[n] = Absent
        PROVE  loop'[l].of # n
    <3>1. running[n] = Absent \/ n \notin recon.want
      BY <1>f, <2>1, <2>6 DEF LoopTypes
    <3> QED
      BY <1>f, <2>1, <2>2, <2>6, <3>1 DEF LoopInv
  <2> QED
    BY <1>f, <2>1, <2>2, <2>3, <2>5, <2>6 DEF LoopTypes, LoopInv
<1>5. ASSUME NEW n \in Names, NEW l \in Loops, Daemon!Starts(n, l)
      PROVE  LoopTypes' /\ LoopInv'
  <2> DEFINE new == [Daemon!NoLoop EXCEPT !.of = n, !.state = "on"]
  <2>0. /\ new \in [of : Names \cup {Absent}, sessions : Nat,
                   state : {"none", "on", "updating", "leaving", "cancelled", "refused"}]
        /\ new.of = n
    BY DEF Daemon!NoLoop
  <2>1. /\ recon.step = "start" /\ n \in recon.starts /\ loop[l].of = Absent
        /\ loop' = [loop EXCEPT ![l] = new] /\ running' = [running EXCEPT ![n] = l]
        /\ recon' = [recon EXCEPT !.starts = @ \ {n}]
        /\ UNCHANGED <<file, marker, grace>>
    BY <1>5, <1>n DEF Daemon!Starts, Daemon!disk
  <2> HIDE DEF new
  <2>2. \A m \in Loops : loop[m].of # n
    BY <1>f, <2>1 DEF LoopTypes, LoopInv
  <2>3. \A m \in Names : running[m] # l
    BY <1>f, <1>n, <2>1 DEF LoopTypes, LoopInv
  <2>4. /\ recon' \in [step : {"none", "read", "start"}, want : SUBSET Names, starts : SUBSET Names]
        /\ recon'.step = "start" /\ recon'.want = recon.want /\ recon'.starts = recon.starts \ {n}
    BY <1>f, <2>1 DEF LoopTypes
  <2>5. LoopTypes'
    BY <1>f, <2>0, <2>1, <2>4 DEF LoopTypes
  <2> QED
    BY <1>f, <1>n, <2>0, <2>1, <2>2, <2>3, <2>4, <2>5 DEF LoopTypes, LoopInv
<1>6. ASSUME NEW n \in Names, Daemon!Skips(n)
      PROVE  LoopTypes' /\ LoopInv'
  <2>1. /\ recon' = [recon EXCEPT !.starts = @ \ {n}] /\ recon.step = "start"
        /\ UNCHANGED <<file, marker, running, loop, grace>>
    BY <1>6 DEF Daemon!Skips, Daemon!disk
  <2>2. /\ recon' \in [step : {"none", "read", "start"}, want : SUBSET Names, starts : SUBSET Names]
        /\ recon'.step = "start" /\ recon'.want = recon.want /\ recon'.starts \subseteq recon.starts
    BY <1>f, <2>1 DEF LoopTypes
  <2> QED
    BY <1>f, <2>1, <2>2 DEF LoopTypes, LoopInv
<1>7. CASE Daemon!Settles
  <2>1. recon' = Daemon!NoRecon /\ UNCHANGED <<file, marker, running, loop, grace>>
    BY <1>7 DEF Daemon!Settles, Daemon!disk
  <2> QED
    BY <1>f, <1>n, <2>1 DEF LoopTypes, LoopInv
<1>8. CASE Daemon!Boot \/ Daemon!Reexec
  <2>1. /\ running' = Daemon!Nobody /\ loop' = [l \in Loops |-> Daemon!NoLoop] /\ grace' = {}
        /\ recon' \in {recon, Daemon!NoRecon} /\ UNCHANGED <<file, marker>>
    BY <1>8 DEF Daemon!Boot, Daemon!Reexec, Daemon!disk
  <2> QED
    BY <1>f, <1>n, <2>1 DEF LoopTypes, LoopInv
<1>9. ASSUME NEW l \in Loops, Daemon!Ends(l)
      PROVE  LoopTypes' /\ LoopInv'
  <2> DEFINE n == loop[l].of
  <2>1. /\ loop[l].state \in {"cancelled", "refused"}
        /\ running' = [running EXCEPT ![n] = Absent]
        /\ loop' = [loop EXCEPT ![l] = Daemon!NoLoop] /\ grace' = grace \ {l}
        /\ UNCHANGED <<file, marker, recon>>
    BY <1>9 DEF Daemon!Ends, Daemon!disk
  <2>2. n \in Names
    BY <1>f, <2>1 DEF LoopTypes, LoopInv
  <2>3. LoopTypes'
    BY <1>f, <1>n, <2>1 DEF LoopTypes
  <2>4. \A m \in Loops : m # l => loop[m].of # n
    BY <1>f, <2>2 DEF LoopTypes, LoopInv
  <2>5. \A m \in Names : m # n => running[m] # l
    BY <1>f, <1>n DEF LoopTypes, LoopInv
  <2> QED
    BY <1>f, <1>n, <2>1, <2>2, <2>3, <2>4, <2>5 DEF LoopTypes, LoopInv
<1>10. ASSUME NEW l \in Loops, Daemon!CommandStop(l) \/ Daemon!CommandRevoke(l)
       PROVE  LoopTypes' /\ LoopInv'
  <2>0. PICK n \in Names : n = loop[l].of
    BY <1>f, <1>10 DEF Daemon!CommandStop, Daemon!CommandRevoke, LoopTypes, LoopInv
  <2>1. /\ loop[l].state = "on" /\ recon.step = "none"
        /\ file' \subseteq file /\ marker' \subseteq marker \cup {n}
        /\ file' \ marker' \subseteq (file \ marker) \ {n}
        /\ running' = [running EXCEPT ![n] = Absent]
        /\ grace' = grace \cup ({running[n]} \ {Absent})
        /\ UNCHANGED <<loop, recon>>
    BY <1>10, <1>n, <2>0 DEF Daemon!CommandStop, Daemon!CommandRevoke, Daemon!Stops
  <2> QED
    BY <1>f, <1>n, <2>0, <2>1 DEF LoopTypes, LoopInv
<1>11. ASSUME NEW l \in Loops, Daemon!GraceEnds(l)
       PROVE  LoopTypes' /\ LoopInv'
  <2>1. grace' = grace \ {l} /\ UNCHANGED <<file, marker, running, recon>>
    BY <1>11 DEF Daemon!GraceEnds, Daemon!disk
  <2>2. /\ loop' \in [Loops -> [of : Names \cup {Absent}, sessions : Nat,
                        state : {"none", "on", "updating", "leaving", "cancelled", "refused"}]]
        /\ \A m \in Loops : /\ loop'[m].of = loop[m].of
                            /\ loop'[m].state # "none" => loop[m].state # "none"
                            /\ loop'[m].state \in {"on", "updating"} => loop'[m] = loop[m] /\ m # l
    BY <1>f, <1>11 DEF Daemon!GraceEnds, Daemon!Cancelled, LoopTypes, LoopInv
  <2> QED
    BY <1>f, <2>1, <2>2 DEF LoopTypes, LoopInv
<1>12. ASSUME NEW l \in Loops,
              \/ Daemon!OpenStream(l) \/ Daemon!CloseStream(l) \/ Daemon!Refused(l)
              \/ Daemon!CommandUpgrade(l) \/ Daemon!Updated(l)
       PROVE  LoopTypes' /\ LoopInv'
  <2>1. UNCHANGED <<file, marker, running, grace, recon>>
    BY <1>12 DEF Daemon!OpenStream, Daemon!CloseStream, Daemon!Refused, Daemon!CommandUpgrade,
                 Daemon!Updated, Daemon!disk
  <2>2. /\ loop' \in [Loops -> [of : Names \cup {Absent}, sessions : Nat,
                        state : {"none", "on", "updating", "leaving", "cancelled", "refused"}]]
        /\ \A m \in Loops : /\ loop'[m].of = loop[m].of
                            /\ loop'[m].state # "none" => loop[m].state # "none" \/ m = l
                            /\ loop'[m].state \in {"on", "updating"} => loop[m].state \in {"on", "updating"}
    <3> USE <1>f DEF LoopTypes
    <3>1. CASE Daemon!OpenStream(l)
      BY <3>1 DEF Daemon!OpenStream
    <3>2. CASE Daemon!CloseStream(l)
      BY <3>2 DEF Daemon!CloseStream
    <3>3. CASE Daemon!Refused(l)
      BY <3>3 DEF Daemon!Refused
    <3>4. CASE Daemon!CommandUpgrade(l)
      BY <3>4 DEF Daemon!CommandUpgrade
    <3>5. CASE Daemon!Updated(l)
      BY <3>5 DEF Daemon!Updated
    <3> QED
      BY <1>12, <3>1, <3>2, <3>3, <3>4, <3>5
  <2>3. loop'[l].state # "none" => loop[l].state # "none"
    <3> USE <1>f DEF LoopTypes
    <3>1. CASE Daemon!OpenStream(l)
      BY <3>1 DEF Daemon!OpenStream, Daemon!Active
    <3>2. CASE Daemon!CloseStream(l)
      BY <3>2 DEF Daemon!CloseStream
    <3>3. CASE Daemon!Refused(l) \/ Daemon!CommandUpgrade(l) \/ Daemon!Updated(l)
      BY <3>3 DEF Daemon!Refused, Daemon!CommandUpgrade, Daemon!Updated
    <3> QED
      BY <1>12, <3>1, <3>2, <3>3
  <2> QED
    BY <1>f, <2>1, <2>2, <2>3 DEF LoopTypes, LoopInv
<1>13. CASE (\E l \in Loops : Daemon!CommandRestart(l)) \/ UNCHANGED Daemon!agentVars
  <2>1. UNCHANGED <<file, marker, running, loop, grace, recon>>
    BY <1>13 DEF Daemon!CommandRestart, Daemon!agentVars, Daemon!disk
  <2> QED
    BY <1>f, <2>1 DEF LoopTypes, LoopInv
<1> QED
  BY <1>1, <1>2, <1>3, <1>4, <1>5, <1>6, <1>7, <1>8, <1>9, <1>10, <1>11, <1>12, <1>13
     DEF Daemon!Next, Daemon!Supervise, Daemon!Finish

(* An identity has one loop at a time and the supervisor can stop it, for  *)
(* any number of identities, however commands, refusals, upgrades and the  *)
(* process's own ends interleave - when no stop falls inside a reconcile   *)
(* and no start comes before the old loop has ended (identity.go, run.go). *)
THEOREM OneLoopAlways ==
  ASSUME Daemon!AgentAssumption
  PROVE  Daemon!Spec => []Daemon!OneLoop
<1>1. Daemon!Init => LoopTypes /\ LoopInv
  BY DEF Daemon!Init, LoopTypes, LoopInv, Daemon!NoLoop, Daemon!NoRecon, Daemon!Nobody,
         Daemon!AgentAssumption
<1>2. LoopTypes /\ LoopInv /\ [Daemon!Next]_(Daemon!agentVars) => (LoopTypes /\ LoopInv)'
  BY LoopStep
<1>3. LoopTypes /\ LoopInv => Daemon!OneLoop
  BY DEF LoopInv, Daemon!OneLoop, Daemon!Active
<1> QED
  BY <1>1, <1>2, <1>3, PTL DEF Daemon!Spec

-------------------------------------------------------------------------------
(* A machine on its page: the key on its disk and what the page says of it. *)
CONSTANTS Fetches, Kinds
VARIABLES agentRow, verifying, registered, list, fetch, busyCommand, after, keyOnDisk, removal
Fleet == INSTANCE Machines WITH online <- registered

FleetInv ==
  /\ agentRow \in [state : {"live", "revoked", "gone"}, seen : BOOLEAN]
  /\ registered \in BOOLEAN /\ Fleet!KeyReportTrue

(* The page says that a key is off a machine only when it is, and a key    *)
(* that was deleted is never reported again for a live machine, whichever  *)
(* of the call, its delivery and its answer are lost, for any number of    *)
(* reloads (machines/page.tsx, DELETE of api/agents/[id]).                 *)
THEOREM KeyReportIsTrue == Fleet!Spec => []Fleet!KeyReportTrue
<1>1. Fleet!Init => FleetInv
  <2> SUFFICES ASSUME Fleet!Init
               PROVE  FleetInv
    OBVIOUS
  <2>1. [state |-> "live", seen |-> FALSE] \in [state : {"live", "revoked", "gone"}, seen : BOOLEAN]
    OBVIOUS
  <2> QED
    BY <2>1 DEF Fleet!Init, FleetInv, Fleet!KeyReportTrue
<1>2. FleetInv /\ [Fleet!Next]_(Fleet!machineVars) => FleetInv'
  <2> SUFFICES ASSUME FleetInv, [Fleet!Next]_(Fleet!machineVars)
               PROVE  FleetInv'
    OBVIOUS
  <2> USE DEF FleetInv, Fleet!KeyReportTrue
  <2>1. CASE Fleet!Revoke
    BY <2>1 DEF Fleet!Revoke, Fleet!Told
  <2>2. CASE Fleet!Register
    BY <2>2 DEF Fleet!Register
  <2>3. CASE Fleet!Forget
    BY <2>3 DEF Fleet!Forget
  <2>5. CASE Fleet!Verify \/ Fleet!Drop \/ Fleet!CloseRemoval
    <3>1. /\ registered' \in {registered, FALSE} /\ removal' \in {removal, "closed"}
          /\ UNCHANGED <<agentRow, keyOnDisk>>
      BY <2>5 DEF Fleet!Verify, Fleet!Drop, Fleet!CloseRemoval
    <3> QED
      BY <3>1
  <2>6. CASE Fleet!Commanded
    <3>1. registered' \in {registered, FALSE} /\ UNCHANGED <<agentRow, keyOnDisk, removal>>
      BY <2>6 DEF Fleet!Commanded
    <3> QED
      BY <3>1
  <2>4. CASE \/ \E k \in Kinds : Fleet!Command(k)
             \/ \E f \in Fetches : Fleet!Reload(f) \/ Fleet!ReloadAfter(f) \/ Fleet!Loaded(f)
             \/ UNCHANGED Fleet!machineVars
    BY <2>4 DEF Fleet!Command, Fleet!Reload, Fleet!ReloadAfter, Fleet!Loaded, Fleet!machineVars
  <2> QED
    BY <2>1, <2>2, <2>3, <2>4, <2>5, <2>6 DEF Fleet!Next
<1>3. FleetInv => Fleet!KeyReportTrue
  BY DEF FleetInv
<1> QED
  BY <1>1, <1>2, <1>3, PTL DEF Fleet!Spec

-------------------------------------------------------------------------------
(* The rate limiter. What a running window let through is on its counter,  *)
(* and of what passed before that window at most the limit is not older    *)
(* than a window. Once a window has elapsed, the whole of the last one is  *)
(* its own, and nothing has passed since.                                  *)
CONSTANTS Mints, Limit, Window, Keep, Lifetime, Allowance, MaxUsed, MaxDbFaults
VARIABLES counter, passed, used, plan, machine, minting, tokens, dbFaults
Access == INSTANCE RelayTokens WITH Ttl <- Lifetime

Counted(k) == Access!Least(k.count, Limit)

WindowIsCounted(k, p) ==
  /\ k \in [count : Nat, age : Nat] /\ p \in [0..(Window - 1) -> Nat]
  /\ k.age >= Window => p[0] = 0 /\ \A a \in 0..(Window - 1) : p[a] <= Limit
  /\ k.age < Window => \A a \in 0..(Window - 1) :
       p[a] <= Counted(k) + IF a <= k.age THEN 0 ELSE Limit

LimiterInv ==
  /\ DOMAIN counter = Access!Subjects /\ DOMAIN passed = Access!Subjects
  /\ \A c \in Access!Subjects : WindowIsCounted(counter[c], passed[c])

(* A request that is let through is on the counter, and the first one of a *)
(* window finds the last window within its limit.                          *)
LEMMA WindowConsumed ==
  ASSUME Access!TokensAssumption, NEW k, NEW p, WindowIsCounted(k, p)
  PROVE  LET j == Access!Consumed(k) IN
         /\ j.count <= Limit =>
              WindowIsCounted(j, [a \in 0..(Window - 1) |-> p[a] + 1])
         /\ ~(j.count <= Limit) => WindowIsCounted(j, p)
<1> DEFINE j == Access!Consumed(k)
           q == [a \in 0..(Window - 1) |-> p[a] + 1]
<1>a. Limit \in Nat /\ Window \in Nat \ {0}
  BY DEF Access!TokensAssumption
<1>k. /\ k \in [count : Nat, age : Nat] /\ p \in [0..(Window - 1) -> Nat]
      /\ k.count \in Nat /\ k.age \in Nat /\ 0 \in 0..(Window - 1)
  BY <1>a DEF WindowIsCounted
<1>q. q \in [0..(Window - 1) -> Nat] /\ \A a \in 0..(Window - 1) : q[a] = p[a] + 1 /\ p[a] \in Nat
  BY <1>k
<1>1. CASE k.age >= Window
  <2>1. j = [count |-> 1, age |-> 0]
    BY <1>1 DEF Access!Consumed, Access!Elapsed
  <2>2. p[0] = 0 /\ \A a \in 0..(Window - 1) : p[a] <= Limit
    BY <1>1 DEF WindowIsCounted
  <2>3. j \in [count : Nat, age : Nat] /\ j.age = 0 /\ j.count = 1
    BY <2>1
  <2> HIDE DEF j, q
  <2>4. j.count <= Limit => WindowIsCounted(j, q)
    BY <1>a, <1>k, <1>q, <2>2, <2>3 DEF WindowIsCounted, Counted, Access!Least
  <2>5. ~(j.count <= Limit) => WindowIsCounted(j, p)
    BY <1>a, <1>k, <1>q, <2>2, <2>3 DEF WindowIsCounted, Counted, Access!Least
  <2> QED
    BY <2>4, <2>5 DEF j, q
<1>2. CASE k.age < Window
  <2>1. /\ j = [k EXCEPT !.count = Access!Least(k.count + 1, Limit + 1)]
    BY <1>a, <1>k, <1>2 DEF Access!Consumed, Access!Elapsed
  <2>2. \A a \in 0..(Window - 1) : p[a] <= Counted(k) + IF a <= k.age THEN 0 ELSE Limit
    BY <1>2 DEF WindowIsCounted
  <2>3. /\ j \in [count : Nat, age : Nat] /\ j.age = k.age
        /\ j.count = Access!Least(k.count + 1, Limit + 1)
    BY <1>a, <1>k, <2>1 DEF Access!Least
  <2> HIDE DEF j, q
  <2>4. ASSUME j.count <= Limit
        PROVE  Counted(j) = Counted(k) + 1
    BY <1>a, <1>k, <2>3, <2>4 DEF Counted, Access!Least
  <2>5. ASSUME ~(j.count <= Limit)
        PROVE  Counted(j) = Counted(k)
    BY <1>a, <1>k, <2>3, <2>5 DEF Counted, Access!Least
  <2>6. Counted(k) \in Nat
    BY <1>a, <1>k DEF Counted, Access!Least
  <2>7. ASSUME j.count <= Limit
        PROVE  WindowIsCounted(j, q)
    <3>1. ASSUME NEW a \in 0..(Window - 1)
          PROVE  q[a] <= Counted(j) + IF a <= j.age THEN 0 ELSE Limit
      <4>1. /\ p[a] \in Nat /\ q[a] = p[a] + 1
            /\ p[a] <= Counted(k) + IF a <= k.age THEN 0 ELSE Limit
        BY <1>q, <2>2
      <4>2. Counted(j) = Counted(k) + 1 /\ j.age = k.age
        BY <2>3, <2>4, <2>7
      <4> QED
        BY <1>a, <2>6, <4>1, <4>2
    <3>2. j.age < Window
      BY <1>2, <2>3
    <3> QED
      BY <1>a, <1>k, <1>q, <2>3, <3>1, <3>2 DEF WindowIsCounted
  <2>8. ~(j.count <= Limit) => WindowIsCounted(j, p)
    BY <1>a, <1>k, <1>2, <2>2, <2>3, <2>5 DEF WindowIsCounted
  <2> QED
    BY <2>7, <2>8 DEF j, q
<1> QED
  BY <1>k, <1>a, <1>1, <1>2

(* As time passes what was let through grows older with the counter. *)
LEMMA WindowAges ==
  ASSUME Access!TokensAssumption, NEW k, NEW p, WindowIsCounted(k, p)
  PROVE  WindowIsCounted(Access!Aged(k),
                         [a \in 0..(Window - 1) |-> IF a = 0 THEN 0 ELSE p[a - 1]])
<1> DEFINE j == Access!Aged(k)
           q == [a \in 0..(Window - 1) |-> IF a = 0 THEN 0 ELSE p[a - 1]]
           age == Access!Least(k.age + 1, Keep + 1)
<1>a. Limit \in Nat /\ Window \in Nat \ {0} /\ Keep \in Nat /\ Keep >= Window
  BY DEF Access!TokensAssumption
<1>k. /\ k \in [count : Nat, age : Nat] /\ p \in [0..(Window - 1) -> Nat]
      /\ k.count \in Nat /\ k.age \in Nat /\ 0 \in 0..(Window - 1)
  BY <1>a DEF WindowIsCounted
<1>1. /\ age \in Nat /\ (age < Window => age = k.age + 1) /\ (k.age >= Window => age >= Window)
      /\ age >= Window /\ k.age < Window => k.age = Window - 1
  <2>1. age = IF k.age + 1 < Keep + 1 THEN k.age + 1 ELSE Keep + 1
    BY DEF Access!Least
  <2> HIDE DEF age
  <2>2. PICK n \in Nat : n = k.age
    BY <1>k
  <2> QED
    BY <1>a, <2>1, <2>2
<1>2. /\ j \in [count : Nat, age : Nat] /\ j.age = age
      /\ age < Window => j.count = k.count
  <2>1. j = [count |-> IF age >= Window THEN 0 ELSE k.count, age |-> age]
    BY DEF Access!Aged
  <2> HIDE DEF j, age
  <2> QED
    BY <1>a, <1>k, <1>1, <2>1
<1>3. /\ q \in [0..(Window - 1) -> Nat] /\ q[0] = 0
      /\ \A a \in 0..(Window - 1) : a # 0 => a - 1 \in 0..(Window - 1) /\ q[a] = p[a - 1]
  BY <1>a, <1>k
<1> HIDE DEF j, q, age
<1>4. Counted(k) \in Nat /\ Counted(k) <= Limit
  BY <1>a, <1>k DEF Counted, Access!Least
<1>5. CASE age >= Window
  <2>1. ASSUME NEW a \in 0..(Window - 1), a # 0
        PROVE  p[a - 1] <= Limit
    <3>1. a - 1 \in 0..(Window - 1) /\ p[a - 1] \in Nat
      BY <1>3, <1>k, <2>1
    <3>2. CASE k.age >= Window
      BY <3>1, <3>2 DEF WindowIsCounted
    <3>3. CASE k.age < Window
      <4>1. k.age = Window - 1
        BY <1>1, <1>5, <3>3
      <4>2. a - 1 <= k.age
        BY <1>a, <2>1, <4>1
      <4>3. p[a - 1] <= Counted(k) + 0
        BY <3>1, <3>3, <4>2 DEF WindowIsCounted
      <4> QED
        BY <1>4, <1>a, <3>1, <4>3
    <3> QED
      BY <1>a, <1>k, <3>2, <3>3
  <2>2. ASSUME NEW a \in 0..(Window - 1)
        PROVE  q[a] <= Limit
    <3>1. CASE a = 0
      BY <1>3, <1>a, <3>1
    <3>2. CASE a # 0
      BY <1>3, <2>1, <3>2
    <3> QED
      BY <3>1, <3>2
  <2> QED
    BY <1>2, <1>3, <1>5, <1>a, <1>1, <2>2 DEF WindowIsCounted, j, q
<1>6. CASE age < Window
  <2>1. k.age < Window /\ age = k.age + 1 /\ Counted(j) = Counted(k)
    BY <1>1, <1>2, <1>6, <1>a, <1>k DEF Counted
  <2>2. ASSUME NEW a \in 0..(Window - 1)
        PROVE  q[a] <= Counted(j) + IF a <= j.age THEN 0 ELSE Limit
    <3>1. CASE a = 0
      BY <1>2, <1>3, <1>4, <1>a, <2>1, <3>1
    <3>2. CASE a # 0
      <4>1. a - 1 \in 0..(Window - 1) /\ q[a] = p[a - 1]
        BY <1>3, <3>2
      <4>2. p[a - 1] <= Counted(k) + IF a - 1 <= k.age THEN 0 ELSE Limit
        BY <2>1, <4>1 DEF WindowIsCounted
      <4>3. (a - 1 <= k.age) = (a <= j.age)
        BY <1>2, <1>k, <2>1
      <4> QED
        BY <2>1, <4>1, <4>2, <4>3
    <3> QED
      BY <3>1, <3>2
  <2> QED
    BY <1>1, <1>2, <1>3, <1>6, <1>a, <2>2 DEF WindowIsCounted, j, q
<1> QED
  BY <1>1, <1>5, <1>6, <1>a

(* In any stretch as long as the window at most twice the limit gets       *)
(* through, for any limit, window and age at which counters are swept, in  *)
(* whatever order requests, time and sweeps come (lib/rate-limit.ts).      *)
THEOREM WindowsAreBounded ==
  ASSUME Access!TokensAssumption
  PROVE  Access!Spec => []Access!BurstBounded
<1>a. /\ Limit \in Nat /\ Window \in Nat \ {0} /\ Keep \in Nat /\ Keep >= Window
  BY DEF Access!TokensAssumption
<1>1. Access!Init => LimiterInv
  <2> SUFFICES ASSUME Access!Init
               PROVE  LimiterInv
    OBVIOUS
  <2> DEFINE p == [a \in 0..(Window - 1) |-> 0]
  <2>1. /\ counter = [c \in Access!Subjects |-> Access!NoCounter]
        /\ passed = [c \in Access!Subjects |-> p]
    BY DEF Access!Init
  <2>2. WindowIsCounted(Access!NoCounter, p)
    BY <1>a DEF WindowIsCounted, Access!NoCounter
  <2> HIDE DEF p
  <2> QED
    BY <2>1, <2>2 DEF LimiterInv
<1>2. LimiterInv /\ [Access!Next]_(Access!tokenVars) => LimiterInv'
  <2> SUFFICES ASSUME LimiterInv, [Access!Next]_(Access!tokenVars)
               PROVE  LimiterInv'
    OBVIOUS
  <2>1. ASSUME NEW r \in Mints, NEW who \in Access!Subjects, NEW dest \in Access!Dests,
               Access!Ask(r, who, dest)
        PROVE  LimiterInv'
    <3> DEFINE j == Access!Consumed(counter[who])
               q == [a \in 0..(Window - 1) |-> passed[who][a] + 1]
    <3>1. \/ /\ counter' = [counter EXCEPT ![who] = j]
             /\ \/ j.count <= Limit /\ passed' = [passed EXCEPT ![who] = q]
                \/ ~(j.count <= Limit) /\ UNCHANGED passed
          \/ UNCHANGED <<counter, passed>>
      BY <2>1 DEF Access!Ask
    <3>2. /\ j.count <= Limit => WindowIsCounted(j, q)
          /\ ~(j.count <= Limit) => WindowIsCounted(j, passed[who])
      BY WindowConsumed DEF LimiterInv
    <3> HIDE DEF j, q
    <3> QED
      BY <3>1, <3>2 DEF LimiterInv
  <2>2. CASE Access!Sweep
    <3>1. /\ counter' = [c \in Access!Subjects |-> Access!Swept(counter[c])]
          /\ UNCHANGED passed
      BY <2>2 DEF Access!Sweep
    <3>2. ASSUME NEW k, NEW p, WindowIsCounted(k, p)
          PROVE  WindowIsCounted(Access!Swept(k), p)
      <4>1. CASE k.age > Keep
        <5>1. k.age >= Window /\ Access!Swept(k) = [count |-> 0, age |-> Keep + 1]
          BY <1>a, <3>2, <4>1 DEF WindowIsCounted, Access!Swept, Access!NoCounter
        <5> QED
          BY <1>a, <3>2, <5>1 DEF WindowIsCounted
      <4>2. CASE ~(k.age > Keep)
        BY <3>2, <4>2 DEF Access!Swept
      <4> QED
        BY <4>1, <4>2
    <3> QED
      BY <3>1, <3>2 DEF LimiterInv
  <2>3. CASE Access!Tick
    <3>1. /\ counter' = [c \in Access!Subjects |-> Access!Aged(counter[c])]
          /\ passed' = [c \in Access!Subjects |->
                          [a \in 0..(Window - 1) |-> IF a = 0 THEN 0 ELSE passed[c][a - 1]]]
      BY <2>3 DEF Access!Tick
    <3>2. \A c \in Access!Subjects : WindowIsCounted(counter'[c], passed'[c])
      <4> SUFFICES ASSUME NEW c \in Access!Subjects
                   PROVE  WindowIsCounted(counter'[c], passed'[c])
        OBVIOUS
      <4>1. WindowIsCounted(counter[c], passed[c])
        BY DEF LimiterInv
      <4> QED
        BY <3>1, <4>1, WindowAges
    <3> QED
      BY <3>1, <3>2 DEF LimiterInv
  <2>4. CASE \/ \E r \in Mints : Access!CheckAllowance(r) \/ Access!CheckMachine(r) \/ Access!Mint(r)
             \/ Access!Report \/ Access!NextPeriod \/ Access!ChangePlan \/ Access!Revoke
             \/ UNCHANGED Access!tokenVars
    <3>1. UNCHANGED <<counter, passed>>
      BY <2>4 DEF Access!CheckAllowance, Access!CheckMachine, Access!Mint, Access!Report,
                  Access!NextPeriod, Access!ChangePlan, Access!Revoke, Access!tokenVars
    <3> QED
      BY <3>1 DEF LimiterInv
  <2> QED
    BY <2>1, <2>2, <2>3, <2>4 DEF Access!Next
<1>3. LimiterInv => Access!BurstBounded
  <2> SUFFICES ASSUME LimiterInv, NEW c \in Access!Subjects
               PROVE  passed[c][Window - 1] <= 2 * Limit
    BY DEF Access!BurstBounded
  <2>1. /\ counter[c].age \in Nat /\ counter[c].count \in Nat /\ Window - 1 \in 0..(Window - 1)
        /\ passed[c][Window - 1] \in Nat
    BY <1>a DEF LimiterInv, WindowIsCounted
  <2>2. Counted(counter[c]) \in Nat /\ Counted(counter[c]) <= Limit
    BY <1>a, <2>1 DEF Counted, Access!Least
  <2>3. \/ passed[c][Window - 1] <= Limit
        \/ passed[c][Window - 1] <= Counted(counter[c]) + Limit
        \/ passed[c][Window - 1] <= Counted(counter[c]) + 0
    BY <1>a, <2>1 DEF LimiterInv, WindowIsCounted
  <2> QED
    BY <1>a, <2>1, <2>2, <2>3
<1> QED
  BY <1>1, <1>2, <1>3, PTL DEF Access!Spec
===============================================================================
