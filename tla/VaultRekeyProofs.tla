--------------------------- MODULE VaultRekeyProofs ---------------------------
(***************************************************************************)
(* Proofs about VaultRekey for every number of keys, tabs, browsers,       *)
(* passwords and faults.                                                   *)
(***************************************************************************)
EXTENDS VaultRekey, TLAPS

(* A call that talks to the server knows the password it works with, and a *)
(* password change past its sync knows both.                               *)
Active == {"pull", "apply", "put", "reread", "push", "change", "install", "keys", "codes"}
Changing == {"reread", "push", "change", "install", "keys", "codes"}

CallShape ==
  \A t \in Tabs :
    /\ call[t].phase \in Active => call[t].old \in Passwords
    /\ call[t].phase \in Changing => call[t].new \in Passwords

(* A request is answered to the call that sent it and waits for it; each    *)
(* tab waits for at most one.                                              *)
Owned ==
  \A m \in wire : m.from # NoTab =>
    /\ m.type = "change" => call[m.from].phase = "change"
    /\ m.type = "put" => call[m.from].phase \in {"put", "push"}
    /\ m.type = "put" /\ call[m.from].phase = "push" => m.new = call[m.from].new
    /\ \A n \in wire : n.from = m.from => n = m

LEMMA NoCallType == NoKeys \in Wraps /\ NoCall \in Call
BY RekeyAssumption DEF NoKeys, Wraps, NoCall, Call, Phases

(* Every variable keeps its type. *)
LEMMA TypeInductive == TypeOK /\ CallShape /\ Owned /\ [Next]_vars => TypeOK' /\ CallShape'
<1> SUFFICES ASSUME TypeOK, CallShape, Owned, [Next]_vars PROVE TypeOK' /\ CallShape'
  OBVIOUS
<1> USE RekeyAssumption, NoCallType
<1>a. ASSUME NEW t \in Tabs, NEW c \in Call, call' = [call EXCEPT ![t] = c],
             c.phase \in Active => c.old \in Passwords,
             c.phase \in Changing => c.new \in Passwords
      PROVE  call' \in [Tabs -> Call] /\ CallShape'
  BY <1>a DEF TypeOK, CallShape
<1>n. NoCall.phase \notin Active /\ NoCall.phase \notin Changing
  BY DEF NoCall, Active, Changing
<1>s. ASSUME NEW t \in Tabs, call[t].phase \in Active
      PROVE  /\ Synced(call[t]) \in Call
             /\ Synced(call[t]).phase \in Active => Synced(call[t]).old \in Passwords
             /\ Synced(call[t]).phase \in Changing => Synced(call[t]).new \in Passwords
  <2>1. call[t] \in Call /\ call[t].old \in Passwords
    BY <1>s DEF TypeOK, CallShape
  <2>2. CASE call[t].new = 0
    BY <2>2, <1>n DEF Synced
  <2>3. CASE call[t].new # 0
    <3> DEFINE d == [call[t] EXCEPT !.phase = "reread", !.wraps = NoKeys]
    <3>1. d \in Call /\ d.old \in Passwords /\ d.new \in Passwords
      <4>1. call[t].new \in Passwords
        BY <2>1, <2>3 DEF Call, Passwords
      <4> QED
        BY <2>1, <4>1 DEF Call, Phases
    <3>2. Synced(call[t]) = d
      BY <2>3 DEF Synced
    <3> QED
      BY <3>1, <3>2
  <2> QED
    BY <2>2, <2>3
<1>1. ASSUME NEW t \in Tabs, SignIn(t)
      PROVE  TypeOK' /\ CallShape'
  <2>1. call' \in [Tabs -> Call] /\ CallShape'
    BY <1>1, <1>a, <1>n DEF SignIn
  <2> QED
    BY <1>1, <2>1 DEF SignIn, TypeOK, Passwords
<1>2. ASSUME NEW t \in Tabs, NEW p \in Passwords, Unlock(t, p)
      PROVE  TypeOK' /\ CallShape'
  BY <1>2 DEF Unlock, TypeOK, CallShape, Passwords
<1>3. ASSUME NEW t \in Tabs, NEW k \in Keys, GenerateKey(t, k)
      PROVE  TypeOK' /\ CallShape'
  <2>1. store' \in [Browsers -> Wraps]
    BY <1>3 DEF GenerateKey, TypeOK, Wraps
  <2> QED
    BY <1>3, <2>1 DEF GenerateKey, TypeOK, CallShape
<1>4. ASSUME NEW t \in Tabs, EnrolCodes(t)
      PROVE  TypeOK' /\ CallShape'
  BY <1>4 DEF EnrolCodes, TypeOK, CallShape
<1>p. ASSUME NEW t \in Tabs, NEW c \in Call, c.old \in Passwords, Pull(t, c)
      PROVE  TypeOK' /\ CallShape'
  <2> DEFINE d == [c EXCEPT !.phase = "apply", !.base = blob.version, !.wraps = blob.wraps]
  <2>1. d \in Call /\ d.phase = "apply" /\ d.old \in Passwords
    BY <1>p DEF TypeOK, Call, Phases
  <2>2. call' = [call EXCEPT ![t] = d]
    BY <1>p DEF Pull, Step
  <2> HIDE DEF d
  <2>3. call' \in [Tabs -> Call] /\ CallShape'
    BY <1>a, <2>1, <2>2 DEF Changing
  <2> QED
    BY <1>p, <2>3 DEF Pull, TypeOK
<1>5. ASSUME NEW t \in Tabs, StartSync(t)
      PROVE  TypeOK' /\ CallShape'
  <2> DEFINE c == [NoCall EXCEPT !.old = key[t]]
  <2>1. c \in Call /\ c.old \in Passwords
    <3>1. key[t] \in Passwords /\ key[t] \in 0..MaxPassword
      BY <1>5 DEF StartSync, TypeOK, Passwords
    <3> QED
      BY <3>1 DEF NoCall, Call
  <2>2. Pull(t, c)
    BY <1>5 DEF StartSync
  <2> QED
    BY <1>p, <2>1, <2>2
<1>6. ASSUME NEW t \in Tabs, PullAgain(t)
      PROVE  TypeOK' /\ CallShape'
  <2>1. call[t] \in Call /\ call[t].old \in Passwords
    BY <1>6 DEF PullAgain, TypeOK, CallShape, Active
  <2> QED
    BY <1>6, <1>p, <2>1 DEF PullAgain
<1>7. ASSUME NEW t \in Tabs, GiveUp(t)
      PROVE  TypeOK' /\ CallShape'
  <2>1. call' \in [Tabs -> Call] /\ CallShape'
    BY <1>7, <1>a, <1>n DEF GiveUp, Step
  <2> QED
    BY <1>7, <2>1 DEF GiveUp, TypeOK
<1>8. ASSUME NEW t \in Tabs, Apply(t)
      PROVE  TypeOK' /\ CallShape'
  <2>1. Merged(t) \in Wraps /\ Publishable(t) \in Wraps
    <3>1. store[HomeOf[t]] \in Wraps /\ call[t].wraps \in Wraps
      BY DEF TypeOK, Call
    <3>2. Merged(t) \in Wraps
      BY <3>1 DEF Merged, Wraps
    <3> QED
      BY <3>2 DEF Publishable, Wraps
  <2>2. store' \in [Browsers -> Wraps]
    BY <1>8, <2>1 DEF Apply, TypeOK
  <2>3. call[t] \in Call /\ call[t].phase = "apply" /\ call[t].old \in Passwords
    BY <1>8 DEF Apply, TypeOK, CallShape, Active
  <2>4. call' \in [Tabs -> Call] /\ CallShape'
    <3>1. CASE Step(t, Synced(call[t]))
      BY <3>1, <2>3, <1>a, <1>s DEF Step, Active
    <3>2. CASE Step(t, [call[t] EXCEPT !.phase = "put"])
      <4> DEFINE d == [call[t] EXCEPT !.phase = "put"]
      <4>1. d \in Call /\ d.phase = "put" /\ d.old \in Passwords
        BY <2>3 DEF Call, Phases
      <4>2. call' = [call EXCEPT ![t] = d]
        BY <3>2 DEF Step
      <4> HIDE DEF d
      <4> QED
        BY <4>1, <4>2, <1>a DEF Changing
    <3> QED
      BY <1>8, <3>1, <3>2 DEF Apply
  <2>5. PutOf(t, call[t].old, call[t].base, Publishable(t)) \in Request
    BY <2>1, <2>3 DEF PutOf, Request, Call
  <2>6. wire' \subseteq Request
    BY <1>8, <2>5 DEF Apply, TypeOK
  <2> QED
    BY <1>8, <2>2, <2>4, <2>6 DEF Apply, TypeOK
<1>9. ASSUME NEW t \in Tabs, NEW old \in Passwords, NEW new \in Passwords,
             StartRekey(t, old, new)
      PROVE  TypeOK' /\ CallShape'
  <2> DEFINE c == [NoCall EXCEPT !.old = old, !.new = new]
             d == [c EXCEPT !.phase = "pull"]
             e == [c EXCEPT !.phase = "change", !.wraps = blob.wraps, !.resumed = TRUE]
  <2>1. /\ d \in Call /\ d.old = old /\ d.new = new
        /\ e \in Call /\ e.old = old /\ e.new = new
    <3>1. old \in 0..MaxPassword /\ new \in 0..MaxPassword /\ blob.wraps \in Wraps
      BY DEF Passwords, TypeOK
    <3>2. d \in Call /\ d.old = old /\ d.new = new
      BY <3>1 DEF NoCall, Call, Phases
    <3>3. e \in Call /\ e.old = old /\ e.new = new
      BY <3>1 DEF NoCall, Call, Phases
    <3> QED
      BY <3>2, <3>3
  <2>2. ChangeOf(t, old, new) \in Request
    BY DEF ChangeOf, Request
  <2>3. \/ call' = [call EXCEPT ![t] = d] /\ wire' = wire
        \/ call' = [call EXCEPT ![t] = e] /\ wire' = wire \cup {ChangeOf(t, old, new)}
    BY <1>9 DEF StartRekey, Step
  <2> HIDE DEF d, e
  <2>4. call' \in [Tabs -> Call] /\ CallShape'
    BY <2>1, <2>3, <1>a
  <2>5. wire' \subseteq Request
    BY <2>2, <2>3 DEF TypeOK
  <2> QED
    BY <1>9, <2>4, <2>5 DEF StartRekey, TypeOK
<1>10. ASSUME NEW t \in Tabs, Reread(t)
       PROVE  TypeOK' /\ CallShape'
  <2> DEFINE w == Rewrapped(blob.wraps, call[t].old, call[t].new)
             d == [call[t] EXCEPT !.phase = "push", !.base = blob.version, !.wraps = w]
  <2>1. call[t] \in Call /\ call[t].old \in Passwords /\ call[t].new \in Passwords
    BY <1>10 DEF Reread, TypeOK, CallShape, Active, Changing
  <2>2. w \in Wraps
    BY <2>1 DEF Rewrapped, TypeOK, Wraps, Passwords
  <2>3. PutOf(t, call[t].new, blob.version, w) \in Request
    BY <2>1, <2>2 DEF PutOf, Request, TypeOK
  <2>4. d \in Call /\ d.old = call[t].old /\ d.new = call[t].new
    BY <2>1, <2>2 DEF Call, Phases, TypeOK
  <2>5. \/ call' = [call EXCEPT ![t] = d]
        \/ call' = [call EXCEPT ![t] = NoCall]
    BY <1>10 DEF Reread, Step
  <2>6. wire' = wire \/ wire' = wire \cup {PutOf(t, call[t].new, blob.version, w)}
    BY <1>10 DEF Reread
  <2> HIDE DEF d, w
  <2>7. call' \in [Tabs -> Call] /\ CallShape'
    BY <2>1, <2>4, <2>5, <1>a, <1>n
  <2>8. wire' \subseteq Request
    BY <2>3, <2>6 DEF TypeOK
  <2> QED
    BY <1>10, <2>7, <2>8 DEF Reread, TypeOK
<1>w. ASSUME NEW m \in wire
       PROVE  /\ m \in Request
              /\ \A n \in wire : [n EXCEPT !.live = FALSE] \in Request
              /\ \A n \in wire : [n EXCEPT !.from = NoTab] \in Request
  <2>1. wire \subseteq Request
    BY DEF TypeOK
  <2>2. ASSUME NEW n \in Request
        PROVE  [n EXCEPT !.live = FALSE] \in Request
    BY DEF Request
  <2>3. ASSUME NEW n \in Request
        PROVE  [n EXCEPT !.from = NoTab] \in Request
    BY DEF Request
  <2> QED
    BY <2>1, <2>2, <2>3
<1>t. ASSUME NEW m \in wire, NEW c, Answer(m, c),
             m.from # NoTab => /\ c \in Call
                               /\ c.phase \in Active => c.old \in Passwords
                               /\ c.phase \in Changing => c.new \in Passwords
      PROVE  call' \in [Tabs -> Call] /\ CallShape'
  <2>1. CASE m.from = NoTab
    BY <1>t, <2>1 DEF Answer, TypeOK, CallShape
  <2>2. CASE m.from # NoTab
    <3>1. m.from \in Tabs
      BY <2>2 DEF TypeOK, Request
    <3> QED
      BY <1>t, <1>a, <2>2, <3>1 DEF Answer
  <2> QED
    BY <2>1, <2>2
<1>11. ASSUME NEW m \in wire, AcceptPut(m)
       PROVE  TypeOK' /\ CallShape'
  <2> DEFINE c == call[m.from]
             d == [c EXCEPT !.phase = "change"]
  <2>1. blob' \in [version : Nat, key : Passwords, wraps : Wraps]
    BY <1>11, <1>w DEF AcceptPut, TypeOK, Request
  <2>2. ASSUME m.from # NoTab
        PROVE  /\ m.from \in Tabs /\ c \in Call /\ c.phase \in {"put", "push"}
               /\ c.old \in Passwords
               /\ c.phase = "push" => c.new \in Passwords
    <3>1. m.from \in Tabs
      BY <2>2, <1>w DEF Request
    <3>2. c.phase \in {"put", "push"}
      BY <1>11, <2>2 DEF AcceptPut, Owned
    <3> QED
      BY <3>1, <3>2 DEF TypeOK, CallShape, Active, Changing
  <2>3. CASE m.from # NoTab /\ c.phase = "push"
    <3>1. d \in Call /\ d.old \in Passwords /\ d.new \in Passwords
      BY <2>2, <2>3 DEF Call, Phases
    <3>2. ChangeOf(m.from, c.old, c.new) \in Request
      BY <2>2, <2>3 DEF ChangeOf, Request
    <3>3. Answer(m, d) /\ wire' = (wire \ {m}) \cup {ChangeOf(m.from, c.old, c.new)}
      BY <1>11, <2>3 DEF AcceptPut
    <3>4. call' \in [Tabs -> Call] /\ CallShape'
      BY <1>t, <3>1, <3>3
    <3> QED
      BY <1>11, <2>1, <3>2, <3>3, <3>4 DEF AcceptPut, TypeOK
  <2>4. CASE ~(m.from # NoTab /\ c.phase = "push")
    <3>1. Answer(m, Synced(c)) /\ wire' = wire \ {m}
      BY <1>11, <2>4 DEF AcceptPut
    <3>2. m.from # NoTab => c.phase \in Active
      BY <2>2 DEF Active
    <3>3. call' \in [Tabs -> Call] /\ CallShape'
      BY <1>t, <1>s, <2>2, <3>1, <3>2
    <3> QED
      BY <1>11, <2>1, <3>1, <3>3 DEF AcceptPut, TypeOK
  <2> QED
    BY <2>3, <2>4
<1>12. ASSUME NEW m \in wire, RefusePut(m)
       PROVE  TypeOK' /\ CallShape'
  <2> DEFINE c == call[m.from]
             d == IF m.live /\ c.phase = "put" THEN [c EXCEPT !.phase = "pull"] ELSE NoCall
  <2>1. ASSUME m.from # NoTab
        PROVE  /\ d \in Call
               /\ d.phase \in Active => d.old \in Passwords
               /\ d.phase \notin Changing
    <3>1. m.from \in Tabs
      BY <2>1, <1>w DEF Request
    <3>2. c \in Call /\ (c.phase = "put" => c.old \in Passwords)
      BY <3>1 DEF TypeOK, CallShape, Active
    <3>3. CASE m.live /\ c.phase = "put"
      BY <3>2, <3>3 DEF Call, Phases, Changing
    <3> QED
      BY <3>3, <1>n
  <2>2. Answer(m, d)
    BY <1>12 DEF RefusePut
  <2> HIDE DEF d
  <2>3. call' \in [Tabs -> Call] /\ CallShape'
    BY <1>t, <2>1, <2>2
  <2> QED
    BY <1>12, <2>3 DEF RefusePut, TypeOK
<1>13. ASSUME NEW m \in wire, AcceptChange(m)
       PROVE  TypeOK' /\ CallShape'
  <2>1. ASSUME m.from # NoTab
        PROVE  /\ [call[m.from] EXCEPT !.phase = "install"] \in Call
               /\ call[m.from].old \in Passwords /\ call[m.from].new \in Passwords
    <3>1. m.from \in Tabs
      BY <2>1, <1>w DEF Request
    <3>2. call[m.from].phase = "change"
      BY <1>13, <2>1 DEF AcceptChange, Owned
    <3> QED
      BY <3>1, <3>2 DEF TypeOK, Call, Phases, CallShape, Active, Changing
  <2>2. call' \in [Tabs -> Call] /\ CallShape'
    <3> DEFINE d == [call[m.from] EXCEPT !.phase = "install"]
    <3>1. m.from # NoTab => d \in Call /\ d.old \in Passwords /\ d.new \in Passwords
      BY <2>1 DEF Call
    <3>2. Answer(m, d)
      BY <1>13 DEF AcceptChange
    <3> HIDE DEF d
    <3> QED
      BY <1>t, <3>1, <3>2
  <2>3. wire' \subseteq Request
    BY <1>13, <1>w DEF AcceptChange
  <2>4. credential' \in Passwords /\ signed' \in [Browsers -> BOOLEAN]
    BY <1>13, <1>w DEF AcceptChange, Request
  <2> QED
    BY <1>13, <2>2, <2>3, <2>4 DEF AcceptChange, TypeOK
<1>14. ASSUME NEW m \in wire, RefuseChange(m)
       PROVE  TypeOK' /\ CallShape'
  <2> DEFINE d == [call[m.from] EXCEPT !.phase = "stranded"]
  <2>1. m.from # NoTab => d \in Call /\ d.phase \notin Active /\ d.phase \notin Changing
    <3> SUFFICES ASSUME m.from # NoTab
                 PROVE  d \in Call /\ d.phase \notin Active /\ d.phase \notin Changing
      OBVIOUS
    <3>1. call[m.from] \in Call
      BY <1>w DEF TypeOK, Request
    <3> QED
      BY <3>1 DEF Call, Phases, Active, Changing
  <2>2. Answer(m, d)
    BY <1>14 DEF RefuseChange
  <2> HIDE DEF d
  <2>3. call' \in [Tabs -> Call] /\ CallShape'
    BY <1>t, <2>1, <2>2
  <2> QED
    BY <1>14, <2>3 DEF RefuseChange, TypeOK
<1>15. ASSUME NEW t \in Tabs, Install(t)
       PROVE  TypeOK' /\ CallShape'
  <2> DEFINE d == [call[t] EXCEPT !.phase = "keys"]
  <2>1. d \in Call /\ d.old \in Passwords /\ d.new \in Passwords
    BY <1>15 DEF Install, TypeOK, Call, Phases, CallShape, Active, Changing
  <2>2. call' = [call EXCEPT ![t] = d]
    BY <1>15 DEF Install, Step
  <2>4. key' \in [Tabs -> 0..MaxPassword]
    BY <1>15, <2>1 DEF Install, TypeOK, Call
  <2> HIDE DEF d
  <2>3. call' \in [Tabs -> Call] /\ CallShape'
    BY <1>a, <2>1, <2>2
  <2> QED
    BY <1>15, <2>3, <2>4 DEF Install, TypeOK
<1>16. ASSUME NEW t \in Tabs, InstallKeys(t)
       PROVE  TypeOK' /\ CallShape'
  <2> DEFINE d == [call[t] EXCEPT !.phase = "codes"]
             w == [k \in Keys |-> IF call[t].wraps[k] # 0 THEN call[t].wraps[k]
                                  ELSE store[HomeOf[t]][k]]
  <2>1. d \in Call /\ d.old \in Passwords /\ d.new \in Passwords
    BY <1>16 DEF InstallKeys, TypeOK, Call, Phases, CallShape, Active, Changing
  <2>2. call' = [call EXCEPT ![t] = d]
    BY <1>16 DEF InstallKeys, Step
  <2>3. w \in Wraps
    <3>1. store[HomeOf[t]] \in Wraps /\ call[t].wraps \in Wraps
      BY DEF TypeOK, Call
    <3> QED
      BY <3>1 DEF Wraps
  <2>4. store' = [store EXCEPT ![HomeOf[t]] = w]
    BY <1>16 DEF InstallKeys, TypeOK
  <2> HIDE DEF d, w
  <2>5. call' \in [Tabs -> Call] /\ CallShape'
    BY <1>a, <2>1, <2>2
  <2>6. store' \in [Browsers -> Wraps]
    BY <2>3, <2>4 DEF TypeOK
  <2> QED
    BY <1>16, <2>5, <2>6 DEF InstallKeys, TypeOK
<1>17. ASSUME NEW t \in Tabs, ClearCodes(t)
       PROVE  TypeOK' /\ CallShape'
  <2> DEFINE d == [call[t] EXCEPT !.phase = "done"]
  <2>1. d \in Call /\ d.phase \notin Active /\ d.phase \notin Changing
    BY DEF TypeOK, Call, Phases, Active, Changing
  <2>2. call' = [call EXCEPT ![t] = d]
    BY <1>17 DEF ClearCodes, Step
  <2> HIDE DEF d
  <2>3. call' \in [Tabs -> Call] /\ CallShape'
    BY <1>a, <2>1, <2>2
  <2> QED
    BY <1>17, <2>3 DEF ClearCodes, TypeOK
<1>b. ASSUME NEW t \in Tabs, Abandon(t)
      PROVE  wire' \subseteq Request
  BY <1>b, <1>w DEF Abandon, TypeOK
<1>18. ASSUME NEW t \in Tabs, Disconnect(t)
       PROVE  TypeOK' /\ CallShape'
  <2>1. /\ Failed(call[t]) \in Call
        /\ Failed(call[t]).phase \notin Active /\ Failed(call[t]).phase \notin Changing
    BY <1>n DEF Failed, TypeOK, Call, Phases, Active, Changing
  <2>2. call' \in [Tabs -> Call] /\ CallShape'
    BY <1>18, <1>a, <2>1 DEF Disconnect, Step
  <2> QED
    BY <1>18, <1>b, <2>2 DEF Disconnect, TypeOK
<1>19. ASSUME NEW t \in Tabs, Reload(t)
       PROVE  TypeOK' /\ CallShape'
  <2>1. call' \in [Tabs -> Call] /\ CallShape'
    BY <1>19, <1>a, <1>n DEF Reload, Step
  <2> QED
    <3>1. wire' \subseteq Request
      BY <1>19, <1>b DEF Reload
    <3>2. key' \in [Tabs -> 0..MaxPassword] /\ faults' \in Nat
      BY <1>19 DEF Reload, TypeOK
    <3> QED
      BY <1>19, <2>1, <3>1, <3>2 DEF Reload, TypeOK
<1>20. CASE UNCHANGED vars
  BY <1>20 DEF vars, TypeOK, CallShape
<1> QED
  BY <1>1, <1>2, <1>3, <1>4, <1>5, <1>6, <1>7, <1>8, <1>9, <1>10, <1>11, <1>12, <1>13,
     <1>14, <1>15, <1>16, <1>17, <1>18, <1>19, <1>20 DEF Next, Continue, Handle

-------------------------------------------------------------------------------
(* How requests and answers pair up. *)
LEMMA OwnedInductive ==
  TypeOK /\ CallShape /\ Owned /\ [Next]_vars => Owned'
<1> SUFFICES ASSUME TypeOK, CallShape, Owned, [Next]_vars PROVE Owned'
  OBVIOUS
<1> USE RekeyAssumption
<1>w. \A m \in wire : m.from # NoTab => m.from \in Tabs
  BY DEF TypeOK, Request
(* A tab nobody answers may move on, and may send one request.             *)
<1>a. ASSUME NEW t \in Tabs, NEW c, call' = [call EXCEPT ![t] = c],
             call[t].phase \notin {"put", "push", "change"},
             \/ wire' = wire
             \/ \E n : /\ wire' = wire \cup {n} /\ n.from = t
                       /\ \/ n.type = "change" /\ c.phase = "change"
                          \/ n.type = "put" /\ c.phase = "put"
                          \/ n.type = "put" /\ c.phase = "push" /\ n.new = c.new
      PROVE  Owned'
  <2>1. \A m \in wire : m.type \in {"put", "change"}
    BY DEF TypeOK, Request
  <2>2. \A m \in wire : m.from # t
    BY <1>a, <1>w, <2>1 DEF Owned
  <2>3. \A m \in wire : m.from # NoTab => call'[m.from] = call[m.from]
    BY <1>a, <1>w, <2>2 DEF TypeOK
  <2>4. call'[t] = c
    BY <1>a DEF TypeOK
  <2>5. CASE wire' = wire
    BY <2>3, <2>5 DEF Owned
  <2>6. ASSUME NEW n, wire' = wire \cup {n}, n.from = t,
               \/ n.type = "change" /\ c.phase = "change"
               \/ n.type = "put" /\ c.phase = "put"
               \/ n.type = "put" /\ c.phase = "push" /\ n.new = c.new
        PROVE  Owned'
    BY <2>2, <2>3, <2>4, <2>6 DEF Owned
  <2> QED
    BY <1>a, <2>5, <2>6
(* A request is answered and leaves.                                       *)
<1>b. ASSUME NEW m \in wire, NEW c, Answer(m, c),
             \/ wire' = wire \ {m}
             \/ /\ m.from # NoTab
                /\ \E n : /\ wire' = (wire \ {m}) \cup {n} /\ n.from = m.from
                          /\ n.type = "change" /\ c.phase = "change"
      PROVE  Owned'
  <2>1. \A n \in wire \ {m} : n.from # NoTab => n.from # m.from
    BY DEF Owned
  <2>2. \A n \in wire \ {m} : n.from # NoTab => call'[n.from] = call[n.from]
    BY <1>b, <1>w, <2>1 DEF Answer, TypeOK
  <2>3. CASE wire' = wire \ {m}
    BY <2>2, <2>3 DEF Owned
  <2>4. ASSUME NEW n, m.from # NoTab, wire' = (wire \ {m}) \cup {n}, n.from = m.from,
               n.type = "change", c.phase = "change"
        PROVE  Owned'
    <3>1. call'[n.from] = c
      BY <1>b, <1>w, <2>4 DEF Answer, TypeOK
    <3> QED
      BY <2>1, <2>2, <2>4, <3>1 DEF Owned
  <2> QED
    BY <1>b, <2>3, <2>4
(* A tab stops listening.                                                  *)
<1>c. ASSUME NEW t \in Tabs, NEW c, Abandon(t), call' = [call EXCEPT ![t] = c]
      PROVE  Owned'
  <2>1. \A m \in wire' : m.from # NoTab => m \in wire /\ m.from # t
    BY <1>c DEF Abandon, TypeOK, Request
  <2>2. \A m \in wire' : m.from # NoTab => call'[m.from] = call[m.from]
    BY <1>c, <1>w, <2>1 DEF TypeOK
  <2> QED
    BY <2>1, <2>2 DEF Owned
<1>1. ASSUME NEW t \in Tabs, SignIn(t) PROVE Owned'
  BY <1>1, <1>a DEF SignIn, Free
<1>2. ASSUME NEW t \in Tabs, NEW p \in Passwords, Unlock(t, p) PROVE Owned'
  BY <1>2 DEF Unlock, Owned
<1>3. ASSUME NEW t \in Tabs, NEW k \in Keys, GenerateKey(t, k) PROVE Owned'
  BY <1>3 DEF GenerateKey, Owned
<1>4. ASSUME NEW t \in Tabs, EnrolCodes(t) PROVE Owned'
  BY <1>4 DEF EnrolCodes, Owned
<1>5. ASSUME NEW t \in Tabs, StartSync(t) PROVE Owned'
  BY <1>5, <1>a DEF StartSync, Pull, Step, Free
<1>6. ASSUME NEW t \in Tabs, PullAgain(t) PROVE Owned'
  BY <1>6, <1>a DEF PullAgain, Pull, Step
<1>7. ASSUME NEW t \in Tabs, GiveUp(t) PROVE Owned'
  BY <1>7, <1>a DEF GiveUp, Step
<1>8. ASSUME NEW t \in Tabs, Apply(t) PROVE Owned'
  <2>1. call[t].phase = "apply" /\ call[t] \in Call
    BY <1>8 DEF Apply, TypeOK
  <2>2. CASE Step(t, Synced(call[t])) /\ wire' = wire
    BY <1>a, <2>1, <2>2 DEF Step
  <2> DEFINE n == PutOf(t, call[t].old, call[t].base, Publishable(t))
             d == [call[t] EXCEPT !.phase = "put"]
  <2>3. CASE Step(t, d) /\ wire' = wire \cup {n}
    <3>1. n.from = t /\ n.type = "put" /\ d.phase = "put"
      BY <2>1 DEF PutOf, Call
    <3> HIDE DEF n, d
    <3> QED
      BY <1>a, <2>1, <2>3, <3>1 DEF Step
  <2> QED
    BY <1>8, <2>2, <2>3 DEF Apply
<1>9. ASSUME NEW t \in Tabs, NEW old \in Passwords, NEW new \in Passwords,
             StartRekey(t, old, new)
      PROVE  Owned'
  <2> DEFINE n == ChangeOf(t, old, new)
             d == [NoCall EXCEPT !.old = old, !.new = new, !.phase = "pull"]
             e == [[NoCall EXCEPT !.old = old, !.new = new] EXCEPT
                     !.phase = "change", !.wraps = blob.wraps, !.resumed = TRUE]
  <2>1. /\ n.from = t /\ n.type = "change" /\ e.phase = "change"
        /\ call[t].phase \notin {"put", "push", "change"}
    BY <1>9 DEF ChangeOf, NoCall, StartRekey, Free
  <2>2. \/ wire' = wire /\ \E c : call' = [call EXCEPT ![t] = c]
        \/ wire' = wire \cup {n} /\ call' = [call EXCEPT ![t] = e]
    BY <1>9 DEF StartRekey, Step
  <2> HIDE DEF n, d, e
  <2> QED
    BY <1>a, <2>1, <2>2
<1>10. ASSUME NEW t \in Tabs, Reread(t) PROVE Owned'
  <2> DEFINE w == Rewrapped(blob.wraps, call[t].old, call[t].new)
             n == PutOf(t, call[t].new, blob.version, w)
             d == [call[t] EXCEPT !.phase = "push", !.base = blob.version, !.wraps = w]
  <2>1. /\ n.from = t /\ n.type = "put" /\ n.new = call[t].new
        /\ call[t].phase = "reread"
    BY <1>10 DEF PutOf, Reread
  <2>2. d.phase = "push" /\ d.new = call[t].new
    BY DEF TypeOK, Call
  <2>3. \/ wire' = wire /\ call' = [call EXCEPT ![t] = NoCall]
        \/ wire' = wire \cup {n} /\ call' = [call EXCEPT ![t] = d]
    BY <1>10 DEF Reread, Step
  <2> HIDE DEF n, d, w
  <2> QED
    BY <1>a, <2>1, <2>2, <2>3
<1>11. ASSUME NEW m \in wire, AcceptPut(m) PROVE Owned'
  <2> DEFINE c == call[m.from]
             d == [c EXCEPT !.phase = "change"]
             n == ChangeOf(m.from, c.old, c.new)
  <2>1. CASE m.from # NoTab /\ c.phase = "push"
    <3>1. Answer(m, d) /\ wire' = (wire \ {m}) \cup {n}
      BY <1>11, <2>1 DEF AcceptPut
    <3>2. n.from = m.from /\ n.type = "change"
      BY DEF ChangeOf
    <3>3. d.phase = "change"
      BY <2>1, <1>w DEF TypeOK, Call
    <3> HIDE DEF d, n
    <3> QED
      BY <1>b, <2>1, <3>1, <3>2, <3>3
  <2>2. CASE ~(m.from # NoTab /\ c.phase = "push")
    BY <1>11, <1>b, <2>2 DEF AcceptPut
  <2> QED
    BY <2>1, <2>2
<1>12. ASSUME NEW m \in wire, RefusePut(m) PROVE Owned'
  BY <1>12, <1>b DEF RefusePut
<1>13. ASSUME NEW m \in wire, AcceptChange(m) PROVE Owned'
  <2> DEFINE d == [call[m.from] EXCEPT !.phase = "install"]
  <2>1. \A n \in wire \ {m} : n.from # NoTab => n.from # m.from
    BY DEF Owned
  <2>2. Answer(m, d)
    BY <1>13 DEF AcceptChange
  <2> HIDE DEF d
  <2>3. \A n \in wire \ {m} : n.from # NoTab => call'[n.from] = call[n.from]
    BY <2>2, <1>w, <2>1 DEF Answer, TypeOK
  <2> DEFINE Revoked(n) == [n EXCEPT !.live = FALSE]
  <2>4. wire' = {Revoked(n) : n \in wire \ {m}}
    BY <1>13 DEF AcceptChange
  <2>5. ASSUME NEW n \in wire
        PROVE  /\ Revoked(n).from = n.from /\ Revoked(n).type = n.type
               /\ Revoked(n).new = n.new
    BY DEF TypeOK, Request
  <2> HIDE DEF Revoked
  <2>6. ASSUME NEW x \in wire', x.from # NoTab
        PROVE  /\ x.type = "change" => call'[x.from].phase = "change"
               /\ x.type = "put" => call'[x.from].phase \in {"put", "push"}
               /\ x.type = "put" /\ call'[x.from].phase = "push" => x.new = call'[x.from].new
               /\ \A y \in wire' : y.from = x.from => y = x
    <3>1. PICK n \in wire \ {m} : x = Revoked(n)
      BY <2>4
    <3>2. x.from = n.from /\ x.type = n.type /\ x.new = n.new
      BY <2>5, <3>1
    <3>3. ASSUME NEW y \in wire', y.from = x.from
          PROVE  y = x
      <4>1. PICK o \in wire \ {m} : y = Revoked(o)
        BY <2>4
      <4>2. o.from = n.from
        BY <2>5, <3>2, <3>3, <4>1
      <4>3. o = n
        BY <2>6, <3>2, <4>2 DEF Owned
      <4> QED
        BY <3>1, <4>1, <4>3
    <3> QED
      BY <2>3, <2>6, <3>2, <3>3 DEF Owned
  <2> QED
    BY <2>6 DEF Owned
<1>14. ASSUME NEW m \in wire, RefuseChange(m) PROVE Owned'
  BY <1>14, <1>b DEF RefuseChange
<1>15. ASSUME NEW t \in Tabs, Install(t) PROVE Owned'
  BY <1>15, <1>a DEF Install, Step
<1>16. ASSUME NEW t \in Tabs, InstallKeys(t) PROVE Owned'
  BY <1>16, <1>a DEF InstallKeys, Step
<1>17. ASSUME NEW t \in Tabs, ClearCodes(t) PROVE Owned'
  BY <1>17, <1>a DEF ClearCodes, Step
<1>18. ASSUME NEW t \in Tabs, Disconnect(t) PROVE Owned'
  BY <1>18, <1>c DEF Disconnect, Step
<1>19. ASSUME NEW t \in Tabs, Reload(t) PROVE Owned'
  BY <1>19, <1>c DEF Reload, Step
<1>20. CASE UNCHANGED vars
  BY <1>20 DEF vars, Owned
<1> QED
  BY <1>1, <1>2, <1>3, <1>4, <1>5, <1>6, <1>7, <1>8, <1>9, <1>10, <1>11, <1>12, <1>13,
     <1>14, <1>15, <1>16, <1>17, <1>18, <1>19, <1>20 DEF Next, Continue, Handle

(* Every variable has its type, and answers reach the call they belong to. *)
Base == TypeOK /\ CallShape /\ Owned

LEMMA BaseInit == Init => Base
BY NoCallType, RekeyAssumption
   DEF Init, Base, TypeOK, CallShape, Owned, NoCall, Active, Changing, Passwords

LEMMA BaseInductive == Base /\ [Next]_vars => Base'
BY TypeInductive, OwnedInductive DEF Base

(* Every variable has its type in every reachable state. *)
THEOREM RekeyTypeCorrect == Spec => []TypeOK
<1>1. Base => TypeOK
  BY DEF Base
<1> QED
  BY <1>1, BaseInit, BaseInductive, PTL DEF Spec

-------------------------------------------------------------------------------
(* The inductive strengthening of KeysOpen, StaleKeyLoses and NoKeyLeaves: *)
(* what a sync read, and every PUT on the wire, is sealed uniformly, and   *)
(* what was computed from the current version was computed from the blob.  *)
Uniform(wraps, p) == \A k \in Keys : wraps[k] \in {0, p}
Keeps(wraps, old) == \A k \in Keys : old[k] # 0 => wraps[k] # 0

PutFits(m) ==
  /\ Uniform(m.wraps, m.new)
  /\ m.base <= blob.version
  /\ m.base = blob.version => m.old = blob.key /\ Keeps(m.wraps, blob.wraps)

ReadFits(c) ==
  /\ Uniform(c.wraps, c.old)
  /\ c.base <= blob.version
  /\ c.base = blob.version => c.old = blob.key /\ c.wraps = blob.wraps

Sealed ==
  /\ Uniform(blob.wraps, blob.key)
  /\ \A m \in wire : m.type = "put" => PutFits(m)
  /\ \A t \in Tabs : call[t].phase = "apply" => ReadFits(call[t])

(* Steps that leave the blob, the PUTs and the running merges alone. *)
LEMMA SealedFrame ==
  ASSUME Sealed, blob' = blob,
         \A m \in wire' : m.type = "put" =>
           \E n \in wire : /\ n.type = "put" /\ n.base = m.base /\ n.old = m.old
                           /\ n.new = m.new /\ n.wraps = m.wraps,
         \A t \in Tabs : call'[t].phase = "apply" => call'[t] = call[t]
  PROVE  Sealed'
BY DEF Sealed, PutFits, ReadFits, Uniform, Keeps

(* A step of one tab whose call does not become a merge. *)
LEMMA SealedCall ==
  ASSUME Base, Sealed, blob' = blob, NEW t \in Tabs, NEW c,
         call' = [call EXCEPT ![t] = c], c.phase # "apply",
         \A m \in wire' : m.type = "put" => m \in wire
  PROVE  Sealed'
<1>1. \A u \in Tabs : call'[u].phase = "apply" => call'[u] = call[u]
  BY DEF Base, TypeOK
<1> QED
  BY <1>1, SealedFrame

(* An answered request leaves, and its call does not become a merge. *)
LEMMA SealedAnswer ==
  ASSUME Base, Sealed, blob' = blob, NEW m \in wire, NEW c, Answer(m, c),
         m.from # NoTab => c.phase # "apply",
         \A n \in wire' : n.type = "put" =>
           \E o \in wire : /\ o.type = "put" /\ o.base = n.base /\ o.old = n.old
                           /\ o.new = n.new /\ o.wraps = n.wraps
  PROVE  Sealed'
<1>1. m.from # NoTab => m.from \in Tabs
  BY DEF Base, TypeOK, Request
<1>2. \A u \in Tabs : call'[u].phase = "apply" => call'[u] = call[u]
  BY <1>1 DEF Base, TypeOK, Answer
<1> QED
  BY <1>2, SealedFrame

LEMMA SealedInductive == Base /\ Sealed /\ [Next]_vars => Sealed'
<1> SUFFICES ASSUME Base, Sealed, [Next]_vars PROVE Sealed'
  OBVIOUS
<1> USE RekeyAssumption
<1>n. NoCall.phase = "idle" /\ NoCall.new = 0
  BY DEF NoCall
<1>1. ASSUME NEW t \in Tabs, SignIn(t) PROVE Sealed'
  BY <1>1, <1>n, SealedCall DEF SignIn
<1>2. ASSUME NEW t \in Tabs, NEW p \in Passwords, Unlock(t, p) PROVE Sealed'
  BY <1>2, SealedFrame DEF Unlock
<1>3. ASSUME NEW t \in Tabs, NEW k \in Keys, GenerateKey(t, k) PROVE Sealed'
  BY <1>3, SealedFrame DEF GenerateKey
<1>4. ASSUME NEW t \in Tabs, EnrolCodes(t) PROVE Sealed'
  BY <1>4, SealedFrame DEF EnrolCodes
<1>p. ASSUME NEW t \in Tabs, NEW c \in Call, Pull(t, c) PROVE Sealed'
  <2> DEFINE d == [c EXCEPT !.phase = "apply", !.base = blob.version, !.wraps = blob.wraps]
  <2>1. /\ d.old = c.old /\ d.base = blob.version /\ d.wraps = blob.wraps
        /\ blob.key = c.old /\ blob' = blob /\ wire' = wire
        /\ call' = [call EXCEPT ![t] = d]
    BY <1>p DEF Pull, Opens, Step, Call
  <2> HIDE DEF d
  <2>2. blob.version \in Nat
    BY DEF Base, TypeOK
  <2>3. ReadFits(d)
    BY <2>1, <2>2 DEF ReadFits, Sealed
  <2>4. \A u \in Tabs : call'[u] = IF u = t THEN d ELSE call[u]
    BY <2>1 DEF Base, TypeOK
  <2>5. \A u \in Tabs : call'[u].phase = "apply" => ReadFits(call'[u])
    BY <2>3, <2>4 DEF Sealed
  <2> QED
    BY <2>1, <2>5 DEF Sealed, PutFits, ReadFits, Uniform, Keeps
<1>5. ASSUME NEW t \in Tabs, StartSync(t) PROVE Sealed'
  <2>1. [NoCall EXCEPT !.old = key[t]] \in Call
    BY NoCallType DEF Base, TypeOK, Call
  <2> QED
    BY <1>5, <1>p, <2>1 DEF StartSync
<1>6. ASSUME NEW t \in Tabs, PullAgain(t) PROVE Sealed'
  BY <1>6, <1>p DEF PullAgain, Base, TypeOK
<1>7. ASSUME NEW t \in Tabs, GiveUp(t) PROVE Sealed'
  BY <1>7, <1>n, SealedCall DEF GiveUp, Step
<1>s. ASSUME NEW c \in Call PROVE Synced(c).phase # "apply"
  BY <1>n DEF Synced, Call
<1>q. ASSUME NEW t \in Tabs, NEW c, NEW m, blob' = blob, wire' = wire \cup {m}, PutFits(m),
             call' = [call EXCEPT ![t] = c], c.phase # "apply"
      PROVE  Sealed'
  <2>1. \A u \in Tabs : call'[u].phase = "apply" => call'[u] = call[u]
    BY <1>q DEF Base, TypeOK
  <2>2. \A u \in Tabs : call'[u].phase = "apply" => ReadFits(call'[u])
    BY <2>1 DEF Sealed
  <2>3. \A n \in wire' : n.type = "put" => PutFits(n)
    BY <1>q DEF Sealed
  <2> QED
    BY <1>q, <2>2, <2>3 DEF Sealed, PutFits, ReadFits, Uniform, Keeps
<1>8. ASSUME NEW t \in Tabs, Apply(t) PROVE Sealed'
  <2> DEFINE c == call[t]
             m == PutOf(t, c.old, c.base, Publishable(t))
             d == [c EXCEPT !.phase = "put"]
  <2>1. c \in Call /\ c.phase = "apply" /\ ReadFits(c) /\ c.wraps \in Wraps
    BY <1>8 DEF Apply, Base, TypeOK, Sealed, Call
  <2>2. CASE Step(t, Synced(c)) /\ wire' = wire
    BY <1>8, <1>s, <2>1, <2>2, SealedCall DEF Apply, Step
  <2>3. CASE Step(t, d) /\ wire' = wire \cup {m}
    <3>1. \A k \in Keys : /\ Publishable(t)[k] \in {0, c.old}
                          /\ c.wraps[k] # 0 => Publishable(t)[k] = c.wraps[k]
      BY <2>1 DEF Publishable, Merged, ReadFits, Uniform
    <3>2. PutFits(m)
      BY <2>1, <3>1 DEF PutFits, ReadFits, Uniform, Keeps, PutOf
    <3>3. d.phase # "apply" /\ blob' = blob
      BY <1>8, <2>1 DEF Apply, Call
    <3> HIDE DEF d, m
    <3> QED
      BY <1>q, <2>3, <3>2, <3>3 DEF Step
  <2> QED
    BY <1>8, <2>2, <2>3 DEF Apply
<1>9. ASSUME NEW t \in Tabs, NEW old \in Passwords, NEW new \in Passwords,
             StartRekey(t, old, new)
      PROVE  Sealed'
  <2> DEFINE b == [NoCall EXCEPT !.old = old, !.new = new]
             d == [b EXCEPT !.phase = "pull"]
             e == [b EXCEPT !.phase = "change", !.wraps = blob.wraps, !.resumed = TRUE]
  <2>1. d.phase # "apply" /\ e.phase # "apply"
    BY DEF NoCall
  <2>2. \A m \in wire' : m.type = "put" => m \in wire
    BY <1>9 DEF StartRekey, ChangeOf
  <2>3. call' = [call EXCEPT ![t] = d] \/ call' = [call EXCEPT ![t] = e]
    BY <1>9 DEF StartRekey, Step
  <2> HIDE DEF d, e
  <2> QED
    BY <1>9, <2>1, <2>2, <2>3, SealedCall DEF StartRekey
<1>10. ASSUME NEW t \in Tabs, Reread(t) PROVE Sealed'
  <2> DEFINE c == call[t]
             w == Rewrapped(blob.wraps, c.old, c.new)
             m == PutOf(t, c.new, blob.version, w)
             d == [c EXCEPT !.phase = "push", !.base = blob.version, !.wraps = w]
  <2>1. c \in Call /\ c.new \in Passwords /\ blob' = blob
    BY <1>10 DEF Reread, Base, TypeOK, CallShape, Changing
  <2>2. CASE Opens(t, c.old) /\ wire' = wire \cup {m} /\ call' = [call EXCEPT ![t] = d]
    <3>1. \A k \in Keys : w[k] \in {0, c.new} /\ (blob.wraps[k] # 0 => w[k] # 0)
      BY <2>1, <2>2 DEF Rewrapped, Sealed, Uniform, Opens, Passwords
    <3>2. blob.version \in Nat
      BY DEF Base, TypeOK
    <3>3. PutFits(m)
      BY <2>2, <3>1, <3>2 DEF PutFits, Uniform, Keeps, PutOf, Opens
    <3>4. d.phase # "apply"
      BY <2>1 DEF Call
    <3> HIDE DEF d, m
    <3> QED
      BY <1>q, <2>1, <2>2, <3>3, <3>4
  <2>3. CASE wire' = wire /\ call' = [call EXCEPT ![t] = NoCall]
    BY <2>1, <2>3, <1>n, SealedCall
  <2> QED
    BY <1>10, <2>2, <2>3 DEF Reread, Step
<1>11. ASSUME NEW m \in wire, AcceptPut(m) PROVE Sealed'
  <2> DEFINE c == call[m.from]
  <2>1. /\ m.type = "put" /\ m.base = blob.version /\ PutFits(m)
        /\ blob'.version = blob.version + 1 /\ blob'.key = m.new /\ blob'.wraps = m.wraps
        /\ blob.version \in Nat
    BY <1>11 DEF AcceptPut, Matches, Sealed, Base, TypeOK
  <2>2. Uniform(blob'.wraps, blob'.key)
    BY <2>1 DEF PutFits
  <2>3. \A n \in wire' : n.type = "put" => n \in wire
    BY <1>11 DEF AcceptPut, ChangeOf
  <2>4. \A n \in wire' : n.type = "put" => PutFits(n)'
    <3> SUFFICES ASSUME NEW n \in wire', n.type = "put" PROVE PutFits(n)'
      OBVIOUS
    <3>1. n \in wire /\ n.base \in Nat /\ n.base <= blob.version /\ Uniform(n.wraps, n.new)
      BY <2>3 DEF Sealed, PutFits, Base, TypeOK, Request
    <3> QED
      BY <2>1, <3>1 DEF PutFits, Uniform
  <2>5. m.from # NoTab => m.from \in Tabs /\ c \in Call
    BY DEF Base, TypeOK, Request
  <2>6. ASSUME NEW u \in Tabs, call'[u].phase = "apply" PROVE call'[u] = call[u]
    <3>1. CASE m.from = NoTab \/ u # m.from
      BY <1>11, <3>1, <2>5 DEF AcceptPut, Answer, Base, TypeOK
    <3>2. CASE m.from # NoTab /\ u = m.from /\ c.phase = "push"
      <4>1. call'[u] = [c EXCEPT !.phase = "change"]
        BY <1>11, <3>2, <2>5 DEF AcceptPut, Answer, Base, TypeOK
      <4> QED
        BY <4>1, <2>5, <2>6, <3>2 DEF Call
    <3>3. CASE m.from # NoTab /\ u = m.from /\ c.phase # "push"
      <4>1. call'[u] = Synced(c)
        BY <1>11, <3>3, <2>5 DEF AcceptPut, Answer, Base, TypeOK
      <4> QED
        BY <4>1, <2>5, <2>6, <3>3, <1>s
    <3> QED
      BY <3>1, <3>2, <3>3
  <2>7. \A u \in Tabs : call'[u].phase = "apply" => ReadFits(call[u])'
    <3> SUFFICES ASSUME NEW u \in Tabs, call'[u].phase = "apply" PROVE ReadFits(call[u])'
      OBVIOUS
    <3>1. /\ call'[u] = call[u] /\ call[u].base \in Nat /\ call[u].base <= blob.version
          /\ Uniform(call[u].wraps, call[u].old)
      BY <2>6 DEF Sealed, ReadFits, Base, TypeOK, Call
    <3> QED
      BY <2>1, <3>1 DEF ReadFits, Uniform
  <2> QED
    BY <2>2, <2>4, <2>7 DEF Sealed, Uniform
<1>12. ASSUME NEW m \in wire, RefusePut(m) PROVE Sealed'
  <2> DEFINE c == call[m.from]
             d == IF m.live /\ c.phase = "put" THEN [c EXCEPT !.phase = "pull"] ELSE NoCall
  <2>1. m.from # NoTab => d.phase # "apply"
    BY <1>n DEF Base, TypeOK, Request, Call
  <2>2. Answer(m, d) /\ blob' = blob /\ wire' = wire \ {m}
    BY <1>12 DEF RefusePut
  <2> HIDE DEF d
  <2> QED
    BY <2>1, <2>2, SealedAnswer
<1>13. ASSUME NEW m \in wire, AcceptChange(m) PROVE Sealed'
  <2> DEFINE d == [call[m.from] EXCEPT !.phase = "install"]
             Revoked(n) == [n EXCEPT !.live = FALSE]
  <2>1. m.from # NoTab => d.phase # "apply"
    BY DEF Base, TypeOK, Request, Call
  <2>2. Answer(m, d) /\ blob' = blob /\ wire' = {Revoked(n) : n \in wire \ {m}}
    BY <1>13 DEF AcceptChange
  <2>3. ASSUME NEW n \in wire
        PROVE  /\ Revoked(n).type = n.type /\ Revoked(n).base = n.base
               /\ Revoked(n).old = n.old /\ Revoked(n).new = n.new
               /\ Revoked(n).wraps = n.wraps
    BY DEF Base, TypeOK, Request
  <2> HIDE DEF d, Revoked
  <2>4. \A n \in wire' : n.type = "put" =>
          \E o \in wire : /\ o.type = "put" /\ o.base = n.base /\ o.old = n.old
                          /\ o.new = n.new /\ o.wraps = n.wraps
    BY <2>2, <2>3
  <2> QED
    BY <2>1, <2>2, <2>4, SealedAnswer
<1>14. ASSUME NEW m \in wire, RefuseChange(m) PROVE Sealed'
  <2> DEFINE d == [call[m.from] EXCEPT !.phase = "stranded"]
  <2>1. m.from # NoTab => d.phase # "apply"
    BY DEF Base, TypeOK, Request, Call
  <2>2. Answer(m, d) /\ blob' = blob /\ wire' = wire \ {m}
    BY <1>14 DEF RefuseChange
  <2> HIDE DEF d
  <2> QED
    BY <2>1, <2>2, SealedAnswer
<1>15. ASSUME NEW t \in Tabs, Install(t) \/ InstallKeys(t) \/ ClearCodes(t)
       PROVE  Sealed'
  <2>1. \A s \in {"keys", "codes", "done"} : [call[t] EXCEPT !.phase = s].phase # "apply"
    BY DEF Base, TypeOK, Call
  <2>2. \E s \in {"keys", "codes", "done"} :
          call' = [call EXCEPT ![t] = [call[t] EXCEPT !.phase = s]]
    BY <1>15 DEF Install, InstallKeys, ClearCodes, Step
  <2>3. blob' = blob /\ wire' = wire
    BY <1>15 DEF Install, InstallKeys, ClearCodes
  <2> QED
    BY <2>1, <2>2, <2>3, SealedCall
<1>c. ASSUME NEW t \in Tabs, NEW c, c.phase # "apply", Abandon(t), blob' = blob,
             call' = [call EXCEPT ![t] = c]
      PROVE  Sealed'
  <2> DEFINE Orphan(n) == [n EXCEPT !.from = NoTab]
  <2>1. ASSUME NEW n \in wire
        PROVE  /\ Orphan(n).type = n.type /\ Orphan(n).base = n.base
               /\ Orphan(n).old = n.old /\ Orphan(n).new = n.new
               /\ Orphan(n).wraps = n.wraps
    BY DEF Base, TypeOK, Request
  <2>2. \A n \in wire' : \E o \in wire : n = o \/ n = Orphan(o)
    BY <1>c DEF Abandon
  <2> HIDE DEF Orphan
  <2>3. \A n \in wire' : n.type = "put" =>
          \E o \in wire : /\ o.type = "put" /\ o.base = n.base /\ o.old = n.old
                          /\ o.new = n.new /\ o.wraps = n.wraps
    BY <2>1, <2>2
  <2>4. \A u \in Tabs : call'[u].phase = "apply" => call'[u] = call[u]
    BY <1>c DEF Base, TypeOK
  <2> QED
    BY <1>c, <2>3, <2>4, SealedFrame
<1>16. ASSUME NEW t \in Tabs, Disconnect(t) PROVE Sealed'
  <2>1. Failed(call[t]).phase # "apply"
    BY <1>n DEF Failed, Base, TypeOK, Call
  <2> QED
    BY <1>16, <1>c, <2>1 DEF Disconnect, Step
<1>17. ASSUME NEW t \in Tabs, Reload(t) PROVE Sealed'
  BY <1>17, <1>c, <1>n DEF Reload, Step
<1>18. CASE UNCHANGED vars
  BY <1>18, SealedFrame DEF vars
<1> QED
  BY <1>1, <1>2, <1>3, <1>4, <1>5, <1>6, <1>7, <1>8, <1>9, <1>10, <1>11, <1>12, <1>13,
     <1>14, <1>15, <1>16, <1>17, <1>18 DEF Next, Continue, Handle

LEMMA SealedInit == Init => Sealed
BY DEF Init, Sealed, Uniform, NoKeys, NoCall

(* Whoever syncs, re-keys, fails or reloads, every portable key in the     *)
(* vault opens with the key the vault is sealed with.                      *)
THEOREM KeysAlwaysOpen == Spec => []KeysOpen
<1>1. Base /\ Sealed => KeysOpen
  BY DEF Sealed, Uniform, KeysOpen
<1> QED
  BY <1>1, BaseInit, BaseInductive, SealedInit, SealedInductive, PTL DEF Spec

(* A PUT that the server would accept was merged from a document under the *)
(* vault's present key.                                                    *)
THEOREM StaleKeyAlwaysLoses == Spec => []StaleKeyLoses
<1>1. Base /\ Sealed => StaleKeyLoses
  BY DEF Sealed, PutFits, StaleKeyLoses, Matches
<1> QED
  BY <1>1, BaseInit, BaseInductive, SealedInit, SealedInductive, PTL DEF Spec

(* No step takes a portable key out of the vault. *)
THEOREM KeysNeverLeave == Spec => NoKeyLeaves
<1> DEFINE Kept == \A k \in Keys : blob.wraps[k] # 0 => blob'.wraps[k] # 0
<1>1. Base /\ Sealed /\ [Next]_vars => [Kept]_vars
  <2> SUFFICES ASSUME Base, Sealed, Next PROVE Kept
    BY DEF vars
  <2>1. CASE \E m \in wire : AcceptPut(m)
    <3> PICK m \in wire : AcceptPut(m)
      BY <2>1
    <3>1. PutFits(m) /\ m.base = blob.version /\ blob'.wraps = m.wraps
      BY DEF AcceptPut, Matches, Sealed
    <3> QED
      BY <3>1 DEF PutFits, Keeps
  <2>2. CASE ~\E m \in wire : AcceptPut(m)
    <3>1. blob' = blob
      BY <2>2 DEF Next, Continue, Handle, SignIn, EnrolCodes, StartSync, Pull, PullAgain,
         GiveUp, Disconnect, Reload, Unlock, GenerateKey, StartRekey, Apply, Reread,
         Install, InstallKeys, ClearCodes, RefusePut, AcceptChange, RefuseChange
    <3> QED
      BY <3>1
  <2> QED
    BY <2>1, <2>2
<1> QED
  BY <1>1, BaseInit, BaseInductive, SealedInit, SealedInductive, PTL DEF Spec, NoKeyLeaves

-------------------------------------------------------------------------------
(* While passwords are not reused the vault only moves to later passwords, *)
(* and no credential change on the wire asks for a later one than that.    *)
Ranked ==
  /\ BlobFirst
  /\ \A m \in wire : m.type = "put" => m.old <= m.new
  /\ \A m \in wire : m.type = "change" => m.new <= blob.key
  /\ \A t \in Tabs : call[t].new # 0 => call[t].old < call[t].new

LEMMA RankedInductive ==
  ASSUME ~MayReuse
  PROVE  Base /\ Sealed /\ Ranked /\ [Next]_vars => Ranked'
<1> SUFFICES ASSUME Base, Sealed, Ranked, [Next]_vars PROVE Ranked'
  OBVIOUS
<1> USE RekeyAssumption
<1>n. NoCall.new = 0
  BY DEF NoCall
<1>i. /\ credential \in Nat /\ blob.key \in Nat
      /\ \A m \in wire : m.old \in Nat /\ m.new \in Nat /\ m \in Request
      /\ \A t \in Tabs : call[t] \in Call /\ call[t].old \in Nat /\ call[t].new \in Nat
  BY DEF Base, TypeOK, Passwords, Request, Call
(* Steps of one tab. *)
<1>a. ASSUME NEW t \in Tabs, NEW c, call' = [call EXCEPT ![t] = c],
             c.new # 0 => c.old < c.new,
             blob' = blob, credential' = credential,
             \/ wire' = wire
             \/ \E n : /\ wire' = wire \cup {n}
                       /\ n.type = "put" => n.old <= n.new
                       /\ n.type = "change" => n.new <= blob.key
      PROVE  Ranked'
  <2>1. \A u \in Tabs : call'[u].new # 0 => call'[u].old < call'[u].new
    BY <1>a DEF Base, TypeOK, Ranked
  <2>2. /\ \A m \in wire' : m.type = "put" => m.old <= m.new
        /\ \A m \in wire' : m.type = "change" => m.new <= blob.key
    BY <1>a DEF Ranked
  <2> QED
    BY <1>a, <2>1, <2>2 DEF Ranked, BlobFirst
<1>1. ASSUME NEW t \in Tabs, SignIn(t) PROVE Ranked'
  BY <1>1, <1>a, <1>n DEF SignIn
<1>2. ASSUME NEW t \in Tabs, NEW p \in Passwords, Unlock(t, p) PROVE Ranked'
  BY <1>2 DEF Unlock, Ranked, BlobFirst
<1>3. ASSUME NEW t \in Tabs, NEW k \in Keys, GenerateKey(t, k) PROVE Ranked'
  BY <1>3 DEF GenerateKey, Ranked, BlobFirst
<1>4. ASSUME NEW t \in Tabs, EnrolCodes(t) PROVE Ranked'
  BY <1>4 DEF EnrolCodes, Ranked, BlobFirst
<1>p. ASSUME NEW t \in Tabs, NEW c \in Call, c.new # 0 => c.old < c.new, Pull(t, c)
      PROVE  Ranked'
  <2> DEFINE d == [c EXCEPT !.phase = "apply", !.base = blob.version, !.wraps = blob.wraps]
  <2>1. d.new = c.new /\ d.old = c.old /\ call' = [call EXCEPT ![t] = d]
    BY <1>p DEF Pull, Step, Call
  <2> HIDE DEF d
  <2> QED
    BY <1>a, <1>p, <2>1 DEF Pull
<1>5. ASSUME NEW t \in Tabs, StartSync(t) PROVE Ranked'
  <2> DEFINE c == [NoCall EXCEPT !.old = key[t]]
  <2>1. c \in Call /\ c.new = 0
    BY NoCallType, <1>n DEF Base, TypeOK, Call
  <2>2. Pull(t, c)
    BY <1>5 DEF StartSync
  <2> HIDE DEF c
  <2> QED
    BY <1>p, <2>1, <2>2
<1>6. ASSUME NEW t \in Tabs, PullAgain(t) PROVE Ranked'
  BY <1>6, <1>p, <1>i DEF PullAgain, Ranked
<1>7. ASSUME NEW t \in Tabs, GiveUp(t) PROVE Ranked'
  BY <1>7, <1>a, <1>n DEF GiveUp, Step
<1>s. ASSUME NEW c \in Call, c.new # 0 => c.old < c.new
      PROVE  Synced(c).new # 0 => Synced(c).old < Synced(c).new
  BY <1>s, <1>n DEF Synced, Call
<1>8. ASSUME NEW t \in Tabs, Apply(t) PROVE Ranked'
  <2> DEFINE c == call[t]
             m == PutOf(t, c.old, c.base, Publishable(t))
             d == [c EXCEPT !.phase = "put"]
  <2>1. c \in Call /\ (c.new # 0 => c.old < c.new) /\ c.old \in Nat
    BY <1>i DEF Ranked
  <2>2. blob' = blob /\ credential' = credential
    BY <1>8 DEF Apply
  <2>3. CASE Step(t, Synced(c)) /\ wire' = wire
    BY <1>a, <1>s, <2>1, <2>2, <2>3 DEF Step
  <2>4. CASE Step(t, d) /\ wire' = wire \cup {m}
    <3>1. m.type = "put" /\ m.old <= m.new
      BY <2>1 DEF PutOf
    <3>2. d.new = c.new /\ d.old = c.old
      BY <2>1 DEF Call
    <3> HIDE DEF d, m
    <3> QED
      BY <1>a, <2>1, <2>2, <2>4, <3>1, <3>2 DEF Step
  <2> QED
    BY <1>8, <2>3, <2>4 DEF Apply
<1>9. ASSUME NEW t \in Tabs, NEW old \in Passwords, NEW new \in Passwords,
             StartRekey(t, old, new)
      PROVE  Ranked'
  <2> DEFINE b == [NoCall EXCEPT !.old = old, !.new = new]
             d == [b EXCEPT !.phase = "pull"]
             e == [b EXCEPT !.phase = "change", !.wraps = blob.wraps, !.resumed = TRUE]
             m == ChangeOf(t, old, new)
  <2>1. d.old = old /\ d.new = new /\ e.old = old /\ e.new = new
    BY DEF NoCall
  <2>2. old < new /\ blob' = blob /\ credential' = credential
    BY <1>9 DEF StartRekey, Passwords
  <2>3. \/ wire' = wire /\ call' = [call EXCEPT ![t] = d]
        \/ wire' = wire \cup {m} /\ call' = [call EXCEPT ![t] = e] /\ blob.key = new
    BY <1>9 DEF StartRekey, Step, Opens
  <2>4. m.type = "change" /\ m.new = new
    BY DEF ChangeOf
  <2>5. blob.key = new => new <= blob.key
    BY <1>i
  <2> HIDE DEF d, e, m
  <2> QED
    BY <1>a, <2>1, <2>2, <2>3, <2>4, <2>5
<1>10. ASSUME NEW t \in Tabs, Reread(t) PROVE Ranked'
  <2> DEFINE c == call[t]
             w == Rewrapped(blob.wraps, c.old, c.new)
             m == PutOf(t, c.new, blob.version, w)
             d == [c EXCEPT !.phase = "push", !.base = blob.version, !.wraps = w]
  <2>1. c \in Call /\ c.old < c.new /\ c.old \in Nat /\ c.new \in Nat
    <3>1. c.new \in Passwords
      BY <1>10 DEF Reread, Base, CallShape, Changing
    <3> QED
      BY <1>i, <3>1 DEF Ranked, Passwords
  <2>2. m.type = "put" /\ m.old <= m.new
    BY <2>1 DEF PutOf
  <2>3. d.old = c.old /\ d.new = c.new
    BY <2>1 DEF Call
  <2>4. /\ blob' = blob /\ credential' = credential
        /\ \/ wire' = wire /\ call' = [call EXCEPT ![t] = NoCall]
           \/ wire' = wire \cup {m} /\ call' = [call EXCEPT ![t] = d]
    BY <1>10 DEF Reread, Step
  <2> HIDE DEF d, m
  <2> QED
    BY <1>a, <1>n, <2>1, <2>2, <2>3, <2>4
(* Answers. *)
<1>b. ASSUME NEW m \in wire, NEW c, Answer(m, c),
             m.from # NoTab => (c.new # 0 => c.old < c.new)
      PROVE  \A u \in Tabs : call'[u].new # 0 => call'[u].old < call'[u].new
  <2>1. m.from # NoTab => m.from \in Tabs
    BY <1>i DEF Request
  <2> QED
    BY <1>b, <2>1 DEF Answer, Ranked, Base, TypeOK
<1>f. ASSUME NEW m \in wire, m.from # NoTab
      PROVE  /\ m.from \in Tabs /\ call[m.from] \in Call
             /\ call[m.from].new # 0 => call[m.from].old < call[m.from].new
  BY <1>f, <1>i DEF Request, Ranked
<1>r. ASSUME NEW m \in wire, m.from # NoTab, NEW s
      PROVE  LET d == [call[m.from] EXCEPT !.phase = s]
             IN  d.new # 0 => d.old < d.new
  BY <1>f, <1>r DEF Call
<1>11. ASSUME NEW m \in wire, AcceptPut(m) PROVE Ranked'
  <2> DEFINE c == call[m.from]
             d == [c EXCEPT !.phase = "change"]
             n == ChangeOf(m.from, c.old, c.new)
  <2>1. /\ m.type = "put" /\ m.old = blob.key /\ blob'.key = m.new
        /\ credential' = credential
    BY <1>11 DEF AcceptPut, Matches, Sealed, PutFits
  <2>2. blob.key <= blob'.key /\ blob'.key \in Nat
    BY <1>i, <2>1 DEF Ranked
  <2>3. BlobFirst'
    BY <1>i, <2>1, <2>2 DEF Ranked, BlobFirst
  <2>4. CASE m.from # NoTab /\ c.phase = "push"
    <3>1. Answer(m, d) /\ wire' = (wire \ {m}) \cup {n}
      BY <1>11, <2>4 DEF AcceptPut
    <3>2. n.type = "change" /\ n.new = c.new
      BY DEF ChangeOf
    <3>3. c.new = blob'.key
      BY <2>1, <2>4 DEF Base, Owned
    <3>4. \A u \in Tabs : call'[u].new # 0 => call'[u].old < call'[u].new
      BY <1>b, <1>r, <2>4, <3>1
    <3>5. \A x \in wire' : x.type = "change" => x.new <= blob'.key
      BY <1>i, <2>2, <3>1, <3>2, <3>3 DEF Ranked
    <3>6. \A x \in wire' : x.type = "put" => x.old <= x.new
      BY <3>1, <3>2 DEF Ranked
    <3> QED
      BY <2>3, <3>4, <3>5, <3>6 DEF Ranked
  <2>5. CASE ~(m.from # NoTab /\ c.phase = "push")
    <3>1. Answer(m, Synced(c)) /\ wire' = wire \ {m}
      BY <1>11, <2>5 DEF AcceptPut
    <3>2. \A u \in Tabs : call'[u].new # 0 => call'[u].old < call'[u].new
      BY <1>b, <1>f, <1>s, <3>1
    <3>3. \A x \in wire' : x.type = "change" => x.new <= blob'.key
      BY <1>i, <2>2, <3>1 DEF Ranked
    <3> QED
      BY <2>3, <3>1, <3>2, <3>3 DEF Ranked
  <2> QED
    BY <2>4, <2>5
<1>12. ASSUME NEW m \in wire, RefusePut(m) PROVE Ranked'
  <2> DEFINE c == call[m.from]
             d == IF m.live /\ c.phase = "put" THEN [c EXCEPT !.phase = "pull"] ELSE NoCall
  <2>1. m.from # NoTab => (d.new # 0 => d.old < d.new)
    BY <1>r, <1>n
  <2>2. Answer(m, d)
    BY <1>12 DEF RefusePut
  <2> HIDE DEF d
  <2>3. \A u \in Tabs : call'[u].new # 0 => call'[u].old < call'[u].new
    BY <1>b, <2>1, <2>2
  <2> QED
    BY <1>12, <2>3 DEF RefusePut, Ranked, BlobFirst
<1>13. ASSUME NEW m \in wire, AcceptChange(m) PROVE Ranked'
  <2> DEFINE Revoked(n) == [n EXCEPT !.live = FALSE]
  <2>1. \A u \in Tabs : call'[u].new # 0 => call'[u].old < call'[u].new
    BY <1>13, <1>b, <1>r DEF AcceptChange
  <2>2. wire' = {Revoked(n) : n \in wire \ {m}}
    BY <1>13 DEF AcceptChange
  <2>3. ASSUME NEW n \in wire
        PROVE  /\ Revoked(n).type = n.type
               /\ Revoked(n).old = n.old /\ Revoked(n).new = n.new
    BY <1>i DEF Request
  <2> HIDE DEF Revoked
  <2>4. /\ \A x \in wire' : x.type = "put" => x.old <= x.new
        /\ \A x \in wire' : x.type = "change" => x.new <= blob.key
    BY <2>2, <2>3 DEF Ranked
  <2>5. blob' = blob /\ credential' <= blob.key
    BY <1>13 DEF AcceptChange, Ranked
  <2> QED
    BY <2>1, <2>4, <2>5 DEF Ranked, BlobFirst
<1>14. ASSUME NEW m \in wire, RefuseChange(m) PROVE Ranked'
  <2>1. \A u \in Tabs : call'[u].new # 0 => call'[u].old < call'[u].new
    BY <1>14, <1>b, <1>r DEF RefuseChange
  <2> QED
    BY <1>14, <2>1 DEF RefuseChange, Ranked, BlobFirst
<1>15. ASSUME NEW t \in Tabs, Install(t) \/ InstallKeys(t) \/ ClearCodes(t)
       PROVE  Ranked'
  <2>1. PICK s \in {"keys", "codes", "done"} :
          call' = [call EXCEPT ![t] = [call[t] EXCEPT !.phase = s]]
    BY <1>15 DEF Install, InstallKeys, ClearCodes, Step
  <2> DEFINE d == [call[t] EXCEPT !.phase = s]
  <2>2. d.new # 0 => d.old < d.new
    BY <1>i DEF Call, Ranked
  <2>3. blob' = blob /\ wire' = wire /\ credential' = credential
    BY <1>15 DEF Install, InstallKeys, ClearCodes
  <2> HIDE DEF d
  <2>4. call' = [call EXCEPT ![t] = d]
    BY <2>1 DEF d
  <2> QED
    BY <1>a, <2>2, <2>3, <2>4
<1>c. ASSUME NEW t \in Tabs, NEW c, c.new # 0 => c.old < c.new, Abandon(t),
             blob' = blob, credential' = credential, call' = [call EXCEPT ![t] = c]
      PROVE  Ranked'
  <2> DEFINE Orphan(n) == [n EXCEPT !.from = NoTab]
  <2>1. ASSUME NEW n \in wire
        PROVE  /\ Orphan(n).type = n.type
               /\ Orphan(n).old = n.old /\ Orphan(n).new = n.new
    BY <1>i DEF Request
  <2>2. \A n \in wire' : \E o \in wire : n = o \/ n = Orphan(o)
    BY <1>c DEF Abandon
  <2> HIDE DEF Orphan
  <2>3. /\ \A x \in wire' : x.type = "put" => x.old <= x.new
        /\ \A x \in wire' : x.type = "change" => x.new <= blob.key
    BY <2>1, <2>2 DEF Ranked
  <2>4. \A u \in Tabs : call'[u].new # 0 => call'[u].old < call'[u].new
    BY <1>c DEF Base, TypeOK, Ranked
  <2> QED
    BY <1>c, <2>3, <2>4 DEF Ranked, BlobFirst
<1>16. ASSUME NEW t \in Tabs, Disconnect(t) PROVE Ranked'
  <2>1. Failed(call[t]).new # 0 => Failed(call[t]).old < Failed(call[t]).new
    BY <1>i, <1>n DEF Failed, Call, Ranked
  <2> QED
    BY <1>16, <1>c, <2>1 DEF Disconnect, Step
<1>17. ASSUME NEW t \in Tabs, Reload(t) PROVE Ranked'
  BY <1>17, <1>c, <1>n DEF Reload, Step
<1>18. CASE UNCHANGED vars
  BY <1>18 DEF vars, Ranked, BlobFirst
<1> QED
  BY <1>1, <1>2, <1>3, <1>4, <1>5, <1>6, <1>7, <1>8, <1>9, <1>10, <1>11, <1>12, <1>13,
     <1>14, <1>15, <1>16, <1>17, <1>18 DEF Next, Continue, Handle

(* As long as no password is used twice, the credential is never ahead of  *)
(* the vault, wherever a change stops and however late its requests land.  *)
THEOREM BlobAlwaysFirst == ASSUME ~MayReuse PROVE Spec => []BlobFirst
<1>1. Init => Ranked
  BY DEF Init, Ranked, BlobFirst, NoCall
<1>2. Ranked => BlobFirst
  BY DEF Ranked
<1>3. Base /\ Sealed /\ Ranked /\ [Next]_vars => Ranked'
  BY RankedInductive
<1> QED
  BY <1>1, <1>2, <1>3, BaseInit, BaseInductive, SealedInit, SealedInductive, PTL DEF Spec
===============================================================================
