------------------------------ MODULE RelayProofs ------------------------------
(***************************************************************************)
(* Proofs about the relay beside its meter, each for every value of the    *)
(* constants: the registry of agents (RelayAgents) and the connection      *)
(* events (RelayEvents). RelayMeterProofs is about the meter.              *)
(***************************************************************************)
EXTENDS Relay, Sequences, TLAPS

-------------------------------------------------------------------------------
(* The registry of agents. *)
ConnTypes ==
  /\ conn \in [Link -> {"idle", "proving", "verified", "live", "ended", "closed"}]
  /\ up \in [Link -> BOOLEAN]
  /\ control \in [Agent -> Link \cup {None}] /\ latest \in [Agent -> Link \cup {None}]

BoxTypes ==
  /\ box \in [Link -> Seq(Open \cup Cmd)] /\ got \in [Link -> SUBSET (Open \cup Cmd)]

OpenPhases == {"idle", "asking", "waiting", "expired", "served", "failed"}
CmdPhases == {"idle", "sending", "waiting", "expired", "replied", "silent", "offline", "abandoned"}

OpenTypes ==
  /\ opening \in [Open -> [phase : OpenPhases, via : Link \cup {None}]]
  /\ pending \subseteq Open /\ claims \in [Open -> Nat]

CmdTypes ==
  /\ sending \in [Cmd -> [phase : CmdPhases, via : Link \cup {None}]]
  /\ awaiting \subseteq Cmd /\ ran \subseteq Cmd

(* A registration is the last one that was made, or it was forgotten when  *)
(* that connection was closed.                                             *)
LatestInv ==
  \A a \in Agent :
    /\ control[a] \in {None, latest[a]}
    /\ latest[a] # None => /\ LinkOf[latest[a]] = a
                           /\ control[a] = None => conn[latest[a]] = "closed"

(* A request that has not asked has let nothing in. *)
TicketInv ==
  /\ Agents!TicketsAreForOnce
  /\ \A o \in Open : opening[o].phase = "idle" => claims[o] = 0

(* What is on its way to a machine, or was brought to it. *)
On(x, k) == x \in got[k] \/ \E i \in DOMAIN box[k] : box[k][i] = x

(* The command has not been put into a channel. *)
Unsent == {"idle", "sending", "offline"}

(* A clone of a sender is of the machine the request names, so whatever    *)
(* goes through it was asked of that machine; what was not sent is         *)
(* nowhere; and what was answered was carried out.                         *)
CarryInv ==
  /\ \A o \in Open : opening[o].phase = "asking" =>
       opening[o].via \in Link /\ LinkOf[opening[o].via] = AskedOf[o] /\ o \notin Foreign
  /\ \A q \in Cmd : sending[q].phase = "sending" =>
       sending[q].via \in Link /\ LinkOf[sending[q].via] = AskedOf[q] /\ q \notin Foreign
  /\ \A k \in Link, x \in Open \cup Cmd : On(x, k) =>
       AskedOf[x] = LinkOf[k] /\ x \notin Foreign
  /\ \A q \in Cmd : sending[q].phase \in Unsent => q \notin ran /\ \A k \in Link : ~On(q, k)
  /\ \A q \in Cmd : sending[q].phase = "replied" => q \in ran

RegistryInv ==
  ConnTypes /\ BoxTypes /\ OpenTypes /\ CmdTypes /\ LatestInv /\ TicketInv /\ CarryInv

(* What changes neither the requests nor what is carried. *)
LEMMA CarryKept ==
  ASSUME RegistryInv, UNCHANGED <<opening, sending, ran>>,
         \A k \in Link, x \in Open \cup Cmd : On(x, k)' => On(x, k)
  PROVE  CarryInv'
BY DEF RegistryInv, CarryInv, On

(* One connection changes its state. *)
LEMMA ConnStep ==
  ASSUME Agents!AgentsAssumption, RegistryInv, NEW k \in Link,
         \/ Agents!Dial(k) \/ Agents!Drop(k) \/ Agents!Verified(k) \/ Agents!HandshakeFails(k)
         \/ Agents!RelaySteps(k)
  PROVE  RegistryInv'
<1>a. LinkOf \in [Link -> Agent] /\ None \notin Link
  BY DEF Agents!AgentsAssumption
<1>t. ConnTypes /\ BoxTypes /\ LatestInv
  BY DEF RegistryInv
<1>o. UNCHANGED <<opening, pending, claims, sending, awaiting, ran>>
  BY DEF Agents!Dial, Agents!Drop, Agents!Verified, Agents!HandshakeFails, Agents!RelaySteps,
         Agents!Register, Agents!Write, Agents!LoopEnds, Agents!Deregister, Agents!opens, Agents!cmds
<1>p. OpenTypes' /\ CmdTypes' /\ TicketInv'
  BY <1>o DEF RegistryInv, OpenTypes, CmdTypes, TicketInv, Agents!TicketsAreForOnce
(* The registrations and what is carried stay. *)
<1>s. ASSUME NEW s \in {"idle", "proving", "verified", "live", "ended", "closed"},
             conn[k] # "closed" \/ s = "closed",
             conn' = [conn EXCEPT ![k] = s], up' \in [Link -> BOOLEAN],
             UNCHANGED <<control, latest>>, BoxTypes',
             \A j \in Link, x \in Open \cup Cmd : On(x, j)' => On(x, j)
      PROVE  RegistryInv'
  <2>1. ConnTypes' /\ LatestInv'
    BY <1>s, <1>t DEF ConnTypes, LatestInv
  <2> QED
    BY <1>o, <1>p, <1>s, <2>1, CarryKept DEF RegistryInv
<1>b. UNCHANGED <<box, got>> => /\ BoxTypes'
                                /\ \A j \in Link, x \in Open \cup Cmd : On(x, j)' => On(x, j)
  BY <1>t DEF BoxTypes, On
<1>1. CASE Agents!Dial(k) \/ Agents!Verified(k) \/ Agents!HandshakeFails(k)
  BY <1>1, <1>b, <1>s, <1>t DEF ConnTypes, Agents!Dial, Agents!Verified, Agents!HandshakeFails
<1>2. CASE Agents!Drop(k)
  <2>1. conn' = [conn EXCEPT ![k] = conn[k]]
    BY <1>2, <1>t DEF ConnTypes, Agents!Drop
  <2> QED
    BY <1>2, <1>b, <1>s, <1>t, <2>1 DEF ConnTypes, Agents!Drop
<1>3. CASE Agents!Register(k)
  <2>1. ConnTypes' /\ UNCHANGED <<box, got>>
    BY <1>3, <1>a, <1>t DEF ConnTypes, Agents!Register
  <2>2. LatestInv'
    BY <1>3, <1>a, <1>t DEF ConnTypes, LatestInv, Agents!Register
  <2> QED
    BY <1>b, <1>o, <1>p, <2>1, <2>2, CarryKept DEF RegistryInv
<1>4. CASE Agents!Write(k)
  <2>1. /\ box[k] \in Seq(Open \cup Cmd) /\ box[k] # <<>>
        /\ box' = [box EXCEPT ![k] = Tail(box[k])]
        /\ got' = [got EXCEPT ![k] = IF up[k] THEN got[k] \cup {Head(box[k])} ELSE got[k]]
        /\ UNCHANGED <<conn, up, control, latest>>
    BY <1>4, <1>t DEF BoxTypes, Agents!Write
  <2>2. /\ Head(box[k]) = box[k][1] /\ 1 \in DOMAIN box[k] /\ box[k][1] \in Open \cup Cmd
        /\ Tail(box[k]) \in Seq(Open \cup Cmd)
        /\ \A i \in DOMAIN Tail(box[k]) : i + 1 \in DOMAIN box[k] /\ Tail(box[k])[i] = box[k][i + 1]
    BY <2>1
  <2>3. BoxTypes'
    BY <1>t, <2>1, <2>2 DEF BoxTypes
  <2>4. /\ box'[k] = Tail(box[k]) /\ got'[k] \subseteq got[k] \cup {box[k][1]}
        /\ \A j \in Link \ {k} : box'[j] = box[j] /\ got'[j] = got[j]
    BY <1>t, <2>1, <2>2 DEF BoxTypes
  <2>5. \A j \in Link, x \in Open \cup Cmd : On(x, j)' => On(x, j)
    <3> SUFFICES ASSUME NEW j \in Link, NEW x \in Open \cup Cmd, On(x, j)'
                 PROVE  On(x, j)
      OBVIOUS
    <3>1. CASE j # k
      BY <2>4, <3>1 DEF On
    <3>2. CASE j = k /\ x \in got'[k]
      BY <2>2, <2>4, <3>2 DEF On
    <3>3. CASE j = k /\ \E i \in DOMAIN box'[k] : box'[k][i] = x
      BY <2>2, <2>4, <3>3 DEF On
    <3> QED
      BY <3>1, <3>2, <3>3 DEF On
  <2>6. ConnTypes' /\ LatestInv'
    BY <1>t, <2>1 DEF ConnTypes, LatestInv
  <2> QED
    BY <1>o, <1>p, <2>3, <2>5, <2>6, CarryKept DEF RegistryInv
<1>5. CASE Agents!LoopEnds(k)
  <2>1. /\ conn[k] = "live" /\ conn' = [conn EXCEPT ![k] = "ended"]
        /\ box' = [box EXCEPT ![k] = <<>>] /\ up' = [up EXCEPT ![k] = FALSE]
        /\ UNCHANGED <<control, got, latest>>
    BY <1>5 DEF Agents!LoopEnds
  <2>2. BoxTypes' /\ box'[k] = <<>> /\ \A j \in Link \ {k} : box'[j] = box[j]
    BY <1>t, <2>1 DEF BoxTypes
  <2>3. \A j \in Link, x \in Open \cup Cmd : On(x, j)' => On(x, j)
    BY <2>1, <2>2 DEF On
  <2> QED
    BY <1>s, <1>t, <2>1, <2>2, <2>3 DEF ConnTypes
<1>6. CASE Agents!Deregister(k)
  <2>1. ConnTypes' /\ UNCHANGED <<box, got>>
    BY <1>6, <1>a, <1>t DEF ConnTypes, Agents!Deregister, Agents!Forgotten
  <2>2. LatestInv'
    BY <1>6, <1>a, <1>t DEF ConnTypes, LatestInv, Agents!Deregister, Agents!Forgotten
  <2> QED
    BY <1>b, <1>o, <1>p, <2>1, <2>2, CarryKept DEF RegistryInv
<1> QED
  BY <1>1, <1>2, <1>3, <1>4, <1>5, <1>6 DEF Agents!RelaySteps

(* A message that was asked of this machine goes into its channel. *)
LEMMA BoxGrows ==
  ASSUME RegistryInv, NEW k \in Link, NEW m \in Open \cup Cmd,
         box' = [box EXCEPT ![k] = Append(@, m)], got' = got
  PROVE  /\ BoxTypes'
         /\ \A j \in Link, x \in Open \cup Cmd : On(x, j)' => On(x, j) \/ (j = k /\ x = m)
<1>1. /\ box[k] \in Seq(Open \cup Cmd) /\ BoxTypes
  BY DEF RegistryInv, BoxTypes
<1>2. /\ Append(box[k], m) \in Seq(Open \cup Cmd)
      /\ \A i \in DOMAIN Append(box[k], m) :
           (i \in DOMAIN box[k] /\ Append(box[k], m)[i] = box[k][i]) \/ Append(box[k], m)[i] = m
  BY <1>1
<1>3. box'[k] = Append(box[k], m) /\ \A j \in Link \ {k} : box'[j] = box[j]
  BY <1>1 DEF BoxTypes
<1>4. BoxTypes'
  BY <1>1, <1>2 DEF BoxTypes
<1>5. \A j \in Link, x \in Open \cup Cmd : On(x, j)' => On(x, j) \/ (j = k /\ x = m)
  BY <1>2, <1>3 DEF On
<1> QED
  BY <1>4, <1>5

-------------------------------------------------------------------------------
(* A request for a session. *)
LEMMA OpenStep ==
  ASSUME Agents!AgentsAssumption, RegistryInv, NEW o \in Open,
         \/ Agents!OpenRefused(o) \/ Agents!AskToOpen(o) \/ Agents!AcceptStream(o)
         \/ Agents!OpenSteps(o)
  PROVE  RegistryInv'
<1>a. /\ LinkOf \in [Link -> Agent] /\ None \notin Link /\ Open \cap Cmd = {}
      /\ AskedOf \in [Open \cup Cmd -> Agent]
  BY DEF Agents!AgentsAssumption
<1>t. ConnTypes /\ BoxTypes /\ OpenTypes /\ CmdTypes /\ LatestInv /\ TicketInv /\ CarryInv
  BY DEF RegistryInv
<1>c. UNCHANGED <<conn, up, control, got, latest, sending, awaiting, ran>>
  BY DEF Agents!OpenRefused, Agents!AskToOpen, Agents!AcceptStream, Agents!OpenSteps,
         Agents!TrySend, Agents!TrySendFails, Agents!OpenExpires, Agents!OpenGivesUp,
         Agents!conns, Agents!cmds
<1>p. ConnTypes' /\ CmdTypes' /\ LatestInv'
  BY <1>c, <1>t DEF ConnTypes, CmdTypes, LatestInv
<1>m. ASSUME NEW r \in [phase : OpenPhases, via : Link \cup {None}],
             opening' = [opening EXCEPT ![o] = r]
      PROVE  opening' \in [Open -> [phase : OpenPhases, via : Link \cup {None}]]
             /\ opening'[o] = r /\ \A p \in Open \ {o} : opening'[p] = opening[p]
  BY <1>m, <1>t DEF OpenTypes
<1>r. opening[o] \in [phase : OpenPhases, via : Link \cup {None}]
  BY <1>t DEF OpenTypes
(* The request moves on, with its ticket kept, taken away or claimed. *)
<1>n. ASSUME NEW r \in [phase : OpenPhases, via : Link \cup {None}],
             opening' = [opening EXCEPT ![o] = r], r.phase # "asking" \/ r = opening[o], box' = box,
             OpenTypes', TicketInv'
      PROVE  RegistryInv'
  <2>1. CarryInv' /\ BoxTypes'
    BY <1>c, <1>m, <1>n, <1>t DEF CarryInv, BoxTypes, On
  <2> QED
    BY <1>n, <1>p, <2>1 DEF RegistryInv
<1>1. CASE Agents!OpenRefused(o) \/ Agents!OpenExpires(o)
  <2>1. PICK s \in {"failed", "expired"} :
             /\ opening' = [opening EXCEPT ![o].phase = s] /\ UNCHANGED <<box, pending, claims>>
             /\ opening[o].phase = "idle" \/ (opening[o].phase = "waiting" /\ s = "expired")
    BY <1>1 DEF Agents!OpenRefused, Agents!OpenExpires, Agents!conns
  <2> DEFINE r == [opening[o] EXCEPT !.phase = s]
  <2>2. r \in [phase : OpenPhases, via : Link \cup {None}] /\ r.phase = s
    BY <1>r, <2>1 DEF OpenPhases
  <2>3. opening' = [opening EXCEPT ![o] = r]
    BY <2>1
  <2> HIDE DEF r
  <2>4. OpenTypes'
    BY <1>m, <1>t, <2>1, <2>2, <2>3 DEF OpenTypes
  <2>5. TicketInv'
    BY <1>m, <1>t, <2>1, <2>2, <2>3 DEF TicketInv, Agents!TicketsAreForOnce
  <2> QED
    BY <1>n, <2>1, <2>2, <2>3, <2>4, <2>5
<1>2. CASE Agents!TrySendFails(o) \/ Agents!OpenGivesUp(o)
  <2>1. /\ opening' = [opening EXCEPT ![o].phase = "failed"] /\ pending' = pending \ {o}
        /\ opening[o].phase \in {"asking", "expired"} /\ UNCHANGED <<box, claims>>
    BY <1>2 DEF Agents!TrySendFails, Agents!OpenGivesUp, Agents!conns
  <2> DEFINE r == [opening[o] EXCEPT !.phase = "failed"]
  <2>2. r \in [phase : OpenPhases, via : Link \cup {None}] /\ r.phase = "failed"
    BY <1>r, <2>1 DEF OpenPhases
  <2>3. opening' = [opening EXCEPT ![o] = r]
    BY <2>1
  <2> HIDE DEF r
  <2>4. OpenTypes'
    BY <1>m, <1>t, <2>1, <2>2, <2>3 DEF OpenTypes
  <2>5. TicketInv'
    BY <1>m, <1>t, <2>1, <2>2, <2>3 DEF TicketInv, Agents!TicketsAreForOnce
  <2> QED
    BY <1>n, <2>1, <2>2, <2>3, <2>4, <2>5
<1>3. CASE Agents!AskToOpen(o)
  <2> DEFINE r == [phase |-> "asking", via |-> control[AskedOf[o]]]
  <2>1. /\ opening[o].phase = "idle" /\ o \notin Foreign /\ control[AskedOf[o]] # None
        /\ opening' = [opening EXCEPT ![o] = r] /\ pending' = pending \cup {o}
        /\ UNCHANGED <<box, claims>>
    BY <1>3 DEF Agents!AskToOpen, Agents!conns
  <2>2. /\ AskedOf[o] \in Agent /\ control[AskedOf[o]] \in Link
        /\ LinkOf[control[AskedOf[o]]] = AskedOf[o]
    BY <1>a, <1>t, <2>1 DEF ConnTypes, LatestInv
  <2>3. /\ r \in [phase : OpenPhases, via : Link \cup {None}] /\ r.phase = "asking"
        /\ r.via \in Link /\ LinkOf[r.via] = AskedOf[o]
    BY <2>2 DEF OpenPhases
  <2> HIDE DEF r
  <2>4. OpenTypes'
    BY <1>m, <1>t, <2>1, <2>3 DEF OpenTypes
  <2>5. TicketInv'
    BY <1>m, <1>t, <2>1, <2>3 DEF TicketInv, Agents!TicketsAreForOnce
  <2>6. CarryInv' /\ BoxTypes'
    BY <1>c, <1>m, <1>t, <2>1, <2>3 DEF CarryInv, BoxTypes, On
  <2> QED
    BY <1>p, <2>4, <2>5, <2>6 DEF RegistryInv
<1>4. CASE Agents!TrySend(o)
  <2> DEFINE r == [opening[o] EXCEPT !.phase = "waiting"]
             k == opening[o].via
  <2>1. /\ opening[o].phase = "asking" /\ box' = [box EXCEPT ![k] = Append(@, o)]
        /\ opening' = [opening EXCEPT ![o] = r] /\ UNCHANGED <<pending, claims>>
    BY <1>4 DEF Agents!TrySend
  <2>2. r \in [phase : OpenPhases, via : Link \cup {None}] /\ r.phase = "waiting"
    BY <1>r DEF OpenPhases
  <2>3. k \in Link /\ LinkOf[k] = AskedOf[o] /\ o \notin Foreign
    BY <1>t, <2>1 DEF CarryInv
  <2> HIDE DEF r, k
  <2>4. OpenTypes'
    BY <1>m, <1>t, <2>1, <2>2 DEF OpenTypes
  <2>5. TicketInv'
    BY <1>m, <1>t, <2>1, <2>2 DEF TicketInv, Agents!TicketsAreForOnce
  <2>6. /\ BoxTypes'
        /\ \A j \in Link, x \in Open \cup Cmd : On(x, j)' => On(x, j) \/ (j = k /\ x = o)
    BY <1>c, <2>1, <2>3, BoxGrows
  <2>7. \A p \in Open : opening'[p].phase = "asking" => opening'[p] = opening[p]
    BY <1>m, <2>1, <2>2
  <2>8. CarryInv'
    BY <1>a, <1>c, <1>t, <2>3, <2>6, <2>7 DEF CarryInv
  <2> QED
    BY <1>p, <2>4, <2>5, <2>6, <2>8 DEF RegistryInv
<1>5. CASE Agents!AcceptStream(o)
  <2>1. /\ o \in pending /\ pending' = pending \ {o} /\ claims' = [claims EXCEPT ![o] = @ + 1]
        /\ box' = box
    BY <1>5 DEF Agents!AcceptStream, Agents!Spent, Agents!conns
  <2>2. /\ claims[o] = 0 /\ opening[o].phase # "idle" /\ claims'[o] = 1 /\ claims' \in [Open -> Nat]
        /\ \A p \in Open \ {o} : claims'[p] = claims[p]
    BY <1>t, <2>1 DEF TicketInv, OpenTypes, Agents!TicketsAreForOnce
  <2>3. \E r \in [phase : OpenPhases, via : Link \cup {None}] :
          /\ opening' = [opening EXCEPT ![o] = r] /\ (r = opening[o] \/ r.phase = "served")
    <3>1. CASE opening[o].phase = "waiting"
      <4> DEFINE r == [opening[o] EXCEPT !.phase = "served"]
      <4>1. r \in [phase : OpenPhases, via : Link \cup {None}] /\ r.phase = "served"
        BY <1>r DEF OpenPhases
      <4>2. opening' = [opening EXCEPT ![o] = r]
        BY <1>5, <3>1 DEF Agents!AcceptStream
      <4> QED
        BY <4>1, <4>2
    <3>2. CASE opening[o].phase # "waiting"
      <4>1. opening' = [opening EXCEPT ![o] = opening[o]]
        BY <1>5, <1>t, <3>2 DEF Agents!AcceptStream, OpenTypes
      <4> QED
        BY <1>r, <4>1
    <3> QED
      BY <3>1, <3>2
  <2>4. PICK r \in [phase : OpenPhases, via : Link \cup {None}] :
          /\ opening' = [opening EXCEPT ![o] = r] /\ (r = opening[o] \/ r.phase = "served")
    BY <2>3
  <2>5. OpenTypes'
    BY <1>m, <1>t, <2>1, <2>2, <2>4 DEF OpenTypes
  <2>6. TicketInv'
    BY <1>m, <1>t, <2>1, <2>2, <2>4 DEF TicketInv, Agents!TicketsAreForOnce
  <2> QED
    BY <1>n, <2>1, <2>4, <2>5, <2>6
<1> QED
  BY <1>1, <1>2, <1>3, <1>4, <1>5 DEF Agents!OpenSteps

-------------------------------------------------------------------------------
(* A command. *)
LEMMA CommandStep ==
  ASSUME Agents!AgentsAssumption, RegistryInv, NEW q \in Cmd,
         \/ Agents!CommandOffline(q) \/ Agents!Command(q) \/ Agents!Run(q) \/ Agents!CallerLeaves(q)
         \/ Agents!CommandSteps(q) \/ \E k \in Link : Agents!Reply(k, q)
  PROVE  RegistryInv'
<1>a. /\ LinkOf \in [Link -> Agent] /\ None \notin Link /\ Open \cap Cmd = {}
      /\ AskedOf \in [Open \cup Cmd -> Agent]
  BY DEF Agents!AgentsAssumption
<1>t. ConnTypes /\ BoxTypes /\ OpenTypes /\ CmdTypes /\ LatestInv /\ TicketInv /\ CarryInv
  BY DEF RegistryInv
<1>c. UNCHANGED <<conn, up, control, got, latest, opening, pending, claims>>
  BY DEF Agents!CommandOffline, Agents!Command, Agents!Run, Agents!CallerLeaves,
         Agents!CommandSteps, Agents!Reply, Agents!Send, Agents!SendFails, Agents!CommandExpires,
         Agents!CommandGivesUp, Agents!conns, Agents!opens
<1>p. ConnTypes' /\ OpenTypes' /\ LatestInv' /\ TicketInv'
  BY <1>c, <1>t DEF ConnTypes, OpenTypes, LatestInv, TicketInv, Agents!TicketsAreForOnce
<1> DEFINE CmdState == [phase : CmdPhases, via : Link \cup {None}]
<1>m. ASSUME NEW r \in CmdState, sending' = [sending EXCEPT ![q] = r]
      PROVE  /\ sending' \in [Cmd -> CmdState] /\ sending'[q] = r
             /\ \A p \in Cmd \ {q} : sending'[p] = sending[p]
  BY <1>m, <1>t DEF CmdTypes
<1>r. sending[q] \in CmdState
  BY <1>t DEF CmdTypes
<1> HIDE DEF CmdState
(* The request moves on and nothing is carried further. *)
<1>n. ASSUME NEW s \in CmdPhases \ {"sending"}, sending' = [sending EXCEPT ![q].phase = s],
             s \in Unsent => sending[q].phase \in Unsent, s = "replied" => q \in ran,
             UNCHANGED <<box, ran>>, awaiting' \subseteq awaiting
      PROVE  RegistryInv'
  <2> DEFINE r == [sending[q] EXCEPT !.phase = s]
  <2>1. r \in CmdState /\ r.phase = s
    BY <1>r DEF CmdState
  <2>2. sending' = [sending EXCEPT ![q] = r]
    BY <1>n
  <2> HIDE DEF r
  <2>3. CmdTypes'
    BY <1>m, <1>n, <1>t, <2>1, <2>2 DEF CmdTypes, CmdState
  <2>4. BoxTypes' /\ \A j \in Link, x \in Open \cup Cmd : On(x, j)' <=> On(x, j)
    BY <1>c, <1>n, <1>t DEF BoxTypes, On
  <2>5. CarryInv'
    BY <1>c, <1>m, <1>n, <1>t, <2>1, <2>2, <2>4 DEF CarryInv
  <2> QED
    BY <1>p, <2>3, <2>4, <2>5 DEF RegistryInv
<1>1. CASE Agents!CommandOffline(q) \/ Agents!SendFails(q)
  <2>1. /\ sending' = [sending EXCEPT ![q].phase = "offline"] /\ sending[q].phase \in Unsent
        /\ UNCHANGED <<box, ran>> /\ awaiting' \subseteq awaiting
    BY <1>1 DEF Agents!CommandOffline, Agents!SendFails, Agents!conns, Unsent
  <2>2. "offline" \in CmdPhases \ {"sending"} /\ "offline" # "replied"
    BY DEF CmdPhases
  <2> QED
    BY <1>n, <2>1, <2>2
<1>2. CASE Agents!CommandExpires(q) \/ Agents!CommandGivesUp(q) \/ Agents!CallerLeaves(q)
  BY <1>2, <1>n DEF Agents!CommandExpires, Agents!CommandGivesUp, Agents!CallerLeaves,
                    Agents!Silence, Agents!conns, CmdPhases, Unsent
<1>3. CASE Agents!Command(q)
  <2> DEFINE r == [phase |-> "sending", via |-> control[AskedOf[q]]]
  <2>1. /\ sending[q].phase = "idle" /\ q \notin Foreign /\ control[AskedOf[q]] # None
        /\ sending' = [sending EXCEPT ![q] = r] /\ awaiting' = awaiting \cup {q}
        /\ UNCHANGED <<box, ran>>
    BY <1>3 DEF Agents!Command, Agents!conns
  <2>2. /\ AskedOf[q] \in Agent /\ control[AskedOf[q]] \in Link
        /\ LinkOf[control[AskedOf[q]]] = AskedOf[q]
    BY <1>a, <1>t, <2>1 DEF ConnTypes, LatestInv
  <2>3. /\ r \in CmdState /\ r.phase = "sending" /\ r.via \in Link /\ LinkOf[r.via] = AskedOf[q]
    BY <2>2 DEF CmdPhases, CmdState
  <2> HIDE DEF r
  <2>4. CmdTypes'
    BY <1>m, <1>t, <2>1, <2>3 DEF CmdTypes, CmdState
  <2>5. BoxTypes' /\ \A j \in Link, x \in Open \cup Cmd : On(x, j)' <=> On(x, j)
    BY <1>c, <1>t, <2>1 DEF BoxTypes, On
  <2>6. CarryInv'
    BY <1>c, <1>m, <1>t, <2>1, <2>3, <2>5 DEF CarryInv, Unsent
  <2> QED
    BY <1>p, <2>4, <2>5, <2>6 DEF RegistryInv
<1>4. CASE Agents!Send(q)
  <2> DEFINE r == [sending[q] EXCEPT !.phase = "waiting"]
             k == sending[q].via
  <2>1. /\ sending[q].phase = "sending" /\ box' = [box EXCEPT ![k] = Append(@, q)]
        /\ sending' = [sending EXCEPT ![q] = r] /\ UNCHANGED <<awaiting, ran>>
    BY <1>4 DEF Agents!Send
  <2>2. r \in CmdState /\ r.phase = "waiting"
    BY <1>r DEF CmdPhases, CmdState
  <2>3. k \in Link /\ LinkOf[k] = AskedOf[q] /\ q \notin Foreign
    BY <1>t, <2>1 DEF CarryInv
  <2> HIDE DEF r, k
  <2>4. CmdTypes'
    BY <1>m, <1>t, <2>1, <2>2 DEF CmdTypes, CmdState
  <2>5. /\ BoxTypes'
        /\ \A j \in Link, x \in Open \cup Cmd : On(x, j)' => On(x, j) \/ (j = k /\ x = q)
    BY <1>c, <2>1, <2>3, BoxGrows
  <2>6. \A p \in Cmd : sending'[p].phase \in Unsent \cup {"replied"} => p # q /\ sending'[p] = sending[p]
    BY <1>m, <2>1, <2>2 DEF Unsent
  <2>7. CarryInv'
    BY <1>a, <1>c, <1>t, <2>1, <2>3, <2>5, <2>6 DEF CarryInv, Unsent
  <2> QED
    BY <1>p, <2>4, <2>5, <2>7 DEF RegistryInv
<1>5. CASE Agents!Run(q)
  <2>1. (\E k \in Link : q \in got[k]) /\ ran' = ran \cup {q} /\ UNCHANGED <<box, sending, awaiting>>
    BY <1>5 DEF Agents!Run, Agents!conns
  <2>2. sending[q].phase \notin Unsent
    BY <1>t, <2>1 DEF CarryInv, On
  <2>3. CmdTypes' /\ BoxTypes'
    BY <1>c, <1>t, <2>1 DEF CmdTypes, BoxTypes
  <2>4. CarryInv'
    BY <1>c, <1>t, <2>1, <2>2 DEF CarryInv, On
  <2> QED
    BY <1>p, <2>3, <2>4 DEF RegistryInv
<1>6. ASSUME NEW k \in Link, Agents!Reply(k, q)
      PROVE  RegistryInv'
  <2>1. awaiting' = awaiting \ {q} /\ UNCHANGED <<box, ran>> /\ q \in ran
    BY <1>6 DEF Agents!Reply, Agents!conns
  <2>2. CASE sending[q].phase = "waiting"
    <3>1. sending' = [sending EXCEPT ![q].phase = "replied"]
      BY <1>6, <2>2 DEF Agents!Reply
    <3> QED
      BY <1>n, <2>1, <3>1 DEF CmdPhases, Unsent
  <2>3. CASE sending[q].phase # "waiting"
    <3>1. sending' = sending
      BY <1>6, <2>3 DEF Agents!Reply
    <3>2. CmdTypes' /\ BoxTypes' /\ CarryInv'
      BY <1>c, <1>t, <2>1, <3>1 DEF CmdTypes, BoxTypes, CarryInv, On
    <3> QED
      BY <1>p, <3>2 DEF RegistryInv
  <2> QED
    BY <2>2, <2>3
<1> QED
  BY <1>1, <1>2, <1>3, <1>4, <1>5, <1>6 DEF Agents!CommandSteps

LEMMA RegistryInit ==
  ASSUME Agents!Init
  PROVE  RegistryInv
<1>1. \A k \in Link : box[k] = <<>> /\ got[k] = {}
  BY DEF Agents!Init
<1>2. \A k \in Link, x \in Open \cup Cmd : ~On(x, k)
  BY <1>1 DEF On
<1>3. ConnTypes /\ BoxTypes /\ LatestInv
  BY DEF Agents!Init, ConnTypes, BoxTypes, LatestInv
<1>4. OpenTypes /\ CmdTypes
  BY DEF Agents!Init, Agents!Idle, OpenTypes, CmdTypes, OpenPhases, CmdPhases
<1>5. TicketInv
  BY DEF Agents!Init, Agents!Idle, TicketInv, Agents!TicketsAreForOnce
<1>6. CarryInv
  BY <1>2 DEF Agents!Init, Agents!Idle, CarryInv
<1> QED
  BY <1>3, <1>4, <1>5, <1>6 DEF RegistryInv

LEMMA RegistryStep ==
  ASSUME Agents!AgentsAssumption, RegistryInv, [Agents!Next]_(Agents!vars)
  PROVE  RegistryInv'
<1>1. CASE UNCHANGED Agents!vars
  BY <1>1 DEF Agents!vars, Agents!conns, Agents!opens, Agents!cmds, RegistryInv, ConnTypes,
              BoxTypes, OpenTypes, CmdTypes, LatestInv, TicketInv, Agents!TicketsAreForOnce,
              CarryInv, On
<1> QED
  BY <1>1, ConnStep, OpenStep, CommandStep DEF Agents!Next

-------------------------------------------------------------------------------
(* A request of a machine is done once or not at all. *)

(* Whoever asked for a session. *)
LEMMA OpenIsOneShot ==
  ASSUME RegistryInv, NEW o \in Open,
         \/ Agents!OpenRefused(o) \/ Agents!AskToOpen(o) \/ Agents!AcceptStream(o)
         \/ Agents!OpenSteps(o)
  PROVE  Agents!Opens!Next \/ UNCHANGED <<[p \in Open |-> Agents!OpenState(p)], claims>>
<1> DEFINE S == [p \in Open |-> Agents!OpenState(p)]
<1>t. OpenTypes /\ TicketInv
  BY DEF RegistryInv
<1>o. ASSUME NEW f, opening' = [opening EXCEPT ![o].phase = f]
      PROVE  opening'[o].phase = f /\ \A p \in Open \ {o} : opening'[p] = opening[p]
  BY <1>o, <1>t DEF OpenTypes
<1>s. ASSUME \A p \in Open \ {o} : opening'[p] = opening[p] /\ claims'[p] = claims[p]
      PROVE  \A s : Agents!OpenState(o)' = s => S' = [S EXCEPT ![o] = s]
  BY <1>s DEF Agents!OpenState
<1>1. CASE Agents!OpenRefused(o)
  <2>1. opening[o].phase = "idle" /\ opening' = [opening EXCEPT ![o].phase = "failed"]
        /\ claims' = claims
    BY <1>1 DEF Agents!OpenRefused
  <2>2. claims[o] = 0
    BY <1>t, <2>1 DEF TicketInv
  <2>p. opening'[o].phase = "failed" /\ \A p \in Open \ {o} : opening'[p] = opening[p]
    BY <1>o, <2>1
  <2>3. S[o] = "idle" /\ S' = [S EXCEPT ![o] = "refused"] /\ S'[o] = "refused"
    BY <1>s, <2>p, <2>1, <2>2 DEF Agents!OpenState
  <2>4. Agents!Opens!Refuse(o) /\ Agents!Opens!Changes(o)
    BY <2>1, <2>2, <2>3 DEF Agents!Opens!Refuse, Agents!Opens!Becomes, Agents!Opens!Changes
  <2> QED
    BY <2>4 DEF Agents!Opens!Next
<1>2. CASE Agents!AskToOpen(o)
  <2>1. /\ opening[o].phase = "idle" /\ claims' = claims
        /\ opening' = [opening EXCEPT ![o] = [phase |-> "asking", via |-> control[AskedOf[o]]]]
    BY <1>2 DEF Agents!AskToOpen
  <2>2. opening'[o].phase = "asking" /\ \A p \in Open \ {o} : opening'[p] = opening[p]
    BY <1>t, <2>1 DEF OpenTypes
  <2>3. S[o] = "idle" /\ S' = [S EXCEPT ![o] = "asked"] /\ S'[o] = "asked"
    BY <1>s, <2>1, <2>2 DEF Agents!OpenState
  <2>4. Agents!Opens!Ask(o) /\ Agents!Opens!Changes(o)
    BY <2>1, <2>3 DEF Agents!Opens!Ask, Agents!Opens!Becomes, Agents!Opens!Changes
  <2> QED
    BY <2>4 DEF Agents!Opens!Next
(* A timer, or the message that is put into the channel. *)
<1>3. CASE Agents!TrySend(o) \/ Agents!OpenExpires(o)
  <2>1. PICK f \in {"waiting", "expired"} :
          /\ opening[o].phase \in {"asking", "waiting"}
          /\ opening' = [opening EXCEPT ![o].phase = f] /\ claims' = claims
    BY <1>3 DEF Agents!TrySend, Agents!OpenExpires
  <2>2. \A p \in Open : Agents!OpenState(p)' = Agents!OpenState(p)
    BY <1>o, <2>1 DEF Agents!OpenState
  <2> QED
    BY <2>1, <2>2
(* Whoever asked leaves with its ticket, used or not. *)
<1>4. CASE Agents!TrySendFails(o) \/ Agents!OpenGivesUp(o)
  <2>1. /\ opening[o].phase \in {"asking", "expired"} /\ claims' = claims
        /\ opening' = [opening EXCEPT ![o].phase = "failed"]
    BY <1>4 DEF Agents!TrySendFails, Agents!OpenGivesUp
  <2>p. opening'[o].phase = "failed" /\ \A p \in Open \ {o} : opening'[p] = opening[p]
    BY <1>o, <2>1
  <2>2. CASE claims[o] = 0
    <3>1. S[o] = "asked" /\ S' = [S EXCEPT ![o] = "refused"] /\ S'[o] = "refused"
      BY <1>s, <2>p, <2>1, <2>2 DEF Agents!OpenState
    <3>2. Agents!Opens!Refuse(o) /\ Agents!Opens!Changes(o)
      BY <2>1, <2>2, <3>1 DEF Agents!Opens!Refuse, Agents!Opens!Becomes, Agents!Opens!Changes
    <3> QED
      BY <3>2 DEF Agents!Opens!Next
  <2>3. CASE claims[o] # 0
    <3>1. S[o] = "asked" /\ S' = [S EXCEPT ![o] = "unknown"] /\ S'[o] = "unknown"
      BY <1>s, <2>p, <2>1, <2>3 DEF Agents!OpenState
    <3>2. Agents!Opens!GiveUp(o) /\ Agents!Opens!Changes(o)
      BY <2>1, <3>1 DEF Agents!Opens!GiveUp, Agents!Opens!Becomes, Agents!Opens!Changes
    <3> QED
      BY <3>2 DEF Agents!Opens!Next
  <2> QED
    BY <2>2, <2>3
<1>5. CASE Agents!AcceptStream(o)
  <2>1. /\ o \in pending /\ claims' = [claims EXCEPT ![o] = @ + 1]
        /\ opening' = IF opening[o].phase = "waiting"
                      THEN [opening EXCEPT ![o].phase = "served"] ELSE opening
    BY <1>5 DEF Agents!AcceptStream
  <2>2. claims[o] = 0 /\ opening[o].phase \in {"asking", "waiting", "expired"}
    BY <1>t, <2>1 DEF TicketInv, Agents!TicketsAreForOnce
  <2>3. claims' = [claims EXCEPT ![o] = 1] /\ claims'[o] = 1
        /\ \A p \in Open \ {o} : claims'[p] = claims[p]
    BY <1>t, <2>1, <2>2 DEF OpenTypes
  <2>4. S[o] = "asked"
    BY <2>2 DEF Agents!OpenState
  <2>5. S' = S \/ S' = [S EXCEPT ![o] = "answered"]
    <3>1. CASE opening[o].phase = "waiting"
      <4>1. opening'[o].phase = "served" /\ \A p \in Open \ {o} : opening'[p] = opening[p]
        BY <1>o, <2>1, <3>1
      <4> QED
        BY <1>s, <2>3, <4>1 DEF Agents!OpenState
    <3>2. CASE opening[o].phase # "waiting"
      <4>1. opening' = opening
        BY <2>1, <3>2
      <4> QED
        BY <2>2, <2>3, <4>1 DEF Agents!OpenState
    <3> QED
      BY <3>1, <3>2
  <2>6. Agents!Opens!CarryOut(o) /\ Agents!Opens!Changes(o)
    BY <2>2, <2>3, <2>4, <2>5
       DEF Agents!Opens!CarryOut, Agents!Opens!Becomes, Agents!Opens!Changes
  <2> QED
    BY <2>6 DEF Agents!Opens!Next
<1> QED
  BY <1>1, <1>2, <1>3, <1>4, <1>5 DEF Agents!OpenSteps

(* And whoever gave a command. *)
LEMMA CommandIsOneShot ==
  ASSUME RegistryInv, NEW q \in Cmd,
         \/ Agents!CommandOffline(q) \/ Agents!Command(q) \/ Agents!Run(q) \/ Agents!CallerLeaves(q)
         \/ Agents!CommandSteps(q) \/ \E k \in Link : Agents!Reply(k, q)
  PROVE  \/ Agents!Commands!Next
         \/ UNCHANGED <<[p \in Cmd |-> Agents!CmdState(p)], [p \in Cmd |-> IF p \in ran THEN 1 ELSE 0]>>
<1> DEFINE S == [p \in Cmd |-> Agents!CmdState(p)]
           N == [p \in Cmd |-> IF p \in ran THEN 1 ELSE 0]
<1>t. CmdTypes /\ CarryInv
  BY DEF RegistryInv
<1>o. ASSUME NEW f, sending' = [sending EXCEPT ![q].phase = f]
      PROVE  sending'[q].phase = f /\ \A p \in Cmd \ {q} : sending'[p] = sending[p]
  BY <1>o, <1>t DEF CmdTypes
<1>s. ASSUME \A p \in Cmd \ {q} : sending'[p] = sending[p]
      PROVE  \A s : Agents!CmdState(q)' = s => S' = [S EXCEPT ![q] = s]
  BY <1>s DEF Agents!CmdState
<1>1. CASE Agents!CommandOffline(q) \/ Agents!SendFails(q)
  <2>1. /\ sending[q].phase \in {"idle", "sending"} /\ ran' = ran
        /\ sending' = [sending EXCEPT ![q].phase = "offline"]
    BY <1>1 DEF Agents!CommandOffline, Agents!SendFails
  <2>2. q \notin ran
    BY <1>t, <2>1 DEF CarryInv, Unsent
  <2>3. N[q] = 0 /\ N' = N
    BY <2>1, <2>2
  <2>p. sending'[q].phase = "offline" /\ \A p \in Cmd \ {q} : sending'[p] = sending[p]
    BY <1>o, <2>1
  <2>4. S[q] \in {"idle", "asked"} /\ S' = [S EXCEPT ![q] = "refused"] /\ S'[q] = "refused"
    BY <1>s, <2>p, <2>1 DEF Agents!CmdState
  <2>5. Agents!Commands!Refuse(q) /\ Agents!Commands!Changes(q)
    BY <2>3, <2>4 DEF Agents!Commands!Refuse, Agents!Commands!Becomes, Agents!Commands!Changes
  <2> QED
    BY <2>5 DEF Agents!Commands!Next
<1>2. CASE Agents!Command(q)
  <2>1. /\ sending[q].phase = "idle" /\ ran' = ran
        /\ sending' = [sending EXCEPT ![q] = [phase |-> "sending", via |-> control[AskedOf[q]]]]
    BY <1>2 DEF Agents!Command
  <2>2. sending'[q].phase = "sending" /\ \A p \in Cmd \ {q} : sending'[p] = sending[p]
    BY <1>t, <2>1 DEF CmdTypes
  <2>3. S[q] = "idle" /\ S' = [S EXCEPT ![q] = "asked"] /\ S'[q] = "asked" /\ N' = N
    BY <1>s, <2>1, <2>2 DEF Agents!CmdState
  <2>4. Agents!Commands!Ask(q) /\ Agents!Commands!Changes(q)
    BY <2>3 DEF Agents!Commands!Ask, Agents!Commands!Becomes, Agents!Commands!Changes
  <2> QED
    BY <2>4 DEF Agents!Commands!Next
<1>3. CASE Agents!Send(q) \/ Agents!CommandExpires(q)
  <2>1. PICK f \in {"waiting", "expired"} :
          /\ sending[q].phase \in {"sending", "waiting"}
          /\ sending' = [sending EXCEPT ![q].phase = f] /\ ran' = ran
    BY <1>3 DEF Agents!Send, Agents!CommandExpires
  <2>2. \A p \in Cmd : Agents!CmdState(p)' = Agents!CmdState(p)
    BY <1>o, <2>1 DEF Agents!CmdState
  <2> QED
    BY <2>1, <2>2
(* Nobody answered in time, or the control plane hung up. *)
<1>4. CASE Agents!CommandGivesUp(q) \/ Agents!CallerLeaves(q)
  <2>1. PICK f \in {"silent", "abandoned"} :
          /\ sending[q].phase \in {"sending", "waiting", "expired"} /\ ran' = ran
          /\ sending' = [sending EXCEPT ![q].phase = f]
    BY <1>4 DEF Agents!CommandGivesUp, Agents!CallerLeaves, Agents!Silence
  <2>2. S[q] = "asked" /\ S' = [S EXCEPT ![q] = "unknown"] /\ S'[q] = "unknown" /\ N' = N
    BY <1>o, <1>s, <2>1 DEF Agents!CmdState
  <2>3. Agents!Commands!GiveUp(q) /\ Agents!Commands!Changes(q)
    BY <2>2 DEF Agents!Commands!GiveUp, Agents!Commands!Becomes, Agents!Commands!Changes
  <2> QED
    BY <2>3 DEF Agents!Commands!Next
(* The machine has it, so it was sent; and it was not answered yet. *)
<1>5. CASE Agents!Run(q)
  <2>1. /\ (\E k \in Link : q \in got[k]) /\ q \notin ran
        /\ ran' = ran \cup {q} /\ sending' = sending
    BY <1>5 DEF Agents!Run
  <2>2. sending[q].phase \in {"waiting", "expired", "silent", "abandoned"}
    BY <1>t, <2>1 DEF CarryInv, CmdTypes, CmdPhases, On, Unsent
  <2>3. S[q] \in {"asked", "unknown"} /\ S' = S
    BY <2>1, <2>2 DEF Agents!CmdState
  <2>4. N[q] = 0 /\ N' = [N EXCEPT ![q] = 1] /\ N'[q] = 1
    BY <2>1
  <2>5. Agents!Commands!CarryOut(q) /\ Agents!Commands!Changes(q)
    BY <2>3, <2>4
       DEF Agents!Commands!CarryOut, Agents!Commands!Becomes, Agents!Commands!Changes
  <2> QED
    BY <2>5 DEF Agents!Commands!Next
<1>6. ASSUME NEW k \in Link, Agents!Reply(k, q)
      PROVE  Agents!Commands!Next \/ UNCHANGED <<S, N>>
  <2>1. q \in ran /\ ran' = ran /\ N[q] = 1 /\ N' = N
    BY <1>6 DEF Agents!Reply
  <2>2. CASE sending[q].phase = "waiting"
    <3>1. sending' = [sending EXCEPT ![q].phase = "replied"]
      BY <1>6, <2>2 DEF Agents!Reply
    <3>p. sending'[q].phase = "replied" /\ \A p \in Cmd \ {q} : sending'[p] = sending[p]
      BY <1>o, <3>1
    <3>2. S[q] = "asked" /\ S' = [S EXCEPT ![q] = "answered"] /\ S'[q] = "answered"
      BY <1>s, <2>2, <3>p DEF Agents!CmdState
    <3>3. Agents!Commands!Answer(q) /\ Agents!Commands!Changes(q)
      BY <2>1, <3>2 DEF Agents!Commands!Answer, Agents!Commands!Becomes, Agents!Commands!Changes
    <3> QED
      BY <3>3 DEF Agents!Commands!Next
  <2>3. CASE sending[q].phase # "waiting"
    <3>1. sending' = sending
      BY <1>6, <2>3 DEF Agents!Reply
    <3> QED
      BY <2>1, <3>1 DEF Agents!CmdState
  <2> QED
    BY <2>2, <2>3
<1> QED
  BY <1>1, <1>2, <1>3, <1>4, <1>5, <1>6 DEF Agents!CommandSteps

(* The registry implements OneShot, for sessions and for commands: a       *)
(* request is carried out once or not at all, what was refused never is,   *)
(* what was answered was, and only then; whatever connections come and go, *)
(* tickets are presented again and timers fire (agent.rs).                 *)
THEOREM RequestsAreOneShot ==
  ASSUME Agents!AgentsAssumption
  PROVE  Agents!Spec => Agents!IsOneShot
<1>1. Agents!Init => RegistryInv /\ Agents!Opens!Init /\ Agents!Commands!Init
  <2> SUFFICES ASSUME Agents!Init
               PROVE  RegistryInv /\ Agents!Opens!Init /\ Agents!Commands!Init
    OBVIOUS
  <2>1. Agents!Opens!Init
    BY DEF Agents!Init, Agents!Idle, Agents!OpenState, Agents!Opens!Init
  <2>2. Agents!Commands!Init
    BY DEF Agents!Init, Agents!Idle, Agents!CmdState, Agents!Commands!Init
  <2> QED
    BY <2>1, <2>2, RegistryInit
<1>2. RegistryInv /\ [Agents!Next]_(Agents!vars) => RegistryInv'
  BY RegistryStep
<1>3. RegistryInv /\ [Agents!Next]_(Agents!vars)
        => /\ [Agents!Opens!Next]_<<[o \in Open |-> Agents!OpenState(o)], claims>>
           /\ [Agents!Commands!Next]_<<[q \in Cmd |-> Agents!CmdState(q)],
                                       [q \in Cmd |-> IF q \in ran THEN 1 ELSE 0]>>
  <2> DEFINE OpenView == <<[o \in Open |-> Agents!OpenState(o)], claims>>
             CmdView == <<[q \in Cmd |-> Agents!CmdState(q)], [q \in Cmd |-> IF q \in ran THEN 1 ELSE 0]>>
  <2> SUFFICES ASSUME RegistryInv, [Agents!Next]_(Agents!vars)
               PROVE  [Agents!Opens!Next]_OpenView /\ [Agents!Commands!Next]_CmdView
    OBVIOUS
  <2>o. UNCHANGED <<opening, claims>> => UNCHANGED OpenView
    BY DEF Agents!OpenState
  <2>c. UNCHANGED <<sending, ran>> => UNCHANGED CmdView
    BY DEF Agents!CmdState
  <2>1. CASE UNCHANGED Agents!vars
    BY <2>o, <2>c, <2>1 DEF Agents!vars, Agents!opens, Agents!cmds
  <2>2. ASSUME NEW k \in Link,
               \/ Agents!Dial(k) \/ Agents!Drop(k) \/ Agents!Verified(k) \/ Agents!HandshakeFails(k)
               \/ Agents!RelaySteps(k)
        PROVE  UNCHANGED <<opening, claims, sending, ran>>
    BY <2>2 DEF Agents!Dial, Agents!Drop, Agents!Verified, Agents!HandshakeFails,
                Agents!RelaySteps, Agents!Register, Agents!Write, Agents!LoopEnds,
                Agents!Deregister, Agents!opens, Agents!cmds
  <2>3. ASSUME NEW o \in Open,
               \/ Agents!OpenRefused(o) \/ Agents!AskToOpen(o) \/ Agents!AcceptStream(o)
               \/ Agents!OpenSteps(o)
        PROVE  [Agents!Opens!Next]_OpenView /\ UNCHANGED <<sending, ran>>
    <3>1. UNCHANGED <<sending, ran>>
      BY <2>3 DEF Agents!OpenRefused, Agents!AskToOpen, Agents!AcceptStream, Agents!OpenSteps,
                  Agents!TrySend, Agents!TrySendFails, Agents!OpenExpires, Agents!OpenGivesUp,
                  Agents!cmds
    <3> QED
      BY <2>3, <3>1, OpenIsOneShot
  <2>4. ASSUME NEW q \in Cmd,
               \/ Agents!CommandOffline(q) \/ Agents!Command(q) \/ Agents!Run(q)
               \/ Agents!CallerLeaves(q) \/ Agents!CommandSteps(q)
               \/ \E k \in Link : Agents!Reply(k, q)
        PROVE  [Agents!Commands!Next]_CmdView /\ UNCHANGED <<opening, claims>>
    <3>1. UNCHANGED <<opening, claims>>
      BY <2>4 DEF Agents!CommandOffline, Agents!Command, Agents!Run, Agents!CallerLeaves,
                  Agents!CommandSteps, Agents!Reply, Agents!Send, Agents!SendFails,
                  Agents!CommandExpires, Agents!CommandGivesUp, Agents!opens
    <3> QED
      BY <2>4, <3>1, CommandIsOneShot
  <2> QED
    BY <2>o, <2>c, <2>1, <2>2, <2>3, <2>4 DEF Agents!Next
<1> QED
  BY <1>1, <1>2, <1>3, PTL DEF Agents!Spec, Agents!IsOneShot, Agents!Opens!Spec, Agents!Commands!Spec

(* The connection that registered last stays registered while it runs, a   *)
(* ticket lets one stream in and outlives no request, a machine sees only  *)
(* what was asked of it, and "not connected" is only said of a command     *)
(* nobody has or will carry out: for any machines, connections, requests   *)
(* and depth of the channels (apps/relay/src/agent.rs).                    *)
THEOREM RegistryIsRight ==
  ASSUME Agents!AgentsAssumption
  PROVE  Agents!Spec => []RegistryRight
<1>1. Agents!Init => RegistryInv
  BY RegistryInit
<1>2. RegistryInv /\ [Agents!Next]_(Agents!vars) => RegistryInv'
  BY RegistryStep
<1>3. RegistryInv => Agents!RegistryRight
  <2> SUFFICES ASSUME RegistryInv
               PROVE  Agents!RegistryRight
    OBVIOUS
  <2>1. Agents!LatestIsRegistered
    BY DEF RegistryInv, LatestInv, Agents!LatestIsRegistered
  <2>2. Agents!TicketsAreForOnce
    BY DEF RegistryInv, TicketInv
  <2>3. Agents!OnlyTheAskedMachine
    BY DEF RegistryInv, BoxTypes, CarryInv, On, Agents!OnlyTheAskedMachine
  <2>4. Agents!OfflineMeansNotRun
    BY DEF RegistryInv, CarryInv, On, Unsent, Agents!OfflineMeansNotRun
  <2> QED
    BY <2>1, <2>2, <2>3, <2>4 DEF Agents!RegistryRight
<1> QED
  BY <1>1, <1>2, <1>3, PTL DEF Agents!Spec, RegistryRight

-------------------------------------------------------------------------------
(* The connection events. *)
EventTypes ==
  /\ session \in [Session -> {"granted", "open", "ended"}]
  /\ queue \in Seq(Events!Event) /\ drained \in Seq(Events!Event) /\ log \in Seq(Events!Event)
  /\ dropped \in Nat /\ posted \in Nat /\ said \in Nat
  /\ rows \in [Events!Event -> Nat]
  /\ \A r \in wire : r \in Seq(Events!Event)

(* The flush takes the queue only when it has posted what it took before,  *)
(* and the queue is the end of what happened.                              *)
GapInv ==
  /\ phase \in {"waiting", "events"} => drained = <<>>
  /\ Events!NoSilentGap
  /\ Len(queue) <= MaxQueued /\ Len(queue) <= Len(log)
  /\ \A i \in 1..Len(queue) : queue[i] = log[Len(log) - Len(queue) + i]

In(e, s) == \E i \in DOMAIN s : s[i] = e
Once(s) == \A i, j \in DOMAIN s : s[i] = s[j] => i = j

(* The handler of the event's session is past the place that pushes it. *)
Past(e) == session[e[1]] # "granted" /\ (e[2] = "closed" => session[e[1]] = "ended")

(* An event is in one place at a time: in the queue, with the flush, in    *)
(* one request, or in the timeline.                                        *)
OnceInv ==
  /\ Once(queue) /\ Once(drained)
  /\ \A e \in Events!Event :
       /\ rows[e] <= 1
       /\ rows[e] = 1 => Past(e)
       /\ In(e, queue) => Past(e) /\ rows[e] = 0 /\ ~In(e, drained)
       /\ In(e, drained) => Past(e) /\ rows[e] = 0
       /\ \A r \in wire : In(e, r) =>
            /\ Past(e) /\ rows[e] = 0 /\ ~In(e, queue) /\ ~In(e, drained)
            /\ \A q \in wire : In(e, q) => q = r

EventInv == EventTypes /\ GapInv /\ OnceInv

(* What a push does to a queue, full or not. *)
LEMMA PushedQueue ==
  ASSUME NEW S, NEW s \in Seq(S), NEW e \in S, NEW t,
         \/ s # <<>> /\ t = Append(Tail(s), e)
         \/ t = Append(s, e)
  PROVE  /\ t \in Seq(S) /\ t[Len(t)] = e /\ Len(t) \in {Len(s), Len(s) + 1} /\ Len(t) > 0
         /\ \A i \in 1..(Len(t) - 1) : /\ i + Len(s) + 1 - Len(t) \in 1..Len(s)
                                       /\ t[i] = s[i + Len(s) + 1 - Len(t)]
<1>a. ASSUME NEW u \in Seq(S)
      PROVE  /\ Append(u, e) \in Seq(S) /\ Len(Append(u, e)) = Len(u) + 1
             /\ Append(u, e)[Len(u) + 1] = e
             /\ \A i \in 1..Len(u) : Append(u, e)[i] = u[i]
  OBVIOUS
<1>1. CASE t = Append(s, e)
  BY <1>1
<1>2. CASE s # <<>> /\ t = Append(Tail(s), e)
  <2>1. Tail(s) \in Seq(S) /\ Len(Tail(s)) = Len(s) - 1 /\ Len(s) \in Nat \ {0}
    BY <1>2
  <2>2. \A i \in 1..(Len(s) - 1) : Tail(s)[i] = s[i + 1]
    <3> SUFFICES ASSUME NEW i \in 1..(Len(s) - 1)
                 PROVE  Tail(s)[i] = s[i + 1]
      OBVIOUS
    <3>1. i \in DOMAIN Tail(s)
      BY <2>1
    <3> QED
      BY <1>2, <3>1
  <2> DEFINE u == Tail(s)
  <2>3. u \in Seq(S) /\ Len(u) = Len(s) - 1 /\ t = Append(u, e)
        /\ \A i \in 1..(Len(s) - 1) : u[i] = s[i + 1]
    BY <1>2, <2>1, <2>2
  <2> HIDE DEF u
  <2>4. /\ t \in Seq(S) /\ Len(t) = Len(s) /\ t[Len(s)] = e
        /\ \A i \in 1..(Len(s) - 1) : t[i] = u[i]
    <3>1. /\ Append(u, e) \in Seq(S) /\ Len(Append(u, e)) = Len(u) + 1
          /\ Append(u, e)[Len(u) + 1] = e
          /\ \A i \in 1..Len(u) : Append(u, e)[i] = u[i]
      BY <1>a, <2>3, Zenon
    <3>2. Len(u) + 1 = Len(s)
      <4>1. Len(u) = Len(s) - 1 /\ Len(s) \in Nat
        BY <2>1, <2>3, Zenon
      <4> QED
        BY <4>1
    <3>3. t \in Seq(S) /\ Len(t) = Len(s) /\ t[Len(s)] = e
      BY <2>3, <3>1, <3>2, Zenon
    <3>4. \A i \in 1..(Len(s) - 1) : t[i] = u[i]
      BY <2>3, <3>1, Zenon
    <3> QED
      BY <3>3, <3>4
  <2>5. t[Len(t)] = e /\ Len(t) \in {Len(s), Len(s) + 1} /\ Len(t) > 0
    BY <2>1, <2>4
  <2>6. \A i \in 1..(Len(t) - 1) : i + Len(s) + 1 - Len(t) = i + 1 /\ i + 1 \in 1..Len(s)
    BY <2>1, <2>4
  <2>7. \A i \in 1..(Len(t) - 1) : t[i] = s[i + 1]
    BY <2>3, <2>4
  <2> QED
    BY <2>4, <2>5, <2>6, <2>7
<1> QED
  BY <1>1, <1>2

LEMMA PushStep ==
  ASSUME Events!EventsAssumption, EventInv, NEW c \in Session,
         Events!Opened(c) \/ Events!Closed(c)
  PROVE  EventInv'
<1>t. EventTypes /\ GapInv /\ OnceInv /\ MaxQueued \in Nat \ {0}
  BY DEF EventInv, Events!EventsAssumption
<1>1. PICK e \in Events!Event :
        /\ session[c] \in {"granted", "open"} /\ Events!Push(e)
        /\ e = <<c, IF session[c] = "granted" THEN "opened" ELSE "closed">>
        /\ session' = [session EXCEPT ![c] = IF session[c] = "granted" THEN "open" ELSE "ended"]
  BY DEF Events!Opened, Events!Closed, Events!Event
<1>2. /\ e \in Events!Event /\ e[1] = c /\ e[2] \in {"opened", "closed"}
      /\ (e[2] = "opened" <=> session[c] = "granted")
  BY <1>1
<1>3. /\ session' \in [Session -> {"granted", "open", "ended"}]
      /\ \A k \in Session \ {c} : session'[k] = session[k]
      /\ session'[c] = IF session[c] = "granted" THEN "open" ELSE "ended"
  BY <1>1, <1>t DEF EventTypes
(* It was not pushed before, and now it was. *)
<1>4. ~Past(e)
  BY <1>1, <1>2 DEF Past
<1>5. \A f \in Events!Event : Past(f) => Past(f)'
  BY <1>1, <1>3 DEF Past, Events!Event
<1>6. Past(e)'
  BY <1>1, <1>2, <1>3 DEF Past
<1>7. /\ log' = Append(log, e) /\ queue' = Events!Enqueue(e)
      /\ dropped' = IF Len(queue) >= MaxQueued THEN dropped + 1 ELSE dropped
      /\ UNCHANGED <<drained, phase, last, wire, rows, posted, said>>
  BY <1>1 DEF Events!Push, Events!reporter
<1>8. /\ queue' \in Seq(Events!Event) /\ queue'[Len(queue')] = e /\ Len(queue') > 0
      /\ \A i \in 1..(Len(queue') - 1) :
           /\ i + Len(queue) + 1 - Len(queue') \in 1..Len(queue)
           /\ queue'[i] = queue[i + Len(queue) + 1 - Len(queue')]
  <2>1. \/ queue # <<>> /\ queue' = Append(Tail(queue), e)
        \/ queue' = Append(queue, e)
    BY <1>7, <1>t DEF Events!Enqueue
  <2> QED
    <3>1. queue \in Seq(Events!Event)
      BY <1>t DEF EventTypes
    <3> QED
      BY <1>2, <2>1, <3>1, PushedQueue
<1>9. Len(queue') = IF Len(queue) >= MaxQueued THEN Len(queue) ELSE Len(queue) + 1
  BY <1>2, <1>7, <1>t DEF EventTypes, Events!Enqueue
<1>10. EventTypes'
  BY <1>2, <1>3, <1>7, <1>8, <1>t DEF EventTypes
<1>11. GapInv'
  <2>1. /\ Len(log') = Len(log) + 1 /\ log'[Len(log) + 1] = e
        /\ \A i \in 1..Len(log) : log'[i] = log[i]
    BY <1>2, <1>7, <1>t DEF EventTypes
  <2>2. Events!NoSilentGap'
    BY <1>7, <1>9, <1>t, <2>1 DEF EventTypes, GapInv, Events!NoSilentGap
  <2>3. Len(queue') <= MaxQueued /\ Len(queue') <= Len(log')
    BY <1>9, <1>t, <2>1 DEF EventTypes, GapInv
  <2>4. ASSUME NEW i \in 1..Len(queue')
        PROVE  queue'[i] = log'[Len(log') - Len(queue') + i]
    <3>1. Len(queue) \in Nat /\ Len(queue') \in Nat /\ Len(log) \in Nat
      BY <1>8, <1>t DEF EventTypes
    <3>2. CASE i = Len(queue')
      BY <1>8, <2>1, <3>1, <3>2
    <3>3. CASE i # Len(queue')
      <4> DEFINE j == i + Len(queue) + 1 - Len(queue')
      <4>1. i \in 1..(Len(queue') - 1)
        BY <3>1, <3>3
      <4>2. j \in 1..Len(queue) /\ queue'[i] = queue[j]
        BY <1>8, <4>1
      <4>3. queue[j] = log[Len(log) - Len(queue) + j]
        BY <1>t, <4>2 DEF GapInv
      <4>4. /\ Len(log) - Len(queue) + j = Len(log') - Len(queue') + i
            /\ Len(log) - Len(queue) + j \in 1..Len(log)
        BY <1>t, <2>1, <3>1, <4>2 DEF GapInv
      <4> QED
        BY <2>1, <4>2, <4>3, <4>4
    <3> QED
      BY <3>2, <3>3
  <2> QED
    BY <1>7, <1>t, <2>2, <2>3, <2>4 DEF GapInv
<1>12. OnceInv'
  <2>1. ~In(e, queue) /\ ~In(e, drained) /\ rows[e] = 0 /\ \A r \in wire : ~In(e, r)
    BY <1>2, <1>4, <1>t DEF OnceInv, EventTypes
  <2>2. /\ Len(queue) \in Nat /\ DOMAIN queue = 1..Len(queue)
        /\ Len(queue') \in Nat /\ DOMAIN queue' = 1..Len(queue')
    BY <1>8, <1>t DEF EventTypes
  <2>3. \A i \in DOMAIN queue' :
          \/ i = Len(queue') /\ queue'[i] = e
          \/ /\ i # Len(queue') /\ queue'[i] # e
             /\ i + Len(queue) + 1 - Len(queue') \in DOMAIN queue
             /\ queue'[i] = queue[i + Len(queue) + 1 - Len(queue')]
    <3> SUFFICES ASSUME NEW i \in DOMAIN queue', i # Len(queue')
                 PROVE  /\ queue'[i] # e /\ i + Len(queue) + 1 - Len(queue') \in DOMAIN queue
                        /\ queue'[i] = queue[i + Len(queue) + 1 - Len(queue')]
      BY <1>8
    <3>1. i \in 1..(Len(queue') - 1)
      BY <2>2
    <3> QED
      BY <1>8, <2>1, <2>2, <3>1 DEF In
  <2>4. Once(queue')
    BY <1>t, <2>2, <2>3 DEF OnceInv, Once
  <2>5. \A f \in Events!Event : In(f, queue') => f = e \/ In(f, queue)
    BY <2>3 DEF In
  <2>6. \A f \in Events!Event : In(f, drained)' <=> In(f, drained)
    BY <1>7 DEF In
  <2> QED
    BY <1>5, <1>6, <1>7, <1>t, <2>1, <2>4, <2>5, <2>6 DEF OnceInv
<1> QED
  BY <1>10, <1>11, <1>12 DEF EventInv

(* A chunk and the rest are what was drained, cut in two. *)
LEMMA PostStep ==
  ASSUME Events!EventsAssumption, EventInv, Events!Post
  PROVE  EventInv'
<1>t. EventTypes /\ GapInv /\ OnceInv /\ MaxChunk \in Nat \ {0}
  BY DEF EventInv, Events!EventsAssumption
<1> DEFINE chunk == Events!Chunk
           rest == Events!RestOfDrained
           n == IF Len(drained) < MaxChunk THEN Len(drained) ELSE MaxChunk
<1>1. /\ phase = "posting" /\ drained # <<>> /\ wire' = wire \cup {chunk} /\ drained' = rest
      /\ posted' = posted + (Len(drained) - Len(rest))
      /\ UNCHANGED <<session, queue, dropped, phase, last, rows, log, said>>
  BY DEF Events!Post
<1>2. drained \in Seq(Events!Event) /\ Len(drained) \in Nat \ {0} /\ n \in 1..Len(drained)
  BY <1>1, <1>t DEF EventTypes
<1>3. /\ chunk \in Seq(Events!Event) /\ Len(chunk) = n
      /\ \A i \in 1..n : chunk[i] = drained[i]
  BY <1>2 DEF Events!Chunk
<1>4. rest = SubSeq(drained, n + 1, Len(drained))
  BY <1>3 DEF Events!RestOfDrained
<1> HIDE DEF chunk, rest, n
<1>5. /\ rest \in Seq(Events!Event) /\ Len(rest) = Len(drained) - n
      /\ \A i \in 1..Len(rest) : rest[i] = drained[n + i]
  BY <1>2, <1>4
<1>6. EventTypes'
  BY <1>1, <1>2, <1>3, <1>5, <1>t DEF EventTypes
<1>7. GapInv'
  BY <1>1, <1>2, <1>5, <1>t DEF EventTypes, GapInv, Events!NoSilentGap
<1>8. DOMAIN chunk = 1..n /\ DOMAIN rest = 1..Len(rest) /\ DOMAIN drained = 1..Len(drained)
  BY <1>2, <1>3, <1>5
<1>9. \A f : In(f, rest) => In(f, drained)
  <2> SUFFICES ASSUME NEW f, NEW i \in DOMAIN rest, rest[i] = f
               PROVE  In(f, drained)
    BY DEF In
  <2>1. n + i \in DOMAIN drained /\ drained[n + i] = f
    BY <1>2, <1>5, <1>8
  <2> QED
    BY <2>1 DEF In
<1>10. \A f : In(f, chunk) => In(f, drained)
  BY <1>2, <1>3, <1>8 DEF In
<1>11. \A f : In(f, chunk) => ~In(f, rest)
  <2> SUFFICES ASSUME NEW f, NEW i \in DOMAIN chunk, NEW j \in DOMAIN rest, chunk[i] = f, rest[j] = f
               PROVE  FALSE
    BY DEF In
  <2>1. i \in DOMAIN drained /\ n + j \in DOMAIN drained /\ i # n + j
    BY <1>2, <1>5, <1>8
  <2>2. drained[i] = drained[n + j]
    BY <1>3, <1>5, <1>8
  <2> QED
    BY <1>t, <2>1, <2>2 DEF OnceInv, Once
<1>12. Once(rest)
  <2> SUFFICES ASSUME NEW i \in DOMAIN rest, NEW j \in DOMAIN rest, rest[i] = rest[j]
               PROVE  i = j
    BY DEF Once
  <2>1. n + i \in DOMAIN drained /\ n + j \in DOMAIN drained /\ drained[n + i] = drained[n + j]
    BY <1>2, <1>5, <1>8
  <2>2. n + i = n + j
    BY <1>t, <2>1 DEF OnceInv, Once
  <2> QED
    BY <1>2, <1>8, <2>2
<1>13. OnceInv'
  <2>1. \A f \in Events!Event : Past(f)' <=> Past(f)
    BY <1>1 DEF Past
  <2>2. Once(queue') /\ Once(drained')
    BY <1>1, <1>12, <1>t DEF OnceInv
  <2>3. ASSUME NEW f \in Events!Event, NEW r \in wire', In(f, r)
        PROVE  /\ Past(f) /\ rows[f] = 0 /\ ~In(f, queue) /\ ~In(f, rest)
               /\ \A q \in wire' : In(f, q) => q = r
    <3>1. CASE In(f, chunk)
      BY <1>1, <1>10, <1>11, <1>t, <2>3, <3>1 DEF OnceInv
    <3>2. CASE ~In(f, chunk)
      BY <1>1, <1>9, <1>t, <2>3, <3>2 DEF OnceInv
    <3> QED
      BY <3>1, <3>2
  <2> QED
    BY <1>1, <1>9, <1>t, <2>1, <2>2, <2>3 DEF OnceInv
<1> QED
  BY <1>6, <1>7, <1>13 DEF EventInv

(* No event has two rows, none is lost without a count, and the queue is   *)
(* the newest of them, for any sessions, bounds of the queue and of a      *)
(* request, whatever posts fail, arrive late or are lost and whenever the  *)
(* relay is killed (events.rs, reporter.rs).                               *)
THEOREM TimelineIsExact ==
  ASSUME Events!EventsAssumption
  PROVE  Events!Spec => []TimelineExact
<1>1. Events!Init => EventInv
  <2> SUFFICES ASSUME Events!Init
               PROVE  EventInv
    OBVIOUS
  <2>1. queue = <<>> /\ drained = <<>> /\ log = <<>> /\ wire = {} /\ Len(<<>>) = 0 /\ 1..0 = {}
    BY DEF Events!Init
  <2>2. \A e : ~In(e, queue) /\ ~In(e, drained)
    BY <2>1 DEF In
  <2>3. EventTypes
    BY <2>1 DEF Events!Init, EventTypes
  <2>4. GapInv
    BY <2>1 DEF Events!Init, Events!EventsAssumption, GapInv, Events!NoSilentGap
  <2>5. OnceInv
    BY <2>1, <2>2 DEF Events!Init, OnceInv, Once
  <2> QED
    BY <2>3, <2>4, <2>5 DEF EventInv
<1>2. EventInv /\ [Events!Next]_(Events!vars) => EventInv'
  <2> SUFFICES ASSUME EventInv, [Events!Next]_(Events!vars)
               PROVE  EventInv'
    OBVIOUS
  <2>t. EventTypes /\ GapInv /\ OnceInv
    BY DEF EventInv
  <2>q. \A e : ~In(e, <<>>)
    BY DEF In
  <2>1. ASSUME NEW c \in Session, Events!Opened(c) \/ Events!Closed(c)
        PROVE  EventInv'
    BY <2>1, PushStep
  <2>2. ASSUME NEW c \in Session, Events!NotOpened(c)
        PROVE  EventInv'
    <3>1. UNCHANGED <<queue, dropped, drained, phase, wire, rows, log, posted, said>>
      BY <2>2 DEF Events!NotOpened, Events!reporter, Events!history
    <3>2. session' \in [Session -> {"granted", "open", "ended"}]
          /\ \A k \in Session : session'[k] = session[k] \/ session'[k] = "ended"
      BY <2>2, <2>t DEF EventTypes, Events!NotOpened
    <3>3. \A e \in Events!Event : Past(e) => Past(e)'
      BY <3>2 DEF Past, Events!Event
    <3>4. EventTypes' /\ GapInv'
      BY <2>t, <3>1, <3>2 DEF EventTypes, GapInv, Events!NoSilentGap
    <3>5. OnceInv'
      BY <2>t, <3>1, <3>3 DEF OnceInv, Once, In
    <3> QED
      BY <3>4, <3>5 DEF EventInv
  <2>3. ASSUME NEW final \in BOOLEAN, Events!StartFlush(final)
        PROVE  EventInv'
    <3>1. UNCHANGED <<session, queue, dropped, drained, wire, rows, log, posted, said>>
          /\ phase = "waiting"
      BY <2>3 DEF Events!StartFlush, Events!history
    <3>2. EventTypes' /\ GapInv'
      BY <2>t, <3>1 DEF EventTypes, GapInv, Events!NoSilentGap
    <3>3. OnceInv'
      BY <2>t, <3>1 DEF OnceInv, Once, In, Past
    <3> QED
      BY <3>2, <3>3 DEF EventInv
  <2>4. CASE Events!Drain
    <3>1. /\ drained = <<>> /\ drained' = queue /\ queue' = <<>> /\ phase' = "dropped"
          /\ UNCHANGED <<session, dropped, wire, rows, log, posted, said>>
      BY <2>4, <2>t DEF GapInv, Events!Drain, Events!history
    <3>2. Len(<<>>) = 0 /\ 1..0 = {} /\ <<>> \in Seq(Events!Event) /\ DOMAIN <<>> = {}
      OBVIOUS
    <3>7. EventTypes'
      BY <2>t, <3>1, <3>2 DEF EventTypes
    <3>8. Events!NoSilentGap'
      BY <2>t, <3>1, <3>2 DEF EventTypes, GapInv, Events!NoSilentGap
    <3>9. Len(queue') = 0 /\ MaxQueued \in Nat /\ Len(log) \in Nat
      BY <2>t, <3>1, <3>2 DEF EventTypes, Events!EventsAssumption
    <3>10. GapInv'
      BY <3>1, <3>2, <3>8, <3>9 DEF GapInv
    <3>3. EventTypes' /\ GapInv'
      BY <3>7, <3>10
    <3>4. Once(queue') /\ Once(drained')
      BY <2>t, <3>1, <3>2 DEF OnceInv, Once
    <3>5. \A e \in Events!Event : /\ ~In(e, queue') /\ (In(e, drained') <=> In(e, queue))
                                  /\ (Past(e)' <=> Past(e))
      BY <2>q, <3>1 DEF In, Past
    <3>6. OnceInv'
      BY <2>t, <3>1, <3>4, <3>5 DEF OnceInv
    <3> QED
      BY <3>3, <3>6 DEF EventInv
  <2>5. CASE Events!TakeDropped
    <3>1. /\ said' = said + dropped /\ dropped' = 0 /\ phase' = "posting"
          /\ UNCHANGED <<session, queue, drained, wire, rows, log, posted>>
      BY <2>5 DEF Events!TakeDropped
    <3>4. EventTypes'
      BY <2>t, <3>1 DEF EventTypes
    <3>5. Events!NoSilentGap'
      BY <2>t, <3>1 DEF EventTypes, GapInv, Events!NoSilentGap
    <3>2. EventTypes' /\ GapInv'
      BY <2>t, <3>1, <3>4, <3>5 DEF GapInv
    <3>3. OnceInv'
      BY <2>t, <3>1 DEF OnceInv, Once, In, Past
    <3> QED
      BY <3>2, <3>3 DEF EventInv
  <2>6. CASE Events!Post
    BY <2>6, PostStep
  <2>7. CASE Events!EndFlush
    <3>1. UNCHANGED <<session, queue, dropped, drained, wire, rows, log, posted, said>>
          /\ drained = <<>>
      BY <2>7 DEF Events!EndFlush, Events!history
    <3>2. EventTypes' /\ GapInv'
      BY <2>t, <3>1 DEF EventTypes, GapInv, Events!NoSilentGap
    <3>3. OnceInv'
      BY <2>t, <3>1 DEF OnceInv, Once, In, Past
    <3> QED
      BY <3>2, <3>3 DEF EventInv
  <2>8. ASSUME NEW r \in wire, Events!Deliver(r) \/ Events!Lose(r)
        PROVE  EventInv'
    <3>1. /\ UNCHANGED <<session, queue, dropped, drained, phase, log, posted, said>>
          /\ wire' = wire \ {r}
      BY <2>8 DEF Events!Deliver, Events!Lose, Events!reporter, Events!history
    <3>2. /\ rows' \in [Events!Event -> Nat]
          /\ \A e \in Events!Event : rows'[e] = rows[e] \/ (In(e, r) /\ rows'[e] = rows[e] + 1)
      <4>1. CASE Events!Deliver(r)
        <5>1. \A e : e \in Events!ToSet(r) <=> In(e, r)
          BY DEF Events!ToSet, In
        <5>2. rows' = [e \in Events!Event |-> IF e \in Events!ToSet(r) /\ Events!Recorded(e)
                                              THEN rows[e] + 1 ELSE rows[e]]
          BY <4>1 DEF Events!Deliver
        <5> QED
          BY <2>t, <5>1, <5>2 DEF EventTypes
      <4>2. CASE Events!Lose(r)
        BY <2>t, <4>2 DEF EventTypes, Events!Lose
      <4> QED
        BY <2>8, <4>1, <4>2
    <3>3. EventTypes' /\ GapInv'
      BY <2>t, <3>1, <3>2 DEF EventTypes, GapInv, Events!NoSilentGap
    <3>4. \A e \in Events!Event : Past(e)' <=> Past(e)
      BY <3>1 DEF Past
    <3>5. OnceInv'
      <4>1. Once(queue)' /\ Once(drained)'
        BY <2>t, <3>1 DEF OnceInv, Once
      <4>2. ASSUME NEW e \in Events!Event
            PROVE  /\ rows'[e] <= 1
                   /\ rows'[e] = 1 => Past(e)'
                   /\ In(e, queue') => Past(e)' /\ rows'[e] = 0 /\ ~In(e, drained')
                   /\ In(e, drained') => Past(e)' /\ rows'[e] = 0
                   /\ \A p \in wire' : In(e, p) =>
                        /\ Past(e)' /\ rows'[e] = 0 /\ ~In(e, queue') /\ ~In(e, drained')
                        /\ \A q \in wire' : In(e, q) => q = p
        <5>1. CASE In(e, r)
          BY <2>t, <3>1, <3>2, <3>4, <5>1 DEF OnceInv
        <5>2. CASE ~In(e, r)
          BY <2>t, <3>1, <3>2, <3>4, <5>2 DEF OnceInv
        <5> QED
          BY <5>1, <5>2
      <4> QED
        BY <4>1, <4>2 DEF OnceInv
    <3> QED
      BY <3>3, <3>5 DEF EventInv
  <2>9. CASE Events!Restart
    <3>1. /\ queue' = <<>> /\ drained' = <<>> /\ log' = <<>> /\ dropped' = 0 /\ posted' = 0
          /\ said' = 0 /\ phase' = "waiting" /\ UNCHANGED <<wire, rows>>
          /\ session' = [c \in Session |-> IF session[c] = "open" THEN "ended" ELSE session[c]]
      BY <2>9 DEF Events!Restart
    <3>2. Len(<<>>) = 0 /\ 1..0 = {} /\ <<>> \in Seq(Events!Event) /\ DOMAIN <<>> = {}
      OBVIOUS
    <3>3. EventTypes' /\ GapInv'
      BY <2>t, <3>1, <3>2 DEF EventTypes, GapInv, Events!NoSilentGap, Events!EventsAssumption
    <3>4. Once(queue') /\ Once(drained')
      BY <3>1, <3>2 DEF Once
    <3>5. \A e \in Events!Event : /\ ~In(e, queue') /\ ~In(e, drained')
                                  /\ (Past(e) => Past(e)')
      BY <2>q, <2>t, <3>1 DEF EventTypes, Past, Events!Event
    <3>6. OnceInv'
      BY <2>t, <3>1, <3>4, <3>5 DEF OnceInv
    <3> QED
      BY <3>3, <3>6 DEF EventInv
  <2>10. CASE UNCHANGED Events!vars
    <3>1. UNCHANGED <<session, queue, dropped, drained, phase, wire, rows, log, posted, said>>
      BY <2>10 DEF Events!vars
    <3>2. EventTypes' /\ GapInv'
      BY <2>t, <3>1 DEF EventTypes, GapInv, Events!NoSilentGap
    <3>3. OnceInv'
      BY <2>t, <3>1 DEF OnceInv, Once, In, Past
    <3> QED
      BY <3>2, <3>3 DEF EventInv
  <2> QED
    BY <2>1, <2>2, <2>3, <2>4, <2>5, <2>6, <2>7, <2>8, <2>9, <2>10 DEF Events!Next, Events!Reporter
<1>3. EventInv => Events!TimelineExact
  <2> SUFFICES ASSUME EventInv
               PROVE  Events!TimelineExact
    OBVIOUS
  <2>1. Events!TimelineOnce
    BY DEF EventInv, OnceInv, Events!TimelineOnce
  <2>2. Events!NoSilentGap
    BY DEF EventInv, GapInv
  <2>3. Events!QueueIsTheNewest
    <3>1. queue \in Seq(Events!Event) /\ log \in Seq(Events!Event) /\ Len(queue) <= Len(log)
      BY DEF EventInv, EventTypes, GapInv
    <3> DEFINE qr == Events!Reverse(queue)
               lr == Events!Reverse(log)
    <3>2. /\ qr = [i \in 1..Len(queue) |-> queue[(Len(queue) - i) + 1]]
          /\ lr = [i \in 1..Len(log) |-> log[(Len(log) - i) + 1]]
      BY DEF Events!Reverse
    <3>3. qr \in Seq(Events!Event) /\ Len(qr) = Len(queue) /\ lr \in Seq(Events!Event) /\ Len(lr) = Len(log)
      BY <3>1, <3>2
    <3>4. \A i \in 1..Len(queue) : qr[i] = lr[i]
      <4> SUFFICES ASSUME NEW i \in 1..Len(queue)
                   PROVE  qr[i] = lr[i]
        OBVIOUS
      <4>1. (Len(queue) - i) + 1 \in 1..Len(queue) /\ i \in 1..Len(log)
        BY <3>1
      <4>2. queue[(Len(queue) - i) + 1] = log[Len(log) - Len(queue) + ((Len(queue) - i) + 1)]
        BY <4>1 DEF EventInv, GapInv
      <4>3. Len(log) - Len(queue) + ((Len(queue) - i) + 1) = (Len(log) - i) + 1
        BY <3>1
      <4> QED
        BY <3>2, <4>1, <4>2, <4>3
    <3> HIDE DEF qr, lr
    <3>5. SubSeq(qr, 1, Len(qr)) = SubSeq(lr, 1, Len(qr))
      BY <3>1, <3>3, <3>4
    <3>6. Events!IsSuffix(queue, log)
      BY <3>1, <3>3, <3>5 DEF Events!IsSuffix, Events!IsPrefix, qr, lr
    <3> QED
      BY <3>6 DEF EventInv, GapInv, Events!QueueIsTheNewest
  <2> QED
    BY <2>1, <2>2, <2>3 DEF Events!TimelineExact
<1> QED
  BY <1>1, <1>2, <1>3, PTL DEF Events!Spec, TimelineExact
===============================================================================
