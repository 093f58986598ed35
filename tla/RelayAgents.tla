----------------------------- MODULE RelayAgents -----------------------------
(***************************************************************************)
(* The relay's agent registry (apps/relay/src/agent.rs and the handlers of *)
(* main.rs that use it): control connections that machines dial, browser   *)
(* requests that ask a machine to dial back with a one-time ticket, and    *)
(* signed commands that wait for their answer. The machine's side is       *)
(* apps/agent/run.go: one control connection at a time, a stream dialled   *)
(* per open message, a reply per command.                                  *)
(*                                                                         *)
(* A ticket is named by the request that made it, a command by its id. The *)
(* channel from the registry to a connection's writer is bounded, and ends *)
(* when the registration and every clone of its sender are gone.           *)
(***************************************************************************)
EXTENDS Naturals, Sequences, FiniteSets

CONSTANTS
  Agent,     \* machines
  Conn,      \* control connections
  AgentOf,   \* which machine dials each
  Open,      \* browser requests for a session
  Cmd,       \* command requests
  AskedOf,   \* the machine each request names
  Foreign,   \* the requests whose token names another account than the machine's
  None,
  Depth      \* CONTROL_DEPTH

(* What the constants have to be. *)
AgentsAssumption ==
  /\ AgentOf \in [Conn -> Agent]
  /\ Open \cap Cmd = {} /\ AskedOf \in [Open \cup Cmd -> Agent] /\ Foreign \subseteq Open \cup Cmd
  /\ None \notin Conn
  /\ Depth \in Nat \ {0}

VARIABLES
  conn,      \* serve_control, per connection
  up,        \* is the machine's end of the socket there?
  control,   \* Agents::control: the registered connection of each machine
  box,       \* the mpsc channel to each connection's writer
  got,       \* the messages each connection has brought to its machine
  opening,   \* Agents::open, per request: phase, and the sender it holds a clone of
  pending,   \* Agents::pending
  sending,   \* Agents::command, per request: the same
  awaiting,  \* Agents::awaiting
  claims,    \* history: how many streams each ticket let in
  ran,       \* history: the commands a machine has carried out
  latest     \* history: the connection that registered last

conns == <<conn, up, control, box, got, latest>>
opens == <<opening, pending, claims>>
cmds == <<sending, awaiting, ran>>
vars == <<conns, opens, cmds>>

Idle == [phase |-> "idle", via |-> None]

TypeOK ==
  /\ conn \in [Conn -> {"idle", "proving", "verified", "live", "ended", "closed"}]
  /\ up \in [Conn -> BOOLEAN]
  /\ control \in [Agent -> Conn \cup {None}] /\ latest \in [Agent -> Conn \cup {None}]
  /\ box \in [Conn -> Seq(Open \cup Cmd)]
  /\ \A k \in Conn : Len(box[k]) <= Depth
  /\ got \in [Conn -> SUBSET (Open \cup Cmd)]
  /\ opening \in [Open -> [phase : {"idle", "asking", "waiting", "expired", "served", "failed"},
                           via : Conn \cup {None}]]
  /\ sending \in [Cmd -> [phase : {"idle", "sending", "waiting", "expired", "replied",
                                   "silent", "offline", "abandoned"},
                          via : Conn \cup {None}]]
  /\ pending \subseteq Open /\ awaiting \subseteq Cmd /\ ran \subseteq Cmd
  /\ claims \in [Open -> Nat]

Init ==
  /\ conn = [k \in Conn |-> "idle"]
  /\ up = [k \in Conn |-> FALSE]
  /\ control = [a \in Agent |-> None] /\ latest = [a \in Agent |-> None]
  /\ box = [k \in Conn |-> <<>>]
  /\ got = [k \in Conn |-> {}]
  /\ opening = [o \in Open |-> Idle]
  /\ sending = [q \in Cmd |-> Idle]
  /\ pending = {} /\ awaiting = {} /\ ran = {}
  /\ claims = [o \in Open |-> 0]

-------------------------------------------------------------------------------
(* Control connections. *)

(* run.go's serve: the next dial comes after the last socket was given up. *)
Dial(k) ==
  /\ conn[k] = "idle"
  /\ \A j \in Conn : AgentOf[j] = AgentOf[k] => ~up[j]
  /\ conn' = [conn EXCEPT ![k] = "proving"]
  /\ up' = [up EXCEPT ![k] = TRUE]
  /\ UNCHANGED <<control, box, got, latest, opens, cmds>>

(* The path dies, keepAlive gets no pong, or the process stops. The relay    *)
(* does not hear of it.                                                      *)
Drop(k) ==
  /\ up[k]
  /\ up' = [up EXCEPT ![k] = FALSE]
  /\ UNCHANGED <<conn, control, box, got, latest, opens, cmds>>

(* hello, challenge, proof and the control plane's verdict, then "ready". A   *)
(* machine that has gone may still be verified: the send is only buffered.    *)
Verified(k) ==
  /\ conn[k] = "proving"
  /\ conn' = [conn EXCEPT ![k] = "verified"]
  /\ UNCHANGED <<up, control, box, got, latest, opens, cmds>>

(* Refused, unreadable, too slow, or gone before "ready" could be sent. *)
HandshakeFails(k) ==
  /\ conn[k] \in {"proving", "verified"}
  /\ conn' = [conn EXCEPT ![k] = "closed"]
  /\ up' = [up EXCEPT ![k] = FALSE]
  /\ UNCHANGED <<control, box, got, latest, opens, cmds>>

(* control.insert: replaces, and so drops, an earlier registration. *)
Register(k) ==
  /\ conn[k] = "verified"
  /\ conn' = [conn EXCEPT ![k] = "live"]
  /\ control' = [control EXCEPT ![AgentOf[k]] = k]
  /\ latest' = [latest EXCEPT ![AgentOf[k]] = k]
  /\ UNCHANGED <<up, box, got, opens, cmds>>

(* The writer takes a message; if the machine's end has gone nobody gets it. *)
Write(k) ==
  /\ conn[k] = "live" /\ box[k] # <<>>
  /\ box' = [box EXCEPT ![k] = Tail(@)]
  /\ got' = [got EXCEPT ![k] = IF up[k] THEN @ \cup {Head(box[k])} ELSE @]
  /\ UNCHANGED <<conn, up, control, latest, opens, cmds>>

(* open and command hold their clone until they return. *)
HoldsOpen(o, k) == opening[o].via = k /\ opening[o].phase \in {"asking", "waiting", "expired"}
HoldsCmd(q, k) == sending[q].via = k /\ sending[q].phase \in {"sending", "waiting", "expired"}

NoSender(k) ==
  /\ control[AgentOf[k]] # k
  /\ \A o \in Open : ~HoldsOpen(o, k)
  /\ \A q \in Cmd : ~HoldsCmd(q, k)

(* The writer's channel ends, or the reader or a write finds the socket dead. *)
(* Both halves of the socket and the channel's receiver go with the loop.     *)
LoopEnds(k) ==
  /\ conn[k] = "live"
  /\ (box[k] = <<>> /\ NoSender(k)) \/ ~up[k]
  /\ conn' = [conn EXCEPT ![k] = "ended"]
  /\ box' = [box EXCEPT ![k] = <<>>]
  /\ up' = [up EXCEPT ![k] = FALSE]
  /\ UNCHANGED <<control, got, latest, opens, cmds>>

(* control.remove_if: only a registration that is still this connection's. *)
ForgottenAlways(k) == [control EXCEPT ![AgentOf[k]] = None]   \* mutant: whoever is registered
ForgottenNever(k) == control                                  \* mutant: the entry stays
Forgotten(k) ==
  IF control[AgentOf[k]] = k THEN [control EXCEPT ![AgentOf[k]] = None] ELSE control

Deregister(k) ==
  /\ conn[k] = "ended"
  /\ conn' = [conn EXCEPT ![k] = "closed"]
  /\ control' = Forgotten(k)
  /\ UNCHANGED <<up, box, got, latest, opens, cmds>>

-------------------------------------------------------------------------------
(* connect_via_agent and Agents::open. *)

(* Not connected, or another account's: the browser is told and left. *)
OpenRefused(o) ==
  /\ opening[o].phase = "idle"
  /\ control[AskedOf[o]] = None \/ o \in Foreign
  /\ opening' = [opening EXCEPT ![o].phase = "failed"]
  /\ UNCHANGED <<conns, pending, claims, cmds>>

(* The sender is cloned and a fresh ticket is put into pending. *)
AskToOpen(o) ==
  /\ opening[o].phase = "idle" /\ o \notin Foreign
  /\ control[AskedOf[o]] # None
  /\ opening' = [opening EXCEPT ![o] = [phase |-> "asking", via |-> control[AskedOf[o]]]]
  /\ pending' = pending \cup {o}
  /\ UNCHANGED <<conns, claims, cmds>>

Room(k) == conn[k] = "live" /\ Len(box[k]) < Depth

(* try_send: a full queue or a finished writer is an offline machine. *)
TrySend(o) ==
  /\ opening[o].phase = "asking" /\ Room(opening[o].via)
  /\ box' = [box EXCEPT ![opening[o].via] = Append(@, o)]
  /\ opening' = [opening EXCEPT ![o].phase = "waiting"]
  /\ UNCHANGED <<conn, up, control, got, latest, pending, claims, cmds>>

TrySendFails(o) ==
  /\ opening[o].phase = "asking" /\ ~Room(opening[o].via)
  /\ opening' = [opening EXCEPT ![o].phase = "failed"]
  /\ pending' = pending \ {o}
  /\ UNCHANGED <<conns, claims, cmds>>

(* OPEN_TIMEOUT fires, and only then is the ticket withdrawn. *)
OpenExpiresIfGone(o) ==   \* mutant: no timer while the machine is connected
  /\ opening[o].phase = "waiting" /\ conn[opening[o].via] # "live"
  /\ opening' = [opening EXCEPT ![o].phase = "expired"]
  /\ UNCHANGED <<conns, pending, claims, cmds>>

OpenExpires(o) ==
  /\ opening[o].phase = "waiting"
  /\ opening' = [opening EXCEPT ![o].phase = "expired"]
  /\ UNCHANGED <<conns, pending, claims, cmds>>

OpenGivesUp(o) ==
  /\ opening[o].phase = "expired"
  /\ opening' = [opening EXCEPT ![o].phase = "failed"]
  /\ pending' = pending \ {o}
  /\ UNCHANGED <<conns, claims, cmds>>

(* openStream and accept_stream: the machine dials back with a ticket it was  *)
(* given, perhaps again, and the first one finds it in pending. Whoever still *)
(* waits gets the socket; after the timeout it is dropped, which closes it.   *)
Spent(o) == pending \ {o}

AcceptStream(o) ==
  /\ \E k \in Conn : o \in got[k]
  /\ o \in pending
  /\ pending' = Spent(o)
  /\ claims' = [claims EXCEPT ![o] = @ + 1]
  /\ opening' = IF opening[o].phase = "waiting"
                THEN [opening EXCEPT ![o].phase = "served"] ELSE opening
  /\ UNCHANGED <<conns, cmds>>

-------------------------------------------------------------------------------
(* Agents::command. *)
CommandOffline(q) ==
  /\ sending[q].phase = "idle"
  /\ control[AskedOf[q]] = None \/ q \in Foreign
  /\ sending' = [sending EXCEPT ![q].phase = "offline"]
  /\ UNCHANGED <<conns, opens, awaiting, ran>>

Command(q) ==
  /\ sending[q].phase = "idle" /\ q \notin Foreign
  /\ control[AskedOf[q]] # None
  /\ sending' = [sending EXCEPT ![q] = [phase |-> "sending", via |-> control[AskedOf[q]]]]
  /\ awaiting' = awaiting \cup {q}
  /\ UNCHANGED <<conns, opens, ran>>

(* send, not try_send: it waits for room. *)
Send(q) ==
  /\ sending[q].phase = "sending" /\ Room(sending[q].via)
  /\ box' = [box EXCEPT ![sending[q].via] = Append(@, q)]
  /\ sending' = [sending EXCEPT ![q].phase = "waiting"]
  /\ UNCHANGED <<conn, up, control, got, latest, opens, awaiting, ran>>

SendFails(q) ==
  /\ sending[q].phase = "sending" /\ conn[sending[q].via] \in {"ended", "closed"}
  /\ sending' = [sending EXCEPT ![q].phase = "offline"]
  /\ awaiting' = awaiting \ {q}
  /\ UNCHANGED <<conns, opens, ran>>

(* handleCommand on the machine, in the loop that read the message. *)
Run(q) ==
  /\ \E k \in Conn : q \in got[k]
  /\ q \notin ran
  /\ ran' = ran \cup {q}
  /\ UNCHANGED <<conns, opens, sending, awaiting>>

(* The reply comes back on the connection that brought the command. *)
Reply(k, q) ==
  /\ conn[k] = "live" /\ up[k]
  /\ q \in got[k] \cap ran \cap awaiting
  /\ awaiting' = awaiting \ {q}
  /\ sending' = IF sending[q].phase = "waiting"
                THEN [sending EXCEPT ![q].phase = "replied"] ELSE sending
  /\ UNCHANGED <<conns, opens, ran>>

(* COMMAND_TIMEOUT. *)
CommandExpires(q) ==
  /\ sending[q].phase = "waiting"
  /\ sending' = [sending EXCEPT ![q].phase = "expired"]
  /\ UNCHANGED <<conns, opens, awaiting, ran>>

Silence == "silent"

CommandGivesUp(q) ==
  /\ sending[q].phase = "expired"
  /\ sending' = [sending EXCEPT ![q].phase = Silence]
  /\ awaiting' = awaiting \ {q}
  /\ UNCHANGED <<conns, opens, ran>>

(* The control plane hangs up (dispatch.ts has its own timeout): the handler  *)
(* is dropped where it waits and removes nothing.                             *)
CallerLeaves(q) ==
  /\ sending[q].phase \in {"sending", "waiting"}
  /\ sending' = [sending EXCEPT ![q].phase = "abandoned"]
  /\ UNCHANGED <<conns, opens, awaiting, ran>>

-------------------------------------------------------------------------------
RelaySteps(k) == Register(k) \/ Write(k) \/ LoopEnds(k) \/ Deregister(k)
OpenSteps(o) == TrySend(o) \/ TrySendFails(o) \/ OpenExpires(o) \/ OpenGivesUp(o)
CommandSteps(q) == Send(q) \/ SendFails(q) \/ CommandExpires(q) \/ CommandGivesUp(q)

Next ==
  \/ \E k \in Conn : Dial(k) \/ Drop(k) \/ Verified(k) \/ HandshakeFails(k) \/ RelaySteps(k)
  \/ \E o \in Open : OpenRefused(o) \/ AskToOpen(o) \/ AcceptStream(o) \/ OpenSteps(o)
  \/ \E q \in Cmd : CommandOffline(q) \/ Command(q) \/ Run(q) \/ CallerLeaves(q)
                    \/ CommandSteps(q) \/ \E k \in Conn : Reply(k, q)

Spec == Init /\ [][Next]_vars

(* The relay's tasks run and its timers fire; a dead socket is noticed at the *)
(* latest when a ping cannot be written. Machines and browsers owe nothing.   *)
FairSpec ==
  /\ Spec
  /\ \A k \in Conn : WF_vars(RelaySteps(k))
  /\ \A o \in Open : WF_vars(OpenSteps(o))
  /\ \A q \in Cmd : WF_vars(CommandSteps(q))

-------------------------------------------------------------------------------
(* Properties. *)

(* Registration::conn: an old connection's cleanup never makes a connected    *)
(* machine unreachable. The connection that registered last stays the         *)
(* registered one for as long as its loop runs.                               *)
LatestIsRegistered ==
  \A a \in Agent :
    latest[a] # None /\ conn[latest[a]] = "live" => control[a] = latest[a]

(* Agents::open: a ticket lets one stream in, however often it is presented,  *)
(* and no ticket outlives the request that waits for it, so a machine that    *)
(* dials back late is turned away.                                            *)
TicketsAreForOnce ==
  \A o \in Open :
    /\ claims[o] <= 1
    /\ o \in pending => opening[o].phase \in {"asking", "waiting", "expired"} /\ claims[o] = 0
    /\ opening[o].phase = "served" => claims[o] = 1

(* main.rs tells "not connected, so it cannot be given a command" apart from  *)
(* "it may still have carried this out": the first is only said of a command  *)
(* that no machine has carried out or ever will.                              *)
OfflineMeansNotRun ==
  \A q \in Cmd : sending[q].phase = "offline" =>
    /\ q \notin ran
    /\ \A k \in Conn : q \notin got[k] /\ \A i \in DOMAIN box[k] : box[k][i] # q

(* A machine only ever sees what was asked of it, and only by its own account. *)
OnlyTheAskedMachine ==
  \A k \in Conn : \A x \in got[k] : AskedOf[x] = AgentOf[k] /\ x \notin Foreign

(* A registration whose machine has gone is forgotten. *)
DeadIsForgotten ==
  \A k \in Conn : (conn[k] = "live" /\ ~up[k]) ~> (control[AgentOf[k]] # k)

(* The comment at control.insert: a replaced connection's loop ends and closes *)
(* it, once the requests that hold clones of its sender have come back.        *)
ReplacedIsClosed ==
  \A k \in Conn : (conn[k] = "live" /\ control[AgentOf[k]] # k) ~> (conn[k] = "closed")

(* Whatever the machine does, the browser's request ends. *)
OpenSettles ==
  \A o \in Open : (opening[o].phase = "asking") ~> (opening[o].phase \in {"served", "failed"})

(* And so does the control plane's. *)
CommandSettles ==
  \A q \in Cmd : (sending[q].phase = "sending")
                   ~> (sending[q].phase \in {"replied", "silent", "offline", "abandoned"})

(* A session and a command are each one request to a machine. A session is *)
(* done when its ticket has let a stream in; a request that failed before  *)
(* that is refused for good, since its ticket is gone (agent.rs, open). A  *)
(* command is refused when its machine is "not connected", and is unknown  *)
(* when nobody answered in time or the caller left (agent.rs, command).    *)
OpenState(o) ==
  IF opening[o].phase \in {"asking", "waiting", "expired"} THEN "asked"
  ELSE IF opening[o].phase = "served" THEN "answered"
  ELSE IF opening[o].phase = "idle" THEN "idle"
  ELSE IF claims[o] = 0 THEN "refused" ELSE "unknown"

CmdState(q) ==
  IF sending[q].phase \in {"sending", "waiting", "expired"} THEN "asked"
  ELSE IF sending[q].phase = "replied" THEN "answered"
  ELSE IF sending[q].phase = "idle" THEN "idle"
  ELSE IF sending[q].phase = "offline" THEN "refused" ELSE "unknown"

Opens == INSTANCE OneShot
           WITH Request <- Open, times <- claims, state <- [o \in Open |-> OpenState(o)]
Commands == INSTANCE OneShot
              WITH Request <- Cmd, times <- [q \in Cmd |-> IF q \in ran THEN 1 ELSE 0],
                   state <- [q \in Cmd |-> CmdState(q)]

(* Whatever is asked of a machine through the relay is done once or not at *)
(* all, and whoever asked is never told the wrong one of the two.          *)
IsOneShot == Opens!Spec /\ Commands!Spec

(* The connection that registered last stays registered while it runs, a   *)
(* ticket lets one stream in and outlives no request, a machine only sees  *)
(* what was asked of it by its own account, and "not connected" is only    *)
(* said of a command nobody has or will carry out (agent.rs).              *)
RegistryRight ==
  /\ LatestIsRegistered /\ TicketsAreForOnce
  /\ OnlyTheAskedMachine /\ OfflineMeansNotRun
===============================================================================
