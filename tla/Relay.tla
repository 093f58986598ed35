-------------------------------- MODULE Relay ---------------------------------
(***************************************************************************)
(* The components of the relay side by side: "part" says which of them a   *)
(* behaviour is about, the others rest in their initial states. Parts says *)
(* which are in a run.                                                     *)
(***************************************************************************)
EXTENDS Naturals

CONSTANTS
  Parts, None,
  Session, Known, Vast, MaxQueued, MaxChunk,                  \* RelayEvents
  Agent, Link, LinkOf, Open, Cmd, AskedOf, Foreign, Depth,    \* RelayAgents
  Tunnel, Account, AccountOf, Frame, MaxPerAccount, MaxTotal, \* RelayMeter
  m1, m2, k3, a1                                              \* names for the values below

(* For the runs: the last link is the second machine's, if there is one. *)
MCLinkOf == [k \in Link |-> IF k = k3 /\ m2 \in Agent THEN m2 ELSE m1]

(* Everybody asks for the first machine. *)
MCAskedOf == [x \in Open \cup Cmd |-> m1]

OneAccount == [c \in Tunnel |-> a1]

VARIABLES
  part,
  session, queue, dropped, drained, phase, last, wire, rows, log, posted, said,
  conn, up, control, box, got, opening, pending, sending, awaiting, claims, ran, latest,
  pc, obj, slot, total, entry, active, owed, rep, batch, reports, ledger, by, gone

Events == INSTANCE RelayEvents WITH Conn <- Session, Booked <- Known
Agents == INSTANCE RelayAgents WITH Conn <- Link, AgentOf <- LinkOf
Meter == INSTANCE RelayMeter WITH Conn <- Tunnel, Booked <- Account, wire <- reports

ASSUME RelayAssumption ==
  Events!EventsAssumption /\ Agents!AgentsAssumption /\ Meter!MeterAssumption

events == <<session, queue, dropped, drained, phase, last, wire, rows, log, posted, said>>
agents == <<conn, up, control, box, got, opening, pending, sending, awaiting, claims, ran, latest>>
meter == <<pc, obj, slot, total, entry, active, owed, rep, batch, reports, ledger, by, gone>>
vars == <<part, events, agents, meter>>

Init == part \in Parts /\ Events!Init /\ Agents!Init /\ Meter!Init

OfEvents == part = "events" /\ UNCHANGED <<part, agents, meter>>
OfAgents == part = "agents" /\ UNCHANGED <<part, events, meter>>
OfMeter == part = "meter" /\ UNCHANGED <<part, events, agents>>

Next ==
  \/ OfEvents /\ Events!Next
  \/ OfAgents /\ Agents!Next
  \/ OfMeter /\ Meter!Next

Spec == Init /\ [][Next]_vars

(* The fairness of each component, see its FairSpec. *)
FairSpec ==
  /\ Spec
  /\ \A k \in Link : WF_vars(OfAgents /\ Agents!RelaySteps(k))
  /\ \A o \in Open : WF_vars(OfAgents /\ Agents!OpenSteps(o))
  /\ \A q \in Cmd : WF_vars(OfAgents /\ Agents!CommandSteps(q))
  /\ WF_vars(OfMeter /\ Meter!Reporter)

-------------------------------------------------------------------------------
(* Every recorded event is queued, drained, posted or counted as dropped,  *)
(* none has two rows in the timeline, and the queue is the end of what     *)
(* happened, within its bound (events.rs, reporter.rs).                    *)
TimelineExact == Events!TimelineExact

(* The connection that registered last stays registered while it runs, a   *)
(* ticket lets one stream in and outlives no request, a machine only sees  *)
(* what was asked of it by its own account, and "not connected" is only    *)
(* said of a command nobody has or will carry out (agent.rs).              *)
RegistryRight == Agents!RegistryRight

(* Requests of browsers and commands are done once or not at all, and end  *)
(* whatever the machine does (agent.rs, the timeouts).                     *)
RequestsSettle == Agents!IsOneShot /\ Agents!OpenSettles /\ Agents!CommandSettles

(* A registration whose machine has gone is forgotten, a replaced control  *)
(* connection is closed, an account with no attempt left is evicted from   *)
(* the meter, and bytes of a session that stays open reach a report        *)
(* (agent.rs, quota.rs).                                                   *)
RelayCleansUp ==
  /\ Agents!DeadIsForgotten /\ Agents!ReplacedIsClosed
  /\ Meter!IdleIsEvicted /\ Meter!OwedIsReported
===============================================================================
