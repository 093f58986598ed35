-------------------------------- MODULE MCWeb --------------------------------
(***************************************************************************)
(* The components whose promises take time - what must happen in the end,  *)
(* retries, sweeps, timers - checked side by side in one run: "part" says  *)
(* which of them a behaviour is about, the others rest in their initial    *)
(* states.                                                                 *)
(***************************************************************************)
EXTENDS Naturals

CONSTANTS
  None,                                                          \* shared
  Records, Callers, NoRec, MaxFaults,                            \* SyncDriver
  Mints, Limit, Window, Keep, Ttl, Allowance, MaxUsed, MaxDbFaults,   \* RelayTokens
  Tokens, Keys, NoKey, MaxTokens,                                \* Enrolment
  Fetches, Kinds,                                                \* Machines
  Links, Viewers, MaxViews, Ceiling,                             \* Recordings
  HighWater, Sizes,                                              \* RemoteCopy
  Names, Loops, MaxSessions                                      \* Agent

VARIABLES
  part,
  unlocked, server, local, view, bumped, run, caller, faults,
  counter, passed, used, plan, machine, minting, tokens, dbFaults,
  enrolment, agentKey, revoked, claim, dialog,
  agentRow, verifying, online, list, fetch, busyCommand, after, keyOnDisk, removal,
  bucket, account, stored, object, saving, deleting, revoking, views, expired, viewing,
  served, sweep,
  entry, reader, writer, bridge, aborted, transfer, landed,
  file, marker, up, running, live, rejected, loop, grace, recon, restart

Driver == INSTANCE SyncDriver
Access == INSTANCE RelayTokens
Joining == INSTANCE Enrolment
Fleet == INSTANCE Machines
Bodies == INSTANCE Recordings
Copy == INSTANCE RemoteCopy

(* The directory is not changed between reconcile's reading and its lock. *)
Daemon == INSTANCE Agent WITH Overlap <- FALSE

ASSUME WebAssumption ==
  /\ Driver!DriverAssumption /\ Access!TokensAssumption
  /\ Joining!EnrolmentAssumption /\ Bodies!RecordingsAssumption
  /\ Copy!CopyAssumption /\ Daemon!AgentAssumption

driver == <<unlocked, server, local, view, bumped, run, caller, faults>>
access == <<counter, passed, used, plan, machine, minting, tokens, dbFaults>>
joining == <<enrolment, agentKey, revoked, claim, dialog>>
fleet == <<agentRow, verifying, online, list, fetch, busyCommand, after, keyOnDisk, removal>>
bodies ==
  <<bucket, account, stored, object, saving, deleting, revoking, views, expired, viewing,
    served, sweep>>
copy == <<entry, reader, writer, bridge, aborted, transfer, landed>>
daemon == <<file, marker, up, running, live, rejected, loop, grace, recon, restart>>
vars == <<part, driver, access, joining, fleet, bodies, copy, daemon>>

Init ==
  /\ part \in {"driver", "access", "joining", "fleet", "bodies",
               "copy", "daemon"}
  /\ Driver!Init /\ Access!Init /\ Joining!Init
  /\ Fleet!Init /\ Bodies!Init /\ Copy!Init /\ Daemon!Init
  /\ part = "bodies" \/ bucket

Of(p) == part = p /\ UNCHANGED part
OfDriver == Of("driver") /\ UNCHANGED <<access, joining, fleet, bodies, copy, daemon>>
OfAccess == Of("access") /\ UNCHANGED <<driver, joining, fleet, bodies, copy, daemon>>
OfJoining == Of("joining") /\ UNCHANGED <<driver, access, fleet, bodies, copy, daemon>>
OfFleet == Of("fleet") /\ UNCHANGED <<driver, access, joining, bodies, copy, daemon>>
OfBodies == Of("bodies") /\ UNCHANGED <<driver, access, joining, fleet, copy, daemon>>
OfCopy == Of("copy") /\ UNCHANGED <<driver, access, joining, fleet, bodies, daemon>>
OfDaemon == Of("daemon") /\ UNCHANGED <<driver, access, joining, fleet, bodies, copy>>

Next ==
  \/ OfDriver /\ Driver!Next
  \/ OfAccess /\ Access!Next
  \/ OfJoining /\ Joining!Next
  \/ OfFleet /\ Fleet!Next
  \/ OfBodies /\ Bodies!Next
  \/ OfCopy /\ Copy!Next
  \/ OfDaemon /\ Daemon!Next

RelayAllowance == [free |-> 0, pro |-> 1]
CopySizes == <<3, 2>>

-------------------------------------------------------------------------------
(* Handlers that run go on to their end, timers fire and time passes. A    *)
(* behaviour is about one part, so one condition serves several parts.     *)
MainStep ==
  \/ OfDriver /\ Driver!DriverStep
  \/ OfAccess /\ Access!Tick
  \/ OfJoining /\ Joining!Poll
  \/ OfFleet /\ Fleet!Asks
  \/ OfBodies /\ Bodies!SweepBegins
  \/ OfCopy /\ Copy!ReadStep
  \/ OfDaemon /\ Daemon!Supervise
SideStep == (OfDriver /\ Driver!Reread) \/ (OfCopy /\ (Copy!WriteStep \/ Copy!Settle))

Weak ==
  /\ WF_vars(MainStep) /\ WF_vars(SideStep)
  /\ \A c \in Callers : WF_vars(OfDriver /\ Driver!HandlerStep(c))
  /\ \A t \in Tokens : WF_vars(OfJoining /\ Joining!Expire(t))
  /\ \A k \in Bodies!Bodies : WF_vars(OfBodies /\ Bodies!Ends(k))
  /\ \A l \in Loops : /\ WF_vars(OfDaemon /\ (Daemon!Ends(l) \/ Daemon!Updated(l)))
                       /\ WF_vars(OfDaemon /\ Daemon!GraceEnds(l))

(* What is tried again and again succeeds now and again: the page's        *)
(* reloads, the sweeps.                                                    *)
Retried ==
  \/ OfFleet /\ \E f \in Fetches : Fleet!Answered(f)
  \/ OfBodies /\ Bodies!SweepRemoves

FairSpec == Init /\ [][Next]_vars /\ Weak /\ SF_vars(Retried)

-------------------------------------------------------------------------------
(* A push that reports success carried its own write, what was saved       *)
(* reaches the server while the vault stays unlocked, and every push a     *)
(* page waits for settles (auto-sync.ts).                                  *)
PushesReachServer == []Driver!PushedIsOnServer /\ Driver!WritesLeave /\ Driver!PushSettles

(* No window lets more than twice the limit through, and the tokens of an  *)
(* account that lost its access run out (lib/rate-limit, relay-token).     *)
AccessIsBounded == []Access!BurstBounded /\ Access!AccessEnds

(* A token is spent exactly when a machine came of it, and the dialog that *)
(* waits for it settles (agents/enroll, EnrollDialog).                     *)
EnrolmentSettles == []Joining!SpentOnSuccess /\ Joining!DialogSettles

(* The page says a key is gone only when it is, and its list catches up    *)
(* with a machine that was revoked or forgotten (machines/page.tsx).       *)
FleetIsShown == []Fleet!KeyReportTrue /\ Fleet!ListCatchesUp

(* The sweep takes what no row names, and never what a row names; a link   *)
(* is served no more often than its limit (lib/maintenance/objects.ts).    *)
SweepIsExact == Bodies!SavedStaysReadable /\ Bodies!LinkHolds /\ Bodies!OrphansSwept

(* A copy between two machines ends, one reported complete is whole, its   *)
(* chunks arrive in order and none after its end (lib/transfers/remote.ts). *)
CopiesEnd == []Copy!CopyWhole /\ Copy!IsTransfer /\ []<>(part = "copy" => Copy!Settled)

(* An identity has one loop, and one that was stopped ends (agent's        *)
(* supervisor and commands).                                               *)
IdentitiesFollow == []Daemon!OneLoop /\ Daemon!StoppedEnds
===============================================================================
