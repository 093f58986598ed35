------------------------------ MODULE Machines -------------------------------
(***************************************************************************)
(* One enrolled machine on the machines page: its verification for the     *)
(* relay, commands, revocation and forgetting, and the list that timers    *)
(* and handlers reload side by side (app/dashboard/machines/page.tsx,      *)
(* app/api/agents). The relay and the daemon are modelled from how the     *)
(* routes use them; RelayAgents has the relay's own side.                  *)
(***************************************************************************)
EXTENDS Naturals

CONSTANTS
  Fetches,  \* reloads of the list in flight
  Kinds     \* commands of the row's menu

VARIABLES
  agentRow,   \* the agent row: live, revoked or forgotten, and last_seen_at
  verifying,  \* a verification that has read the row
  online,     \* is the machine registered at the relay?
  list,       \* what MachinesPage shows
  fetch,      \* reloads: what each has read
  busyCommand,
  after,      \* reloads refreshAfterCommand has still to make
  keyOnDisk,  \* does the machine still hold its private key?
  removal     \* what RemovalDialog says of that key

machineVars == <<agentRow, verifying, online, list, fetch, busyCommand, after, keyOnDisk, removal>>

Init ==
  /\ agentRow = [state |-> "live", seen |-> FALSE]
  /\ verifying = FALSE /\ online = FALSE
  /\ list = "loading"
  /\ fetch = [f \in Fetches |-> "idle"]
  /\ busyCommand = "none" /\ after = 0
  /\ keyOnDisk = TRUE /\ removal = "closed"

-------------------------------------------------------------------------------
(* POST /api/agents/verify reads the row, and the relay registers on its   *)
(* answer, with the row stamped if it is still there; the connection ends. *)
Verify ==
  /\ agentRow.state = "live" /\ keyOnDisk /\ ~verifying /\ ~online
  /\ verifying' = TRUE
  /\ UNCHANGED <<agentRow, online, list, fetch, busyCommand, after, keyOnDisk, removal>>

Register ==
  /\ verifying /\ verifying' = FALSE /\ online' = TRUE
  /\ agentRow' = [agentRow EXCEPT !.seen = @ \/ agentRow.state # "gone"]
  /\ UNCHANGED <<list, fetch, busyCommand, after, keyOnDisk, removal>>

Drop ==
  /\ online /\ online' = FALSE
  /\ UNCHANGED <<agentRow, verifying, list, fetch, busyCommand, after, keyOnDisk, removal>>

-------------------------------------------------------------------------------
(* The row's menu. A command, the dialog's update included, is offered for *)
(* a machine the list shows online, one at a time.                         *)
Offered == list = "online" /\ busyCommand = "none"

Command(k) ==
  /\ Offered
  /\ busyCommand' = k
  /\ UNCHANGED <<agentRow, verifying, online, list, fetch, after, keyOnDisk, removal>>

(* POST .../command: nothing for a machine that is revoked; one that       *)
(* carries the command out goes away, whether or not its answer arrives.   *)
(* Either way the button is freed and the list is read three times more.   *)
Commanded ==
  /\ busyCommand # "none" /\ busyCommand' = "none" /\ after' = 3
  /\ online' \in IF agentRow.state = "live" THEN {online, FALSE} ELSE {online}
  /\ UNCHANGED <<agentRow, verifying, list, fetch, keyOnDisk, removal>>

(* dispatchCommand: delivered and answered, delivered with the answer      *)
(* lost, or not delivered.                                                 *)
Told(delivered, answered) == delivered /\ answered

(* DELETE: the tombstone, then the machine is told if it can be, and takes *)
(* its key off the disk. The dialog opens with what is known of the key.   *)
Revoke ==
  \E delivered \in {FALSE, online}, answered \in BOOLEAN :
    /\ list \in {"online", "offline", "unknown", "never"} /\ agentRow.state = "live"
    /\ agentRow' = [agentRow EXCEPT !.state = "revoked"]
    /\ online' = (online /\ ~delivered)
    /\ keyOnDisk' = ~delivered
    /\ removal' = IF Told(delivered, answered) THEN "gone" ELSE "there"
    /\ UNCHANGED <<verifying, list, fetch, busyCommand, after>>

CloseRemoval ==
  /\ removal # "closed" /\ removal' = "closed"
  /\ UNCHANGED <<agentRow, verifying, online, list, fetch, busyCommand, after, keyOnDisk>>

(* DELETE ?forget=1 *)
Forget ==
  /\ list = "revoked" /\ agentRow.state = "revoked"
  /\ agentRow' = [agentRow EXCEPT !.state = "gone"]
  /\ UNCHANGED <<verifying, online, list, fetch, busyCommand, after, keyOnDisk, removal>>

-------------------------------------------------------------------------------
(* machineState, over what GET /api/agents answers; known says whether the *)
(* relay could be asked about the machines that are not revoked.           *)
MachineState(known) ==
  CASE agentRow.state = "gone" -> "absent"
    [] agentRow.state = "revoked" -> "revoked"
    [] ~agentRow.seen -> "never"
    [] ~known -> "unknown"
    [] OTHER -> IF online THEN "online" ELSE "offline"

Read(f) == \E known \in BOOLEAN : fetch' = [fetch EXCEPT ![f] = MachineState(known)]

(* load: the timer's, and those that follow a command. *)
ReloadNever(f) ==       \* mutant: the timer gives up once the list is there
  /\ list = "loading" /\ fetch[f] = "idle" /\ Read(f)
  /\ UNCHANGED <<agentRow, verifying, online, list, busyCommand, after, keyOnDisk, removal>>
Reload(f) ==
  /\ fetch[f] = "idle" /\ Read(f)
  /\ UNCHANGED <<agentRow, verifying, online, list, busyCommand, after, keyOnDisk, removal>>

ReloadAfter(f) ==
  /\ after > 0 /\ after' = after - 1
  /\ fetch[f] = "idle" /\ Read(f)
  /\ UNCHANGED <<agentRow, verifying, online, list, busyCommand, keyOnDisk, removal>>

(* The answer is shown whatever was shown since it was read; a failed      *)
(* request empties the list.                                               *)
Loaded(f) ==
  /\ fetch[f] # "idle"
  /\ list' \in {fetch[f], "absent"}
  /\ fetch' = [fetch EXCEPT ![f] = "idle"]
  /\ UNCHANGED <<agentRow, verifying, online, busyCommand, after, keyOnDisk, removal>>

Answered(f) == Loaded(f) /\ list' = fetch[f]

-------------------------------------------------------------------------------
Next ==
  \/ \E k \in Kinds : Command(k)
  \/ \E f \in Fetches : Reload(f) \/ ReloadAfter(f) \/ Loaded(f)
  \/ Verify \/ Register \/ Drop \/ Commanded \/ Revoke \/ CloseRemoval \/ Forget

Spec == Init /\ [][Next]_machineVars

-------------------------------------------------------------------------------
(* The timer and the handlers go on asking, and requests are answered now  *)
(* and again.                                                              *)
Asks == \E f \in Fetches : Reload(f)
Fairness == WF_machineVars(Asks) /\ \A f \in Fetches : SF_machineVars(Answered(f))
FairSpec == Spec /\ Fairness

(* The page says the key is off the machine only when it is (revoke,       *)
(* RemovalDialog), and a key the machine has deleted never comes back up.  *)
KeyReportTrue == (removal = "gone" => ~keyOnDisk) /\ (~keyOnDisk => agentRow.state # "live")

(* The list catches up with a machine that was revoked or forgotten,       *)
(* though reloads overlap, fail, and a late one shows what it read before  *)
(* the change (load in MachinesPage has no order).                         *)
ListCatchesUp ==
  /\ (<>[](agentRow.state = "revoked")) => []<>(list = "revoked")
  /\ (<>[](agentRow.state = "gone")) => []<>(list = "absent")
===============================================================================
