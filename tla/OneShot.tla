-------------------------------- MODULE OneShot --------------------------------
(***************************************************************************)
(* What whoever asks a machine for something through the relay is          *)
(* promised: it is done once or not at all. An answer says that it was     *)
(* done, a refusal that it was not and will not be, and whoever stops      *)
(* waiting is told neither. Channels, tickets, reconnects and timeouts are *)
(* how RelayAgents keeps it (apps/relay/src/agent.rs).                     *)
(***************************************************************************)
EXTENDS Naturals

CONSTANT Request

VARIABLES
  state,   \* what whoever asked knows of each request
  times    \* how often it was done

Init ==
  /\ state = [r \in Request |-> "idle"]
  /\ times = [r \in Request |-> 0]

Becomes(r, s) == state' = [state EXCEPT ![r] = s]

Ask(r) == state[r] = "idle" /\ Becomes(r, "asked") /\ UNCHANGED times

(* Also after whoever asked has left. *)
CarryOut(r) ==
  /\ state[r] \in {"asked", "unknown"} /\ times[r] = 0
  /\ times' = [times EXCEPT ![r] = 1]
  /\ UNCHANGED state \/ (state[r] = "asked" /\ Becomes(r, "answered"))

Answer(r) == state[r] = "asked" /\ times[r] = 1 /\ Becomes(r, "answered") /\ UNCHANGED times

Refuse(r) ==
  /\ state[r] \in {"idle", "asked"} /\ times[r] = 0
  /\ Becomes(r, "refused") /\ UNCHANGED times

GiveUp(r) == state[r] = "asked" /\ Becomes(r, "unknown") /\ UNCHANGED times

(* A step is about one request, the one it changes. *)
Changes(r) == times'[r] # times[r] \/ state'[r] # state[r]

Next ==
  \E r \in Request :
    /\ Changes(r)
    /\ Ask(r) \/ CarryOut(r) \/ Answer(r) \/ Refuse(r) \/ GiveUp(r)

Spec == Init /\ [][Next]_<<state, times>>
===============================================================================
