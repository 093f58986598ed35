-------------------------------- MODULE SlotPool -------------------------------
(***************************************************************************)
(* What the relay's limits promise: a pool that lets one attempt in at a   *)
(* time, and only while its account and the relay have a slot free. The    *)
(* counters, their undoing and the eviction of idle accounts are how       *)
(* RelayMeter keeps it (apps/relay/src/quota.rs).                          *)
(***************************************************************************)
EXTENDS Naturals, FiniteSets

CONSTANTS Conn, AccountOf, MaxPerAccount, MaxTotal

VARIABLE inside   \* the attempts that hold a slot

Init == inside = {}

Admit(c) ==
  /\ c \notin inside
  /\ Cardinality({d \in inside : AccountOf[d] = AccountOf[c]}) < MaxPerAccount
  /\ Cardinality(inside) < MaxTotal
  /\ inside' = inside \cup {c}

Leave(c) == c \in inside /\ inside' = inside \ {c}

(* The relay starts again and with it the pool. *)
Restart == inside' = {}

Next == (\E c \in Conn : Admit(c) \/ Leave(c)) \/ Restart

Spec == Init /\ [][Next]_inside
===============================================================================
