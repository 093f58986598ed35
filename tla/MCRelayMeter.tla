---------------------------- MODULE MCRelayMeter ----------------------------
(* Three attempts of one account and one of another. To stay small, a         *)
(* behaviour is one of three scenes: the three race for slots and nothing is  *)
(* forwarded; two of them forward frames; or one attempt of each account does.*)
EXTENDS RelayMeter

CONSTANTS c1, c2, c3, c4, a1, a2

MCAccountOf == [c \in Conn |-> IF c = c4 THEN a2 ELSE a1]

VARIABLE scene

Absent == [slots |-> {c4}, bytes |-> {c3, c4}, chunks |-> {c1, c3}]

InScene ==
  /\ \A c \in Absent[scene] : pc[c] = "idle"
  /\ scene = "slots" => \A f \in Frame : by[f] = None

MCInit == Init /\ scene \in DOMAIN Absent
MCNext == Next /\ UNCHANGED scene /\ InScene'
MCSpec == MCInit /\ [][MCNext]_<<vars, scene>>
===============================================================================
