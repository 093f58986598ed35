------------------------------- MODULE Explorer -------------------------------
(***************************************************************************)
(* One pane of the file explorer: its listing, the reads in flight, the    *)
(* selection, the dialogs and the transfers that read the listing again    *)
(* when they end (components/file-explorer.tsx, lib/transfers). A handler  *)
(* keeps the directory of the render it was made in: "from".               *)
(***************************************************************************)
EXTENDS Naturals, FiniteSets

CONSTANTS
  Dirs, Home,   \* the directories, and the one a connection opens at
  Names, None,  \* the names every directory holds
  MaxReads,     \* bound on the reads in flight
  Overlap       \* FALSE: no listing is asked for under another one, or under a
                \* dialog, and a transfer ends in the directory it began in

ExplorerAssumption ==
  /\ Home \in Dirs /\ None \notin Names \cup Dirs
  /\ MaxReads \in Nat \ {0} /\ Overlap \in BOOLEAN

VARIABLES
  cwd,        \* the directory shown, with its entries
  reads,      \* reads in flight: the directory, and the one they were made in
  selected,   \* the selected names
  anchor,     \* where a shift-click measures from
  picked,     \* the directory in which each selected name was clicked
  ask,        \* the dialog: its entry, and the directory it was opened in
  transfer,   \* an upload or a copy into this pane: the directory it was made in
  changed     \* the change asked for last, and the directory it was made in

explorerVars == <<cwd, reads, selected, anchor, picked, ask, transfer, changed>>

NoAsk == [name |-> None, dir |-> None]
Unpicked == [n \in Names |-> None]

Init ==
  /\ cwd = Home /\ reads = {} /\ selected = {} /\ anchor = None
  /\ picked = Unpicked /\ ask = NoAsk /\ transfer = None
  /\ changed = [asked |-> None, made |-> None]

(* refresh *)
Reads(dir, from) == reads' = reads \cup {[dir |-> dir, from |-> from]}
Room == Cardinality(reads) < IF Overlap THEN MaxReads ELSE 1

(* The path bar, a double click, Refresh; the dialogs are modal. *)
Navigate(dir) ==
  /\ ask = NoAsk /\ Room /\ Reads(dir, cwd)
  /\ UNCHANGED <<cwd, selected, anchor, picked, ask, transfer, changed>>

LandedKeeps(r) ==
  /\ r \in reads /\ reads' = reads \ {r} /\ cwd' = r.dir
  /\ UNCHANGED <<selected, anchor, picked, ask, transfer, changed>>

(* readDir answers: the selection is dropped if the directory is not the   *)
(* one refresh was made in.                                                *)
Landed(r) ==
  /\ r \in reads /\ reads' = reads \ {r} /\ cwd' = r.dir
  /\ IF r.dir # r.from
     THEN selected' = {} /\ anchor' = None /\ picked' = Unpicked
     ELSE UNCHANGED <<selected, anchor, picked>>
  /\ UNCHANGED <<ask, transfer, changed>>

ReadFails(r) ==
  /\ r \in reads /\ reads' = reads \ {r}
  /\ UNCHANGED <<cwd, selected, anchor, picked, ask, transfer, changed>>

-------------------------------------------------------------------------------
(* selectOn: a click, with ctrl, with shift. *)
Click(n) ==
  /\ selected' = {n} /\ anchor' = n /\ picked' = [Unpicked EXCEPT ![n] = cwd]
  /\ UNCHANGED <<cwd, reads, ask, transfer, changed>>

CtrlClick(n) ==
  /\ selected' = IF n \in selected THEN selected \ {n} ELSE selected \cup {n}
  /\ anchor' = n
  /\ picked' = [picked EXCEPT ![n] = IF n \in selected THEN None ELSE cwd]
  /\ UNCHANGED <<cwd, reads, ask, transfer, changed>>

ShiftClick(n) ==   \* of two names, the range is the two of them
  /\ anchor # None
  /\ selected' = {anchor, n}
  /\ picked' = [m \in Names |-> IF m \in {anchor, n} THEN cwd ELSE None]
  /\ UNCHANGED <<cwd, reads, anchor, ask, transfer, changed>>

(* What is carried is the selection when the row is part of it. *)
DragStart(n) ==
  /\ n \notin selected
  /\ selected' = {n} /\ picked' = [Unpicked EXCEPT ![n] = cwd]
  /\ UNCHANGED <<cwd, reads, anchor, ask, transfer, changed>>

ClearSelection ==
  /\ selected # {} /\ selected' = {} /\ anchor' = None /\ picked' = Unpicked
  /\ UNCHANGED <<cwd, reads, ask, transfer, changed>>

-------------------------------------------------------------------------------
(* Rename, chmod and delete: the dialog keeps the entry, and its answer is *)
(* joined to the directory of the render it is given in.                   *)
OpenAsk(n) ==
  /\ ask = NoAsk /\ (Overlap \/ reads = {})
  /\ ask' = [name |-> n, dir |-> cwd]
  /\ UNCHANGED <<cwd, reads, selected, anchor, picked, transfer, changed>>

CancelAsk ==
  /\ ask # NoAsk /\ ask' = NoAsk
  /\ UNCHANGED <<cwd, reads, selected, anchor, picked, transfer, changed>>

(* mutate: the change, then refresh; or the error. *)
SubmitAsk ==
  /\ ask # NoAsk /\ ask' = NoAsk /\ Room
  /\ \/ Reads(cwd, cwd) /\ changed' = [asked |-> ask.dir, made |-> cwd]
     \/ UNCHANGED <<reads, changed>>
  /\ UNCHANGED <<cwd, selected, anchor, picked, transfer>>

(* doUpload and doRemoteCopy: refresh as it was when the transfer began,   *)
(* after a success and after a copy that failed half-way.                  *)
BeginTransfer ==
  /\ transfer = None /\ transfer' = cwd
  /\ UNCHANGED <<cwd, reads, selected, anchor, picked, ask, changed>>

TransferEnds ==
  /\ transfer # None /\ Room /\ transfer' = None
  /\ Overlap \/ (transfer = cwd /\ ask = NoAsk)
  /\ Reads(transfer, transfer)
  /\ UNCHANGED <<cwd, selected, anchor, picked, ask, changed>>

Next ==
  \/ \E d \in Dirs : Navigate(d)
  \/ \E r \in reads : Landed(r) \/ ReadFails(r)
  \/ \E n \in Names : Click(n) \/ CtrlClick(n) \/ ShiftClick(n) \/ DragStart(n) \/ OpenAsk(n)
  \/ ClearSelection \/ CancelAsk \/ SubmitAsk \/ BeginTransfer \/ TransferEnds

Spec == Init /\ [][Next]_explorerVars

-------------------------------------------------------------------------------
(* A highlighted row was chosen in the directory that is shown             *)
(* (file-explorer.tsx:295-297).                                            *)
SelectionChosen == \A n \in selected : picked[n] = cwd

(* A change is made in the directory its dialog was opened in. *)
ChangeWhereAsked == changed.asked = changed.made

(* A highlighted row was chosen in the directory shown, and a dialog's     *)
(* change is made where it was opened (file-explorer.tsx:295-297).         *)
ChosenWhereShown == SelectionChosen /\ ChangeWhereAsked
===============================================================================
