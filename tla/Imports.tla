------------------------------- MODULE Imports --------------------------------
(***************************************************************************)
(* The two dialogs that read a file with the SSH core: a private key       *)
(* (dashboard/keys/page.tsx, lib/keys.ts) and an ssh_config                *)
(* (dashboard/hosts/page.tsx). Both download the core when they open       *)
(* (lib/ssh/wasm.ts), read what was pasted or chosen, show what came of    *)
(* it, and store it on a second submit. A text stands for a file with its  *)
(* passphrase; a text that does not parse is a read that fails.            *)
(***************************************************************************)
CONSTANTS Texts, NoText

ImportsAssumption == NoText \notin Texts

VARIABLES
  kind,      \* the dialog: "key" or "config"
  core,      \* the module's promise: "none", "loading" or "ready"
  open,      \* is the dialog open?
  waiting,   \* does its effect wait for the core, not cancelled?
  bar,       \* its progress: "none", "moving" or "done"
  failed,    \* does it show that the core did not load?
  text,      \* what the text area holds
  choosing,  \* the chosen files that are still being read
  found,     \* the text the review panel is about
  busy,      \* the submit in flight, and the text it took
  stored     \* what was stored, with what was reviewed for it

importVars == <<kind, core, open, waiting, bar, failed, text, choosing, found, busy, stored>>

Idle == [op |-> "none", took |-> NoText, seen |-> NoText]

Init ==
  /\ kind \in {"key", "config"} /\ core = "none" /\ open = FALSE /\ waiting = FALSE
  /\ bar = "none" /\ failed = FALSE /\ text = NoText /\ choosing = {} /\ found = NoText
  /\ busy = Idle /\ stored = {}

-------------------------------------------------------------------------------
(* loadSSH: a caller starts the download or joins it. One with a progress  *)
(* callback is told at once how far it is.                                 *)
Joined == IF core = "none" THEN "loading" ELSE core

Watch ==
  /\ core' = Joined
  /\ waiting' = (core # "ready") /\ bar' = IF core = "ready" THEN "done" ELSE "moving"

Open ==
  /\ ~open /\ open' = TRUE /\ Watch
  /\ UNCHANGED <<kind, failed, text, choosing, found, busy, stored>>

Retry ==
  /\ open /\ failed /\ failed' = FALSE /\ Watch
  /\ UNCHANGED <<kind, open, text, choosing, found, busy, stored>>

(* The session provider and a connection load it too. *)
OtherLoads ==
  /\ core = "none" /\ core' = Joined
  /\ UNCHANGED <<kind, open, waiting, bar, failed, text, choosing, found, busy, stored>>

CoreLoads ==
  /\ core = "loading" /\ core' = "ready"
  /\ bar' = (IF waiting THEN "done" ELSE bar) /\ waiting' = FALSE
  /\ UNCHANGED <<kind, open, failed, text, choosing, found, busy, stored>>

(* A load that failed is forgotten, and everyone who waits hears of it. *)
FailedBarKept == bar   \* mutant: the byte count stays on the screen
FailedBar == "none"

CoreFails ==
  /\ core = "loading" /\ core' = "none" /\ waiting' = FALSE
  /\ IF waiting THEN bar' = FailedBar /\ failed' = TRUE ELSE UNCHANGED <<bar, failed>>
  /\ busy' = IF busy.op = "read" \/ (busy.op = "save" /\ kind = "key") THEN Idle ELSE busy
  /\ UNCHANGED <<kind, open, text, choosing, found, stored>>

-------------------------------------------------------------------------------
(* handleOpenChange(false): what was typed is dropped; the effect is       *)
(* cancelled.                                                              *)
Closes ==
  /\ open' = FALSE /\ waiting' = FALSE /\ failed' = FALSE
  /\ text' = NoText /\ found' = NoText

Close ==
  /\ open /\ Closes
  /\ UNCHANGED <<kind, core, bar, choosing, busy, stored>>

(* The text area and the file input are there until something was found. *)
Asking == open /\ found = NoText

Type(t) ==
  /\ Asking /\ text' = t
  /\ UNCHANGED <<kind, core, open, waiting, bar, failed, choosing, found, busy, stored>>

(* handleFile: the text of the file arrives later. *)
Choose(t) ==
  /\ Asking /\ choosing' = choosing \cup {t}
  /\ UNCHANGED <<kind, core, open, waiting, bar, failed, text, found, busy, stored>>

FileRead(t) ==
  /\ t \in choosing /\ choosing' = choosing \ {t} /\ text' = t
  /\ UNCHANGED <<kind, core, open, waiting, bar, failed, found, busy, stored>>

-------------------------------------------------------------------------------
(* handleRead and handleParse. *)
Submit(op) ==
  busy' = [op |-> op, took |-> IF kind = "config" /\ op = "save" THEN found ELSE text, seen |-> found]

Read ==
  /\ Asking /\ busy = Idle /\ text # NoText
  /\ Submit("read") /\ core' = Joined
  /\ UNCHANGED <<kind, open, waiting, bar, failed, text, choosing, found, stored>>

ReadLands ==
  /\ busy.op = "read" /\ core = "ready" /\ busy' = Idle
  /\ found' \in {found, busy.took}
  /\ UNCHANGED <<kind, core, open, waiting, bar, failed, text, choosing, stored>>

Back ==
  /\ open /\ found # NoText /\ found' = NoText
  /\ UNCHANGED <<kind, core, open, waiting, bar, failed, text, choosing, busy, stored>>

(* handleSave parses the text again; handleImport takes what was found. *)
Save ==
  /\ open /\ found # NoText /\ busy = Idle
  /\ Submit("save") /\ core' = IF kind = "key" THEN Joined ELSE core
  /\ UNCHANGED <<kind, open, waiting, bar, failed, text, choosing, found, stored>>

(* It is stored and the dialog closed. Or nothing is: no key to wrap it,   *)
(* nothing to parse. Or, of several hosts, the first ones.                 *)
SaveLands ==
  /\ busy.op = "save" /\ (kind = "key" => core = "ready") /\ busy' = Idle
  /\ \/ /\ busy.took # NoText
        /\ stored' = stored \cup {[what |-> busy.took, seen |-> busy.seen]}
        /\ Closes \/ (kind = "config" /\ UNCHANGED <<open, waiting, failed, text, found>>)
     \/ UNCHANGED <<stored, open, waiting, failed, text, found>>
  /\ UNCHANGED <<kind, core, bar, choosing>>

Next ==
  \/ Open \/ Retry \/ OtherLoads \/ CoreLoads \/ CoreFails \/ Close
  \/ \E t \in Texts : Type(t) \/ Choose(t) \/ FileRead(t)
  \/ Read \/ ReadLands \/ Back \/ Save \/ SaveLands

Spec == Init /\ [][Next]_importVars

-------------------------------------------------------------------------------
(* A progress bar on the screen is of a download that is going on          *)
(* (keys/page.tsx:521-524), whoever started it and however often the       *)
(* dialog was closed and opened meanwhile; and no host is stored that was  *)
(* not in the list that was reviewed (hosts/page.tsx:699-701).             *)
BarIsHonest ==
  /\ open /\ bar = "moving" => core = "loading"
  /\ kind = "config" => \A s \in stored : s.what = s.seen
===============================================================================
