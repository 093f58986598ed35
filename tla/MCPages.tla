-------------------------------- MODULE MCPages --------------------------------
(***************************************************************************)
(* The parts of the dashboard, what the server keeps behind them, and the  *)
(* QR code, checked side by side in one run: "part" says which of them a   *)
(* behaviour is about, the others rest in their initial states.            *)
(***************************************************************************)
EXTENDS Dashboard, Backend

CONSTANTS Payloads, Bytes, MaxBlock   \* Qr

VARIABLES
  part,
  step, version, payload, cursor, bit, spare, exp, logs, divisor, roots, block, rem

Code == INSTANCE Qr WITH Lengths <- Payloads, doing <- step, log <- logs

ASSUME PagesAssumption ==
  /\ Recording!CaptureAssumption /\ Playback!PlayerAssumption /\ Shells!SessionsAssumption
  /\ Activity!AuditAssumption /\ Editor!FilesAssumption /\ Pane!ExplorerAssumption
  /\ Recovery!RecoveryAssumption /\ SignIn!AccountsAssumption /\ Import!ImportsAssumption
  /\ Browsers!DevicesAssumption /\ Stores!RecordsAssumption /\ Touch!KeyboardAssumption
  /\ Sharing!SharesAssumption /\ Rotation!KeysAssumption /\ Plan!ViewAssumption
  /\ Paying!BillingAssumption /\ Code!QrAssumption

recording ==
  <<session, unlocked, pro, starting, registry, tapped, rec, kept, dropped>>
playback == <<cast, written, size, index, playhead, playing, scrub, resume>>
shells == <<live, connecting, printed, buffer, panes, focus, visible, prompt>>
activity == <<day, log, pruned, sub, table, request, pruning>>
editor ==
  <<up, handles, first, chosen, split, editing, loads, text, dirty, state,
    uploads>>
pane == <<cwd, reads, selected, anchor, picked, ask, transfer, changed>>
recovery == <<blob, enrolled, created, req, handed>>
tabs ==
  <<account, credential, second, passkey, codes, cookie, screen, doing, held>>
import ==
  <<kind, core, open, waiting, progress, failed, pasted, choosing, found,
    submit, stored>>
browsers == <<local, reg, signedIn, stamp, devices, revoking>>
stores == <<page, store, listed, asked, write, visit, sync, made>>
touch == <<mods, bar, down, sent, grid, box, told>>
sharing ==
  <<rows, spent, panel, list, reading, making, cutting, address, fetched,
    asking, strays, view, opened>>
rotation ==
  <<secret, previous, agent, trusted, online, minted, seen, carried, job, now>>
plan == <<reader, mirror, shown, loading, error, flight, busy, pressed>>
billing == <<user, row, tab, stripe, events, marks, hand, leaving, clock, faults, stuck>>
code ==
  <<step, version, payload, cursor, bit, spare, exp, logs, divisor, roots,
    block, rem>>
vars ==
  <<part, recording, playback, shells, activity, editor, pane, recovery, tabs,
    import, browsers, stores, touch, sharing, rotation, plan, billing, code>>

-------------------------------------------------------------------------------
Parts ==
  {"recording", "playback", "shells", "activity", "editor", "pane", "recovery", "tabs",
   "import", "browsers", "stores", "touch", "sharing", "rotation", "plan", "billing", "code"}

(* A part that rests does so in one of its initial states. *)
Rests(p, one) == part = p \/ one

Init ==
  /\ part \in Parts
  /\ Recording!Init /\ Rests("recording", pro)
  /\ Playback!Init /\ Rests("playback", cast = [events |-> <<>>, duration |-> 0])
  /\ Activity!Init /\ Rests("activity", sub = "none")
  /\ Editor!Init /\ Rests("editor", first = CHOOSE h \in Hosts : TRUE)
  /\ Import!Init /\ Rests("import", kind = "key")
  /\ Stores!Init /\ Rests("stores", page = "host")
  /\ Touch!Init /\ Rests("touch", bar /\ box = 0)
  /\ Plan!Init
  /\ Rests("plan", reader = (CHOOSE u \in Users : TRUE) /\ \A u \in Users : mirror[u] = "free")
  /\ Shells!Init /\ Pane!Init /\ Recovery!Init /\ SignIn!Init /\ Browsers!Init
  /\ Sharing!Init /\ Rotation!Init /\ Paying!Init /\ Code!Init

(* The parts that are not the behaviour's stay at rest. *)
OthersRest ==
  /\ UNCHANGED part
  /\ IF part = "recording" THEN TRUE ELSE UNCHANGED recording
  /\ IF part = "playback" THEN TRUE ELSE UNCHANGED playback
  /\ IF part = "shells" THEN TRUE ELSE UNCHANGED shells
  /\ IF part = "activity" THEN TRUE ELSE UNCHANGED activity
  /\ IF part = "editor" THEN TRUE ELSE UNCHANGED editor
  /\ IF part = "pane" THEN TRUE ELSE UNCHANGED pane
  /\ IF part = "recovery" THEN TRUE ELSE UNCHANGED recovery
  /\ IF part = "tabs" THEN TRUE ELSE UNCHANGED tabs
  /\ IF part = "import" THEN TRUE ELSE UNCHANGED import
  /\ IF part = "browsers" THEN TRUE ELSE UNCHANGED browsers
  /\ IF part = "stores" THEN TRUE ELSE UNCHANGED stores
  /\ IF part = "touch" THEN TRUE ELSE UNCHANGED touch
  /\ IF part = "sharing" THEN TRUE ELSE UNCHANGED sharing
  /\ IF part = "rotation" THEN TRUE ELSE UNCHANGED rotation
  /\ IF part = "plan" THEN TRUE ELSE UNCHANGED plan
  /\ IF part = "billing" THEN TRUE ELSE UNCHANGED billing
  /\ IF part = "code" THEN TRUE ELSE UNCHANGED code

Next ==
  /\ OthersRest
  /\ \/ part = "recording" /\ Recording!Next
     \/ part = "playback" /\ Playback!Next
     \/ part = "shells" /\ Shells!Next
     \/ part = "activity" /\ Activity!Next
     \/ part = "editor" /\ Editor!Next
     \/ part = "pane" /\ Pane!Next
     \/ part = "recovery" /\ Recovery!Next
     \/ part = "tabs" /\ SignIn!Next
     \/ part = "import" /\ Import!Next
     \/ part = "browsers" /\ Browsers!Next
     \/ part = "stores" /\ Stores!Next
     \/ part = "touch" /\ Touch!Next
     \/ part = "sharing" /\ Sharing!Next
     \/ part = "rotation" /\ Rotation!Next
     \/ part = "plan" /\ Plan!Next
     \/ part = "billing" /\ Paying!Next
     \/ part = "code" /\ Code!Next

Spec == Init /\ [][Next]_vars

-------------------------------------------------------------------------------
AuditKeep == [free |-> 2, pro |-> 3]
AgentOwner == [a \in Agents |-> IF a = CHOOSE b \in Agents : TRUE THEN "x" ELSE "y"]

(* The bits of a QR code fill its version exactly, and its blocks are      *)
(* codewords of the error-correcting code (lib/qr.ts).                     *)
CodeIsReadable == Code!EveryBitPlaced /\ Code!Vanishes
===============================================================================
