------------------------------- MODULE Dashboard ------------------------------
(***************************************************************************)
(* The parts of the dashboard that have only their own state, under one    *)
(* set of names, and what must hold of each of them in every state.        *)
(***************************************************************************)
EXTENDS Naturals, Sequences

CONSTANTS
  Hosts, Paths, NoOne,                                             \* Files
  Users, Nobody,                                                   \* PlanView
  Links, None, MaxViews, MaxOpened,                                \* Shares
  Dirs, Home, Names, MaxReads,                                     \* Explorer
  Default, Sizes,                                                  \* Keyboard
  Texts, NoText,                                                   \* Imports
  Recorders, NoRecorder, Cap, Chunks,                              \* Capture
  RecordIds, MaxStamp,                                             \* Records
  Keep, PageSize, Batch, Ranges, MaxEvents, MaxDay,                \* Audit
  Ids, Empty, MaxPanes, BufferMax, MaxOutput,                      \* Sessions
  Times, Lengths                                                   \* Player

VARIABLES
  up, handles, first, chosen, split, editing, loads, text, dirty, state, uploads,
  reader, mirror, shown, loading, error, flight, busy, pressed,
  rows, spent, panel, list, reading, making, cutting, address, fetched, asking,
  strays, view, opened,
  cwd, reads, selected, anchor, picked, ask, transfer, changed,
  mods, bar, down, sent, grid, box, told,
  kind, core, open, waiting, progress, failed, pasted, choosing, found, submit, stored,
  session, unlocked, pro, starting, registry, tapped, rec, kept, dropped,
  page, store, listed, asked, write, visit, sync, made,
  day, log, pruned, sub, table, request, pruning,
  live, connecting, printed, buffer, panes, focus, visible, prompt,
  cast, written, size, index, playhead, playing, scrub, resume

Editor == INSTANCE Files
Plan == INSTANCE PlanView WITH account <- reader
Sharing == INSTANCE Shares

(* Listings are asked for one at a time: overlapping ones do not keep the  *)
(* property.                                                               *)
Pane == INSTANCE Explorer WITH Overlap <- FALSE
Touch == INSTANCE Keyboard
Import == INSTANCE Imports WITH bar <- progress, text <- pasted, busy <- submit
Recording == INSTANCE Capture WITH open <- session
Stores == INSTANCE Records
            WITH Ids <- RecordIds, kind <- page, list <- listed, page <- write, fresh <- made
Activity == INSTANCE Audit

(* Panes do not change while a handshake is under way: an output that      *)
(* arrives between the replay of a pane and its mount is lost.             *)
Shells == INSTANCE Sessions WITH Overlap <- FALSE
Playback == INSTANCE Player

-------------------------------------------------------------------------------
(* No save, close or second recording takes away what was captured         *)
(* (recording/capture.ts: persist empties the entry by session).           *)
NothingVanishes == Recording!NothingVanishes

(* However playback, pauses and seeks follow each other, the screen is the *)
(* recording up to the playhead (recording-player.tsx).                    *)
ScreenIsPlayhead == Playback!ScreenIsPlayhead

(* A pane shows what its session printed before the pane existed           *)
(* (session-provider.tsx, terminal/page.tsx).                              *)
OutputShown == Shells!OutputShown

(* What a range of the activity page shows is complete as far as it was    *)
(* loaded, whatever is written and pruned meanwhile (lib/audit/query.ts).  *)
RangeComplete == Activity!RangeComplete

(* A save of the editor goes to the file and the host its text came from   *)
(* (files/page.tsx, editor.tsx).                                           *)
SaveGoesHome == Editor!SaveGoesHome

(* A highlighted row was chosen in the directory shown, and a dialog's     *)
(* change is made where it was opened (file-explorer.tsx:295-297).         *)
ChosenWhereShown == Pane!ChosenWhereShown

(* A progress bar is of a download that is going on, and no host is stored *)
(* that was not in the reviewed list (keys/page.tsx:521-524).              *)
BarIsHonest == Import!BarIsHonest

(* A host or key made while a sync was at work survives it                 *)
(* (sync.ts:271-272).                                                      *)
NewKept == Stores!NewKept

(* Keys arrive with each modifier folded in once, and the session knows    *)
(* the size on the screen (terminal.tsx:400-421, 559-563).                 *)
TypedAsShown == Touch!TypedAsShown

(* A visit spends at most one view of a link, and a link shown as revoked  *)
(* opens nothing (share/[token]/page.tsx:73-80).                           *)
LinksHold == Sharing!LinksHold

(* Refresh answers a stale plan (lib/billing/client.ts).                   *)
RefreshIsCurrent == Plan!RefreshIsCurrent
===============================================================================
