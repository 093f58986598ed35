-------------------------------- MODULE Files --------------------------------
(***************************************************************************)
(* The files page: which session each pane browses, the file that is       *)
(* edited, and the editor's loads and saves as sessions close and panes    *)
(* change hosts (app/dashboard/files/page.tsx, components/editor.tsx).     *)
(***************************************************************************)
EXTENDS Naturals

CONSTANTS
  Hosts,    \* the sessions that may be open
  Paths,    \* the files the panes list, by their path on every host
  NoOne     \* no session, no file

FilesAssumption == NoOne \notin Hosts \cup Paths

VARIABLES
  up,        \* the open sessions
  handles,   \* sessions whose SFTP channel is open
  first,     \* activeId
  chosen,    \* each pane's preference
  split,     \* is the second pane on?
  editing,   \* the pane and path that are edited
  loads,     \* loads of the editor in flight: where from, and not disposed
  text,      \* the editor: the file it was filled from
  dirty,     \* its mark
  state,     \* "loading", "ready", "saving" or "error"
  uploads    \* saves in flight: where to, and where the text is from

filesVars == <<up, handles, first, chosen, split, editing, loads, text, dirty, state, uploads>>

Panes == {0, 1}
NoFile == [host |-> NoOne, path |-> NoOne]
NotEditing == [pane |-> 0, path |-> NoOne]

Init ==
  /\ up = Hosts /\ handles = Hosts /\ first \in Hosts
  /\ chosen = [p \in Panes |-> NoOne] /\ split = FALSE /\ editing = NotEditing
  /\ loads = {} /\ text = NoFile /\ dirty = FALSE /\ state = "loading"
  /\ uploads = {}

(* resolve; sessions[0] is some session, the same one while it is open. *)
Left(u, a, c) ==
  IF c[0] \in u THEN c[0] ELSE IF a \in u THEN a ELSE IF u = {} THEN NoOne ELSE CHOOSE h \in u : TRUE

Right(u, a, c) ==
  IF c[1] \in u THEN c[1]
  ELSE IF u \ {Left(u, a, c)} # {} THEN CHOOSE h \in u \ {Left(u, a, c)} : TRUE
  ELSE Left(u, a, c)

Resolve(p, u, a, c, s) == IF p = 0 THEN Left(u, a, c) ELSE IF s THEN Right(u, a, c) ELSE NoOne

(* EditorPane: the file the editor is on, if its session has a handle. *)
Target(u, h, a, c, s, e) ==
  LET host == Resolve(e.pane, u, a, c, s) IN
  IF e.path = NoOne \/ host \notin h THEN NoFile ELSE [host |-> host, path |-> e.path]

Here == Target(up, handles, first, chosen, split, editing)

(* The editor's effect runs again when its sftp or its path changes: the   *)
(* load in flight is disposed of, so is the editor, and a new load begins. *)
(* Without a handle the editor is unmounted, and its marks go with it.     *)
DisposedNot == loads   \* mutant: a load in flight goes on
Disposed == {}

Follow(target) ==
  IF target = Here THEN UNCHANGED <<loads, text, dirty, state>>
  ELSE /\ loads' = (IF target = NoFile THEN {} ELSE {target}) \cup Disposed
       /\ text' = NoFile
       /\ dirty' = IF NoFile \in {Here, target} THEN FALSE ELSE dirty
       /\ state' = IF NoFile \in {Here, target} THEN "loading" ELSE state

-------------------------------------------------------------------------------
SessionCloses(h) ==
  /\ h \in up
  /\ up' = up \ {h} /\ handles' = handles \ {h}
  /\ \E a \in IF first # h THEN {first} ELSE IF up' = {} THEN {NoOne} ELSE up' :
       first' = a /\ Follow(Target(up', handles', a, chosen, split, editing))
  /\ UNCHANGED <<chosen, split, editing, uploads>>

SessionOpens(h) ==
  /\ h \notin up
  /\ up' = up \cup {h} /\ first' = h
  /\ Follow(Target(up', handles, h, chosen, split, editing))
  /\ UNCHANGED <<handles, chosen, split, editing, uploads>>

SftpOpens(h) ==
  /\ h \in up \ handles
  /\ handles' = handles \cup {h}
  /\ Follow(Target(up, handles', first, chosen, split, editing))
  /\ UNCHANGED <<up, first, chosen, split, editing, uploads>>

(* choose: an editor on that pane is closed. *)
Choose(p, h) ==
  /\ h \in up /\ (p = 1 => split)
  /\ chosen' = [chosen EXCEPT ![p] = h]
  /\ editing' = IF editing.pane = p THEN NotEditing ELSE editing
  /\ Follow(Target(up, handles, first, chosen', split, editing'))
  /\ UNCHANGED <<up, handles, first, split, uploads>>

ToggleSplit ==
  /\ split' = ~split
  /\ editing' = IF split /\ editing.pane = 1 THEN NotEditing ELSE editing
  /\ Follow(Target(up, handles, first, chosen, split', editing'))
  /\ UNCHANGED <<up, handles, first, chosen, uploads>>

(* A file is opened from a pane that shows its listing: the right one is   *)
(* covered while a file is edited.                                         *)
Edit(p, path) ==
  /\ Resolve(p, up, first, chosen, split) \in handles
  /\ p = 1 => editing = NotEditing
  /\ editing' = [pane |-> p, path |-> path]
  /\ Follow(Target(up, handles, first, chosen, split, editing'))
  /\ UNCHANGED <<up, handles, first, chosen, split, uploads>>

CloseEditor ==
  /\ editing # NotEditing /\ editing' = NotEditing /\ Follow(NoFile)
  /\ UNCHANGED <<up, handles, first, chosen, split, uploads>>

-------------------------------------------------------------------------------
(* A load answers: the editor is created with the text, or the file is too *)
(* large, binary or gone. An answer after the close is dropped.            *)
Loaded(f) ==
  /\ f \in loads /\ loads' = loads \ {f}
  /\ text' = f /\ state' = "ready"
  /\ UNCHANGED <<up, handles, first, chosen, split, editing, dirty, uploads>>

LoadFails(f) ==
  /\ f \in loads /\ loads' = loads \ {f} /\ state' = "error"
  /\ UNCHANGED <<up, handles, first, chosen, split, editing, text, dirty, uploads>>

Type ==
  /\ text # NoFile /\ dirty' = TRUE
  /\ UNCHANGED <<up, handles, first, chosen, split, editing, loads, text, state, uploads>>

(* The button asks for a dirty text and no save in flight; Ctrl-S does not. *)
Save ==
  /\ text # NoFile /\ uploads' = uploads \cup {[to |-> Here, of |-> text]}
  /\ state' = "saving"
  /\ UNCHANGED <<up, handles, first, chosen, split, editing, loads, text, dirty>>

(* The end of a save speaks to the editor whatever it is on by then. *)
Saved(u) ==
  /\ u \in uploads /\ uploads' = uploads \ {u}
  /\ dirty' = IF Here = NoFile THEN dirty ELSE FALSE
  /\ state' = IF Here = NoFile THEN state ELSE "ready"
  /\ UNCHANGED <<up, handles, first, chosen, split, editing, loads, text>>

SaveFails(u) ==
  /\ u \in uploads /\ uploads' = uploads \ {u}
  /\ state' = IF Here = NoFile THEN state ELSE "ready"
  /\ UNCHANGED <<up, handles, first, chosen, split, editing, loads, text, dirty>>

Next ==
  \/ \E h \in Hosts : SessionCloses(h) \/ SessionOpens(h) \/ SftpOpens(h)
  \/ \E p \in Panes : (\E h \in Hosts : Choose(p, h)) \/ \E path \in Paths : Edit(p, path)
  \/ ToggleSplit \/ CloseEditor \/ Type \/ Save
  \/ \E f \in loads : Loaded(f) \/ LoadFails(f)
  \/ \E u \in uploads : Saved(u) \/ SaveFails(u)

Spec == Init /\ [][Next]_filesVars

-------------------------------------------------------------------------------
(* A save writes a file with a text that was read from that very file, on  *)
(* that host, although the editor is never remounted: panes change hosts,  *)
(* sessions close and fall back to another, and another file is opened     *)
(* while loads and saves are in flight.                                    *)
SaveGoesHome == \A u \in uploads : u.to = u.of
===============================================================================
