------------------------------- MODULE Sessions ------------------------------
(***************************************************************************)
(* The SSH sessions of a tab, held above the router, and the panes of the  *)
(* terminal page that show them: connecting, output and its replay buffer, *)
(* splitting and closing panes, leaving the page and coming back           *)
(* (lib/ssh/session-provider.tsx, connect.ts, use-connect-host.ts,         *)
(* app/dashboard/terminal/page.tsx). The SSH client itself is external.    *)
(***************************************************************************)
EXTENDS Sequences, Naturals, Ascending

CONSTANTS
  Ids,        \* session ids
  Empty,      \* the id of an empty pane
  MaxPanes,   \* panes at most (4 in the code)
  BufferMax,  \* OUTPUT_BUFFER_BYTES, in chunks
  MaxOutput,  \* bound: chunks a session prints
  Overlap     \* may panes change while a handshake is under way?

SessionsAssumption ==
  /\ Empty \notin Ids /\ MaxPanes \in Nat \ {0} /\ BufferMax \in Nat \ {0}
  /\ MaxOutput \in Nat /\ Overlap \in BOOLEAN

VARIABLES
  live,        \* each id: "new", "asked", "handshake", "open" or "gone"
  connecting,  \* ids whose connect() has not returned
  printed,     \* chunks each session has printed
  buffer,      \* each session's replay buffer
  panes,       \* each pane: its session, its subscription, what its terminal shows
  focus,       \* focusedPane
  visible,     \* is the terminal page mounted?
  prompt       \* the host the credential prompt asks for

sessionVars == <<live, connecting, printed, buffer, panes, focus, visible, prompt>>

Init ==
  /\ live = [s \in Ids |-> "new"] /\ connecting = {}
  /\ printed = [s \in Ids |-> 0] /\ buffer = [s \in Ids |-> <<>>]
  /\ panes = <<>> /\ focus = 1 /\ visible = FALSE /\ prompt = Empty

Held(l, s) == s \in Ids /\ l[s] \in {"handshake", "open"}   \* live.current has it
Quiet(others) == Overlap \/ \A s \in others : live[s] # "handshake"
Least(a, b) == IF a < b THEN a ELSE b
PaneIds == [i \in DOMAIN panes |-> panes[i].id]
Without(s) ==
  LET others == Ascending({i \in DOMAIN panes : panes[i].id # s}) IN
  [k \in DOMAIN others |-> panes[others[k]].id]

(* A Pane that mounts subscribes, which replays the buffer into its        *)
(* terminal; a session that is not open has no terminal to replay into.    *)
Mount(s, l) ==
  [id |-> s, sub |-> visible' /\ Held(l, s),
   shown |-> IF visible' /\ s \in Ids /\ l[s] = "open" THEN buffer[s] ELSE <<>>]

(* Panes are keyed by session and index: the others keep their terminals. *)
Shown(ids, l) ==
  [i \in DOMAIN ids |->
     IF i \in DOMAIN panes /\ panes[i].id = ids[i] /\ visible = visible' THEN panes[i] ELSE Mount(ids[i], l)]

Focused(ids, s) == IF ids = <<>> THEN <<s>> ELSE [ids EXCEPT ![Least(focus, Len(ids))] = s]

-------------------------------------------------------------------------------
(* connectToHost: a host without a usable key asks for a credential first; *)
(* a second question replaces the first, which is then never answered.     *)
Ask(s) ==
  /\ live[s] = "new"
  /\ live' = [live EXCEPT ![s] = "asked"] /\ prompt' = s
  /\ UNCHANGED <<connecting, printed, buffer, panes, focus, visible>>

Settle ==
  /\ prompt # Empty /\ prompt' = Empty
  /\ \/ /\ live' = [live EXCEPT ![prompt] = "handshake"]
        /\ connecting' = connecting \cup {prompt}
     \/ /\ live' = [live EXCEPT ![prompt] = "new"]
        /\ UNCHANGED connecting
  /\ UNCHANGED <<printed, buffer, panes, focus, visible>>

(* connect registers the buffer before the handshake. *)
Connect(s) ==
  /\ live[s] = "new"
  /\ live' = [live EXCEPT ![s] = "handshake"]
  /\ connecting' = connecting \cup {s}
  /\ UNCHANGED <<printed, buffer, panes, focus, visible, prompt>>

(* openSession returns: the session gets a pane, is listed if it has not   *)
(* closed in the meantime, and becomes active.                             *)
Connected(s) ==
  /\ s \in connecting /\ connecting' = connecting \ {s}
  /\ live' = IF live[s] = "handshake" THEN [live EXCEPT ![s] = "open"] ELSE live
  /\ visible' = visible
  /\ panes' = Shown(Focused(PaneIds, s), live')
  /\ UNCHANGED <<printed, buffer, focus, prompt>>

(* The token, the handshake, the host key check or the key installation    *)
(* fails.                                                                  *)
Refused(s) ==
  /\ s \in connecting /\ connecting' = connecting \ {s}
  /\ live' = [live EXCEPT ![s] = "gone"]
  /\ UNCHANGED <<printed, buffer, panes, focus, visible, prompt>>

(* onData: the newest chunks stay in the buffer, and every subscribed pane *)
(* with a terminal writes this one.                                        *)
BufferedOpen(s, n) ==   \* mutant: the buffer is registered once the session is open
  IF live[s] = "open" THEN Append(buffer[s], n) ELSE buffer[s]
Buffered(s, n) == Append(buffer[s], n)

Output(s) ==
  /\ Held(live, s) /\ printed[s] < MaxOutput
  /\ LET n == printed[s] + 1
         all == Buffered(s, n) IN
     /\ printed' = [printed EXCEPT ![s] = n]
     /\ buffer' = [buffer EXCEPT ![s] =
          IF Len(all) > BufferMax THEN SubSeq(all, Len(all) - BufferMax + 1, Len(all)) ELSE all]
     /\ panes' = [i \in DOMAIN panes |->
          IF panes[i].id = s /\ panes[i].sub /\ live[s] = "open"
            THEN [panes[i] EXCEPT !.shown = Append(@, n)] ELSE panes[i]]
  /\ UNCHANGED <<live, connecting, focus, visible, prompt>>

(* onClose: the session leaves the panes; the last pane takes the first    *)
(* one that is left.                                                       *)
Close(s) ==
  /\ Held(live, s) /\ Quiet(Ids \ {s})
  /\ live' = [live EXCEPT ![s] = "gone"]
  /\ visible' = visible
  /\ LET left == Without(s) IN
       IF left # <<>> THEN panes' = Shown(left, live')
       ELSE IF \E x \in Ids : Held(live', x)
              THEN \E x \in Ids : Held(live', x) /\ panes' = Shown(<<x>>, live')
              ELSE panes' = <<>>
  /\ UNCHANGED <<connecting, printed, buffer, focus, prompt>>

-------------------------------------------------------------------------------
(* splitPane shows a session that no pane shows, or an empty pane.         *)
Split ==
  /\ visible /\ Quiet(Ids) /\ panes # <<>> /\ Len(panes) < MaxPanes
  /\ visible' = visible
  /\ LET spare == {x \in Ids : Held(live, x) /\ \A i \in DOMAIN panes : panes[i].id # x} IN
     \E x \in IF spare = {} THEN {Empty} ELSE spare :
       panes' = Shown(Append(PaneIds, x), live)
  /\ focus' = Len(panes) + 1
  /\ UNCHANGED <<live, connecting, printed, buffer, prompt>>

ClosePane(i) ==
  /\ visible /\ i \in DOMAIN panes /\ Len(panes) > 1
  /\ visible' = visible
  /\ LET left == SubSeq(PaneIds, 1, i - 1) \o SubSeq(PaneIds, i + 1, Len(panes)) IN
       panes' = Shown(left, live) /\ focus' = Least(focus, Len(left))
  /\ UNCHANGED <<live, connecting, printed, buffer, prompt>>

(* The select of a pane, and the sidebar, which uses the focused one. *)
SetPane(i, s) ==
  /\ visible /\ i \in DOMAIN panes /\ live[s] = "open" /\ visible' = visible
  /\ panes' = Shown([PaneIds EXCEPT ![i] = s], live)
  /\ UNCHANGED <<live, connecting, printed, buffer, focus, prompt>>

SetActive(s) ==
  /\ live[s] = "open" /\ visible' = visible
  /\ panes' = Shown(Focused(PaneIds, s), live)
  /\ UNCHANGED <<live, connecting, printed, buffer, focus, prompt>>

Focus(i) ==
  /\ visible /\ i \in DOMAIN panes /\ focus' = i
  /\ UNCHANGED <<live, connecting, printed, buffer, panes, visible, prompt>>

(* Leaving the page unmounts its terminals; coming back mounts them again. *)
Navigate ==
  /\ visible' = ~visible
  /\ panes' = Shown(PaneIds, live)
  /\ UNCHANGED <<live, connecting, printed, buffer, focus, prompt>>

Next ==
  \/ Settle \/ Split \/ Navigate
  \/ \E s \in Ids : Ask(s) \/ Connect(s) \/ Connected(s) \/ Refused(s) \/ Output(s) \/ Close(s) \/ SetActive(s)
  \/ \E i \in 1..MaxPanes : ClosePane(i) \/ Focus(i) \/ \E s \in Ids : SetPane(i, s)

Spec == Init /\ [][Next]_sessionVars

-------------------------------------------------------------------------------
(* "A pane opened later still shows the banner and everything printed      *)
(* before it existed": the terminal of an open session shows an unbroken   *)
(* run of its output up to the last chunk, at least what the buffer keeps. *)
OutputShown ==
  \A i \in DOMAIN panes :
    LET p == panes[i] IN
    visible /\ p.id \in Ids /\ live[p.id] = "open" =>
      /\ Len(p.shown) >= Least(printed[p.id], BufferMax)
      /\ \A k \in DOMAIN p.shown : p.shown[k] = printed[p.id] - Len(p.shown) + k
===============================================================================
