------------------------------- MODULE Keyboard -------------------------------
(***************************************************************************)
(* One terminal pane: the touch row with its sticky modifiers, what leaves *)
(* for the session, and the size the session is told                       *)
(* (components/terminal.tsx). A key is its kind; what is sent is counted   *)
(* in the times Ctrl and Alt were folded into it. A size is a number.      *)
(***************************************************************************)
EXTENDS Naturals

CONSTANTS Default,   \* the grid xterm is constructed with
          Sizes      \* the grids a container may fit

KeyboardAssumption == Default \in Sizes

VARIABLES
  mods,     \* each modifier: off, armed for one key, or locked
  bar,      \* is the row shown?
  down,     \* the key a finger is on, if any
  sent,     \* the last data given to the session
  grid,     \* xterm's size; 0 while there is no terminal
  box,      \* the size the container fits; 0 before layout
  told      \* the last size reported to the session

keyboardVars == <<mods, bar, down, sent, grid, box, told>>

Modifiers == {"ctrl", "alt"}
Kinds == {"literal", "cursor", "tilde"}
Off == [m \in Modifiers |-> "off"]
NoKey == [kind |-> "none", ctrl |-> 0, alt |-> 0]

Init ==
  /\ mods = Off /\ bar \in BOOLEAN /\ down = "none" /\ sent = NoKey
  /\ grid = 0 /\ box \in Sizes \cup {0} /\ told = 0

-------------------------------------------------------------------------------
(* Armed modifiers last for one key, locked ones stay. *)
Spent == [m \in Modifiers |-> IF mods[m] = "armed" THEN "off" ELSE mods[m]]

One(state) == IF state = "off" THEN 0 ELSE 1

(* encodeKey: a character is folded; the others carry a parameter. *)
Encoded(kind) == [kind |-> kind, ctrl |-> One(mods.ctrl), alt |-> One(mods.alt)]

(* One printable character: Ctrl makes it a control byte and Alt a sequence *)
(* of two, and the other keys are sequences already.                        *)
Foldable(data) == data.kind = "literal" /\ data.ctrl = 0 /\ data.alt = 0

(* foldTyped, on whatever reaches onData with the modifiers "left". *)
Folded(data, left) ==
  IF Foldable(data)
  THEN [data EXCEPT !.ctrl = @ + One(left.ctrl), !.alt = @ + One(left.alt)] ELSE data

(* A character from the soft keyboard, a paste or an escape sequence. *)
Typed(kind) ==
  /\ grid # 0
  /\ sent' = Folded([kind |-> kind, ctrl |-> 0, alt |-> 0], mods) /\ mods' = Spent
  /\ UNCHANGED <<bar, down, grid, box, told>>

(* A key of the row is pressed on pointerup, unless the finger moved or    *)
(* the browser took the gesture over.                                      *)
PointerDown(key) ==
  /\ bar /\ down = "none" /\ down' = key
  /\ UNCHANGED <<mods, bar, sent, grid, box, told>>

Drag ==
  /\ down # "none" /\ down' = "none"
  /\ UNCHANGED <<mods, bar, sent, grid, box, told>>

(* sendKey: the modifiers are spent before the data goes through onData.   *)
SendKey(kind) ==
  /\ bar /\ down = kind /\ down' = "none"
  /\ IF grid = 0 THEN UNCHANGED <<sent, mods>>
     ELSE sent' = Folded(Encoded(kind), Spent) /\ mods' = Spent
  /\ UNCHANGED <<bar, grid, box, told>>

(* toggleModifier: "quick" when the tap before was under LOCK_TAP_MS ago.  *)
ToggleModifier(m, quick) ==
  /\ bar /\ down = m /\ down' = "none"
  /\ mods' = [mods EXCEPT ![m] = IF @ = "off" THEN "armed"
                                 ELSE IF @ = "armed" /\ quick THEN "locked" ELSE "off"]
  /\ UNCHANGED <<bar, sent, grid, box, told>>

-------------------------------------------------------------------------------
(* fit(): nothing before layout; xterm reports a size that has changed.    *)
Fit(size) == IF box = 0 THEN size ELSE box

Reported(from, to) == IF to = from THEN told ELSE to

(* The terminal is constructed, fitted, and its size reported whatever the *)
(* fit came to.                                                            *)
MountQuietly ==   \* mutant: the first fit only reports a change
  /\ grid = 0 /\ grid' = Fit(Default) /\ told' = Reported(Default, grid')
  /\ UNCHANGED <<mods, bar, down, sent, box>>
Mount ==
  /\ grid = 0 /\ grid' = Fit(Default) /\ told' = grid'
  /\ UNCHANGED <<mods, bar, down, sent, box>>

(* The window, the split or the font size changes: the observer or the     *)
(* effect fits again.                                                      *)
Refit ==
  /\ grid # 0 /\ grid' = Fit(grid) /\ told' = Reported(grid, grid')
  /\ UNCHANGED <<mods, bar, down, sent, box>>

Resize(size) ==
  /\ box' = size
  /\ UNCHANGED <<mods, bar, down, sent, grid, told>>

(* The row comes and goes: it takes its modifiers and the finger with it.  *)
ShowBar ==
  /\ ~bar /\ bar' = TRUE
  /\ UNCHANGED <<mods, down, sent, grid, box, told>>

HideBar ==
  /\ bar /\ bar' = FALSE /\ mods' = Off /\ down' = "none"
  /\ UNCHANGED <<sent, grid, box, told>>

(* The pane goes. *)
Dispose ==
  /\ grid # 0 /\ grid' = 0 /\ told' = 0 /\ mods' = Off /\ down' = "none"
  /\ UNCHANGED <<bar, sent, box>>

Next ==
  \/ \E kind \in Kinds : Typed(kind) \/ SendKey(kind)
  \/ \E key \in Kinds \cup Modifiers : PointerDown(key)
  \/ \E m \in Modifiers, quick \in BOOLEAN : ToggleModifier(m, quick)
  \/ \E size \in Sizes : Resize(size)
  \/ Drag \/ Mount \/ Refit \/ ShowBar \/ HideBar \/ Dispose

Spec == Init /\ [][Next]_keyboardVars

-------------------------------------------------------------------------------
(* Every key reaches the session with each modifier folded in at most      *)
(* once, although a key of the row goes through the fold of typed input as *)
(* well and a locked modifier is still there when it does                  *)
(* (terminal.tsx:559-563).                                                 *)
FoldedOnce == sent.ctrl <= 1 /\ sent.alt <= 1

(* The session is never left with another size than the one on the screen, *)
(* from the first fit on (terminal.tsx:400-421).                           *)
SizeTold == grid # 0 => told = grid

(* Keys arrive with each modifier folded in once, and the session knows    *)
(* the size on the screen (terminal.tsx:400-421, 559-563).                 *)
TypedAsShown == FoldedOnce /\ SizeTold
===============================================================================
