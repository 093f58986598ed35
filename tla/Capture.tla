------------------------------- MODULE Capture -------------------------------
(***************************************************************************)
(* The recorder of one SSH session in one tab: the tap on the session, the *)
(* buffer with its cap, the registry keyed by the session, and the save    *)
(* with its retries (lib/recording/capture.ts, use-session-recorder.ts,    *)
(* store.ts; app/dashboard/recordings/page.tsx offers the buttons).        *)
(***************************************************************************)
EXTENDS Naturals

CONSTANTS
  Recorders,  \* recordings started on the session, one after the other
  NoRecorder,
  Cap,        \* MAX_CAPTURE_BYTES, in chunks
  Chunks      \* sizes of what the shell prints at once

CaptureAssumption == NoRecorder \notin Recorders /\ Cap \in Nat \ {0} /\ Chunks \subseteq Nat \ {0}

VARIABLES
  open,       \* is the session open?
  unlocked,   \* does the tab hold the vault key?
  pro,        \* does the account's plan include recording?
  starting,   \* a start() that waits for the device id
  registry,   \* recorders: the session's recorder
  tapped,     \* recorders whose tap is on the session
  rec,        \* what each recorder holds
  kept,       \* recordings the server stores
  dropped     \* recordings the user discarded

captureVars == <<open, unlocked, pro, starting, registry, tapped, rec, kept, dropped>>

NewRecorder == [state |-> "new", bytes |-> 0, saving |-> FALSE, retryable |-> TRUE]

Init ==
  /\ open = TRUE /\ unlocked = TRUE /\ pro \in BOOLEAN
  /\ starting = FALSE /\ registry = NoRecorder /\ tapped = {}
  /\ rec = [r \in Recorders |-> NewRecorder]
  /\ kept = {} /\ dropped = {}

-------------------------------------------------------------------------------
(* start() of useSessionRecorder looks at the vault and waits for the      *)
(* blinded host and the device; startRecording looks again.                *)
Start ==
  /\ open /\ unlocked /\ pro /\ ~starting /\ registry = NoRecorder
  /\ starting' = TRUE
  /\ UNCHANGED <<open, unlocked, pro, registry, tapped, rec, kept, dropped>>

(* tapSession gives a closed session no tap. *)
StartRecording ==
  /\ starting /\ starting' = FALSE
  /\ \/ /\ registry = NoRecorder /\ unlocked /\ pro
        /\ \E r \in Recorders :
             /\ rec[r].state = "new"
             /\ registry' = r
             /\ tapped' = IF open THEN tapped \cup {r} ELSE tapped
             /\ rec' = [rec EXCEPT ![r].state = "capturing"]
     \/ /\ registry # NoRecorder \/ ~unlocked \/ ~pro \/ \A r \in Recorders : rec[r].state # "new"
        /\ UNCHANGED <<registry, tapped, rec>>
  /\ UNCHANGED <<open, unlocked, pro, kept, dropped>>

(* persist: nothing while a save is under way; a locked vault leaves the   *)
(* recording in the tab.                                                   *)
Persisted(f, r) == IF f[r].saving \/ ~unlocked THEN f ELSE [f EXCEPT ![r].saving = TRUE, ![r].retryable = TRUE]

(* end: the cap and the session's close save by themselves. *)
Ended(f, r) == Persisted([f EXCEPT ![r].state = "ended"], r)

(* The tap: a chunk the cap has no room for ends the capture. *)
Fits(r, n) == rec[r].bytes + n <= Cap

Output(n) ==
  /\ open /\ tapped # {}
  /\ \E r \in tapped :
       /\ rec[r].state = "capturing"
       /\ IF Fits(r, n)
            THEN rec' = [rec EXCEPT ![r].bytes = @ + n] /\ UNCHANGED tapped
            ELSE rec' = Ended(rec, r) /\ tapped' = tapped \ {r}
  /\ UNCHANGED <<open, unlocked, pro, starting, registry, kept, dropped>>

(* onClose of the session provider tells the taps. *)
SessionCloses ==
  /\ open /\ open' = FALSE
  /\ tapped' = {}
  /\ rec' = IF \E r \in tapped : rec[r].state = "capturing"
              THEN Ended(rec, CHOOSE r \in tapped : rec[r].state = "capturing") ELSE rec
  /\ UNCHANGED <<unlocked, pro, starting, registry, kept, dropped>>

-------------------------------------------------------------------------------
(* SessionRow offers Stop while it captures, on a session that is there.   *)
Stop ==
  /\ open /\ registry # NoRecorder /\ rec[registry].state = "capturing"
  /\ rec' = Ended(rec, registry)
  /\ tapped' = tapped \ {registry}
  /\ UNCHANGED <<open, unlocked, pro, starting, registry, kept, dropped>>

(* SaveState: nothing is offered while it saves. retrySave does nothing    *)
(* for a capture that has not ended.                                       *)
OfferedAlways == registry # NoRecorder   \* mutant: Discard stays while it saves
Offered == registry # NoRecorder /\ ~rec[registry].saving

Retry ==
  /\ Offered /\ rec[registry].state = "ended" /\ rec[registry].retryable
  /\ rec' = Persisted(rec, registry)
  /\ UNCHANGED <<open, unlocked, pro, starting, registry, tapped, kept, dropped>>

Discard ==
  /\ Offered /\ (open => rec[registry].state = "ended")
  /\ dropped' = dropped \cup {registry}
  /\ tapped' = tapped \ {registry}
  /\ registry' = NoRecorder
  /\ UNCHANGED <<open, unlocked, pro, starting, rec, kept>>

(* saveRecording answers: stored, refused by the plan, or failed, with the *)
(* bytes stored or not. A success empties the session's entry.             *)
Stored(r) ==
  /\ rec[r].saving /\ pro
  /\ rec' = [rec EXCEPT ![r].saving = FALSE]
  /\ kept' = kept \cup {r}
  /\ registry' = NoRecorder
  /\ UNCHANGED <<open, unlocked, pro, starting, tapped, dropped>>

SaveFails(r) ==
  /\ rec[r].saving
  /\ rec' = [rec EXCEPT ![r].saving = FALSE, ![r].retryable = pro]
  /\ \E landed \in {FALSE, pro} : kept' = IF landed THEN kept \cup {r} ELSE kept
  /\ UNCHANGED <<open, unlocked, pro, starting, registry, tapped, dropped>>

-------------------------------------------------------------------------------
Lock == unlocked' = ~unlocked /\ UNCHANGED <<open, pro, starting, registry, tapped, rec, kept, dropped>>
PlanChanges == pro' = ~pro /\ UNCHANGED <<open, unlocked, starting, registry, tapped, rec, kept, dropped>>

Next ==
  \/ Start \/ StartRecording \/ SessionCloses \/ Stop \/ Retry \/ Discard \/ Lock \/ PlanChanges
  \/ \E n \in Chunks : Output(n)
  \/ \E r \in Recorders : Stored(r) \/ SaveFails(r)

Spec == Init /\ [][Next]_captureVars

-------------------------------------------------------------------------------
(* What was captured is in the tab, on the server, or was discarded by its *)
(* user: no save, close or second recording takes it away (persist empties *)
(* the entry by session, not by recorder).                                 *)
NothingVanishes ==
  \A r \in Recorders :
    rec[r].state # "new" => registry = r \/ r \in kept \cup dropped
===============================================================================
