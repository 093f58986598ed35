-------------------------------- MODULE Player -------------------------------
(***************************************************************************)
(* The playback of one cast on a terminal emulator, which can only be      *)
(* written forwards or reset: play, pause, restart, the scrubber and the   *)
(* animation frames in between (components/recording-player.tsx, the       *)
(* timing model of lib/recording/format.ts).                               *)
(***************************************************************************)
EXTENDS Sequences, Naturals, FiniteSets, Ascending

CONSTANTS
  Times,    \* milliseconds of events and of the scrubber, 0 included
  Lengths   \* numbers of events of the casts played

PlayerAssumption == Times \subseteq Nat /\ 0 \in Times /\ Lengths \subseteq Nat

VARIABLES
  cast,      \* the events, in order, and the header's duration
  written,   \* output events the emulator was given since its reset, in order
  size,      \* the resize in force: an event's index, 0 for the header's
  index,     \* indexRef
  playhead,  \* playheadRef
  playing,
  scrub,     \* where the thumb is held, if it is
  resume     \* resumeAfterScrub

playerVars == <<cast, written, size, index, playhead, playing, scrub, resume>>

Event == [at : Times, kind : {"output", "resize"}]
Ordered(s) == \A i, j \in DOMAIN s : i < j => s[i].at <= s[j].at
Casts ==
  {[events |-> s, duration |-> d] :
     s \in UNION {{f \in [1..n -> Event] : Ordered(f)} : n \in Lengths}, d \in Times}

Latest(S) == CHOOSE x \in S : \A y \in S : y <= x
Earliest(S) == CHOOSE x \in S : \A y \in S : x <= y

(* castEnd *)
End == Latest({cast.duration} \cup {cast.events[i].at : i \in DOMAIN cast.events})

(* frameAt and eventsUpTo: the first event after the time, from "from" on. *)
FirstAfter(from, t) ==
  Earliest({Len(cast.events) + 1} \cup {i \in DOMAIN cast.events : i >= from /\ cast.events[i].at > t})

Outputs(from, next) ==
  Ascending({i \in DOMAIN cast.events : i >= from /\ i < next /\ cast.events[i].kind = "output"})

SizeAt(next, before) ==
  Latest({before} \cup {i \in DOMAIN cast.events : i < next /\ cast.events[i].kind = "resize"})

-------------------------------------------------------------------------------
(* The emulator is opened on the frame at 0. *)
Init ==
  /\ cast \in Casts
  /\ index = FirstAfter(1, 0) /\ playhead = 0
  /\ written = Outputs(1, index) /\ size = SizeAt(index, 0)
  /\ playing = FALSE /\ scrub = {} /\ resume = FALSE

(* seek: reset, then everything up to the target at once. *)
SeekNoReset(t) ==   \* mutant: the emulator is not reset
  LET to == IF t > End THEN End ELSE t
      next == FirstAfter(1, to) IN
  /\ written' = written \o Outputs(1, next) /\ size' = SizeAt(next, 0)
  /\ index' = next /\ playhead' = to

Seek(t) ==
  LET to == IF t > End THEN End ELSE t
      next == FirstAfter(1, to) IN
  /\ written' = Outputs(1, next) /\ size' = SizeAt(next, 0)
  /\ index' = next /\ playhead' = to

AtEnd == playhead >= End /\ ~playing

(* The play button, which replays from the end; and Back to the start. *)
Play ==
  /\ IF AtEnd THEN Seek(0) ELSE UNCHANGED <<written, size, index, playhead>>
  /\ playing' = ~playing
  /\ UNCHANGED <<cast, scrub, resume>>

Restart ==
  /\ playing' = FALSE /\ Seek(0)
  /\ UNCHANGED <<cast, scrub, resume>>

(* One animation frame: the playhead moves on and what it passed is        *)
(* written; at the end the playback stops.                                 *)
Frame(t) ==
  /\ playing /\ t >= playhead
  /\ LET to == IF t > End THEN End ELSE t
         next == FirstAfter(index, to) IN
     /\ written' = written \o Outputs(index, next)
     /\ size' = SizeAt(next, size)
     /\ index' = next /\ playhead' = to
     /\ playing' = (to < End)
  /\ UNCHANGED <<cast, scrub, resume>>

BeginScrub ==
  /\ scrub = {} /\ scrub' = {playhead}
  /\ resume' = playing /\ playing' = FALSE
  /\ UNCHANGED <<cast, written, size, index, playhead>>

(* onChange needs no beginScrub before it. *)
MoveScrub(t) ==
  /\ scrub' = {t}
  /\ UNCHANGED <<cast, written, size, index, playhead, playing, resume>>

CommitScrub ==
  /\ \E t \in scrub : Seek(t)
  /\ scrub' = {}
  /\ playing' = (playing \/ resume) /\ resume' = FALSE
  /\ UNCHANGED cast

Next ==
  \/ Play \/ Restart \/ BeginScrub \/ CommitScrub
  \/ \E t \in Times : Frame(t) \/ MoveScrub(t)

Spec == Init /\ [][Next]_playerVars

-------------------------------------------------------------------------------
(* However playback, pauses and seeks follow each other, the screen shows  *)
(* every output up to the playhead, each once and in order, at the size of *)
(* the last resize before it.                                              *)
ScreenIsPlayhead ==
  LET past == {i \in DOMAIN cast.events : cast.events[i].at <= playhead}
      outputs == {i \in past : cast.events[i].kind = "output"}
      resizes == past \ outputs IN
  /\ {written[k] : k \in DOMAIN written} = outputs /\ Len(written) = Cardinality(outputs)
  /\ \A j, k \in DOMAIN written : j < k => written[j] < written[k]
  /\ size \in {0} \cup resizes /\ \A i \in resizes : i <= size
===============================================================================
