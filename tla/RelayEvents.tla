----------------------------- MODULE RelayEvents -----------------------------
(***************************************************************************)
(* Connection events on their way to the audit log: the bounded queue of   *)
(* apps/relay/src/events.rs, filled by the connection handlers of main.rs, *)
(* drained and posted by the flush of reporter.rs and written by           *)
(* recordConnectionEvents (apps/web/src/app/api/relay/usage/route.ts).      *)
(* The slots and byte counters of the same handlers are RelayMeter.         *)
(***************************************************************************)
EXTENDS Naturals, Sequences, FiniteSets, SequencesExt

CONSTANTS
  Conn,       \* sessions
  Booked,     \* the sessions whose account has a user row
  Vast,       \* the sessions whose totals reach MAX_AUDIT_INT
  MaxQueued,  \* events::MAX_QUEUED
  MaxChunk    \* MAX_ENTRIES_PER_BATCH

(* What the constants have to be. *)
EventsAssumption ==
  /\ Booked \subseteq Conn /\ Vast \subseteq Conn
  /\ {MaxQueued, MaxChunk} \subseteq Nat \ {0}

VARIABLES
  session,   \* where each session's handler is
  queue,     \* ConnectionEvents::queued
  dropped,   \* ConnectionEvents::dropped
  drained,   \* what the flush took from the queue and has not posted yet
  phase,     \* the reporter
  last,      \* is this the flush after the shutdown signal?
  wire,      \* requests on their way
  rows,      \* audit_event: how many rows each event has
  log,       \* history: what this process pushed, oldest first
  posted,    \* history: how many of those it posted
  said       \* history: how many drops it logged

vars == <<session, queue, dropped, drained, phase, last, wire, rows, log, posted, said>>
history == <<log, posted, said>>
reporter == <<drained, phase, last>>

Event == Conn \X {"opened", "closed"}

TypeOK ==
  /\ session \in [Conn -> {"granted", "open", "ended"}]
  /\ {queue, drained, log} \subseteq Seq(Event)
  /\ {dropped, posted, said} \subseteq Nat
  /\ phase \in {"waiting", "events", "dropped", "posting", "stopped"}
  /\ last \in BOOLEAN
  /\ \A r \in wire : r \in Seq(Event) /\ Len(r) \in 1..MaxChunk
  /\ rows \in [Event -> Nat]

Init ==
  /\ session = [c \in Conn |-> "granted"]
  /\ queue = <<>> /\ drained = <<>> /\ log = <<>>
  /\ dropped = 0 /\ posted = 0 /\ said = 0
  /\ phase = "waiting" /\ last = FALSE
  /\ wire = {}
  /\ rows = [e \in Event |-> 0]

-------------------------------------------------------------------------------
(* ConnectionEvents::push, under the queue's lock. *)
Enqueue(e) == IF Len(queue) >= MaxQueued THEN Append(Tail(queue), e) ELSE Append(queue, e)

Push(e) ==
  /\ queue' = Enqueue(e)
  /\ dropped' = IF Len(queue) >= MaxQueued THEN dropped + 1 ELSE dropped
  /\ log' = Append(log, e)
  /\ UNCHANGED <<reporter, wire, rows, posted, said>>

(* On the agent path only once the machine has dialled back. *)
Opened(c) ==
  /\ session[c] = "granted"
  /\ session' = [session EXCEPT ![c] = "open"]
  /\ Push(<<c, "opened">>)

(* Offline, refused or never upgraded: the agent path records nothing. *)
NotOpened(c) ==
  /\ session[c] = "granted"
  /\ session' = [session EXCEPT ![c] = "ended"]
  /\ UNCHANGED <<queue, dropped, reporter, wire, rows, history>>

(* However it ended, a failed dial included. *)
Closed(c) ==
  /\ session[c] = "open"
  /\ session' = [session EXCEPT ![c] = "ended"]
  /\ Push(<<c, "closed">>)

-------------------------------------------------------------------------------
(* Reporter::run and flush; drain_usage comes first and is RelayMeter's. *)
StartFlush(final) ==
  /\ phase = "waiting"
  /\ phase' = "events" /\ last' = final
  /\ UNCHANGED <<session, queue, dropped, drained, wire, rows, history>>

(* mem::take of the queue. *)
Drain ==
  /\ phase = "events"
  /\ drained' = queue /\ queue' = <<>>
  /\ phase' = "dropped"
  /\ UNCHANGED <<session, dropped, last, wire, rows, history>>

(* take_dropped, and the log line that owns up to the gap. *)
TakeDropped ==
  /\ phase = "dropped"
  /\ said' = said + dropped /\ dropped' = 0
  /\ phase' = "posting"
  /\ UNCHANGED <<session, queue, drained, last, wire, rows, log, posted>>

Chunk == SubSeq(drained, 1, IF Len(drained) < MaxChunk THEN Len(drained) ELSE MaxChunk)

(* Whatever the post answers, the chunk is not sent again. *)
RestOfDrainedAgain == drained   \* mutant: the chunk stays, for a retry
RestOfDrained == SubSeq(drained, Len(Chunk) + 1, Len(drained))

Post ==
  /\ phase = "posting" /\ drained # <<>>
  /\ wire' = wire \cup {Chunk}
  /\ drained' = RestOfDrained
  /\ posted' = posted + (Len(drained) - Len(RestOfDrained))
  /\ UNCHANGED <<session, queue, dropped, phase, last, rows, log, said>>

EndFlush ==
  /\ phase = "posting" /\ drained = <<>>
  /\ phase' = IF last THEN "stopped" ELSE "waiting"
  /\ UNCHANGED <<session, queue, dropped, drained, last, wire, rows, history>>

-------------------------------------------------------------------------------
(* recordConnectionEvents: a row for each valid event of a known account. A   *)
(* closing event whose totals are out of the audit log's range is not valid.  *)
Recorded(e) == e[1] \in Booked /\ (e[2] = "closed" => e[1] \notin Vast)

Deliver(r) ==
  /\ wire' = wire \ {r}
  /\ rows' = [e \in Event |-> IF e \in ToSet(r) /\ Recorded(e) THEN rows[e] + 1 ELSE rows[e]]
  /\ UNCHANGED <<session, queue, dropped, reporter, history>>

(* Lost, refused, or the relay has nowhere to report. *)
Lose(r) ==
  /\ wire' = wire \ {r}
  /\ UNCHANGED <<session, queue, dropped, reporter, rows, history>>

(* The relay is killed and comes back with nothing in memory. *)
Restart ==
  /\ session' = [c \in Conn |-> IF session[c] = "open" THEN "ended" ELSE session[c]]
  /\ queue' = <<>> /\ drained' = <<>> /\ log' = <<>>
  /\ dropped' = 0 /\ posted' = 0 /\ said' = 0
  /\ phase' = "waiting" /\ last' = FALSE
  /\ UNCHANGED <<wire, rows>>

-------------------------------------------------------------------------------
Reporter ==
  \/ \E final \in BOOLEAN : StartFlush(final)
  \/ Drain \/ TakeDropped \/ Post \/ EndFlush

Next ==
  \/ \E c \in Conn : Opened(c) \/ NotOpened(c) \/ Closed(c)
  \/ Reporter
  \/ \E r \in wire : Deliver(r) \/ Lose(r)
  \/ Restart

Spec == Init /\ [][Next]_vars

-------------------------------------------------------------------------------
(* Properties. *)

(* events.rs: "a duplicate is a fact that never happened". However the posts  *)
(* fail, time out or arrive late, no event has two rows in the timeline.      *)
TimelineOnce == \A e \in Event : rows[e] <= 1

(* reporter.rs says gaps out loud: what this process recorded is still        *)
(* queued, drained, posted, or in the count of drops that is or will be       *)
(* logged, also when handlers push while the flush takes the counters.        *)
NoSilentGap == Len(log) = Len(queue) + Len(drained) + posted + dropped + said

(* events.rs's push: a full queue loses its oldest events, so that the queue  *)
(* is always the end of what happened, and it never outgrows its bound.       *)
QueueIsTheNewest ==
  /\ Len(queue) <= MaxQueued
  /\ IsSuffix(queue, log)

(* Every recorded event is queued, drained, posted or counted as dropped,  *)
(* none has two rows in the timeline, and the queue is the end of what     *)
(* happened, within its bound (events.rs, reporter.rs).                    *)
TimelineExact == TimelineOnce /\ NoSilentGap /\ QueueIsTheNewest
===============================================================================
