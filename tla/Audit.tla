-------------------------------- MODULE Audit --------------------------------
(***************************************************************************)
(* The audit log: its writers, the paged read behind a retention window,   *)
(* the pruner that deletes behind the same window, and the activity page   *)
(* that collects the pages (app/api/audit/route.ts, lib/audit,             *)
(* lib/maintenance/audit.ts, app/dashboard/activity/page.tsx).             *)
(***************************************************************************)
EXTENDS Integers, FiniteSets

CONSTANTS
  Keep,       \* AUDIT_RETENTION_DAYS, by tier
  PageSize,   \* AUDIT_PAGE_SIZE
  Batch,      \* rows one batch of the pruner deletes
  Ranges,     \* the page's time ranges
  MaxEvents, MaxDay   \* bounds

AuditAssumption ==
  /\ Keep \in [{"free", "pro"} -> Nat] /\ Keep["free"] <= Keep["pro"]
  /\ PageSize \in Nat \ {0} /\ Batch \in Nat \ {0} /\ Ranges \subseteq Nat

VARIABLES
  day,       \* the clock, in the unit of the rows' timestamps
  log,       \* every row written
  pruned,    \* the rows that were deleted
  sub,       \* the subscription row: "none", "lapsed" or "active"
  table,     \* the page: its phase, rows, cursor and when it first read
  request,   \* the page's request in flight, with the answer once it is read
  pruning    \* a run of the pruner, with the cutoffs it computed

auditVars == <<day, log, pruned, sub, table, request, pruning>>

NoCursor == -1
NoTable == [phase |-> "loading", rows |-> {}, cursor |-> NoCursor, readAt |-> 0, known |-> 0]
NoRequest == [kind |-> "none", read |-> FALSE, rows |-> {}, next |-> NoCursor, known |-> 0]

Init ==
  /\ day = 0 /\ log = {} /\ pruned = {} /\ sub \in {"none", "lapsed", "active"}
  /\ table = NoTable /\ request = [NoRequest EXCEPT !.kind = "first"]
  /\ pruning = [on |-> FALSE, free |-> 0, pro |-> 0]

Oldest(S) == CHOOSE e \in S : \A f \in S : e.at < f.at \/ (e.at = f.at /\ e.n <= f.n)

-------------------------------------------------------------------------------
(* Rows are written by the server's own handlers, by the relay's timeline  *)
(* and, for the types a browser may report, by POST /api/audit.            *)
Source == [signin |-> "server", opened |-> "relay", pinned |-> "client"]

WriteEvent ==
  /\ Cardinality(log) < MaxEvents
  /\ log' = log \cup {[n |-> Cardinality(log) + 1, at |-> day]}
  /\ UNCHANGED <<day, pruned, sub, table, request, pruning>>

Write(type) == Source[type] # "client" /\ WriteEvent
Report(type) == Source[type] = "client" /\ WriteEvent

(* tierFor: a table that cannot be read counts as Pro. *)
Tiers == {"pro"} \cup IF sub = "active" THEN {} ELSE {"free"}

Cutoff(tier) == day - Keep[tier]

(* GET /api/audit: the newest rows inside the window, before the cursor;   *)
(* the cursor is the last row's timestamp if the page is full.             *)
Top(S, k) == {e \in S : Cardinality({f \in S : f.at > e.at \/ (f.at = e.at /\ f.n > e.n)}) < k}

NextCursorBelow(rows) ==   \* mutant: one short of the last row
  IF Cardinality(rows) = PageSize THEN Oldest(rows).at - 1 ELSE NoCursor
NextCursor(rows) == IF Cardinality(rows) = PageSize THEN Oldest(rows).at ELSE NoCursor

Read ==
  /\ request.kind # "none" /\ ~request.read
  /\ \E tier \in Tiers :
       LET rows == Top({e \in log \ pruned :
                          /\ e.at >= Cutoff(tier)
                          /\ request.kind = "older" => e.at < table.cursor}, PageSize) IN
       request' = [request EXCEPT !.read = TRUE, !.rows = rows, !.next = NextCursor(rows),
                                  !.known = Cardinality(log)]
  /\ UNCHANGED <<day, log, pruned, sub, table, pruning>>

-------------------------------------------------------------------------------
(* The page's first read, on mount and on Retry, and loadOlder's.          *)
LandFirst ==
  /\ request.kind = "first" /\ request.read
  /\ table' = [phase |-> "ready", rows |-> request.rows, cursor |-> request.next,
               readAt |-> day, known |-> request.known]
  /\ request' = NoRequest
  /\ UNCHANGED <<day, log, pruned, sub, pruning>>

(* mergePages: by id. *)
LandOlder ==
  /\ request.kind = "older" /\ request.read
  /\ table' = [table EXCEPT !.rows = @ \cup request.rows, !.cursor = request.next]
  /\ request' = NoRequest
  /\ UNCHANGED <<day, log, pruned, sub, pruning>>

(* A failed first read is the page's; a failed older one is a toast. *)
RequestFails ==
  /\ request.kind # "none" /\ request' = NoRequest
  /\ table' = IF request.kind = "first" THEN [table EXCEPT !.phase = "error"] ELSE table
  /\ UNCHANGED <<day, log, pruned, sub, pruning>>

Retry ==
  /\ table.phase = "error" /\ request.kind = "none"
  /\ table' = [table EXCEPT !.phase = "loading"]
  /\ request' = [NoRequest EXCEPT !.kind = "first"]
  /\ UNCHANGED <<day, log, pruned, sub, pruning>>

LoadOlder ==
  /\ table.phase = "ready" /\ table.cursor # NoCursor /\ request.kind = "none"
  /\ request' = [NoRequest EXCEPT !.kind = "older"]
  /\ UNCHANGED <<day, log, pruned, sub, table, pruning>>

(* The rows a range shows, counted from the time of the read. *)
Filtered(range) == {e \in table.rows : e.at >= table.readAt - range}

-------------------------------------------------------------------------------
(* pruneAuditEvents: the cutoffs first, then batches, oldest first. An     *)
(* account with any subscription row keeps the longer window.              *)
CutoffCase == IF sub # "none" THEN pruning.pro ELSE pruning.free

PruneBegins ==
  /\ ~pruning.on
  /\ pruning' = [on |-> TRUE, free |-> Cutoff("free"), pro |-> Cutoff("pro")]
  /\ UNCHANGED <<day, log, pruned, sub, table, request>>

PruneBatch ==
  /\ pruning.on
  /\ LET expired == {e \in log \ pruned : e.at < CutoffCase}
         batch == {e \in expired : Cardinality({f \in expired : f.n < e.n}) < Batch} IN
     /\ pruned' = pruned \cup batch
     /\ pruning' = [pruning EXCEPT !.on = batch # {}]
  /\ UNCHANGED <<day, log, sub, table, request>>

SubChanges ==
  /\ sub' \in {"lapsed", "active"}
  /\ UNCHANGED <<day, log, pruned, table, request, pruning>>

NextDay ==
  /\ day < MaxDay /\ day' = day + 1
  /\ UNCHANGED <<log, pruned, sub, table, request, pruning>>

Next ==
  \/ Read \/ LandFirst \/ LandOlder \/ RequestFails \/ Retry \/ LoadOlder
  \/ PruneBegins \/ PruneBatch \/ SubChanges \/ NextDay
  \/ \E type \in DOMAIN Source : Write(type) \/ Report(type)

Spec == Init /\ [][Next]_auditVars

-------------------------------------------------------------------------------
(* What a range of the page shows is complete as far as the page has been  *)
(* loaded: every event the first read knew of that is still inside the     *)
(* shortest window is there, whatever was written, pruned or bought while  *)
(* the pages were fetched. The cursor is a timestamp, so an event is only  *)
(* missed beside another of the same instant.                              *)
RangeComplete ==
  table.phase = "ready" =>
    \A e \in log, range \in Ranges :
      /\ e.n <= table.known /\ e.at >= Cutoff("free") /\ e.at >= table.readAt - range
      /\ table.cursor = NoCursor \/ e.at >= table.cursor
      => \E r \in Filtered(range) : r.at = e.at
===============================================================================
