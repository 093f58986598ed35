--------------------------------- MODULE Agent ---------------------------------
(***************************************************************************)
(* The daemon on a machine several accounts share: a supervisor that holds *)
(* one loop per identity file and re-reads the directory every few         *)
(* seconds, the loops with their sessions, the commands of the dashboard   *)
(* and those of the command line (apps/agent/identity.go, command.go,      *)
(* run.go, list.go). A loop is a goroutine of serveIdentity; the commands  *)
(* here are verified ones, see AgentKeys.                                  *)
(***************************************************************************)
EXTENDS Naturals, FiniteSets

CONSTANTS
  Names,        \* identities
  Loops,        \* goroutines
  None,
  Overlap,      \* may a stop fall inside a reconcile, and a start before the old loop has ended?
  MaxSessions   \* bound: sessions of one loop

AgentAssumption ==
  None \notin Names \cup Loops /\ Overlap \in BOOLEAN /\ MaxSessions \in Nat

VARIABLES
  file,       \* identity files in the directory
  marker,     \* ".stopped" markers beside them
  up,         \* is the process there?
  running,    \* supervisor.running: the loop whose cancel is held
  live,       \* supervisor.live
  rejected,   \* supervisor.rejected
  loop,       \* each goroutine: its identity, state and sessions
  grace,      \* loops whose cancel is due in a moment
  recon,      \* a reconcile between its reads and its writes
  restart     \* is an exec due?

agentVars == <<file, marker, up, running, live, rejected, loop, grace, recon, restart>>
disk == <<file, marker>>

NoLoop == [of |-> None, state |-> "none", sessions |-> 0]
NoRecon == [step |-> "none", want |-> {}, starts |-> {}]
Nobody == [n \in Names |-> None]

Init ==
  /\ file = {} /\ marker = {} /\ up = TRUE
  /\ running = Nobody /\ live = Nobody /\ rejected = {}
  /\ loop = [l \in Loops |-> NoLoop] /\ grace = {} /\ recon = NoRecon /\ restart = FALSE

Of(n) == {l \in Loops : loop[l].of = n}
Active(l) == loop[l].state \in {"on", "updating"}
Cancelled(ls) ==
  [l \in Loops |-> IF l \in ls /\ loop[l].of # None /\ loop[l].state = "on"
                   THEN [loop[l] EXCEPT !.state = "cancelled"]
                   ELSE IF l \in ls /\ loop[l].state = "updating"
                   THEN [loop[l] EXCEPT !.state = "leaving"] ELSE loop[l]]

-------------------------------------------------------------------------------
(* The command line: enrol writes a file, remove deletes it; stop writes   *)
(* the marker and start removes it.                                        *)
Again(n) == Overlap \/ (Of(n) = {} /\ recon = NoRecon)

Enrol(n) ==
  /\ n \notin file /\ Again(n) /\ file' = file \cup {n} /\ marker' = marker \ {n}
  /\ UNCHANGED <<up, running, live, rejected, loop, grace, recon, restart>>

Remove(n) ==
  /\ n \in file /\ (Overlap \/ recon = NoRecon) /\ file' = file \ {n} /\ marker' = marker \ {n}
  /\ UNCHANGED <<up, running, live, rejected, loop, grace, recon, restart>>

StopIdentity(n) ==
  /\ n \in file \ marker /\ (Overlap \/ recon = NoRecon) /\ marker' = marker \cup {n}
  /\ UNCHANGED <<file, up, running, live, rejected, loop, grace, recon, restart>>

StartIdentity(n) ==
  /\ n \in marker /\ Again(n) /\ marker' = marker \ {n}
  /\ UNCHANGED <<file, up, running, live, rejected, loop, grace, recon, restart>>

-------------------------------------------------------------------------------
(* reconcile: the directory is read, then under the lock what must go is   *)
(* cancelled and what must start is listed, then each is started.          *)
DesiredGrows == (file \ marker) \cup {n \in Names : running[n] # None}   \* mutant: what runs is kept
Desired == file \ marker

Reads ==
  /\ up /\ recon = NoRecon /\ recon' = [NoRecon EXCEPT !.step = "read", !.want = Desired]
  /\ UNCHANGED <<disk, up, running, live, rejected, loop, grace, restart>>

Forgets(want) == [n \in Names |-> IF n \in want THEN running[n] ELSE None]

Applies ==
  /\ recon.step = "read"
  /\ loop' = Cancelled({running[n] : n \in Names \ recon.want})
  /\ running' = Forgets(recon.want)
  /\ live' = [n \in Names |-> IF n \in recon.want \/ running[n] = None THEN live[n] ELSE None]
  /\ rejected' = rejected \cap recon.want
  /\ recon' = [recon EXCEPT !.step = "start",
                            !.starts = {n \in recon.want : running[n] = None} \ rejected]
  /\ UNCHANGED <<disk, up, grace, restart>>

(* start: the file is read again, and a new loop takes the name. *)
Starts(n, l) ==
  /\ recon.step = "start" /\ n \in recon.starts /\ n \in file /\ loop[l] = NoLoop
  /\ loop' = [loop EXCEPT ![l] = [NoLoop EXCEPT !.of = n, !.state = "on"]]
  /\ running' = [running EXCEPT ![n] = l] /\ live' = [live EXCEPT ![n] = l]
  /\ recon' = [recon EXCEPT !.starts = @ \ {n}]
  /\ UNCHANGED <<disk, up, rejected, grace, restart>>

Skips(n) ==
  /\ recon.step = "start" /\ n \in recon.starts \ file
  /\ recon' = [recon EXCEPT !.starts = @ \ {n}]
  /\ UNCHANGED <<disk, up, running, live, rejected, loop, grace, restart>>

(* With nothing left to run and an identity refused, the process exits;    *)
(* the service manager holds it down until somebody starts it.             *)
Settles ==
  /\ recon.step = "start" /\ recon.starts = {} /\ recon' = NoRecon
  /\ up' = ~((\A n \in Names : running[n] = None) /\ rejected # {})
  /\ UNCHANGED <<disk, running, live, rejected, loop, grace, restart>>

Boot ==
  /\ ~up /\ up' = TRUE /\ running' = Nobody /\ live' = Nobody /\ rejected' = {}
  /\ loop' = [l \in Loops |-> NoLoop] /\ grace' = {} /\ restart' = FALSE
  /\ UNCHANGED <<disk, recon>>

-------------------------------------------------------------------------------
(* A loop: sessions come and go, the relay refuses it, and it ends.        *)
OpenStream(l) ==
  /\ Active(l) /\ loop[l].sessions < MaxSessions
  /\ loop' = [loop EXCEPT ![l].sessions = @ + 1]
  /\ UNCHANGED <<disk, up, running, live, rejected, grace, recon, restart>>

CloseStream(l) ==
  /\ loop[l].sessions > 0 /\ loop' = [loop EXCEPT ![l].sessions = @ - 1]
  /\ UNCHANGED <<disk, up, running, live, rejected, grace, recon, restart>>

Refused(l) ==
  /\ loop[l].state = "on" /\ loop' = [loop EXCEPT ![l].state = "refused"]
  /\ UNCHANGED <<disk, up, running, live, rejected, grace, recon, restart>>

(* What the goroutine does last: the name is given up, whoever holds it.   *)
Ends(l) ==
  /\ loop[l].state \in {"cancelled", "refused"}
  /\ LET n == loop[l].of IN
     /\ rejected' = IF loop[l].state = "refused" /\ running[n] # None THEN rejected \cup {n} ELSE rejected
     /\ running' = [running EXCEPT ![n] = None]
     /\ live' = IF loop[l].state = "refused" THEN live ELSE [live EXCEPT ![n] = None]
  /\ loop' = [loop EXCEPT ![l] = NoLoop] /\ grace' = grace \ {l}
  /\ UNCHANGED <<disk, up, recon, restart>>

-------------------------------------------------------------------------------
(* Commands. stopIdentityFile writes the marker, gives up the name, and    *)
(* cancels a moment later, when the answer has gone; a revoke also takes   *)
(* the file away.                                                          *)
Stops(n, gone) ==
  /\ file' = file \ gone /\ marker' = (marker \cup {n}) \ gone
  /\ running' = [running EXCEPT ![n] = None] /\ live' = [live EXCEPT ![n] = None]
  /\ grace' = grace \cup ({running[n]} \ {None})
  /\ UNCHANGED <<up, rejected, loop, recon, restart>>

CommandStop(l) ==
  /\ loop[l].state = "on" /\ (Overlap \/ recon = NoRecon) /\ Stops(loop[l].of, {})

CommandRevoke(l) ==
  /\ loop[l].state = "on" /\ (Overlap \/ recon = NoRecon) /\ Stops(loop[l].of, {loop[l].of})

GraceEnds(l) ==
  /\ l \in grace /\ grace' = grace \ {l} /\ loop' = Cancelled({l})
  /\ UNCHANGED <<disk, up, running, live, rejected, recon, restart>>

(* Restart and upgrade are for the whole process: not while an identity    *)
(* carries a session. An upgrade downloads first, and the exec comes a     *)
(* moment after the answer.                                                *)
Busy == {n \in Names : live[n] # None /\ loop[live[n]].sessions > 0}

CommandRestart(l) ==
  /\ loop[l].state = "on" /\ Busy = {} /\ restart' = TRUE
  /\ UNCHANGED <<disk, up, running, live, rejected, loop, grace, recon>>

CommandUpgrade(l) ==
  /\ loop[l].state = "on" /\ Busy = {} /\ loop' = [loop EXCEPT ![l].state = "updating"]
  /\ UNCHANGED <<disk, up, running, live, rejected, grace, recon, restart>>

Updated(l) ==
  /\ loop[l].state \in {"updating", "leaving"}
  /\ loop' = [loop EXCEPT ![l].state = IF @ = "leaving" THEN "cancelled" ELSE "on"]
  /\ restart' \in {restart, TRUE}
  /\ UNCHANGED <<disk, up, running, live, rejected, grace, recon>>

Reexec ==
  /\ up /\ restart /\ restart' = FALSE
  /\ running' = Nobody /\ live' = Nobody /\ rejected' = {}
  /\ loop' = [l \in Loops |-> NoLoop] /\ grace' = {} /\ recon' = NoRecon
  /\ UNCHANGED <<disk, up>>

-------------------------------------------------------------------------------
Supervise == Reads \/ Applies \/ Settles \/ \E n \in Names : Skips(n) \/ \E l \in Loops : Starts(n, l)

Finish(l) == Ends(l) \/ GraceEnds(l) \/ Updated(l)

Next ==
  \/ Supervise \/ Boot \/ Reexec
  \/ \E n \in Names : Enrol(n) \/ Remove(n) \/ StopIdentity(n) \/ StartIdentity(n)
  \/ \E l \in Loops :
       \/ Finish(l) \/ OpenStream(l) \/ CloseStream(l) \/ Refused(l)
       \/ CommandStop(l) \/ CommandRevoke(l) \/ CommandRestart(l) \/ CommandUpgrade(l)

Spec == Init /\ [][Next]_agentVars

-------------------------------------------------------------------------------
(* An identity has one loop at a time, and the supervisor can stop it:     *)
(* every loop that is not on its way out is the one its name stands for.   *)
OneLoop == \A l \in Loops : Active(l) => running[loop[l].of] = l \/ l \in grace

(* An identity that was stopped or whose file is gone stops being served,  *)
(* by whichever of the two routes it was stopped (command.go:281-299).     *)
StoppedEnds ==
  \A n \in Names : []<>(n \in file \ marker \/ \A l \in Of(n) : ~Active(l))
===============================================================================
