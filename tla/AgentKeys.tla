----------------------------- MODULE AgentKeys -----------------------------
(***************************************************************************)
(* The key a deployment signs machine commands with, and moving the fleet  *)
(* from one key to the next: lib/agents/commands.ts and dispatch.ts sign   *)
(* and send, lib/maintenance/rotate-keys.ts visits the machines, and the   *)
(* daemon's command.go verifies, remembers what it carried out and learns  *)
(* the new key.  The relay may lose, delay or repeat an envelope.          *)
(*                                                                         *)
(* Time is counted in the machines' clock; the control plane's clock is    *)
(* Behind units ahead of it.                                               *)
(***************************************************************************)
EXTENDS Naturals, FiniteSets

CONSTANTS
    Agents,       \* enrolled machines, one identity each
    Accounts,     \* accounts that own them
    Owner,        \* the account of each machine
    Envelopes,    \* signed commands that may be minted
    None,
    Ttl,          \* COMMAND_TTL_SECONDS
    Skew,         \* commandClockSkew
    Memory,       \* nonceMemory
    Behind,       \* how far the machines' clock is behind
    MaxPerRun,    \* MAX_PER_RUN
    MaxTime       \* bound on the clock

Keys == {"old", "new"}

\* What a signed command says: for which machine, an order or a new key, signed
\* with which key, and until when.
Command == [to : Agents, what : {"order"} \cup Keys, key : Keys \cup {None}, expires : Nat]

KeysAssumption ==
    /\ Owner \in [Agents -> Accounts]
    /\ None \notin Envelopes /\ None \notin Command /\ None \notin Nat
    /\ {Ttl, Skew, Memory, Behind, MaxTime} \subseteq Nat
    /\ MaxPerRun \in Nat \ {0}
    /\ Behind <= Skew /\ Ttl + 2 * Skew <= Memory

VARIABLES
    secret,       \* AGENT_COMMAND_SECRET
    previous,     \* AGENT_COMMAND_SECRET_PREVIOUS
    agent,        \* whether each machine is enrolled, or revoked since
    trusted,      \* CommandKeys of each machine's identity file
    online,       \* machines connected to the relay
    sent,         \* envelopes minted: for whom, what, signed with what, until when
    seen,         \* seenNonces of the running identity: when each was spent
    carried,      \* how often the running identity carried each envelope out
    job,          \* the agent-command-keys job of the maintenance run
    now           \* the machines' clock

keyVars == <<secret, previous, agent, trusted, online, sent, seen, carried, job, now>>

\* The job before its first run and after the web process restarted.
Idle == [at |-> "idle", dry |-> FALSE, accounts |-> {}, ids |-> {}, waits |-> None,
         took |-> {}, failed |-> {}, offline |-> {}, truncated |-> FALSE]

Init ==
    /\ secret = "old" /\ previous = None
    /\ agent = [a \in Agents |-> "none"]
    /\ trusted = [a \in Agents |-> {}]
    /\ online = {}
    /\ sent = [e \in Envelopes |-> None]
    /\ seen = [a \in Agents |-> [e \in Envelopes |-> None]]
    /\ carried = [a \in Agents |-> [e \in Envelopes |-> 0]]
    /\ job = Idle
    /\ now = 0

-----------------------------------------------------------------------------
(* Signing                                                                 *)

\* A seed that is missing, or not 32 bytes, is no key.
SigningKey == secret

PreviousSigningKey == previous

RotationInProgress == PreviousSigningKey # None /\ SigningKey # None

\* The envelope `deliver` builds: signed for one machine, good for Ttl from
\* the control plane's now.
Signed(a, what, key) ==
    [to |-> a, what |-> what, key |-> key, expires |-> now + Behind + Ttl]

\* dispatchCommand: signCommand, and never anything unsigned.
DispatchCommand(e, a) ==
    /\ agent[a] = "active" /\ sent[e] = None
    /\ SigningKey # None
    /\ sent' = [sent EXCEPT ![e] = Signed(a, "order", SigningKey)]
    /\ UNCHANGED <<secret, previous, agent, trusted, online, seen, carried, job, now>>

\* signRotation: the new public key, inside a command the previous key signs.
SignRotation(a) == Signed(a, SigningKey, PreviousSigningKey)

-----------------------------------------------------------------------------
(* The sweep                                                               *)

\* rotateAgentKeys up to its loop.  The query has no order, so which machines
\* a truncated run takes is not determined; an empty batch is an idle report.
SweepBegins(dry) ==
    LET active == {a \in Agents : agent[a] = "active"} IN
    /\ job.at \in {"idle", "done"}
    /\ \E batch \in SUBSET active :
         /\ Cardinality(batch) = (IF Cardinality(active) > MaxPerRun
                                  THEN MaxPerRun ELSE Cardinality(active))
         /\ job' = IF RotationInProgress /\ batch # {}
                   THEN [Idle EXCEPT !.at = "accounts", !.dry = dry, !.ids = batch,
                                     !.accounts = {Owner[a] : a \in batch},
                                     !.truncated = Cardinality(active) > MaxPerRun]
                   ELSE [Idle EXCEPT !.at = "done"]
    /\ UNCHANGED <<secret, previous, agent, trusted, online, sent, seen, carried, now>>

Mine(acc) == {a \in job.ids : Owner[a] = acc}

\* Presence could not be read for this account: its machines are passed over
\* and counted nowhere.
PresenceFails(acc) ==
    /\ job.at = "accounts" /\ acc \in job.accounts
    /\ job' = [job EXCEPT !.accounts = @ \ {acc}, !.ids = @ \ Mine(acc)]
    /\ UNCHANGED <<secret, previous, agent, trusted, online, sent, seen, carried, now>>

\* Presence answers: who is offline is counted now, the others are visited one
\* by one afterwards, or counted at once by a dry run.
PresenceAnswers(acc) ==
    LET away == Mine(acc) \ online
        there == Mine(acc) \cap online IN
    /\ job.at = "accounts" /\ acc \in job.accounts
    /\ job' = [job EXCEPT !.at = "visit",
                          !.accounts = @ \ {acc},
                          !.offline = @ \cup away,
                          !.took = IF job.dry THEN @ \cup there ELSE @,
                          !.ids = @ \ (IF job.dry THEN Mine(acc) ELSE away)]
    /\ UNCHANGED <<secret, previous, agent, trusted, online, sent, seen, carried, now>>

\* Machines of the account being visited: those whose account is no longer due.
Visited == {a \in job.ids : Owner[a] \notin job.accounts}

\* dispatchRotation signs and sends; the job waits for the answer.
Visit(a, e) ==
    /\ job.at = "visit" /\ job.waits = None /\ a \in Visited /\ sent[e] = None
    /\ sent' = [sent EXCEPT ![e] = SignRotation(a)]
    /\ job' = [job EXCEPT !.waits = e]
    /\ UNCHANGED <<secret, previous, agent, trusted, online, seen, carried, now>>

\* `deliver` returns: the machine's own answer, or a refusal when the relay
\* gave none in time.
Counts(a, ok) ==
    [job EXCEPT !.waits = None, !.ids = @ \ {a},
                !.took = IF ok THEN @ \cup {a} ELSE @,
                !.failed = IF ok THEN @ ELSE @ \cup {a}]

NoAnswer ==
    /\ job.waits # None
    /\ job' = Counts(sent[job.waits].to, FALSE)
    /\ UNCHANGED <<secret, previous, agent, trusted, online, sent, seen, carried, now>>

\* The account's machines are done; the next account, or the report.
NextAccount ==
    /\ job.at \in {"visit", "accounts"} /\ job.waits = None /\ Visited = {}
    /\ job.at = "accounts" => job.accounts = {}
    /\ job' = [job EXCEPT !.at = IF job.accounts = {} THEN "done" ELSE "accounts"]
    /\ UNCHANGED <<secret, previous, agent, trusted, online, sent, seen, carried, now>>

-----------------------------------------------------------------------------
(* The machine                                                             *)

\* The nonces a machine still remembers: swept when a command arrives.
ForgetsAtOnce(at) == now - at >= Memory
Forgets(at) == now - at > Memory

Remembered(a) ==
    [e \in Envelopes |->
        IF seen[a][e] = None \/ Forgets(seen[a][e]) THEN None ELSE seen[a][e]]

Expired(m) == now > m.expires + Skew

\* verifyCommand short of the nonce: known agent, in time, signed by a key the
\* identity file holds.
Verifies(a, m) == m.to = a /\ ~Expired(m) /\ m.key \in trusted[a]

\* rotateKey: a key already held is success without a write; otherwise the
\* identity trusts it once it is on disk.
RotateKey(a, key, saved) ==
    trusted' = IF saved THEN [trusted EXCEPT ![a] = @ \cup {key}] ELSE trusted

Accepted(a, m, saved) == m.what = "order" \/ m.what \in trusted[a] \/ saved

\* A command frame reaches a connected machine, for the first time or again.
\* The answer goes back to the job when it still waits for it.
Arrives(e, a, saved) ==
    LET m == sent[e]
        fresh == Remembered(a)[e] = None
        runs == Verifies(a, m) /\ fresh IN
    /\ m # None /\ m.to = a /\ a \in online
    /\ IF runs /\ m.what # "order" THEN RotateKey(a, m.what, saved) ELSE UNCHANGED trusted
    /\ seen' = IF Verifies(a, m)
               THEN [seen EXCEPT ![a] = [Remembered(a) EXCEPT ![e] = IF fresh THEN now ELSE @]]
               ELSE seen
    /\ carried' = IF runs THEN [carried EXCEPT ![a][e] = @ + 1] ELSE carried
    /\ \/ job.waits # e /\ UNCHANGED job
       \/ job.waits = e /\ job' = Counts(a, runs /\ Accepted(a, m, saved))
       \/ job.waits = e /\ UNCHANGED job          \* the answer is lost or slow
    /\ UNCHANGED <<secret, previous, agent, online, sent, now>>

\* Enrolment hands out the key the deployment signs with.
Enrol(a) ==
    /\ agent[a] = "none"
    /\ agent' = [agent EXCEPT ![a] = "active"]
    /\ trusted' = [trusted EXCEPT ![a] = {SigningKey} \ {None}]
    /\ UNCHANGED <<secret, previous, online, sent, seen, carried, job, now>>

Revoke(a) ==
    /\ agent[a] = "active"
    /\ agent' = [agent EXCEPT ![a] = "revoked"]
    /\ online' = online \ {a}
    /\ UNCHANGED <<secret, previous, trusted, sent, seen, carried, job, now>>

\* The daemon connects, and loses the relay again.
Connect(a) ==
    /\ agent[a] = "active"
    /\ online' = (online \cup {a}) \ (online \cap {a})
    /\ UNCHANGED <<secret, previous, agent, trusted, sent, seen, carried, job, now>>

\* The identity is loaded again: a new run, with no memory of the last one's
\* nonces.
Restarts(a) ==
    /\ agent[a] = "active"
    /\ online' = online \ {a}
    /\ seen' = [seen EXCEPT ![a] = [e \in Envelopes |-> None]]
    /\ carried' = [carried EXCEPT ![a] = [e \in Envelopes |-> 0]]
    /\ UNCHANGED <<secret, previous, agent, trusted, sent, job, now>>

-----------------------------------------------------------------------------
(* The operator, and time                                                  *)

\* A new seed with the old one beside it, later the old one removed.  The web
\* process restarts, so a sweep in progress ends.
SetSecrets ==
    /\ secret = "old"
    /\ secret' = "new" /\ previous' = "old"
    /\ job' = Idle
    /\ UNCHANGED <<agent, trusted, online, sent, seen, carried, now>>

RetirePrevious ==
    /\ previous # None
    /\ previous' = None
    /\ job' = Idle
    /\ UNCHANGED <<secret, agent, trusted, online, sent, seen, carried, now>>

Tick ==
    /\ now < MaxTime
    /\ now' = now + 1
    /\ UNCHANGED <<secret, previous, agent, trusted, online, sent, seen, carried, job>>

Next ==
    \/ \E dry \in BOOLEAN : SweepBegins(dry)
    \/ \E acc \in Accounts : PresenceFails(acc) \/ PresenceAnswers(acc)
    \/ \E a \in Agents, e \in Envelopes : DispatchCommand(e, a) \/ Visit(a, e)
    \/ NoAnswer \/ NextAccount
    \/ \E a \in Agents, e \in Envelopes, saved \in BOOLEAN : Arrives(e, a, saved)
    \/ \E a \in Agents : Enrol(a) \/ Revoke(a) \/ Connect(a) \/ Restarts(a)
    \/ SetSecrets \/ RetirePrevious \/ Tick

Spec == Init /\ [][Next]_keyVars

-----------------------------------------------------------------------------

\* One run of a machine's daemon carries an envelope out at most once, however
\* often the relay delivers it and whichever key signed it: what it forgets
\* has expired by then.
CarriedOnce == \A a \in Agents, e \in Envelopes : carried[a][e] <= 1

\* What the job counts as having taken the new key holds it, in a run that was
\* not a dry one.
TookMeansHeld == ~job.dry => \A a \in job.took : secret \in trusted[a]

(* One run of a daemon carries an envelope out at most once, and what the  *)
(* rotation counts as done holds the new key (command.go,                  *)
(* maintenance/rotate-keys.ts).                                            *)
CommandsOnce == CarriedOnce /\ TookMeansHeld
=============================================================================
