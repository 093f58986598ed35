----------------------------- MODULE RelayMeter -----------------------------
(***************************************************************************)
(* The relay's connection slots and byte counters (apps/relay/src/quota.rs  *)
(* and the connection handlers of main.rs), the reporter that drains them   *)
(* (reporter.rs) and the route that books them                              *)
(* (apps/web/src/app/api/relay/usage/route.ts). The connection events that  *)
(* the same handlers record and the same flush posts are RelayEvents.       *)
(*                                                                         *)
(* Every atomic operation on a shared counter is a step of its own. A byte  *)
(* counter is the set of frames added to it, so that a frame can be followed*)
(* from the copy loop to the ledger. An AccountUsage allocation is named by *)
(* the connection that inserted it into the map.                            *)
(***************************************************************************)
EXTENDS Naturals, FiniteSets

CONSTANTS
  Conn,           \* connection attempts with a valid token
  Account,        \* token subjects
  AccountOf,      \* the subject of each attempt's token
  Booked,         \* the subjects with a user row (not anonymous, not deleted)
  Frame,          \* binary frames the copy loops forward
  None,
  MaxPerAccount,  \* Limits::max_connections_per_account
  MaxTotal,       \* Limits::max_total_connections
  MaxChunk        \* MAX_ENTRIES_PER_BATCH

ASSUME MeterAssumption ==
  /\ IsFiniteSet(Conn) /\ AccountOf \in [Conn -> Account] /\ Booked \subseteq Account
  /\ None \notin Conn \cup Account
  /\ {MaxPerAccount, MaxTotal, MaxChunk} \subseteq Nat \ {0}

VARIABLES
  pc,        \* where each attempt's handler is
  obj,       \* the Arc<AccountUsage> its guard and counters hold
  slot,      \* the value its fetch_add on `active` returned
  total,     \* Quotas::total_active
  entry,     \* Quotas::accounts
  active,    \* AccountUsage::active
  owed,      \* AccountUsage::bytes_up and bytes_down
  rep,       \* the reporter's position: phase, is this the last flush, what it
             \* has to visit and has visited, the entry it is looking at
  batch,     \* drained byte counts, by account
  wire,      \* requests on their way to the control plane
  ledger,    \* relay_usage: how often each frame is counted for each account
  by,        \* history: the connection that forwarded each frame
  gone       \* history: the frames that were given up

slots == <<pc, obj, slot, total, entry, active>>
meter == <<owed, batch, ledger, by>>
vars == <<slots, meter, rep, wire, gone>>

Dir == {"up", "down"}
Phase == {"waiting", "swapping", "retaining", "posting", "stopped"}

AtRest == [phase |-> "waiting", last |-> FALSE, todo |-> {}, seen |-> {},
           at |-> None, load |-> 0]

TypeOK ==
  /\ pc \in [Conn -> {"idle", "full", "counted", "entered", "over", "granted", "open",
                      "leaving", "returned", "refused", "done"}]
  /\ obj \in [Conn -> Conn \cup {None}]
  /\ slot \in [Conn -> Nat]
  /\ total \in Nat
  /\ entry \in [Account -> Conn \cup {None}]
  /\ active \in [Conn -> Nat]
  /\ owed \in [Conn -> [Dir -> SUBSET Frame]]
  /\ rep \in [phase : Phase, last : BOOLEAN, todo : SUBSET Account, seen : SUBSET Account,
              at : Account \cup {None}, load : 0..3]
  /\ batch \in [Account -> SUBSET Frame]
  /\ ledger \in [Account -> [Frame -> Nat]]
  /\ by \in [Frame -> Conn \cup {None}]
  /\ gone \subseteq Frame

Init ==
  /\ pc = [c \in Conn |-> "idle"]
  /\ obj = [c \in Conn |-> None]
  /\ slot = [c \in Conn |-> 0]
  /\ total = 0
  /\ entry = [a \in Account |-> None]
  /\ active = [c \in Conn |-> 0]
  /\ owed = [c \in Conn |-> [d \in Dir |-> {}]]
  /\ rep = AtRest
  /\ batch = [a \in Account |-> {}]
  /\ wire = {}
  /\ ledger = [a \in Account |-> [f \in Frame |-> 0]]
  /\ by = [f \in Frame |-> None]
  /\ gone = {}

-------------------------------------------------------------------------------
(* Quotas::acquire. *)

(* total_active.fetch_add, and the verdict on the value it returned. *)
CountTotal(c) ==
  /\ pc[c] = "idle"
  /\ total' = total + 1
  /\ pc' = [pc EXCEPT ![c] = IF total + 1 > MaxTotal THEN "full" ELSE "counted"]
  /\ UNCHANGED <<obj, slot, entry, active, meter, rep, wire, gone>>

(* The map entry is locked: it is created if it is missing, its count is     *)
(* raised and the Arc is cloned before the lock is let go. The reporter      *)
(* holds the same lock while it looks at the entry.                          *)
TheEntry(c) == IF entry[AccountOf[c]] = None THEN c ELSE entry[AccountOf[c]]

EnterUnlocked(c) ==   \* mutant: the count is raised after the lock is let go
  /\ pc[c] = "counted"
  /\ LET o == TheEntry(c)
     IN /\ entry' = [entry EXCEPT ![AccountOf[c]] = o]
        /\ active' = [active EXCEPT ![o] = @ + 1]
        /\ obj' = [obj EXCEPT ![c] = o]
        /\ slot' = [slot EXCEPT ![c] = active[o] + 1]
  /\ pc' = [pc EXCEPT ![c] = "entered"]
  /\ UNCHANGED <<total, meter, rep, wire, gone>>

Enter(c) ==
  /\ pc[c] = "counted" /\ rep.at # AccountOf[c]
  /\ LET o == TheEntry(c)
     IN /\ entry' = [entry EXCEPT ![AccountOf[c]] = o]
        /\ active' = [active EXCEPT ![o] = @ + 1]
        /\ obj' = [obj EXCEPT ![c] = o]
        /\ slot' = [slot EXCEPT ![c] = active[o] + 1]
  /\ pc' = [pc EXCEPT ![c] = "entered"]
  /\ UNCHANGED <<total, meter, rep, wire, gone>>

(* The limit is compared with the value this call's own fetch_add returned. *)
WithinOneMore(c) == slot[c] <= MaxPerAccount + 1   \* mutant: the value before the add
WithinLimitLater(c) == active[obj[c]] <= MaxPerAccount   \* mutant: a later load
WithinLimit(c) == slot[c] <= MaxPerAccount

Decide(c) ==
  /\ pc[c] = "entered"
  /\ pc' = [pc EXCEPT ![c] = IF WithinLimit(c) THEN "granted" ELSE "over"]
  /\ slot' = [slot EXCEPT ![c] = 0]
  /\ UNCHANGED <<obj, total, entry, active, meter, rep, wire, gone>>

(* active.fetch_sub: a refused acquire, or the first half of the guard's drop. *)
LeaveAccount(c) ==
  /\ pc[c] \in {"over", "leaving"}
  /\ active' = [active EXCEPT ![obj[c]] = @ - 1]
  /\ obj' = [obj EXCEPT ![c] = None]
  /\ pc' = [pc EXCEPT ![c] = IF pc[c] = "over" THEN "full" ELSE "returned"]
  /\ UNCHANGED <<slot, total, entry, meter, rep, wire, gone>>

(* total_active.fetch_sub: a refused acquire, or the second half of the drop. *)
LeaveTotal(c) ==
  /\ pc[c] \in {"full", "returned"}
  /\ total' = total - 1
  /\ pc' = [pc EXCEPT ![c] = IF pc[c] = "full" THEN "refused" ELSE "done"]
  /\ UNCHANGED <<obj, slot, entry, active, meter, rep, wire, gone>>

-------------------------------------------------------------------------------
(* The connection handlers. *)

(* The upgrade completed, and on the agent path the machine dialled back. *)
Opened(c) ==
  /\ pc[c] = "granted"
  /\ pc' = [pc EXCEPT ![c] = "open"]
  /\ UNCHANGED <<obj, slot, total, entry, active, meter, rep, wire, gone>>

(* The upgrade failed, or the agent is offline, not this account's or silent: *)
(* the handler returns before it has recorded anything.                       *)
NotOpened(c) ==
  /\ pc[c] = "granted"
  /\ pc' = [pc EXCEPT ![c] = "leaving"]
  /\ UNCHANGED <<obj, slot, total, entry, active, meter, rep, wire, gone>>

(* bridge and splice: a frame is counted as it is copied. *)
Forward(c, d, f) ==
  /\ pc[c] = "open" /\ by[f] = None
  /\ by' = [by EXCEPT ![f] = c]
  /\ owed' = [owed EXCEPT ![obj[c]][d] = @ \cup {f}]
  /\ UNCHANGED <<slots, batch, ledger, rep, wire, gone>>

(* Both copy tasks have been joined before the guard is dropped. *)
Closed(c) ==
  /\ pc[c] = "open"
  /\ pc' = [pc EXCEPT ![c] = "leaving"]
  /\ UNCHANGED <<obj, slot, total, entry, active, meter, rep, wire, gone>>

-------------------------------------------------------------------------------
(* Reporter::run and flush. *)
Held == {a \in Account : entry[a] # None}

(* A tick, or the shutdown signal: the flush after the signal is the last. *)
StartFlush(last) ==
  /\ rep.phase = "waiting"
  /\ rep' = [AtRest EXCEPT !.phase = "swapping", !.last = last, !.todo = Held]
  /\ UNCHANGED <<slots, meter, wire, gone>>

(* drain_usage, first loop: bytes_up.swap(0) of an entry, then bytes_down. *)
Taken(a, d) == [owed EXCEPT ![entry[a]][d] = {}]

SwapUp(a) ==
  /\ rep.phase = "swapping" /\ rep.at = None
  /\ a \in Held \ rep.seen
  /\ batch' = [batch EXCEPT ![a] = owed[entry[a]]["up"]]
  /\ owed' = Taken(a, "up")
  /\ rep' = [rep EXCEPT !.at = a]
  /\ UNCHANGED <<slots, ledger, by, wire, gone>>

SwapDown(a) ==
  /\ rep.phase = "swapping" /\ rep.at = a
  /\ batch' = [batch EXCEPT ![a] = @ \cup owed[entry[a]]["down"]]
  /\ owed' = Taken(a, "down")
  /\ rep' = [rep EXCEPT !.at = None, !.seen = @ \cup {a}]
  /\ UNCHANGED <<slots, ledger, by, wire, gone>>

(* Every entry there was at the start has been visited; later ones may be. *)
StartRetain ==
  /\ rep.phase = "swapping" /\ rep.at = None /\ rep.todo \subseteq rep.seen
  /\ rep' = [rep EXCEPT !.phase = "retaining", !.todo = Held, !.seen = {}]
  /\ UNCHANGED <<slots, meter, wire, gone>>

(* drain_usage, retain: an entry stays if its active count, then its up     *)
(* count, then its down count is not zero when it is loaded.                *)
LoadOrderBytesFirst == <<"up", "down", "active">>   \* mutant: the count is looked at last
LoadOrder == <<"active", "up", "down">>

Look(a) ==
  /\ rep.phase = "retaining" /\ rep.at = None
  /\ a \in Held \ rep.seen
  /\ rep' = [rep EXCEPT !.at = a, !.load = 1]
  /\ UNCHANGED <<slots, meter, wire, gone>>

NonZero(o, counter) == IF counter = "active" THEN active[o] # 0 ELSE owed[o][counter] # {}

Keep(a) ==
  /\ rep.phase = "retaining" /\ rep.at = a
  /\ NonZero(entry[a], LoadOrder[rep.load])
  /\ rep' = [rep EXCEPT !.at = None, !.load = 0, !.seen = @ \cup {a}]
  /\ UNCHANGED <<slots, meter, wire, gone>>

LookOn(a) ==
  /\ rep.phase = "retaining" /\ rep.at = a
  /\ ~NonZero(entry[a], LoadOrder[rep.load]) /\ rep.load < 3
  /\ rep' = [rep EXCEPT !.load = @ + 1]
  /\ UNCHANGED <<slots, meter, wire, gone>>

Evict(a) ==
  /\ rep.phase = "retaining" /\ rep.at = a
  /\ ~NonZero(entry[a], LoadOrder[rep.load]) /\ rep.load = 3
  /\ entry' = [entry EXCEPT ![a] = None]
  /\ rep' = [rep EXCEPT !.at = None, !.load = 0, !.seen = @ \cup {a}]
  /\ UNCHANGED <<pc, obj, slot, total, active, meter, wire, gone>>

StartPosting ==
  /\ rep.phase = "retaining" /\ rep.at = None /\ rep.todo \subseteq rep.seen
  /\ rep' = [rep EXCEPT !.phase = "posting", !.todo = {}, !.seen = {}]
  /\ UNCHANGED <<slots, meter, wire, gone>>

(* One request per chunk of accounts. What the post returns, or that it timed *)
(* out, changes nothing here: the chunk is no longer the relay's.             *)
Owing == {a \in Account : batch[a] # {}}

AfterPost(chunk) == [a \in Account |-> IF a \in chunk THEN {} ELSE batch[a]]

PostUsage ==
  /\ rep.phase = "posting"
  /\ \E chunk \in SUBSET Owing :
       /\ chunk # {} /\ Cardinality(chunk) <= MaxChunk
       /\ (chunk # Owing => Cardinality(chunk) = MaxChunk)
       /\ wire' = wire \cup {[a \in chunk |-> batch[a]]}
       /\ batch' = AfterPost(chunk)
  /\ UNCHANGED <<slots, owed, ledger, by, rep, gone>>

EndFlush ==
  /\ rep.phase = "posting" /\ Owing = {}
  /\ rep' = [AtRest EXCEPT !.phase = IF rep.last THEN "stopped" ELSE "waiting"]
  /\ UNCHANGED <<slots, meter, wire, gone>>

-------------------------------------------------------------------------------
(* The control plane: POST /api/relay/usage. *)

(* The request arrives, whether or not the relay is still waiting for it:    *)
(* one statement adds every known account's bytes to its running total.      *)
Book(r) ==
  /\ ledger' = [a \in Account |-> [f \in Frame |->
                  IF a \in Booked \cap DOMAIN r /\ f \in r[a] THEN ledger[a][f] + 1
                                                          ELSE ledger[a][f]]]
  /\ gone' = gone \cup UNION {r[a] : a \in DOMAIN r \ Booked}

Deliver(r) ==
  /\ wire' = wire \ {r}
  /\ Book(r)
  /\ UNCHANGED <<slots, owed, batch, by, rep>>

(* It never arrives, or is refused: unauthorised, or the database is down.  *)
(* A relay with nowhere to report discards the chunk itself, to this effect. *)
Carried(r) == UNION {r[a] : a \in DOMAIN r}

Lose(r) ==
  /\ wire' = wire \ {r}
  /\ gone' = gone \cup Carried(r)
  /\ UNCHANGED <<slots, meter, rep>>

(* The relay is killed and comes back: nothing in its memory survives. *)
Unreported ==
  (UNION {owed[c][d] : c \in Conn, d \in Dir}) \cup (UNION {batch[a] : a \in Account})

Restart ==
  /\ pc' = [c \in Conn |-> IF pc[c] \in {"idle", "refused"} THEN pc[c] ELSE "done"]
  /\ obj' = [c \in Conn |-> None]
  /\ slot' = [c \in Conn |-> 0]
  /\ total' = 0
  /\ entry' = [a \in Account |-> None]
  /\ active' = [c \in Conn |-> 0]
  /\ owed' = [c \in Conn |-> [d \in Dir |-> {}]]
  /\ batch' = [a \in Account |-> {}]
  /\ rep' = AtRest
  /\ gone' = gone \cup Unreported
  /\ UNCHANGED <<wire, ledger, by>>

-------------------------------------------------------------------------------
Handler(c) ==
  \/ CountTotal(c) \/ Enter(c) \/ Decide(c) \/ LeaveAccount(c) \/ LeaveTotal(c)
  \/ Opened(c) \/ NotOpened(c) \/ Closed(c)
  \/ \E d \in Dir, f \in Frame : Forward(c, d, f)

Flush ==
  \/ \E a \in Account : SwapUp(a) \/ SwapDown(a) \/ Look(a) \/ Keep(a) \/ LookOn(a) \/ Evict(a)
  \/ StartRetain \/ StartPosting \/ PostUsage \/ EndFlush

Reporter == Flush \/ \E last \in BOOLEAN : StartFlush(last)

Next ==
  \/ \E c \in Conn : Handler(c)
  \/ Reporter
  \/ \E r \in wire : Deliver(r) \/ Lose(r)
  \/ Restart

Spec == Init /\ [][Next]_vars

(* The interval keeps ticking and a flush that was started runs on: nothing  *)
(* in it waits for more than the timeouts of http.rs. No handler, no client  *)
(* and no delivery is assumed to make progress.                              *)
FairSpec == Spec /\ WF_vars(Reporter)

-------------------------------------------------------------------------------
(* Properties. *)

Settled(c) == pc[c] \in {"idle", "refused", "done"}

(* Quotas::acquire keeps its limits: the atomics are a pool of slots, whose  *)
(* guards alive, for an account and in all, are never more than Limits       *)
(* allows, whatever races what and however often the account's entry has     *)
(* been evicted and made again.                                              *)
Pool == INSTANCE SlotPool
          WITH inside <- {c \in Conn : pc[c] \in {"granted", "open", "leaving"}}
IsSlotPool == Pool!Spec

(* No path through acquire, the handlers and the guard's drop leaks a slot:  *)
(* once every attempt has ended the counters are back at zero.               *)
NoSlotLeaks ==
  (\A c \in Conn : Settled(c)) => total = 0 /\ \A c \in Conn : active[c] = 0

(* acquire's comment: racing callers must not turn "a limit of one into a    *)
(* limit of none". Whoever is refused by the account's limit lost to an      *)
(* attempt that got a slot.                                                  *)
RefusedOnlyBehindAnother ==
  \A c \in Conn : pc[c] = "over" =>
    \E w \in Conn :
      /\ AccountOf[w] = AccountOf[c]
      /\ \/ pc[w] \in {"granted", "open", "leaving", "returned", "done"}
         \/ pc[w] = "entered" /\ WithinLimit(w)

(* No slot leaks, and nobody is refused but behind another who holds or    *)
(* competes for the slot (quota.rs, acquire).                              *)
SlotsRight == NoSlotLeaks /\ RefusedOnlyBehindAnother

(* drain_usage's eviction never sends "this connection's bytes to a counter  *)
(* nothing will ever read": bytes are only ever owed by the entry in the map. *)
OwedIsReachable ==
  \A c \in Conn : \A d \in Dir : owed[c][d] # {} => entry[AccountOf[c]] = c

(* Where a forwarded frame can be. *)
InOwed(f) == \E c \in Conn, d \in Dir : f \in owed[c][d]
InBatch(f) == \E a \in Account : f \in batch[a]
OnWire(f) == \E r \in wire : f \in Carried(r)
InLedger(f) == \E a \in Account : ledger[a][f] > 0

Charged(a, f) ==
  \/ \E c \in Conn, d \in Dir : AccountOf[c] = a /\ f \in owed[c][d]
  \/ f \in batch[a]
  \/ \E r \in wire : a \in DOMAIN r /\ f \in r[a]
  \/ ledger[a][f] > 0

(* The reporter and the usage route neither lose track of a forwarded byte   *)
(* nor count it twice: until it is knowingly given up it is in exactly one   *)
(* place, the counters, the batch, one request or the ledger, there once.    *)
CountedOnce ==
  \A f \in Frame :
    /\ \A a \in Account : ledger[a][f] <= 1
    /\ by[f] # None <=> InOwed(f) \/ InBatch(f) \/ OnWire(f) \/ InLedger(f) \/ f \in gone
    /\ InOwed(f) => ~InBatch(f) /\ ~OnWire(f) /\ ~InLedger(f) /\ f \notin gone
    /\ InBatch(f) => ~OnWire(f) /\ ~InLedger(f) /\ f \notin gone
    /\ OnWire(f) => ~InLedger(f) /\ f \notin gone
    /\ InLedger(f) => f \notin gone

(* A byte is only ever counted for the account whose connection moved it. *)
ChargedToItsAccount ==
  \A a \in Account, f \in Frame : Charged(a, f) => by[f] # None /\ AccountOf[by[f]] = a

(* Every frame that was forwarded is counted at most once, for its own     *)
(* account, and never by a counter that nobody reads any more (quota.rs,   *)
(* drain_usage).                                                           *)
BytesRight == OwedIsReachable /\ CountedOnce /\ ChargedToItsAccount

(* An account with no attempt left is evicted: the map does not grow with     *)
(* every visitor. After the last flush nothing is.                            *)
IdleIsEvicted ==
  \A a \in Account :
    (\A c \in Conn : AccountOf[c] = a => pc[c] \in {"refused", "done"})
      ~> (entry[a] = None \/ rep.phase = "stopped")

(* Bytes of a session that stays open reach a report all the same. *)
OwedIsReported == \A f \in Frame : InOwed(f) ~> (~InOwed(f) \/ rep.phase = "stopped")
===============================================================================
