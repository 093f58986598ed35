----------------------------- MODULE RelayTokens -----------------------------
(***************************************************************************)
(* How a browser comes by a relay token (app/api/relay-token/route.ts):    *)
(* the fixed-window rate limiter (lib/rate-limit.ts), the monthly          *)
(* allowance, the ownership of a machine, and the time a token lives.      *)
(* Time is kept as ages, so nothing but the use of the relay is bounded.   *)
(***************************************************************************)
EXTENDS Naturals

CONSTANTS
  Mints,        \* requests in flight
  Limit,        \* MINT_LIMIT.max
  Window,       \* MINT_LIMIT.windowSeconds
  Keep,         \* KEEP_MS, after which a counter is swept
  Ttl,          \* TTL_SECONDS; anonymous callers get one less
  Allowance,    \* bytes a month: tier -> allowance
  MaxUsed,      \* bound: bytes the relay reports in a month
  MaxDbFaults   \* bound: queries that fail

TokensAssumption ==
  /\ {Limit, Window, Keep, Ttl, MaxUsed, MaxDbFaults} \subseteq Nat
  /\ Window > 0 /\ Ttl > 1 /\ Keep >= Window
  /\ Allowance \in [{"free", "pro"} -> Nat]

Subjects == {"user", "anon"}
Dests == {"host", "machine"}

VARIABLES
  counter,    \* rate_limit: per caller, the count and the window's age
  passed,     \* history: requests let through in the last a + 1 units of time
  used,       \* relay_usage: this month's bytes of the user
  plan,       \* the user's tier
  machine,    \* is the machine the user's, not revoked?
  minting,    \* each request: who, where to, how far
  tokens,     \* of the tokens that have not expired, the last of each kind
  dbFaults

tokenVars == <<counter, passed, used, plan, machine, minting, tokens, dbFaults>>

NoCounter == [count |-> 0, age |-> Keep + 1]
NoRequest == [at |-> "none", who |-> "anon", dest |-> "host"]

Init ==
  /\ counter = [c \in Subjects |-> NoCounter]
  /\ passed = [c \in Subjects |-> [a \in 0..(Window - 1) |-> 0]]
  /\ used = 0 /\ plan = "free" /\ machine = TRUE
  /\ minting = [r \in Mints |-> NoRequest]
  /\ tokens = {} /\ dbFaults = 0

-------------------------------------------------------------------------------
(* consume: one upsert. The window starts again once it has elapsed; what  *)
(* is counted past the limit makes no further difference.                  *)
Least(a, b) == IF a < b THEN a ELSE b
Elapsed(k) == k.age >= Window

Consumed(k) ==
  IF Elapsed(k) THEN [count |-> 1, age |-> 0]
  ELSE [k EXCEPT !.count = Least(@ + 1, Limit + 1)]

(* subjectFor and enforce: a signed-in caller is counted by its account,   *)
(* everybody else by their network. The limiter fails open.                *)
Ask(r, who, dest) ==
  LET k == Consumed(counter[who]) IN
  /\ minting[r] = NoRequest
  /\ \/ /\ counter' = [counter EXCEPT ![who] = k]
        /\ IF k.count <= Limit
           THEN /\ minting' = [minting EXCEPT ![r] = [at |-> "asked", who |-> who, dest |-> dest]]
                /\ passed' = [passed EXCEPT ![who] = [a \in 0..(Window - 1) |-> @[a] + 1]]
           ELSE UNCHANGED <<minting, passed>>
        /\ UNCHANGED dbFaults
     \/ /\ dbFaults < MaxDbFaults /\ dbFaults' = dbFaults + 1
        /\ minting' = [minting EXCEPT ![r] = [at |-> "asked", who |-> who, dest |-> dest]]
        /\ UNCHANGED <<counter, passed>>
  /\ UNCHANGED <<used, plan, machine, tokens>>

(* allowanceCheck. A signed-out caller is not metered. *)
UnderOrEqual(u, p) == u <= Allowance[p]   \* mutant: off by one at the allowance
Under(u, p) == u < Allowance[p]

Refuse(r) == minting' = [minting EXCEPT ![r] = NoRequest]
Proceed(r, at) == minting' = [minting EXCEPT ![r].at = at]

CheckAllowance(r) ==
  /\ minting[r].at = "asked"
  /\ \/ /\ IF minting[r].who = "anon" \/ Under(used, plan) THEN Proceed(r, "metered")
                                                           ELSE Refuse(r)
        /\ UNCHANGED dbFaults
     \/ /\ minting[r].who = "user"
        /\ dbFaults < MaxDbFaults /\ dbFaults' = dbFaults + 1
        /\ Proceed(r, "metered")
  /\ UNCHANGED <<counter, passed, used, plan, machine, tokens>>

(* The ownership query: the machine is this account's and not revoked. *)
CheckMachine(r) ==
  /\ minting[r].at = "metered" /\ minting[r].dest = "machine"
  /\ IF minting[r].who = "user" /\ machine THEN Proceed(r, "owned") ELSE Refuse(r)
  /\ UNCHANGED <<counter, passed, used, plan, machine, tokens, dbFaults>>

(* A token stands for the earlier ones of its kind, which it outlives. *)
Mint(r) ==
  /\ \/ minting[r].at = "metered" /\ minting[r].dest = "host"
     \/ minting[r].at = "owned"
  /\ tokens' =
       {t \in tokens : t.who # minting[r].who \/ t.dest # minting[r].dest}
         \cup {[who |-> minting[r].who, dest |-> minting[r].dest,
                left |-> IF minting[r].who = "anon" THEN Ttl - 1 ELSE Ttl]}
  /\ Refuse(r)
  /\ UNCHANGED <<counter, passed, used, plan, machine, dbFaults>>

-------------------------------------------------------------------------------
(* The relay's report of the user's bytes (api/relay/usage), the month's   *)
(* end, a change of plan, the revocation of the machine.                   *)
Report ==
  /\ used < MaxUsed /\ used' = used + 1
  /\ UNCHANGED <<counter, passed, plan, machine, minting, tokens, dbFaults>>

NextPeriod ==
  /\ used' = 0
  /\ UNCHANGED <<counter, passed, plan, machine, minting, tokens, dbFaults>>

ChangePlan ==
  /\ plan' \in {"free", "pro"} \ {plan}
  /\ UNCHANGED <<counter, passed, used, machine, minting, tokens, dbFaults>>

Revoke ==
  /\ machine /\ machine' = FALSE
  /\ UNCHANGED <<counter, passed, used, plan, minting, tokens, dbFaults>>

(* clearStaleCounters *)
Swept(k) == IF k.age > Keep THEN NoCounter ELSE k

Sweep ==
  /\ counter' = [c \in Subjects |-> Swept(counter[c])]
  /\ UNCHANGED <<passed, used, plan, machine, minting, tokens, dbFaults>>

(* The count of a window that has elapsed is never read. *)
Aged(k) ==
  LET age == Least(k.age + 1, Keep + 1)
  IN [count |-> IF age >= Window THEN 0 ELSE k.count, age |-> age]

Tick ==
  /\ counter' = [c \in Subjects |-> Aged(counter[c])]
  /\ passed' = [c \in Subjects |-> [a \in 0..(Window - 1) |->
                                     IF a = 0 THEN 0 ELSE passed[c][a - 1]]]
  /\ tokens' = {[t EXCEPT !.left = @ - 1] : t \in {u \in tokens : u.left > 1}}
  /\ UNCHANGED <<used, plan, machine, minting, dbFaults>>

-------------------------------------------------------------------------------
Next ==
  \/ \E r \in Mints : CheckAllowance(r) \/ CheckMachine(r) \/ Mint(r)
  \/ \E r \in Mints, who \in Subjects, dest \in Dests : Ask(r, who, dest)
  \/ Report \/ NextPeriod \/ ChangePlan \/ Revoke \/ Sweep \/ Tick

Spec == Init /\ [][Next]_tokenVars

(* Time passes. *)
FairSpec == Spec /\ WF_tokenVars(Tick)

-------------------------------------------------------------------------------
(* The window is fixed, so a caller can spend two of them back to back and *)
(* no more: in any stretch as long as the window at most twice the limit   *)
(* gets through, whatever the requests overlap with and however the sweep  *)
(* of old counters falls (consume, clearStaleCounters).                    *)
BurstBounded ==
  \A c \in Subjects : passed[c][Window - 1] <= 2 * Limit

(* Access ends: once an account stays over its allowance, or its machine   *)
(* is revoked, the tokens that still open a connection run out, with every *)
(* request that was under way when it happened (relay-token route).        *)
AccessEnds ==
  /\ (<>[](used >= Allowance[plan])) => <>[](\A t \in tokens : t.who # "user")
  /\ (<>[]~machine) => <>[](\A t \in tokens : t.dest # "machine")
===============================================================================
