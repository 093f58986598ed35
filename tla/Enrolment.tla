------------------------------ MODULE Enrolment ------------------------------
(***************************************************************************)
(* How machines join one account: the tokens, the dialog that waits for    *)
(* one to be spent, the transaction that spends it, expiry and pruning,    *)
(* and the rows of the agents that hold their keys (app/api/agents,        *)
(* lib/agents/enrollment.ts, EnrollDialog). A token and the agent it       *)
(* becomes have one name.                                                  *)
(***************************************************************************)
EXTENDS Naturals, FiniteSets

CONSTANTS
  Tokens,     \* enrolment tokens, and the agents they become
  Keys,       \* keypairs machines hold; a cloned disk holds another's
  NoKey,
  MaxTokens   \* MAX_PENDING_ENROLLMENTS

EnrolmentAssumption == NoKey \notin Keys /\ MaxTokens \in Nat \ {0}

VARIABLES
  enrolment,  \* agent_enrollment: per token
  agentKey,   \* agent: per token, the key of the row
  revoked,    \* rows with revoked_at
  claim,      \* per token, the keys of enrol requests that took their clock
  dialog      \* EnrollDialog

enrolmentVars == <<enrolment, agentKey, revoked, claim, dialog>>

Closed == [phase |-> "closed", of |-> NoKey]

Init ==
  /\ enrolment = [t \in Tokens |-> "none"]
  /\ agentKey = [t \in Tokens |-> NoKey]
  /\ revoked = {}
  /\ claim = [t \in Tokens |-> {}]
  /\ dialog = Closed

-------------------------------------------------------------------------------
(* EnrollDialog opens and asks for a token. POST /api/agents refuses when  *)
(* too many are pending.                                                   *)
AddMachine(t) ==
  /\ dialog = Closed /\ enrolment[t] = "none"
  /\ IF Cardinality({s \in Tokens : enrolment[s] = "waiting"}) < MaxTokens
     THEN /\ enrolment' = [enrolment EXCEPT ![t] = "waiting"]
          /\ dialog' = [phase |-> "waiting", of |-> t]
     ELSE /\ dialog' = [phase |-> "error", of |-> NoKey]
          /\ UNCHANGED enrolment
  /\ UNCHANGED <<agentKey, revoked, claim>>

(* GET /api/agents/enrollments/[id]. *)
StatusUnexpired(t) ==   \* mutant: expiry is left for the caller to work out
  CASE enrolment[t] \in {"waiting", "expired"} -> "waiting"
    [] enrolment[t] = "used" -> "claimed"
    [] OTHER -> "missing"
Status(t) ==
  CASE enrolment[t] \in {"waiting", "expired"} -> enrolment[t]
    [] enrolment[t] = "used" -> IF agentKey[t] = NoKey THEN "expired" ELSE "claimed"
    [] OTHER -> "missing"

(* A poll of the dialog; one that fails changes nothing. *)
Poll ==
  /\ dialog.phase = "waiting"
  /\ dialog' = IF Status(dialog.of) \in {"claimed", "expired"}
               THEN [dialog EXCEPT !.phase = Status(dialog.of)] ELSE dialog
  /\ UNCHANGED <<enrolment, agentKey, revoked, claim>>

CloseDialog ==
  /\ dialog # Closed /\ dialog' = Closed
  /\ UNCHANGED <<enrolment, agentKey, revoked, claim>>

-------------------------------------------------------------------------------
(* POST /api/agents/enroll, up to the clock it judges the token by. *)
Present(t, k) ==
  /\ enrolment[t] = "waiting"
  /\ claim' = [claim EXCEPT ![t] = @ \cup {k}]
  /\ UNCHANGED <<enrolment, agentKey, revoked, dialog>>

(* The transaction: the token is spent and the row inserted, or neither;   *)
(* the unique index refuses a key that has a row already.                  *)
RolledBack(t) == enrolment[t]

Enrol(t, k) ==
  LET spendable == enrolment[t] \in {"waiting", "expired"}
      taken == \E s \in Tokens : agentKey[s] = k IN
  /\ k \in claim[t]
  /\ \/ ~spendable /\ UNCHANGED <<enrolment, agentKey>>
     \/ /\ spendable /\ taken
        /\ enrolment' = [enrolment EXCEPT ![t] = RolledBack(t)]
        /\ UNCHANGED agentKey
     \/ /\ spendable /\ ~taken
        /\ enrolment' = [enrolment EXCEPT ![t] = "used"]
        /\ agentKey' = [agentKey EXCEPT ![t] = k]
  /\ claim' = [claim EXCEPT ![t] = @ \ {k}]
  /\ UNCHANGED <<revoked, dialog>>

Expire(t) ==
  /\ enrolment[t] = "waiting"
  /\ enrolment' = [enrolment EXCEPT ![t] = "expired"]
  /\ UNCHANGED <<agentKey, revoked, claim, dialog>>

(* pruneAbandonedEnrollments; the grace is far longer than any request or  *)
(* the time between two polls.                                             *)
Prune(t) ==
  /\ enrolment[t] = "expired" /\ claim[t] = {}
  /\ dialog # [phase |-> "waiting", of |-> t]
  /\ enrolment' = [enrolment EXCEPT ![t] = "gone"]
  /\ UNCHANGED <<agentKey, revoked, claim, dialog>>

(* DELETE /api/agents/[id] keeps the row, and with ?forget=1 removes a     *)
(* revoked one; the enrolment goes with it.                                *)
Revoke(t) ==
  /\ agentKey[t] # NoKey /\ t \notin revoked
  /\ revoked' = revoked \cup {t}
  /\ UNCHANGED <<enrolment, agentKey, claim, dialog>>

Forget(t) ==
  /\ t \in revoked
  /\ agentKey' = [agentKey EXCEPT ![t] = NoKey]
  /\ enrolment' = [enrolment EXCEPT ![t] = "gone"]
  /\ revoked' = revoked \ {t}
  /\ UNCHANGED <<claim, dialog>>

-------------------------------------------------------------------------------
Next ==
  \/ \E t \in Tokens : AddMachine(t) \/ Expire(t) \/ Prune(t) \/ Revoke(t) \/ Forget(t)
  \/ \E t \in Tokens, k \in Keys : Present(t, k) \/ Enrol(t, k)
  \/ Poll \/ CloseDialog

Spec == Init /\ [][Next]_enrolmentVars

(* The dialog's timer fires, requests are answered, and time passes.       *)
FairSpec == Spec /\ WF_enrolmentVars(Poll) /\ \A t \in Tokens : WF_enrolmentVars(Expire(t))

-------------------------------------------------------------------------------
(* A token is spent exactly when a machine came of it, and a key, a        *)
(* revoked one included, has one row, whatever claims race the token or    *)
(* collide with a key enrolled before (agents/enroll, the transaction).    *)
SpentOnSuccess ==
  /\ \A t \in Tokens : (enrolment[t] = "used") = (agentKey[t] # NoKey)
  /\ \A s, t \in Tokens : s # t /\ agentKey[s] # NoKey => agentKey[s] # agentKey[t]

(* The dialog does not wait forever for a token that was spent or ran out; *)
(* only a machine forgotten before the next poll leaves it waiting, since  *)
(* the enrolment goes with it and the 404 is ignored (EnrollDialog).       *)
DialogSettles ==
  \A t \in Tokens : []<>(dialog = [phase |-> "waiting", of |-> t] => enrolment[t] = "gone")
===============================================================================
