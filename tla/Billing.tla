------------------------------- MODULE Billing -------------------------------
(***************************************************************************)
(* The local mirror of Stripe's subscriptions, for one account             *)
(* (apps/web/src/lib/billing and the routes under api/billing): checkouts   *)
(* started in several tabs, webhook deliveries in any order, more than     *)
(* once and failing half way, and the deletion of the account.             *)
(*                                                                         *)
(* A checkout session, the customer it may create and the subscription it  *)
(* may end in are named by the tab that started it. Stripe's side is       *)
(* modelled from how the code uses it.                                     *)
(***************************************************************************)
EXTENDS Naturals, FiniteSets

CONSTANTS
  Tabs,         \* checkout attempts
  Deliveries,   \* webhook requests
  Overlap,      \* may two of them be handled at the same time?
  None,
  MaxTime,      \* bound: seconds and billing periods that pass
  MaxPending,   \* bound: events Stripe has not had an answer for
  MaxFaults     \* bound: deliveries that fail and processes that die

BillingAssumption ==
  /\ None \notin Tabs /\ Overlap \in BOOLEAN
  /\ {MaxTime, MaxPending, MaxFaults} \subseteq Nat

VARIABLES
  user,     \* is there a user row?
  row,      \* the subscription row: sub, status, customer, end, flag, at
  tab,      \* each checkout: where it is, the customer it resolved
  stripe,   \* Stripe's subscriptions
  events,   \* what Stripe has not had a 2xx for
  marks,    \* stripe_event, as far as Stripe may still deliver it
  hand,     \* webhook handlers: event, subscription in hand, row they read
  leaving,  \* the deletion of the account
  now,
  faults,
  stuck     \* history: events marked as done that were not

vars == <<user, row, tab, stripe, events, marks, hand, leaving, now, faults, stuck>>

NoRow == [there |-> FALSE, sub |-> None, customer |-> None, status |-> "none",
          end |-> 0, cancelling |-> FALSE, at |-> 0]
NoSub == [status |-> "none", customer |-> None, end |-> 0, cancelling |-> FALSE, since |-> 0]
Idle == [phase |-> "idle", event |-> None, sub |-> NoSub, row |-> NoRow]

Init ==
  /\ user = TRUE /\ row = NoRow /\ leaving = "no"
  /\ tab = [t \in Tabs |-> [phase |-> "new", customer |-> None]]
  /\ stripe = [t \in Tabs |-> NoSub]
  /\ events = {} /\ marks = {} /\ stuck = {}
  /\ hand = [d \in Deliveries |-> Idle]
  /\ now = 1 /\ faults = 0

-------------------------------------------------------------------------------
(* tierForSubscription: active grants outright, a card being retried until *)
(* the period ends, a scheduled cancellation until then, nothing else.     *)
GrantsPro(s) ==
  \/ s.status = "active"
  \/ s.status = "past_due" /\ now < s.end
  \/ s.status = "canceled" /\ s.cancelling /\ now < s.end

(* POST /api/billing/checkout, the first guard: the mirror. *)
StartCheckout(t) ==
  /\ tab[t].phase = "new" /\ user
  /\ tab' = [tab EXCEPT ![t].phase = IF GrantsPro(row) THEN "refused" ELSE "customer"]
  /\ UNCHANGED <<user, row, stripe, events, marks, hand, leaving, now, faults, stuck>>

(* customerIdFor: the row's customer, or one created at Stripe. *)
FindCustomer(t) ==
  /\ tab[t].phase = "customer"
  /\ tab' = [tab EXCEPT ![t] = IF row.there
                               THEN [phase |-> "resolved", customer |-> row.customer]
                               ELSE [phase |-> "created", customer |-> t]]
  /\ UNCHANGED <<user, row, stripe, events, marks, hand, leaving, now, faults, stuck>>

(* The insert that leaves an existing row alone, then the row as it is. *)
Settled(t, r) == r.customer

SaveCustomer(t) ==
  /\ tab[t].phase = "created" /\ user
  /\ row' = IF row.there THEN row ELSE [NoRow EXCEPT !.there = TRUE, !.customer = t]
  /\ tab' = [tab EXCEPT ![t] = [phase |-> "resolved", customer |-> Settled(t, row')]]
  /\ UNCHANGED <<user, stripe, events, marks, hand, leaving, now, faults, stuck>>

(* The second guard, at Stripe, and the session that is then created. *)
OpenSession(t) ==
  /\ tab[t].phase = "resolved"
  /\ tab' = [tab EXCEPT ![t].phase =
               IF \E s \in Tabs : stripe[s].customer = tab[t].customer /\ GrantsPro(stripe[s])
               THEN "refused" ELSE "open"]
  /\ UNCHANGED <<user, row, stripe, events, marks, hand, leaving, now, faults, stuck>>

-------------------------------------------------------------------------------
(* Stripe. An event carries the subscription, or names it for the handler  *)
(* to fetch (checkout.session.completed, invoice.payment_failed).          *)
Event(s, sub, fetch) == [of |-> s, sub |-> sub, fetch |-> fetch, at |-> now]

EmitAll(new) == events' = events \cup new /\ Cardinality(events') <= MaxPending
Emit(s, sub) == EmitAll({Event(s, sub, FALSE)})
EmitAlso(s, sub) == EmitAll({Event(s, sub, FALSE), Event(s, NoSub, TRUE)})

(* The customer pays: checkout.session.completed and ...created. *)
Pay(t) ==
  LET s == [status |-> "active", customer |-> tab[t].customer, end |-> now + 1,
            cancelling |-> FALSE, since |-> now] IN
  /\ tab[t].phase = "open"
  /\ tab' = [tab EXCEPT ![t].phase = "paid"]
  /\ stripe' = [stripe EXCEPT ![t] = s]
  /\ EmitAlso(t, s)
  /\ UNCHANGED <<user, row, marks, hand, leaving, now, faults, stuck>>

(* A subscription changes, at most once in a second. *)
Quiet(t) == stripe[t].since < now

Change(t, s) ==
  /\ Quiet(t)
  /\ stripe' = [stripe EXCEPT ![t] = s]
  /\ UNCHANGED <<user, row, tab, marks, hand, leaving, now, faults, stuck>>

CardFails(t) ==
  LET s == [stripe[t] EXCEPT !.status = "past_due", !.since = now] IN
  /\ stripe[t].status = "active"
  /\ Change(t, s) /\ EmitAlso(t, s)

(* At once, or at the end of the period (cancel_at_period_end). *)
Canceled(t, atPeriodEnd) ==
  [stripe[t] EXCEPT !.status = "canceled", !.cancelling = atPeriodEnd, !.since = now]

Ends(t) == \E c \in BOOLEAN :
  /\ stripe[t].status \in {"active", "past_due"}
  /\ Change(t, Canceled(t, c)) /\ Emit(t, Canceled(t, c))

-------------------------------------------------------------------------------
(* The webhook. The claim is the insert of the event's id: a delivery that *)
(* conflicts is answered 200 and Stripe is done with it.                   *)
Free(d) == hand[d] = Idle /\ (Overlap \/ \A c \in Deliveries : hand[c] = Idle)

Claim(d, e) ==
  /\ Free(d)
  /\ IF e \in marks
     THEN /\ \A c \in Deliveries : hand[c].event # e
          /\ events' = events \ {e} /\ marks' = marks \ {e}
          /\ UNCHANGED hand
     ELSE /\ marks' = marks \cup {e}
          /\ hand' = [hand EXCEPT ![d] = [Idle EXCEPT !.phase = IF e.fetch THEN "fetch" ELSE "read",
                                                      !.event = e, !.sub = e.sub]]
          /\ UNCHANGED events
  /\ UNCHANGED <<user, row, tab, stripe, leaving, now, faults, stuck>>

(* handle: subscriptions.retrieve, for the events that only name one. *)
Retrieve(d) ==
  /\ hand[d].phase = "fetch"
  /\ hand' = [hand EXCEPT ![d].phase = "read", ![d].sub = stripe[hand[d].event.of]]
  /\ UNCHANGED <<user, row, tab, stripe, events, marks, leaving, now, faults, stuck>>

(* mirrorSubscription: whose it is, and the row as it is now. The metadata *)
(* of a checkout names the user even when no row does.                     *)
ReadRow(d) ==
  /\ hand[d].phase = "read"
  /\ hand' = [hand EXCEPT ![d].phase = "decide", ![d].row = row]
  /\ UNCHANGED <<user, row, tab, stripe, events, marks, leaving, now, faults, stuck>>

SameSub(h) == h.row.there /\ h.row.sub = h.event.of

Stale(h) == SameSub(h) /\ h.event.at < h.row.at

(* stillGranting asks Stripe; when Stripe cannot be reached it says yes. *)
TakesAccess(h) ==
  /\ h.row.there /\ h.row.sub # None /\ ~SameSub(h)
  /\ GrantsPro(h.row) /\ ~GrantsPro(h.sub)
  /\ GrantsPro(stripe[h.row.sub])

Answered(d) ==
  /\ hand' = [hand EXCEPT ![d] = Idle]
  /\ events' = events \ {hand[d].event}
  /\ marks' = marks \ {hand[d].event}

Skip(d) ==
  /\ hand[d].phase = "decide" /\ (Stale(hand[d]) \/ TakesAccess(hand[d]))
  /\ Answered(d)
  /\ UNCHANGED <<user, row, tab, stripe, leaving, now, faults, stuck>>

(* The upsert; the foreign key refuses it once the user is gone. *)
Mirror(d) ==
  LET h == hand[d] IN
  /\ h.phase = "decide" /\ ~Stale(h) /\ ~TakesAccess(h) /\ user
  /\ row' = [there |-> TRUE, sub |-> h.event.of, customer |-> h.sub.customer,
             status |-> h.sub.status, end |-> h.sub.end,
             cancelling |-> h.sub.cancelling, at |-> h.event.at]
  /\ Answered(d)
  /\ UNCHANGED <<user, tab, stripe, leaving, now, faults, stuck>>

Failing(d) == hand[d].phase = "decide" /\ ~Stale(hand[d]) /\ ~TakesAccess(hand[d]) /\ ~user

FreedNever(e) == {}      \* mutant: the claim outlives the failure
Freed(e) == {e}

(* Processing throws: the claim is released and Stripe delivers again. *)
Release(d) ==
  /\ hand[d] # Idle
  /\ IF Failing(d) THEN UNCHANGED faults ELSE faults < MaxFaults /\ faults' = faults + 1
  /\ hand' = [hand EXCEPT ![d] = Idle]
  /\ marks' = marks \ Freed(hand[d].event)
  /\ UNCHANGED <<user, row, tab, stripe, events, leaving, now, stuck>>

(* The process dies, or the claim cannot be cleared: the event stays       *)
(* marked and the next delivery of it does nothing.                        *)
Die(d) ==
  /\ hand[d] # Idle
  /\ faults < MaxFaults /\ faults' = faults + 1
  /\ hand' = [hand EXCEPT ![d] = Idle]
  /\ stuck' = stuck \cup {hand[d].event}
  /\ UNCHANGED <<user, row, tab, stripe, events, marks, leaving, now>>

-------------------------------------------------------------------------------
(* cancelSubscriptionForDeletion, then the user with everything it owns.   *)
Live(r) == r.sub # None /\ r.status \notin {"none", "canceled"}

CancelForDeletion ==
  /\ user /\ leaving = "no"
  /\ leaving' = "cancelled"
  /\ IF Live(row) /\ stripe[row.sub].status # "canceled"
     THEN LET s == Canceled(row.sub, FALSE) IN
          /\ Quiet(row.sub)
          /\ stripe' = [stripe EXCEPT ![row.sub] = s]
          /\ Emit(row.sub, s)
     ELSE UNCHANGED <<stripe, events>>
  /\ UNCHANGED <<user, row, tab, marks, hand, now, faults, stuck>>

DeleteUser ==
  /\ leaving = "cancelled" /\ user
  /\ user' = FALSE /\ row' = NoRow
  /\ UNCHANGED <<tab, stripe, events, marks, hand, leaving, now, faults, stuck>>

Tick ==
  /\ now < MaxTime /\ now' = now + 1
  /\ UNCHANGED <<user, row, tab, stripe, events, marks, hand, leaving, faults, stuck>>

-------------------------------------------------------------------------------
Handler(d) == Retrieve(d) \/ ReadRow(d) \/ Skip(d) \/ Mirror(d)

Checkout(t) == StartCheckout(t) \/ FindCustomer(t) \/ SaveCustomer(t) \/ OpenSession(t)

Next ==
  \/ \E t \in Tabs : Checkout(t) \/ Pay(t) \/ CardFails(t) \/ Ends(t)
  \/ \E d \in Deliveries : Handler(d) \/ Release(d) \/ Die(d)
  \/ \E d \in Deliveries, e \in events : Claim(d, e)
  \/ CancelForDeletion \/ DeleteUser \/ Tick

Spec == Init /\ [][Next]_vars

-------------------------------------------------------------------------------
(* One account has one Stripe customer: whatever two tabs do at the same   *)
(* time, every subscription belongs to the customer the row names, or "a   *)
(* second customer for the same person means two invoice histories"        *)
(* (customerIdFor).                                                        *)
OneInvoiceHistory ==
  \A t \in Tabs : user /\ stripe[t].customer # None => stripe[t].customer = row.customer

(* The mirror catches up: however late, repeated, failed and out of order  *)
(* the deliveries, once Stripe has none left the row grants what the one   *)
(* subscription of the account grants, unless a claim was left behind or   *)
(* the account has gone. With two subscriptions the stamps of one do not   *)
(* order the other's, and a late event of the ended one may land last      *)
(* (mirrorSubscription).                                                   *)
MirrorCaughtUp ==
  \A t \in Tabs :
    \/ events # {} \/ stuck # {} \/ ~user \/ stripe[t] = NoSub
    \/ \E s \in Tabs \ {t} : stripe[s] # NoSub
    \/ GrantsPro(row) = GrantsPro(stripe[t])

(* "An older active landing on top of a newer canceled would be a grant    *)
(* nothing ever takes back. mirrorSubscription refuses it"                 *)
(* (subscription.ts:43-45): a subscription that has ended and whose events *)
(* were all answered does not stay active in the mirror.                   *)
OlderNeverWins ==
  \A t \in Tabs :
    \/ events # {} \/ stuck # {} \/ ~user \/ row.sub # t
    \/ stripe[t].status = "canceled" => row.status # "active"

(* One account has one customer at Stripe, and once its deliveries are     *)
(* through, however late, repeated and out of order, the mirror grants     *)
(* what the subscription grants (lib/billing/subscription.ts).             *)
BillingFollows == OneInvoiceHistory /\ MirrorCaughtUp
===============================================================================
