------------------------------ MODULE PlanView ------------------------------
(***************************************************************************)
(* What one tab knows of the account's plan: the module-level cache of     *)
(* lib/billing/client.ts, the route that fills it, and the billing card    *)
(* of the settings page with its Refresh button and its two ways to        *)
(* Stripe.  The subscription table itself is module Billing's; here it     *)
(* changes on its own.                                                     *)
(***************************************************************************)
CONSTANTS
    Users,        \* accounts that sign in to this tab, one after the other
    Nobody

ViewAssumption == Nobody \notin Users

VARIABLES
    account,      \* who is signed in, by the session cookie
    mirror,       \* the tier the subscription table gives each account
    shown,        \* view.billing: the tier, "assumed", or nothing yet
    loading,      \* view.loading
    error,        \* view.error
    flight,       \* inFlight: none, sent, or the answer on its way
    busy,         \* the billing card's busy
    pressed       \* Refresh was pressed and nothing has changed since

viewVars == <<account, mirror, shown, loading, error, flight, busy, pressed>>

Tiers == {"free", "pro"}

Init ==
    /\ account \in Users
    /\ mirror \in [Users -> Tiers]
    /\ shown = "unknown" /\ loading = FALSE /\ error = FALSE
    /\ flight = "none"
    /\ busy = "none"
    /\ pressed = FALSE

-----------------------------------------------------------------------------
(* loadBilling                                                             *)

\* A plan already cached is returned unless the read is forced.
WantsIfUnknown(force) == shown = "unknown"   \* a force that is not looked at
Wants(force) == force \/ shown = "unknown"

\* One read at a time: whoever asks during one waits for it.
LoadBilling(force) ==
    IF Wants(force) /\ flight = "none"
    THEN flight' = "sent" /\ loading' = TRUE /\ error' = FALSE
    ELSE UNCHANGED <<flight, loading, error>>

\* useBilling on a page that mounts.
Mount ==
    /\ LoadBilling(FALSE)
    /\ UNCHANGED <<account, mirror, shown, busy, pressed>>

\* The card is opened by a return from Stripe.
Returned ==
    /\ LoadBilling(TRUE)
    /\ UNCHANGED <<account, mirror, shown, busy, pressed>>

\* The card's button, disabled during a read.
Refresh ==
    /\ ~loading
    /\ LoadBilling(TRUE)
    /\ pressed' = TRUE
    /\ UNCHANGED <<account, mirror, shown, busy>>

\* GET /api/billing/subscription: the session's own account, or the assumption
\* that grants when the table cannot be read.
Answer(readable) ==
    IF account = Nobody THEN "401" ELSE IF readable THEN mirror[account] ELSE "assumed"

ServerAnswers(readable) ==
    /\ flight = "sent"
    /\ flight' = Answer(readable)
    /\ UNCHANGED <<account, mirror, shown, loading, error, busy, pressed>>

\* Signed out, nothing is knowable; otherwise the answer is the plan.
Arrives ==
    /\ flight \notin {"none", "sent"}
    /\ shown' = IF flight = "401" THEN "unknown" ELSE flight
    /\ loading' = FALSE /\ error' = FALSE
    /\ flight' = "none"
    /\ UNCHANGED <<account, mirror, busy, pressed>>

\* The read fails: the plan stays what it was.
Fails ==
    /\ flight # "none"
    /\ loading' = FALSE /\ error' = TRUE
    /\ flight' = "none"
    /\ UNCHANGED <<account, mirror, shown, busy, pressed>>

-----------------------------------------------------------------------------
(* The card                                                                *)

\* Checkout is offered to a free account, the portal to one with a customer.
Offered(what) ==
    /\ shown # "unknown"
    /\ what = "checkout" => shown = "free"

Go(what) ==
    /\ busy = "none" /\ Offered(what)
    /\ busy' = what
    /\ UNCHANGED <<account, mirror, shown, loading, error, flight, pressed>>

\* The route gave no address: the buttons come back.
GoFails ==
    /\ busy # "none"
    /\ busy' = "none"
    /\ UNCHANGED <<account, mirror, shown, loading, error, flight, pressed>>

\* A full navigation to Stripe: the tab's memory goes with the page.
Leaves ==
    /\ busy # "none"
    /\ busy' = "none"
    /\ shown' = "unknown" /\ loading' = FALSE /\ error' = FALSE /\ flight' = "none"
    /\ pressed' = FALSE
    /\ UNCHANGED <<account, mirror>>

-----------------------------------------------------------------------------
(* The world                                                               *)

\* The webhook mirrors a change, or a period ends.
MirrorChanges(u) ==
    /\ \E t \in Tiers \ {mirror[u]} : mirror' = [mirror EXCEPT ![u] = t]
    /\ pressed' = FALSE
    /\ UNCHANGED <<account, shown, loading, error, flight, busy>>

\* Sign-out and sign-in are client navigations: the module's cache stays.
SignOut ==
    /\ account # Nobody
    /\ account' = Nobody /\ busy' = "none" /\ pressed' = FALSE
    /\ UNCHANGED <<mirror, shown, loading, error, flight>>

SignIn(u) ==
    /\ account = Nobody
    /\ account' = u /\ pressed' = FALSE
    /\ UNCHANGED <<mirror, shown, loading, error, flight, busy>>

Next ==
    \/ Mount \/ Returned \/ Refresh
    \/ \E readable \in BOOLEAN : ServerAnswers(readable)
    \/ Arrives \/ Fails
    \/ \E what \in {"checkout", "portal"} : Go(what)
    \/ GoFails \/ Leaves
    \/ \E u \in Users : MirrorChanges(u) \/ SignIn(u)
    \/ SignOut

Spec == Init /\ [][Next]_viewVars

-----------------------------------------------------------------------------

\* Refresh is the answer to a stale plan: once it was pressed and the read has
\* ended well, with nothing changed in between, the card shows what the table
\* says of whoever is signed in, whatever other page's read, earlier account or
\* failed answer came before.
RefreshIsCurrent ==
    pressed /\ ~loading /\ ~error /\ account # Nobody
        => shown \in {mirror[account], "assumed"}

=============================================================================
