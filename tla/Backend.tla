-------------------------------- MODULE Backend -------------------------------
(***************************************************************************)
(* What the server keeps of an account and of its machines - recovery      *)
(* codes, devices, the credential, the mirror of a subscription, the key   *)
(* that signs commands - each with those that use it, under one set of     *)
(* names, and what must hold of each in every state.                       *)
(***************************************************************************)
EXTENDS Naturals, FiniteSets

CONSTANTS
  Slots, Requests, MaxSets,                                        \* RecoveryCodes
  Sessions, Members, Absent,                                       \* Devices
  Windows, Passwords, Nothing,                                     \* Accounts
  Checkouts, Deliveries, MaxNow, MaxPending, MaxFaults,            \* Billing
  Agents, Accounts, Owner, Envelopes,                              \* AgentKeys
  Ttl, Skew, Memory, Behind, MaxPerRun, MaxTime

VARIABLES
  blob, enrolled, created, req, handed,
  local, reg, signedIn, stamp, devices, revoking,
  account, credential, second, passkey, codes, cookie, screen, doing, held,
  user, row, tab, stripe, events, marks, hand, leaving, clock, faults, stuck,
  secret, previous, agent, trusted, online, minted, seen, carried, job, now

(* Requests for one account that do not overlap: two that do may hand an   *)
(* envelope out twice, see the run that expects it.                        *)
Recovery == INSTANCE RecoveryCodes WITH Overlap <- FALSE, row <- blob, rows <- created
Browsers == INSTANCE Devices
              WITH Users <- Members, None <- Absent, live <- signedIn, rows <- devices
SignIn == INSTANCE Accounts

(* Deliveries that are handled one at a time: of two that overlap the      *)
(* older may be written last.                                              *)
Paying == INSTANCE Billing
            WITH Tabs <- Checkouts, None <- Absent, MaxTime <- MaxNow, Overlap <- FALSE, now <- clock
Rotation == INSTANCE AgentKeys WITH None <- Absent, sent <- minted

-------------------------------------------------------------------------------
(* A recovery code's envelope is handed out at most once, and regenerating *)
(* the codes retires the earlier ones (api/recovery).                      *)
CodesRight == Recovery!CodesRight

(* A session is stamped with a device of its own account, key and not      *)
(* revoked (api/devices/route.ts:130-162).                                 *)
StampedRight == Browsers!StampedRight

(* A key that came by a sign-in or by a code is the account's key,         *)
(* whatever other tabs did meanwhile (auth-client.ts, actions.ts:91-94).   *)
KeyOfCredential == SignIn!KeyOfCredential

(* One account has one customer at Stripe, and once its deliveries are     *)
(* through, however late, repeated and out of order, the mirror grants     *)
(* what the subscription grants (lib/billing/subscription.ts).             *)
BillingFollows == Paying!BillingFollows

(* One run of a daemon carries an envelope out at most once, and what the  *)
(* rotation counts as done holds the new key (command.go,                  *)
(* maintenance/rotate-keys.ts).                                            *)
CommandsOnce == Rotation!CommandsOnce
===============================================================================
