------------------------------- MODULE Accounts -------------------------------
(***************************************************************************)
(* One account and the tabs of one browser: the ways in (sign-up, the      *)
(* password with and without a second factor, a recovery code, GitHub and  *)
(* a passkey), the first vault password of a GitHub account, unlocking,    *)
(* locking and signing out (lib/auth.ts, lib/auth-client.ts,               *)
(* components/auth-form.tsx, app/(auth), components/vault-unlock.tsx,      *)
(* lib/vault/session.ts). A password stands for the token, the vault key   *)
(* and the audit key that are derived from it.                             *)
(***************************************************************************)
EXTENDS Naturals

CONSTANTS Windows, Passwords, Nothing

AccountsAssumption == Nothing \notin Passwords

VARIABLES
  account,      \* "none", "open" or "deleted"
  credential,   \* the password whose token the server holds, if any
  second,       \* the authenticator: "off", "pending" its first code, or "on"
  passkey,      \* is a passkey registered?
  codes,        \* the password whose secrets the recovery envelopes hold
  cookie,       \* does the browser hold a session?
  screen,       \* what each tab shows
  doing,        \* each tab's request: its operation, password, step and answer
  held          \* each tab's key, and how it came by it

accountVars == <<account, credential, second, passkey, codes, cookie, screen, doing, held>>

Rest == [op |-> "none", p |-> Nothing, step |-> "none"]
Locked == [key |-> Nothing, by |-> "none"]

Init ==
  /\ account = "none" /\ credential = Nothing /\ second = "off" /\ cookie = FALSE
  /\ passkey = FALSE /\ codes = Nothing
  /\ screen = [w \in Windows |-> "form"] /\ doing = [w \in Windows |-> Rest]
  /\ held = [w \in Windows |-> Locked]

(* accountGate: where a load of the dashboard ends. *)
Gate == IF ~cookie THEN "form" ELSE IF credential = Nothing THEN "bootstrap" ELSE "dash"

Extra == <<second, passkey, codes>>
Server == <<account, credential, Extra, cookie>>
Answers(w, step) == doing' = [doing EXCEPT ![w].step = step]
Install(w, by) ==
  held' = [held EXCEPT ![w] = [key |-> doing[w].p, by |-> by]]

-------------------------------------------------------------------------------
(* A form is submitted, once: the keys are derived before the request. *)
Form(op) == [signup |-> "form", signin |-> "form", verify |-> "challenge", recover |-> "form",
             bootstrap |-> "bootstrap", unlock |-> "dash", signout |-> "dash"][op]

Submit(w, op, p) ==
  /\ doing[w].op = "none" /\ screen[w] = Form(op)
  /\ op = "unlock" => held[w] = Locked
  /\ doing' = [doing EXCEPT ![w] = [op |-> op, p |-> p, step |-> "sent"]]
  /\ UNCHANGED <<Server, screen, held>>

(* The challenge form answers for the password the sign-in derived. *)
Verify(w) ==
  /\ doing[w].op = "signin" /\ screen[w] = "challenge" /\ doing[w].step = "challenge"
  /\ doing' = [doing EXCEPT ![w].op = "verify", ![w].step = "sent"]
  /\ UNCHANGED <<Server, screen, held>>

(* The server's part of each, and what it answers. *)
ServeSignUp(w) ==
  /\ doing[w].op = "signup" /\ doing[w].step = "sent"
  /\ IF account = "none"
     THEN /\ account' = "open" /\ credential' = doing[w].p /\ cookie' = TRUE /\ Answers(w, "ok")
     ELSE UNCHANGED <<account, credential, cookie>> /\ Answers(w, "error")
  /\ UNCHANGED <<Extra, screen, held>>

(* A recovery code is redeemed for the secrets sealed under it, and their  *)
(* token signs in the way a password's does.                               *)
ServeRedeem(w) ==
  /\ doing[w].op = "recover" /\ doing[w].step = "sent"
  /\ doing' = [doing EXCEPT ![w].p = codes, ![w].step = IF codes = Nothing THEN "error" ELSE "token"]
  /\ UNCHANGED <<Server, screen, held>>

ServeSignIn(w) ==
  /\ \/ doing[w].op = "signin" /\ doing[w].step = "sent"
     \/ doing[w].op = "recover" /\ doing[w].step = "token"
  /\ LET right == account = "open" /\ doing[w].p = credential IN
     /\ cookie' = (cookie \/ (right /\ second # "on"))
     /\ Answers(w, IF ~right THEN "error" ELSE IF second = "on" THEN "challenge" ELSE "ok")
  /\ UNCHANGED <<account, credential, Extra, screen, held>>

ServeVerify(w) ==
  /\ doing[w].op = "verify" /\ doing[w].step = "sent"
  /\ \/ account = "open" /\ cookie' = TRUE /\ Answers(w, "ok")
     \/ UNCHANGED cookie /\ doing' = [doing EXCEPT ![w].op = "signin", ![w].step = "challenge"]
  /\ UNCHANGED <<account, credential, Extra, screen, held>>

(* setVaultPasswordCredential: the look, then the write, which refuses a   *)
(* second credential itself.                                               *)
LookForCredential(w) ==
  /\ doing[w].op = "bootstrap" /\ doing[w].step = "sent"
  /\ Answers(w, IF ~cookie THEN "error" ELSE IF credential # Nothing THEN "already-set" ELSE "write")
  /\ UNCHANGED <<Server, screen, held>>

SetPassword(w) ==
  /\ doing[w].op = "bootstrap" /\ doing[w].step = "write"
  /\ IF cookie /\ credential = Nothing
     THEN credential' = doing[w].p /\ Answers(w, "ok")
     ELSE UNCHANGED credential /\ Answers(w, "error")
  /\ UNCHANGED <<account, Extra, cookie, screen, held>>

ServeSignOut(w) ==
  /\ doing[w].op = "signout" /\ doing[w].step = "sent"
  /\ cookie' = FALSE /\ Answers(w, "ok")
  /\ UNCHANGED <<account, credential, Extra, screen, held>>

(* An unlock asks nobody. *)
Derived(w) ==
  /\ doing[w].op = "unlock" /\ doing[w].step = "sent" /\ Answers(w, "ok")
  /\ UNCHANGED <<Server, screen, held>>

RequestLost(w) ==
  /\ doing[w].step \in {"sent", "token"} /\ doing[w].op # "unlock" /\ Answers(w, "error")
  /\ UNCHANGED <<Server, screen, held>>

-------------------------------------------------------------------------------
(* The answer arrives. A challenge keeps the keys for the next form; a     *)
(* recovered sign-in has no form to ask in, and fails.                     *)
InstallsSet(answer) == answer \in {"ok", "already-set"}   \* mutant: a password that was set counts
Installs(answer) == answer = "ok"

Land(w) ==
  /\ doing[w].step \notin {"none", "sent", "write", "token"}
  /\ ~(doing[w].step = "challenge" /\ screen[w] = "challenge")
  /\ LET d == doing[w] IN
     \/ /\ Installs(d.step) /\ d.op # "signout"
        /\ Install(w, d.op) /\ screen' = [screen EXCEPT ![w] = "dash"]
        /\ doing' = [doing EXCEPT ![w] = Rest]
     \/ /\ d.op = "signout" /\ d.step = "ok"
        /\ held' = [held EXCEPT ![w] = Locked] /\ screen' = [screen EXCEPT ![w] = "form"]
        /\ doing' = [doing EXCEPT ![w] = Rest]
     \/ /\ d.step = "challenge" /\ d.op = "signin"
        /\ screen' = [screen EXCEPT ![w] = "challenge"] /\ UNCHANGED <<held, doing>>
     \/ /\ ~Installs(d.step) /\ ~(d.step = "challenge" /\ d.op = "signin")
        /\ doing' = [doing EXCEPT ![w] = Rest] /\ UNCHANGED <<held, screen>>
  /\ UNCHANGED Server

-------------------------------------------------------------------------------
(* GitHub: a session, and an account without a password if there is none.  *)
(* An account that has a password is not linked.                           *)
GitHub(w) ==
  /\ screen[w] = "form" /\ doing[w].op = "none" /\ account # "deleted"
  /\ account = "none" \/ credential = Nothing
  /\ account' = "open" /\ cookie' = TRUE
  /\ screen' = [screen EXCEPT ![w] = "bootstrap"]
  /\ UNCHANGED <<credential, Extra, doing, held>>

Passkey(w) ==
  /\ screen[w] = "form" /\ doing[w].op = "none" /\ account = "open" /\ passkey
  /\ cookie' = TRUE /\ screen' = [screen EXCEPT ![w] = "dash"]
  /\ UNCHANGED <<account, credential, Extra, doing, held>>

(* A load starts the tab over: the key was only in memory. *)
Load(w) ==
  /\ screen' = [screen EXCEPT ![w] = Gate] /\ doing' = [doing EXCEPT ![w] = Rest]
  /\ held' = [held EXCEPT ![w] = Locked]
  /\ UNCHANGED Server

Lock(w) ==
  /\ screen[w] = "dash" /\ held[w] # Locked /\ held' = [held EXCEPT ![w] = Locked]
  /\ UNCHANGED <<Server, screen, doing>>

-------------------------------------------------------------------------------
(* The settings page, on which each of these first asks for the password   *)
(* or for a session that is still good.                                    *)
AtSettings(w) == screen[w] = "dash" /\ cookie /\ account = "open" /\ credential # Nothing

(* The authenticator is on once a code from it was accepted. *)
BeginSecondFactor(w) ==
  /\ AtSettings(w) /\ second = "off"
  /\ second' = "pending"
  /\ UNCHANGED <<account, credential, passkey, codes, cookie, screen, doing, held>>

ConfirmSecondFactor(w) ==
  /\ AtSettings(w) /\ second = "pending"
  /\ second' = "on"
  /\ UNCHANGED <<account, credential, passkey, codes, cookie, screen, doing, held>>

TurnOffSecondFactor(w) ==
  /\ AtSettings(w) /\ second = "on"
  /\ second' = "off"
  /\ UNCHANGED <<account, credential, passkey, codes, cookie, screen, doing, held>>

ChangePasskey(w) ==
  /\ AtSettings(w)
  /\ passkey' = ~passkey
  /\ UNCHANGED <<account, credential, second, codes, cookie, screen, doing, held>>

(* Recovery codes are sealed with the secrets of the password typed, which *)
(* must be the one this tab was unlocked with.                             *)
MatchesSession(w, p) == held[w].key = p

EnrolCodes(w, p) ==
  /\ AtSettings(w) /\ held[w] # Locked /\ MatchesSession(w, p)
  /\ codes' = p
  /\ UNCHANGED <<account, credential, second, passkey, cookie, screen, doing, held>>

DisableCodes(w) ==
  /\ AtSettings(w) /\ codes # Nothing
  /\ codes' = Nothing
  /\ UNCHANGED <<account, credential, second, passkey, cookie, screen, doing, held>>

DeleteAccount(w) ==
  /\ AtSettings(w)
  /\ account' = "deleted" /\ credential' = Nothing
  /\ second' = "off" /\ passkey' = FALSE /\ codes' = Nothing /\ cookie' = FALSE
  /\ held' = [held EXCEPT ![w] = Locked] /\ screen' = [screen EXCEPT ![w] = "form"]
  /\ UNCHANGED doing

Next ==
  \/ \E w \in Windows :
       \/ \E p \in Passwords, op \in {"signup", "signin", "bootstrap", "unlock"} : Submit(w, op, p)
       \/ \E op \in {"recover", "signout"} : Submit(w, op, Nothing)
       \/ Verify(w) \/ ServeSignUp(w) \/ ServeRedeem(w) \/ ServeSignIn(w) \/ ServeVerify(w) \/ LookForCredential(w)
       \/ SetPassword(w) \/ ServeSignOut(w) \/ Derived(w) \/ RequestLost(w) \/ Land(w)
       \/ GitHub(w) \/ Passkey(w) \/ Load(w) \/ Lock(w)
       \/ BeginSecondFactor(w) \/ ConfirmSecondFactor(w) \/ TurnOffSecondFactor(w)
       \/ ChangePasskey(w) \/ DisableCodes(w) \/ DeleteAccount(w)
       \/ \E p \in Passwords : EnrolCodes(w, p)

Spec == Init /\ [][Next]_accountVars

-------------------------------------------------------------------------------
(* A key that came by a sign-in, by a sign-up, by the first password or by *)
(* a recovery code is the key of the account's password, whatever the      *)
(* other tabs did meanwhile. Two tabs that set the first password race,    *)
(* and only the one whose password was stored holds a key                  *)
(* (actions.ts:91-94).                                                     *)
KeyOfCredential ==
  account = "open" => \A w \in Windows :
    held[w] # Locked /\ held[w].by # "unlock" => held[w].key = credential

(* "A typo cannot produce codes that open nothing" (settings/page.tsx:     *)
(* 2204): the secrets in the envelopes are those of the account's password.*)
CodesOpen == account = "open" /\ codes # Nothing => codes = credential
===============================================================================
