----------------------------- MODULE RecoveryCodes ----------------------------
(***************************************************************************)
(* Recovery envelopes (apps/web/src/app/api/recovery/route.ts): one row    *)
(* per account holding one envelope for each unused code.  Redeeming a     *)
(* code reads the row, then writes back the set without that envelope, as  *)
(* two statements outside a transaction.                                   *)
(***************************************************************************)
EXTENDS Naturals

CONSTANTS Slots,      \* the codes of one enrolled set
          Requests,   \* redeem requests the server may be handling
          Overlap,    \* may two requests for one account overlap?
          MaxSets     \* bound: sets enrolled and rows created

RecoveryAssumption == Overlap \in BOOLEAN /\ MaxSets \in Nat

(* A code belongs to the set it was generated with. *)
Codes == (1..MaxSets) \X Slots

VARIABLES
  row,       \* recovery_blob: its id (0: no row) and the envelopes in it
  enrolled,  \* how many sets have been enrolled so far
  rows,      \* how many rows have been created so far
  req,       \* redeem requests between their read and their write
  handed     \* history: how often each code's envelope was handed out

vars == <<row, enrolled, rows, req, handed>>

NoRow == [id |-> 0, codes |-> {}]
NoRequest == [busy |-> FALSE, id |-> 0, codes |-> {}, spend |-> {}]

TypeOK ==
  /\ row \in [id : 0..MaxSets, codes : SUBSET Codes]
  /\ enrolled \in 0..MaxSets /\ rows \in 0..MaxSets
  /\ req \in [Requests -> [busy : BOOLEAN, id : 0..MaxSets,
                           codes : SUBSET Codes, spend : SUBSET Codes]]
  /\ handed \in [Codes -> 0..2]

Init ==
  /\ row = NoRow /\ enrolled = 0 /\ rows = 0
  /\ req = [q \in Requests |-> NoRequest]
  /\ handed = [c \in Codes |-> 0]

Free == Overlap \/ \A q \in Requests : ~req[q].busy

-------------------------------------------------------------------------------
(* enrol: the set is replaced wholesale; an existing row keeps its id. *)
Replace(old, new) == new

Enrol ==
  /\ Free
  /\ enrolled < MaxSets
  /\ enrolled' = enrolled + 1
  /\ rows' = IF row.id = 0 THEN rows + 1 ELSE rows
  /\ row' = [id |-> IF row.id = 0 THEN rows + 1 ELSE row.id,
             codes |-> Replace(row.codes, {enrolled + 1} \X Slots)]
  /\ UNCHANGED <<req, handed>>

(* redeem, up to the match: an unknown code or account gets a decoy and    *)
(* changes nothing.                                                        *)
RedeemRead(q, c) ==
  /\ Free
  /\ ~req[q].busy
  /\ c \in row.codes
  /\ req' = [req EXCEPT ![q] = [busy |-> TRUE, id |-> row.id,
                                codes |-> row.codes, spend |-> {c}]]
  /\ UNCHANGED <<row, enrolled, rows, handed>>

(* redeem, the write and the answer: the envelope is returned whether or   *)
(* not the update still matched a row.                                     *)
Unspent(q) == req[q].codes               \* mutant: nothing is consumed
Remaining(q) == req[q].codes \ req[q].spend

RedeemWrite(q) ==
  /\ req[q].busy
  /\ row' = IF row.id = req[q].id THEN [row EXCEPT !.codes = Remaining(q)] ELSE row
  /\ handed' = [c \in Codes |-> IF c \in req[q].spend THEN handed[c] + 1 ELSE handed[c]]
  /\ req' = [req EXCEPT ![q] = NoRequest]
  /\ UNCHANGED <<enrolled, rows>>

(* DELETE, from the settings page and at the end of a password change. *)
Disable ==
  /\ Free
  /\ row.id > 0
  /\ row' = NoRow
  /\ UNCHANGED <<enrolled, rows, req, handed>>

Next ==
  \/ Enrol \/ Disable
  \/ \E q \in Requests : RedeemWrite(q) \/ \E c \in Codes : RedeemRead(q, c)

Spec == Init /\ [][Next]_vars

-------------------------------------------------------------------------------
(* A code's envelope is handed out at most once: redemption consumes it    *)
(* rather than waiting for the client to say that it opened.               *)
AtMostOnce == \A c \in Codes : handed[c] <= 1

(* Regenerating the codes retires the old ones: only codes of the last set *)
(* that was enrolled are ever live.                                        *)
OldCodesRetired == \A c \in row.codes : c[1] = enrolled

(* A recovery code's envelope is handed out at most once, and regenerating *)
(* the codes retires the earlier ones (api/recovery).                      *)
CodesRight == AtMostOnce /\ OldCodesRetired
===============================================================================
