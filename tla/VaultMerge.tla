------------------------------ MODULE VaultMerge ------------------------------
(***************************************************************************)
(* The pure half of vault sync: what a vault document is and how two of    *)
(* them are merged (apps/web/src/lib/vault/sync.ts, mergeById and          *)
(* mergeVault).                                                            *)
(*                                                                         *)
(* A document maps every record id to the copy it holds and to the time at *)
(* which that id was deleted.  The four record kinds (hosts, portable      *)
(* keys, pinned host keys, snippets) merge by the same rule and share one  *)
(* tombstone map, so an id here stands for a record of any kind and its    *)
(* stamp for the number that kind merges on.  Stamps are positive; stamp 0 *)
(* is "no such record" and tombstone 0 "never deleted", which is how the   *)
(* code reads them too (`tombstones[id] ?? 0` and `!deletedAt`).           *)
(***************************************************************************)
EXTENDS Integers

CONSTANTS Ids,     \* record ids
          Vals,    \* what a record can say, apart from its stamp
          NoVal    \* the content of an absent record

ASSUME NoValAssumption == NoVal \notin Vals

Record == [stamp : Nat, val : Vals \cup {NoVal}]

NoRecord == [stamp |-> 0, val |-> NoVal]

Document == [rec : [Ids -> Record], tomb : [Ids -> Nat]]

EmptyDoc == [rec |-> [i \in Ids |-> NoRecord], tomb |-> [i \in Ids |-> 0]]

Held(d) == {i \in Ids : d.rec[i].stamp > 0}

-------------------------------------------------------------------------------
(* mergeById: the remote copy is inserted first and only a strictly newer  *)
(* local stamp displaces it; a tombstone at or past the winner drops it.   *)
NewerRemote(local, remote) == IF remote.stamp > 0 THEN remote ELSE local   \* mutant
Newer(local, remote) == IF local.stamp > remote.stamp THEN local ELSE remote

SurvivesTie(r, deletedAt) == deletedAt = 0 \/ r.stamp >= deletedAt   \* mutant
Survives(r, deletedAt) == deletedAt = 0 \/ r.stamp > deletedAt

MergeById(local, remote, tomb) ==
  [i \in Ids |-> LET winner == Newer(local[i], remote[i])
                 IN  IF Survives(winner, tomb[i]) THEN winner ELSE NoRecord]

MergeTombstonesRemote(local, remote) ==   \* mutant: the remote map replaces
  [i \in Ids |-> IF remote[i] > 0 THEN remote[i] ELSE local[i]]

MergeTombstones(local, remote) ==
  [i \in Ids |-> IF local[i] > remote[i] THEN local[i] ELSE remote[i]]

MergeVault(local, remote) ==
  LET tomb == MergeTombstones(local.tomb, remote.tomb)
  IN  [rec |-> MergeById(local.rec, remote.rec, tomb), tomb |-> tomb]

-------------------------------------------------------------------------------
(* What "nothing was lost" means: d carries on everything old said.  Every *)
(* record of old is still there as it was, or was displaced by a newer     *)
(* write, or was deleted at or after its stamp; and no deletion is         *)
(* forgotten.                                                              *)
KeepsRecord(d, old, i) ==
  \/ old.rec[i].stamp = 0
  \/ d.rec[i] = old.rec[i]
  \/ d.rec[i].stamp > old.rec[i].stamp
  \/ d.tomb[i] >= old.rec[i].stamp

Covers(d, old) ==
  \A i \in Ids : d.tomb[i] >= old.tomb[i] /\ KeepsRecord(d, old, i)

(* No deleted record is still listed. *)
Clean(d) == \A i \in Held(d) : d.rec[i].stamp > d.tomb[i]
===============================================================================
