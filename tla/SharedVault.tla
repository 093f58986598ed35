------------------------------ MODULE SharedVault ------------------------------
(***************************************************************************)
(* What an account is promised of its vault, whoever syncs, when and       *)
(* through which failures: one document, replaced only by a document that  *)
(* carries on everything the earlier one said and lists nothing it knows   *)
(* to be deleted (lib/vault/sync.ts:9-10). Browsers, tabs, versions,       *)
(* requests and their conflicts are how VaultSync keeps it.                *)
(***************************************************************************)
EXTENDS VaultMerge

VARIABLE doc   \* what a device that syncs now would be given

Init == doc = EmptyDoc

Publish == Covers(doc', doc) /\ Clean(doc')

Spec == Init /\ [][Publish]_doc
===============================================================================
