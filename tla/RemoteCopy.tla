------------------------------ MODULE RemoteCopy ------------------------------
(***************************************************************************)
(* A copy between two hosts through the tab: a download that pushes chunks *)
(* and an upload that pulls them, joined by the ChunkBridge                *)
(* (lib/transfers/remote.ts), once for each dragged entry                  *)
(* (doRemoteCopy in components/file-explorer.tsx).                         *)
(***************************************************************************)
EXTENDS Naturals, Sequences

CONSTANTS
  HighWater,   \* HIGH_WATER_CHUNKS
  Sizes        \* the chunks of each dragged entry

CopyAssumption == HighWater \in Nat \ {0} /\ Sizes \in Seq(Nat) /\ Sizes # <<>>

VARIABLES
  entry,      \* the entry being copied
  reader,     \* the download: its state, the chunks it pushed and why it failed
  writer,     \* the upload, alike
  bridge,     \* the queue, and whether it has ended or failed
  aborted,    \* the transfer's AbortController
  transfer,   \* the transfer's row: "running", "complete", "failed" or "cancelled"
  landed      \* the chunks each destination file holds

copyVars == <<entry, reader, writer, bridge, aborted, transfer, landed>>

Fresh == [at |-> "busy", n |-> 0, why |-> "none"]
NewBridge == [queue |-> <<>>, ended |-> FALSE, failure |-> "none"]

Init ==
  /\ entry = 1 /\ reader = Fresh /\ writer = Fresh /\ bridge = NewBridge
  /\ aborted = FALSE /\ transfer = "running" /\ landed = [i \in DOMAIN Sizes |-> <<>>]

(* A half that waits is woken to look at the bridge again. *)
Woken(half) == IF half.at = "parked" THEN [half EXCEPT !.at = "woken"] ELSE half
Full(b) == Len(b.queue) >= HighWater /\ b.failure = "none" /\ ~b.ended

(* bridge.fail *)
Failed(why) == [bridge EXCEPT !.failure = why]

-------------------------------------------------------------------------------
(* The download hands the sink a chunk. push throws if the bridge has      *)
(* failed, and does not resolve while the queue is full.                   *)
Push ==
  /\ transfer = "running" /\ reader.at = "busy" /\ reader.n < Sizes[entry]
  /\ IF bridge.failure # "none"
     THEN /\ reader' = [reader EXCEPT !.at = "failed", !.why = bridge.failure]
          /\ writer' = Woken(writer) /\ UNCHANGED bridge
     ELSE LET b == [bridge EXCEPT !.queue = Append(@, reader.n + 1)] IN
          /\ bridge' = b
          /\ reader' = [reader EXCEPT !.n = @ + 1, !.at = IF Full(b) THEN "parked" ELSE "busy"]
          /\ writer' = Woken(writer)
  /\ UNCHANGED <<entry, aborted, transfer, landed>>

(* push goes round its loop. *)
PushAgain ==
  /\ reader.at = "woken"
  /\ \/ /\ bridge.failure # "none"
        /\ reader' = [reader EXCEPT !.at = "failed", !.why = bridge.failure]
     \/ /\ bridge.failure = "none"
        /\ reader' = [reader EXCEPT !.at = IF Full(bridge) THEN "parked" ELSE "busy"]
  /\ writer' = IF bridge.failure # "none" THEN Woken(writer) ELSE writer
  /\ UNCHANGED <<entry, bridge, aborted, transfer, landed>>

(* The source is exhausted, or its connection breaks. *)
ReadEnds ==
  /\ transfer = "running" /\ reader.at = "busy" /\ reader.n = Sizes[entry]
  /\ reader' = [reader EXCEPT !.at = "done"]
  /\ bridge' = [bridge EXCEPT !.ended = TRUE] /\ writer' = Woken(writer)
  /\ UNCHANGED <<entry, aborted, transfer, landed>>

ReadBreaks ==
  /\ transfer = "running" /\ reader.at = "busy"
  /\ reader' = [reader EXCEPT !.at = "failed", !.why = "error"]
  /\ bridge' = Failed("error") /\ writer' = Woken(writer)
  /\ UNCHANGED <<entry, aborted, transfer, landed>>

-------------------------------------------------------------------------------
(* next: a failure first, then what is queued, then the end. *)
Ends == bridge.queue = <<>> /\ bridge.ended

Pull ==
  /\ transfer = "running" /\ writer.at \in {"busy", "woken"}
  /\ \/ /\ bridge.failure # "none"
        /\ writer' = [writer EXCEPT !.at = "failed", !.why = bridge.failure]
        /\ reader' = Woken(reader) /\ UNCHANGED bridge
     \/ /\ bridge.failure = "none" /\ Ends
        /\ writer' = [writer EXCEPT !.at = "closing"]
        /\ UNCHANGED <<reader, bridge>>
     \/ /\ bridge.failure = "none" /\ ~Ends /\ bridge.queue # <<>>
        /\ writer' = [writer EXCEPT !.at = "writing", !.n = Head(bridge.queue)]
        /\ bridge' = [bridge EXCEPT !.queue = Tail(@)] /\ reader' = Woken(reader)
     \/ /\ bridge.failure = "none" /\ ~Ends /\ bridge.queue = <<>>
        /\ writer' = [writer EXCEPT !.at = "parked"] /\ UNCHANGED <<reader, bridge>>
  /\ UNCHANGED <<entry, aborted, transfer, landed>>

Written ==
  /\ writer.at \in {"writing", "closing"}
  /\ landed' = IF writer.at = "writing" THEN [landed EXCEPT ![entry] = Append(@, writer.n)] ELSE landed
  /\ writer' = [writer EXCEPT !.at = IF writer.at = "writing" THEN "busy" ELSE "done"]
  /\ UNCHANGED <<entry, reader, bridge, aborted, transfer>>

(* The destination refuses: the source must hear of it. *)
WokenNot(half) == half   \* mutant: the other half is not told
WriteFailedWakes(half) == Woken(half)

WriteBreaks ==
  /\ writer.at \in {"writing", "closing"}
  /\ writer' = [writer EXCEPT !.at = "failed", !.why = "error"]
  /\ bridge' = Failed("error") /\ reader' = WriteFailedWakes(reader)
  /\ UNCHANGED <<entry, aborted, transfer, landed>>

-------------------------------------------------------------------------------
(* The transfer's row is cancelled: the bridge fails under both halves. *)
Abort ==
  /\ transfer = "running" /\ ~aborted
  /\ aborted' = TRUE /\ bridge' = Failed("cancelled")
  /\ reader' = Woken(reader) /\ writer' = Woken(writer)
  /\ UNCHANGED <<entry, transfer, landed>>

(* Both halves have settled: the next entry, or the outcome. The source's  *)
(* failure is the one reported if there are two.                           *)
Outcome(why) == IF why = "cancelled" THEN "cancelled" ELSE "failed"

Settle ==
  /\ transfer = "running" /\ reader.at \in {"done", "failed"} /\ writer.at \in {"done", "failed"}
  /\ LET whole == reader.at = "done" /\ writer.at = "done" IN
     IF whole /\ entry < Len(Sizes) /\ ~aborted
     THEN /\ entry' = entry + 1 /\ reader' = Fresh /\ writer' = Fresh /\ bridge' = NewBridge
          /\ UNCHANGED transfer
     ELSE /\ transfer' = IF whole
                         THEN IF entry = Len(Sizes) THEN "complete" ELSE "cancelled"
                         ELSE Outcome(IF reader.at = "failed" THEN reader.why ELSE writer.why)
          /\ UNCHANGED <<entry, reader, writer, bridge>>
  /\ UNCHANGED <<aborted, landed>>

Next ==
  \/ Push \/ PushAgain \/ ReadEnds \/ ReadBreaks \/ Pull \/ Written \/ WriteBreaks
  \/ Abort \/ Settle

Spec == Init /\ [][Next]_copyVars

(* The two connections go on delivering, or break. *)
ReadStep == Push \/ PushAgain \/ ReadEnds \/ ReadBreaks
WriteStep == Pull \/ Written \/ WriteBreaks

-------------------------------------------------------------------------------
(* A copy that is reported complete is whole and in order, and what it     *)
(* holds in memory on the way never passes the high-water mark             *)
(* (remote.ts:12-15), however the halves interleave, break or are          *)
(* cancelled.                                                              *)
CopyWhole ==
  /\ Len(bridge.queue) <= HighWater
  /\ transfer = "complete" => \A i \in DOMAIN Sizes : landed[i] = [k \in 1..Sizes[i] |-> k]

(* And what the person sees of it, whatever the halves and the bridge do:  *)
(* chunks arrive one after the other, entry after entry, until the copy    *)
(* has ended, and nothing arrives in a file after that.                    *)
ChunkLands ==
  \E i \in DOMAIN Sizes :
    /\ \A j \in DOMAIN Sizes : /\ j < i => Len(landed[j]) = Sizes[j]
                              /\ j > i => landed[j] = <<>>
    /\ Len(landed[i]) < Sizes[i]
    /\ landed' = [landed EXCEPT ![i] = Append(@, Len(@) + 1)]
    /\ UNCHANGED transfer

CopyStops ==
  /\ transfer' # "running" /\ UNCHANGED landed
  /\ transfer' = "complete" => \A i \in DOMAIN Sizes : Len(landed[i]) = Sizes[i]

IsTransfer ==
  /\ transfer = "running" /\ \A i \in DOMAIN Sizes : landed[i] = <<>>
  /\ [][transfer = "running" /\ (ChunkLands \/ CopyStops)]_<<transfer, landed>>

(* The copy has ended, well or not: no half is left waiting for a peer     *)
(* that has given up (remote.ts:82-86).                                    *)
Settled == transfer # "running"
===============================================================================
