------------------------------ MODULE Indexer ------------------------------
(***************************************************************************)
(* The indexer's tape (indexer/src/tape/poller.ts and cursor.ts, driven by *)
(* main.ts): at boot it walks the program's signatures backwards to a      *)
(* floor, then it follows the chain tick by tick, newest pages first,      *)
(* fetching transactions in batches.  The tape and three cursors are a     *)
(* database that survives a crash; all else is lost.  A signature is its   *)
(* place in the chain's order, so the node's answers are intervals.        *)
(* A fault is a request that fails, a transaction the node answers with    *)
(* null or that cannot be decoded, or a crash.                             *)
(***************************************************************************)
EXTENDS Integers, Sequences

CONSTANTS
    StartSigs,     \* signatures on the chain when the indexer is first run
    MaxSig,
    Floor,         \* signatures up to here are older than backfillFloor
    PageSize, BatchSize,
    MaxFaults

ASSUME IndexerAssumption ==
    /\ StartSigs \in Nat /\ MaxSig \in Nat /\ StartSigs <= MaxSig
    /\ Floor \in Nat
    /\ PageSize \in Nat \ {0} /\ BatchSize \in Nat \ {0}
    /\ MaxFaults \in Nat

VARIABLES
    landed,          \* signatures on the chain
    txs,             \* the tape
    cursorSig, backfillBefore, backfillDone,   \* meta; 0 is null
    pc,
    pages,           \* pages in hand, newest first, without what was fetched
    newest, oldest,  \* of the pages in hand
    failed,          \* batchFailures > 0 in this walk
    skipped,         \* answered with null, or not decodable
    dropped,         \* of batches that failed under backfill()
    faults

meta == <<cursorSig, backfillBefore, backfillDone>>
walk == <<pages, newest, oldest, failed>>
vars == <<landed, txs, meta, pc, walk, skipped, dropped, faults>>

Init ==
    /\ landed = StartSigs
    /\ txs = {} /\ skipped = {} /\ dropped = {}
    /\ cursorSig = 0 /\ backfillBefore = 0 /\ backfillDone = FALSE
    /\ pc = "boot"
    /\ pages = <<>> /\ newest = 0 /\ oldest = 0 /\ failed = FALSE
    /\ faults = 0

Fault   == faults < MaxFaults /\ faults' = faults + 1
NoFault == UNCHANGED faults

(* getSignaturesForAddress: at most a page, from just below `before`, or    *)
(* from the newest there is, down to just above `after`.                    *)
Top(before) == IF before = 0 THEN landed ELSE before - 1
Bottom(after, before) ==
    IF Top(before) - after > PageSize THEN Top(before) - PageSize + 1 ELSE after + 1
Page(after, before) == Bottom(after, before)..Top(before)

NewWalk == pages' = <<>> /\ newest' = 0 /\ oldest' = 0 /\ failed' = FALSE

---------------------------------------------------------------------------
(* ingest: the oldest page first, each page in slices from its new end.     *)

Newest(p) == CHOOSE s \in p : \A r \in p : r <= s
Slice(p)  == {s \in p : s + BatchSize > Newest(p)}

Ingesting == pc \in {"backfilling", "tailing"} /\ pages # <<>>
Batch     == Slice(pages[Len(pages)])

Advance ==
    LET n    == Len(pages)
        rest == pages[n] \ Batch
    IN  pages' = IF rest = {} THEN SubSeq(pages, 1, n - 1)
                 ELSE [pages EXCEPT ![n] = rest]

(* Each transaction is written on its own, once; one that is not there or   *)
(* does not decode is counted and passed over.                              *)
IngestBatch ==
    /\ Ingesting
    /\ \E got \in SUBSET Batch :
        /\ IF got = Batch THEN NoFault ELSE Fault
        /\ txs' = txs \union got
        /\ skipped' = skipped \union (Batch \ got)
    /\ Advance
    /\ UNCHANGED <<landed, meta, pc, newest, oldest, failed, dropped>>

(* A batch request that fails is swallowed and counted.                     *)
BatchFails ==
    /\ Ingesting
    /\ Fault
    /\ failed' = TRUE
    /\ dropped' = IF pc = "backfilling" THEN dropped \union Batch ELSE dropped
    /\ Advance
    /\ UNCHANGED <<landed, txs, meta, pc, newest, oldest, skipped>>

---------------------------------------------------------------------------
(* main and backfill. *)

(* A backfill that is done is not repeated.                                 *)
Boot ==
    /\ pc = "boot"
    /\ pc' = IF backfillDone THEN "tail" ELSE "backfill"
    /\ UNCHANGED <<landed, txs, meta, walk, skipped, dropped, faults>>

(* The first page of a fresh backfill sets where the tail will start.       *)
MarkStart ==
    cursorSig' = IF backfillBefore = 0 /\ cursorSig = 0
                 THEN Top(backfillBefore) ELSE cursorSig

BackfillPage ==
    LET page == Page(0, backfillBefore) IN
    /\ pc = "backfill"
    /\ \/ /\ page = {}
          /\ backfillDone' = TRUE
          /\ pc' = "tail"
          /\ NewWalk
          /\ UNCHANGED <<cursorSig, backfillBefore>>
       \/ /\ page # {}
          /\ MarkStart
          /\ pages' = <<page>>
          /\ oldest' = Bottom(0, backfillBefore)
          /\ pc' = "backfilling"
          /\ UNCHANGED <<backfillBefore, backfillDone, newest, failed>>
    /\ UNCHANGED <<landed, txs, skipped, dropped, faults>>

(* The page is behind, whatever became of its batches.                      *)
BackfillPageDone ==
    /\ pc = "backfilling"
    /\ pages = <<>>
    /\ backfillBefore' = oldest
    /\ IF oldest <= Floor
       THEN backfillDone' = TRUE /\ pc' = "tail" /\ NewWalk
       ELSE pc' = "backfill" /\ UNCHANGED <<backfillDone, walk>>
    /\ UNCHANGED <<landed, txs, cursorSig, skipped, dropped, faults>>

(* backfill throws, and main goes on to the live tail until the next boot.  *)
BackfillAborts ==
    /\ pc = "backfill"
    /\ Fault
    /\ pc' = "tail"
    /\ NewWalk
    /\ UNCHANGED <<landed, txs, meta, skipped, dropped>>

---------------------------------------------------------------------------
(* tail. *)

(* No page after a short one.                                               *)
ShortPage == Top(oldest) - cursorSig < PageSize

CollectPage ==
    LET page == Page(cursorSig, oldest) IN
    /\ pc = "tail"
    /\ \/ /\ page = {}
          /\ pc' = IF pages = <<>> THEN "tail" ELSE "tailing"
          /\ UNCHANGED walk
       \/ /\ page # {}
          /\ pages' = Append(pages, page)
          /\ newest' = IF pages = <<>> THEN Top(oldest) ELSE newest
          /\ oldest' = Bottom(cursorSig, oldest)
          /\ pc' = IF ShortPage THEN "tailing" ELSE "tail"
          /\ UNCHANGED failed
    /\ UNCHANGED <<landed, txs, meta, skipped, dropped, faults>>

(* Faulty: the error leaves the loop.                                       *)
CollectFailsForGood ==
    /\ pc = "tail"
    /\ Fault
    /\ pc' = "stopped"
    /\ NewWalk
    /\ UNCHANGED <<landed, txs, meta, skipped, dropped>>

(* tail throws before anything was fetched; the next tick starts over.      *)
CollectFails ==
    /\ pc = "tail"
    /\ Fault
    /\ NewWalk
    /\ UNCHANGED <<landed, txs, meta, pc, skipped, dropped>>

(* Faulty: as it once was, the cursor moves whatever failed.                *)
AdvanceAnyway == cursorSig' = newest

(* The cursor moves only if every batch was fetched.                        *)
AdvanceCursor == cursorSig' = IF failed THEN cursorSig ELSE newest

TailDone ==
    /\ pc = "tailing"
    /\ pages = <<>>
    /\ AdvanceCursor
    /\ pc' = "tail"
    /\ NewWalk
    /\ UNCHANGED <<landed, txs, backfillBefore, backfillDone, skipped, dropped, faults>>

---------------------------------------------------------------------------

(* The process dies, perhaps half way through the writes of a batch.        *)
Crash ==
    /\ pc # "boot"
    /\ Fault
    /\ \E part \in SUBSET (IF Ingesting THEN Batch ELSE {}) : txs' = txs \union part
    /\ pc' = "boot"
    /\ NewWalk
    /\ UNCHANGED <<landed, meta, skipped, dropped>>

Land ==
    /\ landed < MaxSig
    /\ landed' = landed + 1
    /\ UNCHANGED <<txs, meta, pc, walk, skipped, dropped, faults>>

IndexerStep ==
    \/ Boot
    \/ BackfillPage \/ BackfillPageDone \/ BackfillAborts
    \/ CollectPage \/ CollectFails \/ TailDone
    \/ IngestBatch \/ BatchFails

Next == IndexerStep \/ Crash \/ Land

Spec == Init /\ [][Next]_vars

(* The process is always about its next request; faults are finitely many.  *)
FairSpec == Spec /\ WF_vars(IndexerStep)

---------------------------------------------------------------------------
(* Properties. *)

(* Some walk that is still to come asks for s again.                        *)
InReach(s) ==
    \/ s > cursorSig
    \/ ~backfillDone /\ (backfillBefore = 0 \/ s < backfillBefore)

(* The guarantee in poller.ts: whatever fails, and wherever the process     *)
(* dies, a signature that was not fetched can still be reached.  The two    *)
(* exceptions are those the node had nothing for and those of a batch that  *)
(* failed under backfill.                                                   *)
NothingStranded ==
    \A s \in Floor+1..landed :
        s \in txs \/ s \in skipped \/ s \in dropped \/ InReach(s)

(* A tape that lags catches up: what lies past a cursor that was set, or    *)
(* past a finished backfill, is fetched or given up by the node.            *)
TapeCatchesUp ==
    \A s \in 1..MaxSig :
        (/\ s <= landed /\ s > cursorSig
         /\ cursorSig # 0 \/ backfillDone)
        ~> (s \in txs \/ s \in skipped)
=============================================================================
