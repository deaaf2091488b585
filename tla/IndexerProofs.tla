--------------------------- MODULE IndexerProofs ---------------------------
(***************************************************************************)
(* What the tape promises for chains, pages and batches of every size and  *)
(* for any number of faults: a signature that was not fetched stays within *)
(* reach of a walk still to come (NothingStranded).                        *)
(*                                                                         *)
(* NothingStranded is not inductive: that a cursor may be moved rests on   *)
(* what the walk in progress has collected and fetched so far.  Walked     *)
(* says so for each place the process can be at.                           *)
(***************************************************************************)
EXTENDS Indexer, TLAPS

Places == {"boot", "backfill", "backfilling", "tail", "tailing"}

IndexerType ==
    /\ landed \in Nat
    /\ cursorSig \in Nat /\ backfillBefore \in Nat /\ backfillDone \in BOOLEAN
    /\ pc \in Places
    /\ pages \in Seq(SUBSET Nat)
    /\ newest \in Nat /\ oldest \in Nat /\ failed \in BOOLEAN

InHand == UNION {pages[i] : i \in DOMAIN pages}

Answered(s) == s \in txs \/ s \in skipped

(* The cursor and the walk are never ahead of the chain; oldest is null as   *)
(* long as nothing was collected.                                           *)
Bounds ==
    /\ cursorSig <= landed
    /\ newest <= landed
    /\ pc = "boot" => pages = <<>> /\ oldest = 0
    /\ pc \in {"backfill", "backfilling"} => ~backfillDone
    /\ pc = "tail" => (pages = <<>> <=> oldest = 0)

(* A page of backfill is in hand, fetched, skipped or dropped; what a tail  *)
(* collected is in hand; and while it ingests nothing is missing unless a   *)
(* batch failed.                                                            *)
Walked ==
    /\ pc = "backfilling" =>
         \A s \in Nat :
            (/\ s >= oldest /\ s <= cursorSig
             /\ backfillBefore = 0 \/ s < backfillBefore)
            => Answered(s) \/ s \in dropped \/ s \in InHand
    /\ pc = "tail" =>
         \A s \in Nat :
            (pages # <<>> /\ s > cursorSig /\ s >= oldest /\ s <= newest)
            => s \in InHand
    /\ pc = "tailing" =>
         \A s \in Nat :
            (s > cursorSig /\ s <= newest) => Answered(s) \/ failed \/ s \in InHand

IndexerInv == IndexerType /\ Bounds /\ Walked /\ NothingStranded

---------------------------------------------------------------------------

(* Taking a batch out of the pages in hand leaves the rest in hand.         *)
LEMMA AdvanceKeeps ==
    ASSUME pages \in Seq(SUBSET Nat), pages # <<>>, Advance
    PROVE  /\ pages' \in Seq(SUBSET Nat)
           /\ InHand \subseteq InHand' \union Batch
<1> DEFINE n    == Len(pages)
           rest == pages[n] \ Batch
<1>1. n \in Nat /\ n >= 1 /\ DOMAIN pages = 1..n
  OBVIOUS
<1>2. \A i \in 1..n : pages[i] \in SUBSET Nat
  OBVIOUS
<1>3. CASE rest = {}
  <2>1. pages' = SubSeq(pages, 1, n - 1)
    BY <1>3 DEF Advance
  <2>2. pages' \in Seq(SUBSET Nat) /\ DOMAIN pages' = 1..(n - 1)
    BY <2>1, <1>1, <1>2
  <2>3. \A i \in 1..(n - 1) : pages'[i] = pages[i]
    BY <2>1, <1>1
  <2>4. ASSUME NEW i \in DOMAIN pages, NEW s \in pages[i]
        PROVE  s \in InHand' \union Batch
    <3>1. CASE i = n
      BY <3>1, <1>3
    <3>2. CASE i # n
      <4>1. i \in 1..(n - 1)
        BY <3>2, <1>1
      <4> QED
        BY <4>1, <2>2, <2>3 DEF InHand
    <3> QED
      BY <3>1, <3>2
  <2> QED
    BY <2>2, <2>4 DEF InHand
<1>4. CASE rest # {}
  <2>1. pages' = [pages EXCEPT ![n] = rest]
    BY <1>4 DEF Advance
  <2>2. pages' \in Seq(SUBSET Nat) /\ DOMAIN pages' = DOMAIN pages
    BY <2>1, <1>1, <1>2
  <2>3. ASSUME NEW i \in DOMAIN pages, NEW s \in pages[i]
        PROVE  s \in InHand' \union Batch
    <3>1. CASE i = n
      <4>1. pages'[i] = rest
        BY <3>1, <2>1, <1>1
      <4> QED
        BY <4>1, <3>1, <2>2 DEF InHand
    <3>2. CASE i # n
      <4>1. pages'[i] = pages[i]
        BY <3>2, <2>1, <1>1
      <4> QED
        BY <4>1, <2>2 DEF InHand
    <3> QED
      BY <3>1, <3>2
  <2> QED
    BY <2>2, <2>3 DEF InHand
<1> QED
  BY <1>3, <1>4

(* With nothing in hand, nothing is in hand.                                *)
LEMMA HandEmpty ==
    /\ <<>> \in Seq(SUBSET Nat)
    /\ pages = <<>> => InHand = {}
  BY DEF InHand

(* A page reaches from its newest end down to the mark, or is full.         *)
LEMMA PageShape ==
    ASSUME NEW after \in Nat, NEW before \in Nat, landed \in Nat
    PROVE  /\ Bottom(after, before) \in Nat
           /\ Bottom(after, before) > after
           /\ Page(after, before) \in SUBSET Nat
           /\ Page(after, before) # {} <=> Top(before) > after
           /\ \A s \in Nat :
                s \in Page(after, before)
                <=> s >= Bottom(after, before) /\ s <= Top(before)
           /\ Top(before) - after < PageSize => Bottom(after, before) = after + 1
<1>1. Top(before) \in Int /\ PageSize \in Nat /\ PageSize > 0
  BY IndexerAssumption DEF Top
<1>2. Bottom(after, before) \in Nat /\ Bottom(after, before) > after
  BY <1>1 DEF Bottom
<1>3. Top(before) > after => Bottom(after, before) <= Top(before)
  BY <1>1 DEF Bottom
<1> HIDE DEF Bottom, Top
<1>4. Page(after, before) # {} <=> Top(before) > after
  <2>1. Top(before) > after => Top(before) \in Page(after, before)
    BY <1>1, <1>2, <1>3 DEF Page
  <2>2. ASSUME NEW s \in Page(after, before) PROVE Top(before) > after
    BY <1>1, <1>2 DEF Page
  <2> QED
    BY <2>1, <2>2
<1>5. Top(before) - after < PageSize => Bottom(after, before) = after + 1
  BY <1>1 DEF Bottom
<1> QED
  BY <1>1, <1>2, <1>4, <1>5 DEF Page

---------------------------------------------------------------------------
(* Every step keeps IndexerInv. *)

LEMMA IndexerInit == Init => IndexerInv
<1> SUFFICES ASSUME Init PROVE IndexerInv
  OBVIOUS
<1> USE IndexerAssumption DEF Init
<1>1. IndexerType
  BY HandEmpty DEF IndexerType, Places
<1>2. Bounds
  BY DEF Bounds
<1>3. Walked
  BY DEF Walked
<1>4. NothingStranded
  BY DEF NothingStranded, InReach
<1> QED
  BY <1>1, <1>2, <1>3, <1>4 DEF IndexerInv

LEMMA BatchStep ==
    ASSUME IndexerInv, IngestBatch \/ BatchFails PROVE IndexerInv'
<1> USE DEF IndexerInv
<1>1. Ingesting /\ pages # <<>> /\ pc \in {"backfilling", "tailing"} /\ Advance
  BY DEF IngestBatch, BatchFails, Ingesting
<1>2. pages' \in Seq(SUBSET Nat) /\ InHand \subseteq InHand' \union Batch
  BY <1>1, AdvanceKeeps DEF IndexerType
<1>3. UNCHANGED <<landed, cursorSig, backfillBefore, backfillDone, pc, newest, oldest>>
  BY DEF IngestBatch, BatchFails, meta
<1>4. txs \subseteq txs' /\ skipped \subseteq skipped' /\ dropped \subseteq dropped'
  BY DEF IngestBatch, BatchFails
<1>5. failed' \in BOOLEAN /\ (failed => failed')
  BY DEF IngestBatch, BatchFails, IndexerType
<1>6. \A s \in Batch : \/ s \in txs' \/ s \in skipped'
                       \/ failed' /\ (pc = "backfilling" => s \in dropped')
  <2>1. CASE IngestBatch
    BY <2>1 DEF IngestBatch
  <2>2. CASE BatchFails
    BY <2>2 DEF BatchFails
  <2> QED
    BY <2>1, <2>2
<1> HIDE DEF IndexerInv
<1>7. IndexerType'
  BY <1>2, <1>3, <1>5 DEF IndexerInv, IndexerType
<1>8. Bounds'
  BY <1>1, <1>3 DEF IndexerInv, Bounds
<1>9. Walked'
  BY <1>1, <1>2, <1>3, <1>4, <1>5, <1>6 DEF IndexerInv, Walked, Answered
<1>10. NothingStranded'
  BY <1>3, <1>4 DEF IndexerInv, NothingStranded, InReach
<1> QED
  BY <1>7, <1>8, <1>9, <1>10 DEF IndexerInv

(* Steps that drop the walk in hand and leave cursors and tape alone, or    *)
(* add to the tape.                                                         *)
LEMMA DropStep ==
    ASSUME IndexerInv, NewWalk,
           UNCHANGED <<landed, cursorSig, backfillBefore, backfillDone>>,
           txs \subseteq txs', skipped \subseteq skipped', dropped \subseteq dropped',
           pc' \in {"boot", "tail"}
    PROVE  IndexerInv'
<1>1. IndexerType'
  BY HandEmpty DEF IndexerInv, IndexerType, NewWalk, Places
<1>2. Bounds'
  BY DEF IndexerInv, IndexerType, Bounds, NewWalk
<1>3. Walked'
  BY DEF NewWalk, Walked
<1>4. NothingStranded'
  BY DEF IndexerInv, NothingStranded, InReach
<1> QED
  BY <1>1, <1>2, <1>3, <1>4 DEF IndexerInv

LEMMA BootStep == ASSUME IndexerInv, Boot PROVE IndexerInv'
<1>0. UNCHANGED <<landed, txs, cursorSig, backfillBefore, backfillDone,
                  pages, newest, oldest, failed>>
  BY DEF Boot, meta, walk
<1>1. IndexerType'
  BY <1>0 DEF IndexerInv, IndexerType, Boot, Places
<1>4. Bounds'
  <2>1. pc = "boot" /\ pages = <<>> /\ oldest = 0
    BY DEF IndexerInv, Bounds, Boot
  <2>2. CASE backfillDone
    BY <2>1, <2>2, <1>0 DEF IndexerInv, Bounds, Boot
  <2>3. CASE ~backfillDone
    BY <2>1, <2>3, <1>0 DEF IndexerInv, Bounds, Boot
  <2> QED
    BY <2>2, <2>3
<1>2. Walked'
  BY <1>0 DEF IndexerInv, Bounds, Boot, Walked
<1>3. NothingStranded'
  BY <1>0 DEF IndexerInv, Boot, NothingStranded, InReach
<1> QED
  BY <1>1, <1>2, <1>3, <1>4 DEF IndexerInv

LEMMA BackfillPageStep ==
    ASSUME IndexerInv, BackfillPage PROVE IndexerInv'
<1> DEFINE page == Page(0, backfillBefore)
<1>1. IndexerType /\ Bounds /\ NothingStranded
  BY DEF IndexerInv
<1>2. UNCHANGED <<landed, txs, backfillBefore, skipped, dropped>>
  BY DEF BackfillPage, meta
<1>3. /\ Bottom(0, backfillBefore) \in Nat /\ Bottom(0, backfillBefore) > 0
      /\ page \in SUBSET Nat
      /\ page # {} <=> Top(backfillBefore) > 0
      /\ \A s \in Nat : s \in page <=> s >= Bottom(0, backfillBefore)
                                      /\ s <= Top(backfillBefore)
  BY <1>1, PageShape DEF IndexerType
<1>4. Top(backfillBefore) = IF backfillBefore = 0 THEN landed ELSE backfillBefore - 1
  BY DEF Top
<1>5. CASE page = {}
  <2>1. /\ backfillDone' = TRUE /\ pc' = "tail" /\ NewWalk /\ cursorSig' = cursorSig
    BY <1>5 DEF BackfillPage
  <2>2. IndexerType'
    BY <2>1, <1>1, <1>2, HandEmpty DEF IndexerType, NewWalk, Places
  <2>7. Bounds'
    BY <2>1, <1>1, <1>2 DEF IndexerType, Bounds, NewWalk
  <2>3. Walked'
    BY <2>1 DEF Walked, NewWalk
  <2>4. Floor \in Nat
    BY IndexerAssumption
  <2>5. \A s \in Floor+1..landed : ~(backfillBefore = 0 \/ s < backfillBefore)
    BY <1>1, <1>3, <1>4, <1>5, <2>4 DEF IndexerType
  <2>6. NothingStranded'
    BY <2>1, <2>5, <1>1, <1>2 DEF NothingStranded, InReach
  <2> QED
    BY <2>2, <2>3, <2>6, <2>7 DEF IndexerInv
<1>6. CASE page # {}
  <2>1. /\ MarkStart /\ pages' = <<page>> /\ oldest' = Bottom(0, backfillBefore)
        /\ pc = "backfill" /\ pc' = "backfilling"
        /\ UNCHANGED <<backfillDone, newest, failed>>
    BY <1>6 DEF BackfillPage
  <2>2. cursorSig' \in Nat /\ cursorSig' <= landed
        /\ (cursorSig' = cursorSig \/ (backfillBefore = 0 /\ cursorSig = 0))
    BY <2>1, <1>1, <1>4 DEF MarkStart, IndexerType, Bounds
  <2>3. pages' \in Seq(SUBSET Nat) /\ InHand' = page
    <3>1. DOMAIN pages' = {1} /\ pages'[1] = page
      BY <2>1
    <3> QED
      BY <3>1, <2>1, <1>3 DEF InHand
  <2>4. IndexerType' /\ Bounds'
    BY <2>1, <2>2, <2>3, <1>1, <1>2, <1>3 DEF IndexerType, Bounds, Places
  <2>5. Walked'
    <3>1. ASSUME NEW s \in Nat, s >= oldest', s <= cursorSig',
                 backfillBefore = 0 \/ s < backfillBefore
          PROVE  s \in page
      BY <3>1, <2>1, <2>2, <1>1, <1>3, <1>4 DEF IndexerType
    <3> QED
      BY <3>1, <2>1, <2>3, <1>2 DEF Walked
  <2>6. \A s \in Nat : InReach(s) => InReach(s)'
    <3>1. ASSUME NEW s \in Nat, InReach(s) PROVE InReach(s)'
      <4>1. CASE cursorSig' = cursorSig
        BY <4>1, <3>1, <2>1, <1>2 DEF InReach
      <4>2. CASE backfillBefore = 0
        BY <4>2, <2>1, <1>1, <1>2 DEF InReach, Bounds
      <4> QED
        BY <4>1, <4>2, <2>2
    <3> QED
      BY <3>1
  <2>7. NothingStranded'
    BY <2>6, <1>1, <1>2, IndexerAssumption DEF NothingStranded, IndexerType
  <2> QED
    BY <2>4, <2>5, <2>7 DEF IndexerInv
<1> QED
  BY <1>5, <1>6

LEMMA BackfillPageDoneStep ==
    ASSUME IndexerInv, BackfillPageDone PROVE IndexerInv'
<1>1. IndexerType /\ Bounds /\ Walked /\ NothingStranded
  BY DEF IndexerInv
<1>2. /\ pc = "backfilling" /\ pages = <<>> /\ InHand = {}
      /\ backfillBefore' = oldest
      /\ UNCHANGED <<landed, txs, cursorSig, skipped, dropped>>
  BY HandEmpty DEF BackfillPageDone
<1>3. \A s \in Nat :
         (s >= oldest /\ s <= cursorSig /\ (backfillBefore = 0 \/ s < backfillBefore))
         => Answered(s) \/ s \in dropped
  BY <1>1, <1>2 DEF Walked
<1>4. CASE oldest <= Floor
  <2>1. backfillDone' = TRUE /\ pc' = "tail" /\ NewWalk
    BY <1>4 DEF BackfillPageDone
  <2>2. IndexerType'
    BY <2>1, <1>1, <1>2, HandEmpty DEF IndexerType, NewWalk, Places
  <2>3. Bounds'
    BY <2>1, <1>1, <1>2 DEF IndexerType, Bounds, NewWalk
  <2>4. Walked'
    BY <2>1 DEF Walked, NewWalk
  <2>5. NothingStranded'
    <3>1. ASSUME NEW s \in Floor+1..landed
          PROVE  s \in txs \/ s \in skipped \/ s \in dropped \/ s > cursorSig
      <4>1. s \in Nat /\ s >= oldest
        BY <1>4, <1>1, IndexerAssumption DEF IndexerType
      <4>2. s > cursorSig \/ s <= cursorSig
        BY <4>1, <1>1 DEF IndexerType
      <4> QED
        BY <4>1, <4>2, <1>1, <1>3 DEF NothingStranded, InReach, Answered
    <3> QED
      BY <3>1, <1>2 DEF NothingStranded, InReach
  <2> QED
    BY <2>2, <2>3, <2>4, <2>5 DEF IndexerInv
<1>5. CASE ~(oldest <= Floor)
  <2>1. pc' = "backfill" /\ UNCHANGED <<backfillDone, pages, newest, oldest, failed>>
    BY <1>5 DEF BackfillPageDone, walk
  <2>2. IndexerType'
    BY <2>1, <1>1, <1>2 DEF IndexerType, Places
  <2>3. Bounds'
    BY <2>1, <1>1, <1>2 DEF Bounds
  <2>4. Walked'
    BY <2>1 DEF Walked
  <2>5. NothingStranded'
    <3>1. ASSUME NEW s \in Floor+1..landed
          PROVE  \/ s \in txs \/ s \in skipped \/ s \in dropped \/ s > cursorSig
                 \/ ~backfillDone /\ s < oldest
      <4>1. s \in Nat /\ (s >= oldest \/ s < oldest) /\ (s > cursorSig \/ s <= cursorSig)
        BY <1>1, IndexerAssumption DEF IndexerType
      <4>2. ~backfillDone
        BY <1>1, <1>2 DEF Bounds
      <4> QED
        BY <4>1, <4>2, <1>1, <1>3 DEF NothingStranded, InReach, Answered
    <3> QED
      BY <3>1, <2>1, <1>2 DEF NothingStranded, InReach
  <2> QED
    BY <2>2, <2>3, <2>4, <2>5 DEF IndexerInv
<1> QED
  BY <1>4, <1>5

LEMMA CollectStep ==
    ASSUME IndexerInv, CollectPage PROVE IndexerInv'
<1> DEFINE page == Page(cursorSig, oldest)
<1>1. IndexerType /\ Bounds /\ Walked /\ NothingStranded
  BY DEF IndexerInv
<1>2. pc = "tail" /\ UNCHANGED <<landed, txs, cursorSig, backfillBefore,
                               backfillDone, skipped, dropped, failed>>
  BY DEF CollectPage, meta, walk
<1>3. /\ Bottom(cursorSig, oldest) \in Nat /\ Bottom(cursorSig, oldest) > cursorSig
      /\ page \in SUBSET Nat
      /\ page # {} <=> Top(oldest) > cursorSig
      /\ \A s \in Nat : s \in page <=> s >= Bottom(cursorSig, oldest)
                                      /\ s <= Top(oldest)
      /\ Top(oldest) - cursorSig < PageSize
         => Bottom(cursorSig, oldest) = cursorSig + 1
  BY <1>1, PageShape DEF IndexerType
<1>4. Top(oldest) = IF oldest = 0 THEN landed ELSE oldest - 1
  BY DEF Top
<1>5. NothingStranded'
  BY <1>1, <1>2 DEF NothingStranded, InReach
<1>6. CASE page = {}
  <2>1. /\ UNCHANGED <<pages, newest, oldest>>
        /\ pc' = IF pages = <<>> THEN "tail" ELSE "tailing"
    BY <1>6 DEF CollectPage, walk
  <2>2. IndexerType' /\ Bounds'
    BY <2>1, <1>1, <1>2 DEF IndexerType, Bounds, Places
  <2>3. Walked'
    <3>1. CASE pages = <<>>
      BY <3>1, <2>1, <1>1, <1>2 DEF Walked, InHand
    <3>2. CASE pages # <<>>
      <4>1. pc' = "tailing" /\ oldest # 0
        BY <3>2, <2>1, <1>1, <1>2 DEF Bounds
      <4>2. \A s \in Nat : s > cursorSig => s >= oldest
        BY <4>1, <1>1, <1>3, <1>4, <1>6 DEF IndexerType
      <4> QED
        BY <4>1, <4>2, <3>2, <2>1, <1>1, <1>2 DEF Walked, InHand
    <3> QED
      BY <3>1, <3>2
  <2> QED
    BY <1>5, <2>2, <2>3 DEF IndexerInv
<1>7. CASE page # {}
  <2>1. /\ pages' = Append(pages, page)
        /\ newest' = IF pages = <<>> THEN Top(oldest) ELSE newest
        /\ oldest' = Bottom(cursorSig, oldest)
        /\ pc' = IF ShortPage THEN "tailing" ELSE "tail"
    BY <1>7 DEF CollectPage
  <2>2. pages' \in Seq(SUBSET Nat) /\ pages' # <<>>
    BY <2>1, <1>1, <1>3 DEF IndexerType
  <2>3. InHand \subseteq InHand' /\ page \subseteq InHand'
    <3>1. /\ DOMAIN pages = 1..Len(pages) /\ DOMAIN pages' = 1..(Len(pages) + 1)
          /\ Len(pages) \in Nat
          /\ \A i \in 1..Len(pages) : pages'[i] = pages[i]
          /\ pages'[Len(pages) + 1] = page
      BY <2>1, <1>1, <1>3 DEF IndexerType
    <3> QED
      BY <3>1 DEF InHand
  <2>4. newest' \in Nat /\ newest' <= landed /\ oldest' \in Nat /\ oldest' # 0
    BY <2>1, <1>1, <1>2, <1>3, <1>4 DEF IndexerType, Bounds
  <2>5. IndexerType'
    BY <2>1, <2>2, <2>4, <1>1, <1>2 DEF IndexerType, Places
  <2>6. Bounds'
    BY <2>1, <2>2, <2>4, <1>1, <1>2 DEF Bounds
  <2>7. \A s \in Nat : s > cursorSig /\ s >= oldest' /\ s <= newest' => s \in InHand'
    <3>1. ASSUME NEW s \in Nat, s > cursorSig, s >= oldest', s <= newest'
          PROVE  s \in InHand'
      <4>1. CASE s <= Top(oldest)
        BY <4>1, <3>1, <2>1, <2>3, <1>3
      <4>2. CASE ~(s <= Top(oldest))
        <5>1. pages # <<>> /\ s <= newest /\ oldest # 0
          BY <4>2, <3>1, <2>1, <1>1, <1>2 DEF Bounds
        <5>2. s >= oldest
          BY <5>1, <4>2, <1>1, <1>4 DEF IndexerType
        <5> QED
          BY <5>1, <5>2, <3>1, <2>3, <1>1, <1>2 DEF Walked
      <4> QED
        BY <4>1, <4>2
    <3> QED
      BY <3>1
  <2>8. Walked'
    <3>1. CASE ShortPage
      <4>1. pc' = "tailing" /\ oldest' = cursorSig + 1
        BY <3>1, <2>1, <1>3 DEF ShortPage
      <4>2. \A s \in Nat : s > cursorSig => s >= oldest'
        BY <4>1, <1>1 DEF IndexerType
      <4> QED
        BY <4>1, <4>2, <2>7, <1>2 DEF Walked
    <3>2. CASE ~ShortPage
      BY <3>2, <2>1, <2>7, <1>2 DEF Walked
    <3> QED
      BY <3>1, <3>2
  <2> QED
    BY <1>5, <2>5, <2>6, <2>8 DEF IndexerInv
<1> QED
  BY <1>6, <1>7

LEMMA TailDoneStep ==
    ASSUME IndexerInv, TailDone PROVE IndexerInv'
<1>1. IndexerType /\ Bounds /\ Walked /\ NothingStranded
  BY DEF IndexerInv
<1>2. /\ pc = "tailing" /\ InHand = {} /\ pc' = "tail" /\ NewWalk
      /\ cursorSig' = IF failed THEN cursorSig ELSE newest
      /\ UNCHANGED <<landed, txs, backfillBefore, backfillDone, skipped, dropped>>
  BY HandEmpty DEF TailDone, AdvanceCursor
<1>3. CASE failed
  BY <1>2, <1>3, DropStep
<1>4. CASE ~failed
  <2>1. \A s \in Nat : (s > cursorSig /\ s <= newest) => Answered(s)
    BY <1>1, <1>2, <1>4 DEF Walked
  <2>2. IndexerType'
    BY <1>1, <1>2, HandEmpty DEF IndexerType, NewWalk, Places
  <2>3. Bounds'
    BY <1>1, <1>2, <1>4 DEF IndexerType, Bounds, NewWalk
  <2>4. Walked'
    BY <1>2 DEF Walked, NewWalk
  <2>5. NothingStranded'
    <3>1. ASSUME NEW s \in Floor+1..landed
          PROVE  s \in txs \/ s \in skipped \/ s \in dropped \/ InReach(s)'
      <4>1. s \in Nat /\ (s > newest \/ s <= newest)
        BY <1>1, IndexerAssumption DEF IndexerType
      <4> QED
        BY <4>1, <2>1, <1>1, <1>2, <1>4 DEF NothingStranded, InReach, Answered
    <3> QED
      BY <3>1, <1>2 DEF NothingStranded
  <2> QED
    BY <2>2, <2>3, <2>4, <2>5 DEF IndexerInv
<1> QED
  BY <1>3, <1>4

LEMMA LandStep == ASSUME IndexerInv, Land PROVE IndexerInv'
<1>1. landed' = landed + 1 /\ UNCHANGED <<txs, cursorSig, backfillBefore, backfillDone,
          pc, pages, newest, oldest, failed, skipped, dropped>>
  BY DEF Land, meta, walk
<1>2. IndexerType' /\ Bounds'
  BY <1>1 DEF IndexerInv, IndexerType, Bounds
<1>3. Walked'
  BY <1>1 DEF IndexerInv, Walked, InHand, Answered
<1>4. NothingStranded'
  <2>1. \A s \in Floor+1..(landed + 1) : s \in Floor+1..landed \/ s > cursorSig
    BY IndexerAssumption DEF IndexerInv, IndexerType, Bounds
  <2> QED
    BY <1>1, <2>1 DEF IndexerInv, NothingStranded, InReach
<1> QED
  BY <1>2, <1>3, <1>4 DEF IndexerInv

LEMMA IndexerNext == IndexerInv /\ [Next]_vars => IndexerInv'
<1> SUFFICES ASSUME IndexerInv, [Next]_vars PROVE IndexerInv'
  OBVIOUS
<1>1. CASE IngestBatch \/ BatchFails
  BY <1>1, BatchStep
<1>2. CASE Boot
  BY <1>2, BootStep
<1>3. CASE BackfillPage
  BY <1>3, BackfillPageStep
<1>4. CASE BackfillPageDone
  BY <1>4, BackfillPageDoneStep
<1>5. CASE BackfillAborts \/ CollectFails \/ Crash
  <2>1. /\ NewWalk /\ pc' \in {"boot", "tail"} /\ txs \subseteq txs'
        /\ UNCHANGED <<landed, cursorSig, backfillBefore, backfillDone, skipped, dropped>>
    BY <1>5 DEF BackfillAborts, CollectFails, Crash, meta
  <2> QED
    BY <2>1, DropStep
<1>6. CASE CollectPage
  BY <1>6, CollectStep
<1>7. CASE TailDone
  BY <1>7, TailDoneStep
<1>8. CASE Land
  BY <1>8, LandStep
<1>9. CASE UNCHANGED vars
  BY <1>9 DEF vars, meta, walk, IndexerInv, IndexerType, Bounds, Walked, InHand,
              Answered, NothingStranded, InReach
<1> QED
  BY <1>1, <1>2, <1>3, <1>4, <1>5, <1>6, <1>7, <1>8, <1>9 DEF Next, IndexerStep

(* NothingStranded for every chain, page and batch size and any number of   *)
(* faults: but for what the node had nothing for and the failed batches of  *)
(* a backfill, what was not fetched can still be reached.                   *)
THEOREM TapeHasNoOtherHoles == Spec => []NothingStranded
<1>1. IndexerInv => NothingStranded
  BY DEF IndexerInv
<1> QED
  BY <1>1, IndexerInit, IndexerNext, PTL DEF Spec
=============================================================================
