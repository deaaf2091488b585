------------------------------- MODULE Crank -------------------------------
(***************************************************************************)
(* One crank process (crank/bot.ts, tick) winding down the vaults of a     *)
(* series that has expired, while others call the same instructions.       *)
(* A tick is one thread with a read before every write:                    *)
(*   phase 1b  fan settle_vault out over the expired vaults of a snapshot; *)
(*   phase 2   per settled vault: give escrowed tokens back, finalize      *)
(*             holders, finalize writers, and remember in a file the       *)
(*             vaults on which all four scans came back empty;             *)
(*   phase 3   void vaults of a dead feed and reclaim for their writers.   *)
(* Per vault one option token and one writer are kept, so the vault's USDC *)
(* account is open exactly as long as the writer is in.  The clock counts  *)
(* the two deadlines after expiry, the holders' window and the grace.      *)
(* A fault is a request that fails, an answer that is lost, or a crash.    *)
(***************************************************************************)
EXTENDS Naturals, FiniteSets

CONSTANTS
    Vaults,
    Rank,        \* [Vaults -> Nat]: expiry, then market
    Poison,      \* vaults whose settle_vault never succeeds
    Stuck,       \* vaults whose order sweep never succeeds
    Deep,        \* vaults whose holder takes the whole collateral
    StartToken,  \* where each vault's token is at expiry
    Busy,        \* vaults whose holder, writer and others act themselves
    StartAta,    \* vaults whose holder has a USDC account
    MaxPerTick,  \* FANOUT_MAX_PER_TICK
    BatchSize,   \* FANOUT_CHUNK_SIZE
    MaxAtas,     \* USDC accounts opened per tick
    MaxFaults    \* faults in a behaviour

Places == {"listing", "order", "wallet"}

ASSUME CrankAssumption ==
    /\ Rank \in [Vaults -> Nat]
    /\ \A v, w \in Vaults : Rank[v] = Rank[w] => v = w
    /\ Poison \subseteq Vaults /\ Stuck \subseteq Vaults
    /\ Deep \subseteq Vaults /\ Busy \subseteq Vaults /\ StartAta \subseteq Vaults
    /\ StartToken \in [Vaults -> Places]
    /\ BatchSize \in Nat \ {0} /\ MaxPerTick \in Nat /\ MaxAtas \in Nat
    /\ MaxFaults \in Nat

WindowOver == 1
GraceOver  == 2

VARIABLES
    clock,   \* deadlines passed: 0, WindowOver or GraceOver
    stage,   \* per vault: "open", "settled" or "voided"
    record,  \* vaults whose SettlementRecord exists
    token,   \* per vault: a place, or "gone" once burned
    writer,  \* vaults whose writer is still in
    ata,     \* vaults whose holder has a USDC account
    pc,      \* where the tick is
    todo,    \* vaults the current phase still has to visit
    rest,    \* vaults the second snapshot showed open, for phase 3
    hand,    \* vaults in hand: a failed batch, or the vault being visited
    clean,   \* every scan of the vault in hand came back empty
    budget,  \* USDC accounts the tick may still open
    mem,     \* the finalize cache in memory: "none", "fresh" or "aged"
    disk,    \* ... and on disk
    faults

chain == <<clock, stage, record, token, writer, ata>>
tick  == <<pc, todo, rest, hand, clean, budget>>
cache == <<mem, disk>>
vars  == <<chain, tick, cache, faults>>

Init ==
    /\ clock = 0
    /\ stage = [v \in Vaults |-> "open"]
    /\ record = {}
    /\ token = StartToken
    /\ writer = Vaults
    /\ ata = StartAta
    /\ pc = "idle"
    /\ todo = {} /\ rest = {} /\ hand = {}
    /\ clean = FALSE
    /\ budget = 0
    /\ mem = [v \in Vaults |-> "none"]
    /\ disk = mem
    /\ faults = 0

Fault   == faults < MaxFaults /\ faults' = faults + 1
NoFault == UNCHANGED faults

(* collateral_remaining > 0: the holder may take it all, the last writer's  *)
(* exit sweeps what is left.                                                *)
HasCollateral(v) == v \in writer /\ ~(v \in Deep /\ token[v] = "gone")

---------------------------------------------------------------------------
(* The instructions, as their transactions land. *)

Settleable(v) == stage[v] = "open" /\ v \in record /\ v \notin Poison
SettleAll(b)  == stage' = [v \in Vaults |-> IF v \in b THEN "settled" ELSE stage[v]]

CanVoid(v) == stage[v] = "open" /\ v \notin record /\ clock = GraceOver

(* Both finalize instructions name the vault's USDC account, which the last *)
(* writer's exit closes.                                                    *)
CanBurn(v) == stage[v] = "settled" /\ token[v] = "wallet" /\ v \in writer
CanExit(v) == stage[v] = "settled" /\ v \in writer /\ clock >= WindowOver

---------------------------------------------------------------------------
(* Phase 1b. *)

(* The snapshot of the vaults is older than that of the records. *)
Start ==
    /\ pc = "idle"
    /\ pc' = "plan"
    /\ todo' = {v \in Vaults : stage[v] = "open"}
    /\ NoFault
    /\ UNCHANGED <<chain, rest, hand, clean, budget, cache>>

OldestFirst(S, n) == {v \in S : Cardinality({w \in S : Rank[w] < Rank[v]}) < n}

(* planSettleFanout; a failed fetch of the records only skips the phase. *)
Plan ==
    /\ pc = "plan"
    /\ pc' = "batch"
    /\ \/ todo' = OldestFirst(todo \cap record, MaxPerTick) /\ NoFault
       \/ todo' = {} /\ Fault
    /\ UNCHANGED <<chain, rest, hand, clean, budget, cache>>

(* Faulty: a batch that fails is left for the next tick, not isolated. *)
SendWholeBatch ==
    LET b == OldestFirst(todo, BatchSize)
    IN
    /\ pc = "batch" /\ todo # {}
    /\ todo' = todo \ b
    /\ IF b \subseteq {v \in Vaults : Settleable(v)}
       THEN SettleAll(b) ELSE UNCHANGED stage
    /\ NoFault
    /\ UNCHANGED <<clock, record, token, writer, ata, pc, rest, hand, clean,
                   budget, cache>>

(* One transaction settles the batch or nothing.  A batch that throws is    *)
(* taken apart; one that throws may still have landed.  The error inside a  *)
(* confirmation is not read: a batch that passes its preflight and loses a  *)
(* race on landing counts as settled and is not taken apart.                *)
SendBatch ==
    LET b     == OldestFirst(todo, BatchSize)
        lands == \A v \in b : Settleable(v)
        raced == ~lands /\ b \cap Poison = {}
    IN
    /\ pc = "batch" /\ todo # {}
    /\ todo' = todo \ b
    /\ \/ lands /\ SettleAll(b) /\ NoFault /\ UNCHANGED <<pc, hand>>
       \/ raced /\ NoFault /\ UNCHANGED <<stage, pc, hand>>
       \/ /\ pc' = "isolate" /\ hand' = b
          /\ \/ ~lands /\ NoFault /\ UNCHANGED stage
             \/ Fault /\ UNCHANGED stage
             \/ lands /\ Fault /\ SettleAll(b)
    /\ UNCHANGED <<clock, record, token, writer, ata, rest, clean, budget, cache>>

(* One vault per transaction; whatever its fate, the next one follows. *)
Isolate(v) ==
    /\ pc = "isolate" /\ v \in hand
    /\ hand' = hand \ {v}
    /\ pc' = IF hand' = {} THEN "batch" ELSE "isolate"
    /\ \/ Settleable(v) /\ SettleAll({v}) /\ NoFault
       \/ ~Settleable(v) /\ NoFault /\ UNCHANGED stage
       \/ Fault /\ UNCHANGED stage
    /\ UNCHANGED <<clock, record, token, writer, ata, todo, rest, clean,
                   budget, cache>>
---------------------------------------------------------------------------
(* Phase 2. *)

(* entryMaySuppressScan: an entry skips a vault only while it is fresh and  *)
(* the account read this tick is settled and holds no collateral.           *)
MaySuppress(v) ==
    /\ mem[v] = "fresh"
    /\ stage[v] = "settled"
    /\ ~HasCollateral(v)

(* The second snapshot, which phases 2 and 3 both work from; without it the *)
(* tick ends here.                                                          *)
Refetch ==
    /\ pc = "batch" /\ todo = {}
    /\ \/ /\ pc' = "cancel"
          /\ todo' = {v \in Vaults : stage[v] = "settled" /\ ~MaySuppress(v)}
          /\ rest' = {v \in Vaults : stage[v] = "open"}
          /\ budget' = MaxAtas
          /\ NoFault
       \/ pc' = "idle" /\ Fault /\ UNCHANGED <<todo, rest, budget>>
    /\ UNCHANGED <<chain, hand, clean, cache>>

(* auto_cancel_listings; a pass that fails does not stop the others. *)
CancelPass(v) ==
    /\ pc = "cancel" /\ v \in todo
    /\ pc' = "sweep"
    /\ hand' = {v}
    /\ \/ /\ clean' = (token[v] # "listing")
          /\ token' = [token EXCEPT ![v] = IF @ = "listing" THEN "wallet" ELSE @]
          /\ NoFault
       \/ clean' = FALSE /\ UNCHANGED token /\ Fault
    /\ UNCHANGED <<clock, stage, record, writer, ata, todo, rest, budget, cache>>

(* Faulty: an order that cannot be swept stops the vault's other passes. *)
SweepStopsVault(v) ==
    /\ pc = "sweep" /\ hand = {v}
    /\ IF token[v] = "order" /\ v \in Stuck
       THEN /\ pc' = "cancel" /\ todo' = todo \ hand /\ hand' = {}
            /\ clean' = FALSE /\ UNCHANGED token
       ELSE /\ pc' = "holders"
            /\ clean' = (clean /\ token[v] # "order")
            /\ token' = [token EXCEPT ![v] = IF @ = "order" THEN "wallet" ELSE @]
            /\ UNCHANGED <<todo, hand>>
    /\ NoFault
    /\ UNCHANGED <<clock, stage, record, writer, ata, rest, budget, cache>>

(* sweep_expired_orders, for the vault in hand. *)
SweepPass(v) ==
    /\ pc = "sweep" /\ hand = {v}
    /\ pc' = "holders"
    /\ \/ /\ clean' = (clean /\ token[v] # "order")
          /\ token' = [token EXCEPT ![v] =
                         IF @ = "order" /\ v \notin Stuck THEN "wallet" ELSE @]
          /\ NoFault
       \/ clean' = FALSE /\ UNCHANGED token /\ Fault
    /\ UNCHANGED <<clock, stage, record, writer, ata, todo, rest, hand, budget,
                   cache>>

NextVault == /\ pc' = "cancel"
             /\ todo' = todo \ hand
             /\ hand' = {}
             /\ clean' = FALSE

(* A holder without a USDC account is given one, as far as the budget goes. *)
HolderAta(v) ==
    IF token[v] # "wallet" \/ v \in ata \/ budget = 0
    THEN UNCHANGED <<ata, budget>>
    ELSE ata' = ata \cup {v} /\ budget' = budget - 1

(* runHolderFinalize.  A scan of a mint that fails is skipped inside the    *)
(* pass and reads as "no holders"; a pass that throws skips the writers.    *)
HolderPass(v) ==
    /\ pc = "holders" /\ hand = {v}
    /\ \/ /\ HolderAta(v)
          /\ token' = [token EXCEPT ![v] =
                         IF CanBurn(v) /\ v \in ata' THEN "gone" ELSE @]
          /\ clean' = (clean /\ token[v] # "wallet")
          /\ pc' = "writers"
          /\ NoFault /\ UNCHANGED <<todo, hand>>
       \/ /\ token[v] = "wallet" /\ HolderAta(v)      \* the batch failed
          /\ clean' = FALSE
          /\ pc' = "writers"
          /\ Fault /\ UNCHANGED <<token, todo, hand>>
       \/ /\ pc' = "writers"                          \* the scan failed
          /\ Fault /\ UNCHANGED <<token, ata, budget, clean, todo, hand>>
       \/ /\ NextVault                                \* the pass failed
          /\ Fault /\ UNCHANGED <<token, ata, budget>>
    /\ UNCHANGED <<clock, stage, record, writer, rest, cache>>

(* Faulty: "finished" decided by the holders' side alone. *)
WriterPassMarksEarly(v) ==
    /\ pc = "writers" /\ hand = {v}
    /\ NextVault
    /\ writer' = IF CanExit(v) THEN writer \ {v} ELSE writer
    /\ mem' = IF clean THEN [mem EXCEPT ![v] = "fresh"] ELSE mem
    /\ disk' \in {disk, mem'}
    /\ NoFault
    /\ UNCHANGED <<clock, stage, record, token, ata, rest, budget>>

(* The mark, only when all four scans were empty.  Every so many marks the  *)
(* cache is flushed in mid-phase.                                           *)
MarkFinished(v) ==
    IF clean /\ v \notin writer
    THEN /\ mem' = [mem EXCEPT ![v] = "fresh"]
         /\ disk' \in {disk, mem'}
    ELSE UNCHANGED cache

(* runWriterFinalize, then the mark.                                        *)
WriterPass(v) ==
    /\ pc = "writers" /\ hand = {v}
    /\ NextVault
    /\ \/ /\ writer' = IF CanExit(v) THEN writer \ {v} ELSE writer
          /\ MarkFinished(v)
          /\ NoFault
       \/ UNCHANGED <<writer, cache>> /\ Fault
    /\ UNCHANGED <<clock, stage, record, token, ata, rest, budget>>

(* The cache is pruned and written out; phase 3 takes over the snapshot of  *)
(* phase 2, once the cluster's own time is past the grace.                  *)
Flush ==
    /\ pc = "cancel" /\ todo = {}
    /\ pc' = "reclaim"
    /\ mem' = [v \in Vaults |-> IF mem[v] = "aged" THEN "none" ELSE mem[v]]
    /\ \/ disk' = mem' /\ NoFault
       \/ UNCHANGED disk /\ Fault
    /\ todo' = IF clock = GraceOver THEN rest ELSE {}
    /\ rest' = {}
    /\ budget' = 0
    /\ UNCHANGED <<chain, hand, clean>>

---------------------------------------------------------------------------
(* Phase 3. *)

(* A candidate has no record.  initialize_void may already be done by       *)
(* somebody else since the snapshot; an error, or a lost answer, ends the   *)
(* candidate.                                                               *)
ReclaimVault(v) ==
    /\ pc = "reclaim" /\ v \in todo
    /\ todo' = todo \ {v}
    /\ \/ /\ CanVoid(v) \/ (stage[v] = "voided" /\ v \notin record)
          /\ stage' = [stage EXCEPT ![v] = "voided"]
          /\ pc' = "pay" /\ hand' = {v}
          /\ NoFault
       \/ /\ v \in record \/ stage[v] = "settled"
          /\ NoFault /\ UNCHANGED <<stage, pc, hand>>
       \/ Fault /\ UNCHANGED <<stage, pc, hand>>
       \/ /\ CanVoid(v)
          /\ stage' = [stage EXCEPT ![v] = "voided"]
          /\ Fault /\ UNCHANGED <<pc, hand>>
    /\ UNCHANGED <<clock, record, token, writer, ata, rest, clean, budget, cache>>

(* reclaim_unsettled for the writer of a voided vault. *)
PayReclaim(v) ==
    /\ pc = "pay" /\ hand = {v}
    /\ pc' = "reclaim"
    /\ hand' = {}
    /\ \/ writer' = writer \ {v} /\ NoFault
       \/ UNCHANGED writer /\ Fault
    /\ UNCHANGED <<clock, stage, record, token, ata, todo, rest, clean, budget,
                   cache>>

EndTick ==
    /\ pc = "reclaim" /\ todo = {}
    /\ pc' = "idle"
    /\ NoFault
    /\ UNCHANGED <<chain, todo, rest, hand, clean, budget, cache>>

(* The process dies and is restarted: what was not flushed is forgotten. *)
Crash ==
    /\ Fault
    /\ pc' = "idle"
    /\ todo' = {} /\ rest' = {} /\ hand' = {}
    /\ clean' = FALSE /\ budget' = 0
    /\ mem' = disk
    /\ UNCHANGED <<chain, disk>>

---------------------------------------------------------------------------
(* Everybody else. *)

(* settle_expiry, by phase 1, the oracle crank or a user. *)
PostRecord(v) ==
    /\ v \notin record
    /\ record' = record \cup {v}
    /\ UNCHANGED <<clock, stage, token, writer, ata>>

OthersSettle(v) ==
    /\ Settleable(v) /\ SettleAll({v})
    /\ UNCHANGED <<clock, record, token, writer, ata>>

OthersVoid(v) ==
    /\ CanVoid(v)
    /\ stage' = [stage EXCEPT ![v] = "voided"]
    /\ UNCHANGED <<clock, record, token, writer, ata>>

(* The seller cancels a listing or an order, after expiry too. *)
SellerCancels(v) ==
    /\ token[v] \in {"listing", "order"}
    /\ token' = [token EXCEPT ![v] = "wallet"]
    /\ UNCHANGED <<clock, stage, record, writer, ata>>

HolderExercises(v) ==
    /\ CanBurn(v)
    /\ token' = [token EXCEPT ![v] = "gone"]
    /\ ata' = ata \cup {v}
    /\ UNCHANGED <<clock, stage, record, writer>>

(* withdraw_post_settlement, or reclaim_unsettled called by anyone. *)
WriterLeaves(v) ==
    /\ CanExit(v) \/ (stage[v] = "voided" /\ v \in writer)
    /\ writer' = writer \ {v}
    /\ UNCHANGED <<clock, stage, record, token, ata>>

TimePasses ==
    /\ clock < GraceOver
    /\ clock' = clock + 1
    /\ UNCHANGED <<stage, record, token, writer, ata>>

(* A week goes by: entries of the cache outlive DEFAULT_MAX_ENTRY_AGE_SEC. *)
EntriesAge ==
    LET older(c) == [v \in Vaults |-> IF c[v] = "fresh" THEN "aged" ELSE c[v]]
    IN
    /\ mem' = older(mem) /\ disk' = older(disk)
    /\ cache' # cache
    /\ UNCHANGED <<chain, tick, faults>>

---------------------------------------------------------------------------
CrankStep ==
    \/ Start \/ Plan \/ SendBatch \/ Refetch \/ Flush \/ EndTick
    \/ \E v \in Vaults :
          Isolate(v) \/ CancelPass(v) \/ SweepPass(v) \/ HolderPass(v)
             \/ WriterPass(v) \/ ReclaimVault(v) \/ PayReclaim(v)

OthersStep ==
    /\ \/ TimePasses
       \/ \E v \in Vaults : PostRecord(v)
       \/ \E v \in Busy :
             OthersSettle(v) \/ OthersVoid(v) \/ SellerCancels(v)
                \/ HolderExercises(v) \/ WriterLeaves(v)
    /\ UNCHANGED <<tick, cache, faults>>

Next == CrankStep \/ OthersStep \/ Crash \/ EntriesAge

Spec == Init /\ [][Next]_vars

(* Ticks follow one another for ever, time passes; nobody else has to act.  *)
FairSpec ==
    /\ Spec
    /\ WF_vars(CrankStep)
    /\ WF_vars(TimePasses /\ UNCHANGED <<tick, cache, faults>>)
---------------------------------------------------------------------------
(* Properties. *)

(* Whatever crashes, failed scans and stale files the crank went through, a *)
(* vault the finalize cache makes it skip has nobody waiting for it: its    *)
(* writer is out, and no listing or order still holds its option.           *)
SuppressedIsDone ==
    \A v \in Vaults :
        MaySuppress(v) => v \notin writer /\ token[v] \notin {"listing", "order"}

(* Every vault that can be settled is, once its record exists, although     *)
(* another vault in the same transaction always fails, others race for the  *)
(* same vaults, and a tick takes only so many: none is starved.             *)
FanoutDrains ==
    <>[](\A v \in Vaults \ Poison : v \in record => stage[v] # "open")

(* A settled vault is wound down: its writer is paid out and what can be    *)
(* given back is, although an order of it can not be, the ticks die half    *)
(* way and the budget for new accounts is smaller than what is missing.     *)
EveryoneFinalized ==
    <>[](\A v \in Vaults : stage[v] = "settled" =>
            /\ v \notin writer
            /\ v \notin Stuck => token[v] \notin {"listing", "order"})
=============================================================================
