----------------------------- MODULE Triggers -----------------------------
(***************************************************************************)
(* Trigger orders on the series of OrderBook: place_trigger, link_oco,     *)
(* cancel_trigger and execute_trigger.                                     *)
(*   StopEntryBuy    buys from a resting ask or from the vault's peg; USDC *)
(*                   for its whole ceiling waits in an escrow of its own.  *)
(*   TakeProfitSell  sells into a resting bid, or exercises; escrows       *)
(*                   nothing: the tokens stay in the owner's account.      *)
(*   StopLossSell    sells into a resting bid only.                        *)
(* Two triggers of one owner may be linked as one-cancels-other: what one  *)
(* fires comes off the other in the same transaction.                      *)
(* Anyone may execute a trigger, and names the resting order to use.  The  *)
(* price condition is left out: the price is whatever the oracle says at   *)
(* that moment, so at any moment it may hold.  Of the vault only what a    *)
(* trigger meets is kept: the balance of its account and how many options  *)
(* it can still back; the rest is AmericanVault's.                         *)
(***************************************************************************)
EXTENDS OrderBook

CONSTANTS
    TriggerIds,     \* trigger addresses: <<owner, nonce>>
    NoTrigger,      \* an address without a trigger; the link of a lone one
    StartPool,      \* the vault's USDC account at the start
    Capacity,       \* options the vault's free collateral can back
    Kinds,          \* kinds of trigger that are placed
    Limits,         \* max_premium values triggers are placed with
    Payoffs         \* intrinsic values an exercise may find

TriggerKind == {"StopEntryBuy", "TakeProfitSell", "StopLossSell"}

ASSUME TriggerAssumption ==
    /\ TriggerIds \subseteq Traders \X Nat
    /\ NoTrigger \notin TriggerIds
    /\ Kinds \subseteq TriggerKind
    /\ StartPool \in Nat /\ Capacity \in Nat
    /\ Limits \subseteq Nat /\ Payoffs \subseteq Nat \ {0}

(* Finitely many triggers are ever placed. *)
ASSUME FiniteTriggers == IsFiniteSet(TriggerIds)

(* max_premium is a buyer's ceiling and a seller's floor, per contract;     *)
(* link is oco_link; escrow_funded holds of buys and of no others.          *)
TriggerOrder == [kind : TriggerKind, quantity : Nat, max_premium : Nat,
                 link : TriggerIds \union {NoTrigger}]

ASSUME NoTriggerAssumption == NoTrigger \notin TriggerOrder

VARIABLES
    trigger,    \* the TriggerOrder accounts
    tEscrow,    \* balance of each trigger's escrow
    pool,       \* balance of the vault's USDC account
    issued      \* options the vault wrote through its peg

triggers == <<trigger, tEscrow>>
vault    == <<pool, issued>>
allVars  == <<bookVars, triggers, vault>>

TInit ==
    /\ Init
    /\ trigger = [t \in TriggerIds |-> NoTrigger]
    /\ tEscrow = [t \in TriggerIds |-> 0]
    /\ pool = StartPool
    /\ issued = 0

IsBuy(t) == trigger[t].kind = "StopEntryBuy"

---------------------------------------------------------------------------
(* The owner's instructions. *)

(* No expiry check.  A sell's tokens are counted, not set aside. *)
PlaceTrigger(t, kind, quantity, limit) ==
    LET amount == IF kind = "StopEntryBuy" THEN limit * quantity ELSE 0
    IN
    /\ trigger[t] = NoTrigger
    /\ IF kind = "StopEntryBuy"
       THEN limit > 0 /\ amount <= usdc[Owner(t)]
       ELSE quantity <= tokens[Owner(t)]
    /\ usdc' = [usdc EXCEPT ![Owner(t)] = @ - amount]
    /\ tEscrow' = [tEscrow EXCEPT ![t] = amount]
    /\ trigger' = [trigger EXCEPT ![t] =
                     [kind |-> kind, quantity |-> quantity,
                      max_premium |-> limit, link |-> NoTrigger]]
    /\ UNCHANGED <<expired, book, tokens, treasury, committed, history, vault>>

LinkOco(t, p) ==
    /\ t # p
    /\ Owner(t) = Owner(p)
    /\ trigger[t] # NoTrigger /\ trigger[p] # NoTrigger
    /\ trigger[t].link = NoTrigger /\ trigger[p].link = NoTrigger
    /\ trigger' = [trigger EXCEPT ![t].link = p, ![p].link = t]
    /\ UNCHANGED <<bookVars, tEscrow, vault>>

(* The peer a linked trigger names is there and names it back. *)
PeerAnswers(t) ==
    LET p == trigger[t].link
    IN  p # NoTrigger => /\ trigger[p] # NoTrigger
                         /\ trigger[p].link = t
                         /\ Owner(p) = Owner(t)

CancelTrigger(t) ==
    LET p == trigger[t].link
    IN
    /\ trigger[t] # NoTrigger
    /\ PeerAnswers(t)
    /\ usdc' = [usdc EXCEPT ![Owner(t)] = @ + tEscrow[t]]
    /\ tEscrow' = [tEscrow EXCEPT ![t] = 0]
    /\ trigger' = [u \in TriggerIds |->
                     IF u = t THEN NoTrigger
                     ELSE IF u = p THEN [trigger[u] EXCEPT !.link = NoTrigger]
                     ELSE trigger[u]]
    /\ UNCHANGED <<expired, book, tokens, treasury, committed, history, vault>>

---------------------------------------------------------------------------
(* execute_trigger.  Every execution drops the trigger's own link first.    *)

(* Faulty: the peer looked up through the link that was just dropped. *)
FireAndForget(t, quantity) ==
    LET left == trigger[t].quantity - quantity
    IN  trigger' = [trigger EXCEPT ![t] =
                      IF left = 0 THEN NoTrigger
                      ELSE [@ EXCEPT !.quantity = left, !.link = NoTrigger]]

(* `quantity` of t fired: t is closed when nothing is left, and its peer,   *)
(* which has to answer, shrinks by as much and is on its own again.         *)
Fired(t, quantity) ==
    LET left == trigger[t].quantity - quantity
        p    == trigger[t].link
    IN
    /\ PeerAnswers(t)
    /\ trigger' = [u \in TriggerIds |->
                     IF u = t
                     THEN IF left = 0 THEN NoTrigger
                          ELSE [trigger[u] EXCEPT !.quantity = left, !.link = NoTrigger]
                     ELSE IF u = p
                     THEN [trigger[u] EXCEPT !.quantity = SaturatingSub(@, quantity),
                                             !.link = NoTrigger]
                     ELSE trigger[u]]

(* A benign no-op: the instruction succeeds, and so the link stays dropped. *)
Skipped(t) ==
    /\ trigger' = [trigger EXCEPT ![t].link = NoTrigger]
    /\ UNCHANGED <<bookVars, tEscrow, vault>>

(* Faulty: what is left of the escrow is not returned. *)
NoRefund(t, quantity, paid) == 0

(* Out of t's escrow `paid` was spent; a trigger that is done gets the rest *)
(* back.                                                                    *)
Refund(t, quantity, paid) ==
    IF quantity = trigger[t].quantity THEN tEscrow[t] - paid ELSE 0

SpendEscrow(t, quantity, paid) ==
    /\ paid <= tEscrow[t]
    /\ tEscrow' = [tEscrow EXCEPT ![t] =
                     IF quantity = trigger[t].quantity THEN 0 ELSE @ - paid]

Repaid(t, quantity, paid) ==
    [usdc EXCEPT ![Owner(t)] = @ + Refund(t, quantity, paid)]

(* A buy that lifts ask o. *)
AskWithinCeiling(t, o) ==
    /\ trigger[t] # NoTrigger /\ IsBuy(t)
    /\ order[o] # NoOrder
    /\ order[o].kind # "Bid"
    /\ order[o].price <= trigger[t].max_premium

BuyFromBook(t, o) ==
    LET quantity == Smaller(trigger[t].quantity, order[o].quantity)
        total    == TotalOf(o, quantity)
    IN
    /\ AskWithinCeiling(t, o)
    /\ ~expired
    /\ quantity > 0
    /\ SpendEscrow(t, quantity, total)
    /\ \/ /\ order[o].kind = "WriterAsk"
          /\ WriterAskFillCore(o, quantity, Owner(t), Repaid(t, quantity, total))
       \/ /\ order[o].kind = "ResaleAsk"
          /\ ResaleAskFillCore(o, quantity, Owner(t), Repaid(t, quantity, total))
    /\ Fired(t, quantity)
    /\ UNCHANGED <<expired, history, vault>>

(* Expired, whatever order was named; or nothing left to buy. *)
SkipBuyFromBook(t, o) ==
    /\ trigger[t] # NoTrigger /\ IsBuy(t)
    /\ order[o] # NoOrder
    /\ expired \/ (AskWithinCeiling(t, o) /\ trigger[t].quantity = 0)
    /\ Skipped(t)

(* vault_peg_fill_core, for the whole quantity at the vault's own quote. *)
BuyFromVault(t, premium) ==
    LET quantity == trigger[t].quantity
        total    == quantity * premium
        fee      == Fee(total, FeeBps)
    IN
    /\ trigger[t] # NoTrigger /\ IsBuy(t)
    /\ quantity > 0
    /\ ~expired
    /\ total <= trigger[t].max_premium * quantity
    /\ issued + quantity <= Capacity
    /\ SpendEscrow(t, quantity, total)
    /\ usdc' = Repaid(t, quantity, total)
    /\ treasury' = treasury + fee
    /\ pool' = pool + (total - fee)
    /\ issued' = issued + quantity
    /\ tokens' = [tokens EXCEPT ![Owner(t)] = @ + quantity]
    /\ Fired(t, quantity)
    /\ UNCHANGED <<expired, book, committed, history>>

(* Faulty: any bid will do. *)
AnyBid(t, o) ==
    /\ trigger[t] # NoTrigger /\ ~IsBuy(t)
    /\ order[o] # NoOrder
    /\ order[o].kind = "Bid"
    /\ trigger[t].max_premium > 0

(* A sell that hits bid o; a floor of zero keeps a trigger off the book. *)
BidAboveFloor(t, o) ==
    /\ trigger[t] # NoTrigger /\ ~IsBuy(t)
    /\ order[o] # NoOrder
    /\ order[o].kind = "Bid"
    /\ trigger[t].max_premium > 0
    /\ order[o].price >= trigger[t].max_premium

SellToBook(t, o) ==
    LET quantity == Smaller(Smaller(trigger[t].quantity, order[o].quantity),
                            tokens[Owner(t)])
    IN
    /\ BidAboveFloor(t, o)
    /\ ~expired
    /\ quantity > 0
    /\ BidFillCore(o, quantity, Owner(t))
    /\ Fired(t, quantity)
    /\ UNCHANGED <<expired, history, tEscrow, vault>>

(* Expired, or nothing to sell: the owner may have moved its tokens. *)
SkipSellToBook(t, o) ==
    /\ BidAboveFloor(t, o)
    /\ expired \/ Smaller(trigger[t].quantity, tokens[Owner(t)]) = 0
    /\ Skipped(t)

(* A stop-loss for which no bid was named has nowhere to sell. *)
SkipStopLoss(t) ==
    /\ trigger[t] # NoTrigger
    /\ trigger[t].kind = "StopLossSell"
    /\ Skipped(t)

(* american_exercise_core without a pot: the vault's account pays it all. *)
ExerciseTrigger(t, intrinsic) ==
    LET quantity == Smaller(trigger[t].quantity, tokens[Owner(t)])
        payout   == quantity * intrinsic
    IN
    /\ trigger[t] # NoTrigger
    /\ trigger[t].kind = "TakeProfitSell"
    /\ quantity > 0
    /\ ~expired
    /\ payout <= pool
    /\ pool' = pool - payout
    /\ usdc' = [usdc EXCEPT ![Owner(t)] = @ + payout]
    /\ tokens' = [tokens EXCEPT ![Owner(t)] = @ - quantity]
    /\ Fired(t, quantity)
    /\ UNCHANGED <<expired, book, treasury, committed, history, tEscrow, issued>>

(* Nothing to exercise. *)
SkipExercise(t) ==
    /\ trigger[t] # NoTrigger
    /\ trigger[t].kind = "TakeProfitSell"
    /\ Smaller(trigger[t].quantity, tokens[Owner(t)]) = 0
    /\ Skipped(t)

---------------------------------------------------------------------------

OwnerStep ==
    \E t \in TriggerIds :
        \/ \E kind \in Kinds, quantity \in Quantities, limit \in Limits :
               PlaceTrigger(t, kind, quantity, limit)
        \/ \E p \in TriggerIds : LinkOco(t, p)
        \/ CancelTrigger(t)

ExecuteTrigger ==
    \E t \in TriggerIds :
        \/ \E o \in OrderIds \ ListingIds :
               \/ BuyFromBook(t, o) \/ SkipBuyFromBook(t, o)
               \/ SellToBook(t, o)  \/ SkipSellToBook(t, o)
        \/ \E premium \in Prices : BuyFromVault(t, premium)
        \/ \E intrinsic \in Payoffs : ExerciseTrigger(t, intrinsic)
        \/ SkipStopLoss(t)
        \/ SkipExercise(t)

BookStep == TradeStep /\ UNCHANGED <<triggers, vault>>

(* Tokens of a resting order finalized: the vault's account pays, and the   *)
(* escrow of a buy is one more account of protocol_state's to pay into.     *)
FinalizeInto(o, payout, t) ==
    /\ trigger[t] # NoTrigger /\ IsBuy(t)
    /\ BurnEscrow(o, payout)
    /\ escrow' = [escrow EXCEPT ![o] = 0]
    /\ tEscrow' = [tEscrow EXCEPT ![t] = @ + payout]
    /\ UNCHANGED <<treasury, trigger>>

VaultFinalizes ==
    \E o \in OrderIds, payout \in Payouts :
        /\ payout <= pool
        /\ \/ FinalizeEscrow(o, payout) /\ UNCHANGED triggers
           \/ \E t \in TriggerIds : FinalizeInto(o, payout, t)
        /\ pool' = pool - payout
        /\ UNCHANGED issued

(* The escrow of a buy can be paid into by other vaults like a bid's.       *)
ReceiveInto(t, payout) ==
    /\ trigger[t] # NoTrigger /\ IsBuy(t)
    /\ gained + payout <= MaxGained
    /\ tEscrow' = [tEscrow EXCEPT ![t] = @ + payout]
    /\ gained' = gained + payout
    /\ UNCHANGED <<expired, book, wallets, burned, redeemed, trigger>>

OthersFinalize ==
    \E payout \in Payouts :
        /\ \/ \E o \in OrderIds : ReceivePayout(o, payout) /\ UNCHANGED triggers
           \/ \E t \in TriggerIds : ReceiveInto(t, payout)
        /\ UNCHANGED vault

TNext == OwnerStep \/ ExecuteTrigger \/ BookStep \/ VaultFinalizes \/ OthersFinalize

TSpec == TInit /\ [][TNext]_allVars

---------------------------------------------------------------------------
(* Properties. *)

Placed(t) == trigger[t] # NoTrigger

(* However often it fired in part, and whatever its peer fired, an armed    *)
(* buy can still pay its ceiling for all it has left; nothing else holds    *)
(* trigger escrow.                                                          *)
BuysFunded ==
    \A t \in TriggerIds :
        IF Placed(t) /\ IsBuy(t)
        THEN tEscrow[t] >= trigger[t].max_premium * trigger[t].quantity
        ELSE tEscrow[t] = 0

(* All USDC, what other vaults paid in included, is in a wallet, an escrow, *)
(* the treasury, the pot or the pool: no fire, refund, cancel or close      *)
(* loses or makes any.                                                      *)
UsdcKept ==
    SumFunction(usdc) + treasury + SumFunction(committed) + pool
      + SumFunctionOnSet(escrow, KindOf({"Bid", "WriterAsk"}))
      + SumFunction(tEscrow)
    = SumFunction(StartUsdc) + StartPool + gained

(* The money of triggers is where it belongs, and all of it. *)
TriggerMoneyKept == BuysFunded /\ UsdcKept

OwnedBy(ids, u) == {i \in ids : Owner(i) = u}

(* What u owns, wherever it waits. *)
Wealth(u) ==
    usdc[u] + committed[u]
      + SumFunctionOnSet(tEscrow, OwnedBy(TriggerIds, u))
      + SumFunctionOnSet(escrow, OwnedBy(KindOf({"Bid", "WriterAsk"}), u))
Holding(u) ==
    tokens[u] + SumFunctionOnSet(escrow, OwnedBy(KindOf(ResaleKind), u))

Left(t) == IF Placed(t) THEN trigger[t].quantity ELSE 0
Shrinks(t) == Left(t)' < Left(t)
Names(t, p) == Placed(t) /\ trigger[t].link = p
Traded == <<order, pool>>' # <<order, pool>>

(* The trade a trigger's owner gets from a stranger who executed it: for    *)
(* exactly what came off the trigger, a buyer paid no more than its ceiling *)
(* and a seller on the book got, fee aside, no less than its floor.         *)
Within(t) ==
    LET u     == Owner(t)
        n     == Left(t) - Left(t)'
        paid  == Wealth(u) - Wealth(u)'
        fee   == treasury' - treasury
    IN
    /\ n > 0
    /\ \/ /\ IsBuy(t)
          /\ Holding(u)' = Holding(u) + n
          /\ paid <= trigger[t].max_premium * n
       \/ /\ ~IsBuy(t)
          /\ Holding(u)' = Holding(u) - n
          /\ order' # order => fee - paid >= trigger[t].max_premium * n

FiresWithinLimit ==
    [][\A u \in Traders :
          (/\ Traded
           /\ \E t \in OwnedBy(TriggerIds, u) : Shrinks(t)
           /\ \A o \in OwnedBy(OrderIds, u) : order'[o] = order[o])
          => \E t \in OwnedBy(TriggerIds, u) : Within(t)]_allVars

(* One atomic fire cannot leave the other leg as it was: of two triggers    *)
(* that name each other, what one fires comes off the other, as far as it   *)
(* has so much left and no further.  And a pair is undone on both sides by  *)
(* whatever undoes it, but for an execution that skipped, which moves       *)
(* nothing else.                                                            *)
OcoMovesTogether ==
    [][\A t, p \in TriggerIds :
          LET dt == Left(t) - Left(t)'
              dp == Left(p) - Left(p)'
          IN  (/\ Placed(t) /\ Placed(p)
               /\ trigger[t].link = p /\ trigger[p].link = t)
              => /\ (Traded /\ (dt > 0 \/ dp > 0)) =>
                       /\ Left(t)' >= 0 /\ Left(p)' >= 0
                       /\ dp = Smaller(Left(p), dt) \/ dt = Smaller(Left(t), dp)
                 /\ (Names(t, p)' <=> Names(p, t)')
                    \/ (dt = 0 /\ dp = 0 /\ UNCHANGED <<book, vault, tEscrow>>)]_allVars
==========================================================================
