---------------------------- MODULE OrderBook ----------------------------
(***************************************************************************)
(* The order book of one option series: post_order, fill_order,            *)
(* fill_writer_ask, cancel_order and sweep_expired_orders; and the resale  *)
(* listings beside it: list_v2_for_resale, buy_v2_resale, cancel_v2_resale *)
(* and auto_cancel_listings.  There is no matching: makers rest orders,    *)
(* each with an escrow account of its own, and takers name the order they  *)
(* fill.                                                                   *)
(*   Bid        buys; its escrow holds price x quantity USDC.              *)
(*   ResaleAsk  sells tokens; its escrow holds them.                       *)
(*   WriterAsk  writes new tokens; its escrow holds their collateral, which*)
(*              each fill moves to the pot (`committed`, per backer).      *)
(*   Listing    sells tokens; its escrow holds them.                       *)
(* The series is the canonical mint of an American vault, the one series   *)
(* on which every kind may rest.  An order's address derives from its      *)
(* owner and a nonce, a listing's from its owner alone: each is free again *)
(* once the account is closed, and a seller has one listing at most.  The  *)
(* vault is settled or voided after expiry only, so `expired` stands for   *)
(* all three.  One instruction from outside the book reaches into it:      *)
(* auto_finalize_holders burns the tokens of an escrow once the vault is   *)
(* settled (FinalizeEscrow), and pays into an escrow at any time, for      *)
(* another settled vault (ReceivePayout).  What else happens to tokens and *)
(* pot (pegged fills, exercises, settlement) is AmericanVault's; wallets   *)
(* change by the book's instructions only.                                 *)
(***************************************************************************)
EXTENDS VaultMath, Functions, FiniteSets

CONSTANTS
    Traders,        \* wallets
    OrderIds,       \* addresses: <<owner, nonce>>
    ListingIds,     \* those of the listings, one per seller
    NoOrder,        \* an address without an order
    Strike, FeeBps,
    StartUsdc, StartTokens,     \* what each wallet starts with
    Prices, Quantities,         \* values instructions are called with
    Payouts,                    \* what a settled vault may pay for an escrow
    MaxGained                   \* how much other vaults pay in

ASSUME BookAssumption ==
    /\ OrderIds \subseteq Traders \X Nat
    /\ ListingIds \subseteq OrderIds
    /\ \A l, m \in ListingIds : l[1] = m[1] => l = m
    /\ Strike \in Nat \ {0} /\ FeeBps \in 0..10000
    /\ StartUsdc \in [Traders -> Nat] /\ StartTokens \in [Traders -> Nat]
    /\ Prices \subseteq Nat \ {0} /\ Quantities \subseteq Nat \ {0}
    /\ Payouts \subseteq Nat /\ MaxGained \in Nat

(* A run of the program has finitely many wallets and order addresses.      *)
ASSUME FiniteAssumption == IsFiniteSet(Traders) /\ IsFiniteSet(OrderIds)

OrderKind == {"Bid", "ResaleAsk", "WriterAsk"}

(* quantity is quantity_remaining or listed_quantity, cpt                   *)
(* collateral_per_contract.                                                 *)
RestingOrder ==
    [kind : OrderKind \union {"Listing"}, price : Nat, quantity : Nat, cpt : Nat]

(* A resting order as LimitBook knows it. *)
ShownOrder == [kind : OrderKind, price : Nat, quantity : Nat]

ASSUME NoOrderAssumption == NoOrder \notin RestingOrder \union ShownOrder

VARIABLES
    expired,    \* the clock has reached vault.expiry
    order,      \* the RestingOrder and VaultResaleListing accounts
    escrow,     \* balance of each order's escrow
    usdc,       \* wallets' USDC
    tokens,     \* wallets' tokens of the series
    treasury,   \* fees received
    committed,  \* WriterAskPosition.collateral_committed, held by the pot
    burned,     \* history: tokens finalized in the book's escrows
    redeemed,   \* history: USDC the vault has paid for them
    gained      \* history: USDC other vaults have paid into the book

book     == <<order, escrow>>
wallets  == <<usdc, tokens, treasury, committed>>
history  == <<burned, redeemed, gained>>
bookVars == <<expired, book, wallets, history>>

Owner(o) == o[1]

(* Sold out of an escrow of tokens. *)
ResaleKind == {"ResaleAsk", "Listing"}

Init ==
    /\ expired = FALSE
    /\ order = [o \in OrderIds |-> NoOrder]
    /\ escrow = [o \in OrderIds |-> 0]
    /\ usdc = StartUsdc
    /\ tokens = StartTokens
    /\ treasury = 0
    /\ committed = [t \in Traders |-> 0]
    /\ burned = 0
    /\ redeemed = 0
    /\ gained = 0

---------------------------------------------------------------------------
(* Makers. *)

(* What `n` contracts of order r keep in its escrow. *)
Escrowed(r, n) ==
    CASE r.kind = "Bid"         -> r.price * n
      [] r.kind \in ResaleKind  -> n
      [] r.kind = "WriterAsk"   -> r.cpt * n

(* What post_order and list_v2_for_resale have in common. *)
Place(o, kind, price, quantity) ==
    LET r == [kind |-> kind, price |-> price, quantity |-> quantity,
              cpt |-> IF kind = "WriterAsk" THEN CollateralPerContract(Strike) ELSE 0]
        amount == Escrowed(r, quantity)
    IN
    /\ ~expired
    /\ order[o] = NoOrder
    /\ \/ /\ kind \in ResaleKind
          /\ amount <= tokens[Owner(o)]
          /\ tokens' = [tokens EXCEPT ![Owner(o)] = @ - amount]
          /\ UNCHANGED usdc
       \/ /\ kind \notin ResaleKind
          /\ amount <= usdc[Owner(o)]
          /\ usdc' = [usdc EXCEPT ![Owner(o)] = @ - amount]
          /\ UNCHANGED tokens
    /\ order' = [order EXCEPT ![o] = r]
    /\ escrow' = [escrow EXCEPT ![o] = amount]
    /\ UNCHANGED <<expired, treasury, committed, history>>

PostOrder(o, kind, price, quantity) ==
    o \notin ListingIds /\ Place(o, kind, price, quantity)

(* The address takes no nonce: a seller lists again once the last is gone. *)
ListForResale(o, price, quantity) ==
    o \in ListingIds /\ Place(o, "Listing", price, quantity)

(* Faulty: the escrow of a writer ask goes where that of a resale ask does. *)
CloseAsTokens(orders) ==
    LET tokensOf(t) == {o \in orders : Owner(o) = t /\ order[o].kind # "Bid"}
        usdcOf(t)   == {o \in orders : Owner(o) = t /\ order[o].kind = "Bid"}
    IN
    /\ usdc' = [t \in Traders |-> usdc[t] + SumFunctionOnSet(escrow, usdcOf(t))]
    /\ tokens' = [t \in Traders |-> tokens[t] + SumFunctionOnSet(escrow, tokensOf(t))]
    /\ order' = [o \in OrderIds |-> IF o \in orders THEN NoOrder ELSE order[o]]
    /\ escrow' = [o \in OrderIds |-> IF o \in orders THEN 0 ELSE escrow[o]]
    /\ UNCHANGED <<expired, treasury, committed, history>>

(* The escrows' whole balances go back and the accounts are closed. *)
Close(orders) ==
    LET tokensOf(t) == {o \in orders : Owner(o) = t /\ order[o].kind \in ResaleKind}
        usdcOf(t)   == {o \in orders : Owner(o) = t /\ order[o].kind \notin ResaleKind}
    IN
    /\ usdc' = [t \in Traders |-> usdc[t] + SumFunctionOnSet(escrow, usdcOf(t))]
    /\ tokens' = [t \in Traders |-> tokens[t] + SumFunctionOnSet(escrow, tokensOf(t))]
    /\ order' = [o \in OrderIds |-> IF o \in orders THEN NoOrder ELSE order[o]]
    /\ escrow' = [o \in OrderIds |-> IF o \in orders THEN 0 ELSE escrow[o]]
    /\ UNCHANGED <<expired, treasury, committed, history>>

(* Only its owner can derive an order's address; expiry does not matter. *)
CancelOrder(o) == o \notin ListingIds /\ order[o] # NoOrder /\ Close({o})

CancelResale(o) == o \in ListingIds /\ order[o] # NoOrder /\ Close({o})

(* Faulty: only the orders whose escrow is USDC. *)
SweepUsdcOnly(batch) ==
    /\ expired
    /\ batch # {}
    /\ batch \intersect ListingIds = {}
    /\ \A o \in batch : order[o] # NoOrder /\ order[o].kind # "ResaleAsk"
    /\ Close(batch)

(* Anyone; one bad entry reverts the batch. *)
SweepExpiredOrders(batch) ==
    /\ expired
    /\ batch # {}
    /\ batch \intersect ListingIds = {}
    /\ \A o \in batch : order[o] # NoOrder
    /\ Close(batch)

(* Anyone and, unlike the sweep, at any time: neither the handler nor its   *)
(* accounts look at the clock or the vault's state.  One bad entry reverts  *)
(* the batch.                                                               *)
AutoCancelListings(batch) ==
    /\ batch # {}
    /\ batch \subseteq ListingIds
    /\ \A o \in batch : order[o] # NoOrder
    /\ Close(batch)

---------------------------------------------------------------------------
(* Takers. *)

(* Of order o, `quantity` is filled and `amount` leaves its escrow; the     *)
(* last fill closes both accounts, which fails if anything is left.         *)
Fill(o, quantity, amount) ==
    LET left == order[o].quantity - quantity
    IN
    /\ amount <= escrow[o]
    /\ left = 0 => escrow[o] = amount
    /\ order' = [order EXCEPT ![o] = IF left = 0 THEN NoOrder
                                     ELSE [@ EXCEPT !.quantity = left]]
    /\ escrow' = [escrow EXCEPT ![o] = @ - amount]

TotalOf(o, quantity)  == quantity * order[o].price
FeeOf(o, quantity)    == Fee(TotalOf(o, quantity), FeeBps)
ShareOf(o, quantity)  == TotalOf(o, quantity) - FeeOf(o, quantity)

(* The fill cores, shared with execute_trigger.  `paid` is wallets' USDC    *)
(* once the buyer has paid: a taker from its wallet, a trigger from its     *)
(* own escrow.                                                              *)
ResaleAskFillCore(o, quantity, buyer, paid) ==
    /\ Fill(o, quantity, quantity)
    /\ usdc' = [paid EXCEPT ![Owner(o)] = @ + ShareOf(o, quantity)]
    /\ tokens' = [tokens EXCEPT ![buyer] = @ + quantity]
    /\ treasury' = treasury + FeeOf(o, quantity)
    /\ UNCHANGED committed

WriterAskFillCore(o, quantity, buyer, paid) ==
    LET moved == order[o].cpt * quantity
    IN
    /\ Fill(o, quantity, moved)
    /\ usdc' = [paid EXCEPT ![Owner(o)] = @ + ShareOf(o, quantity)]
    /\ tokens' = [tokens EXCEPT ![buyer] = @ + quantity]
    /\ treasury' = treasury + FeeOf(o, quantity)
    /\ committed' = [committed EXCEPT ![Owner(o)] = @ + moved]

(* Faulty: the treasury is paid, but not out of the bid's escrow. *)
BidFillUnsplit(o, quantity, seller) ==
    /\ quantity <= tokens[seller]
    /\ Fill(o, quantity, ShareOf(o, quantity))
    /\ tokens' = [tokens EXCEPT ![seller] = @ - quantity, ![Owner(o)] = @ + quantity]
    /\ usdc' = [usdc EXCEPT ![seller] = @ + ShareOf(o, quantity)]
    /\ treasury' = treasury + FeeOf(o, quantity)
    /\ UNCHANGED committed

BidFillCore(o, quantity, seller) ==
    /\ quantity <= tokens[seller]
    /\ Fill(o, quantity, TotalOf(o, quantity))
    /\ tokens' = [tokens EXCEPT ![seller] = @ - quantity, ![Owner(o)] = @ + quantity]
    /\ usdc' = [usdc EXCEPT ![seller] = @ + ShareOf(o, quantity)]
    /\ treasury' = treasury + FeeOf(o, quantity)
    /\ UNCHANGED committed

FillOrder(taker, o, quantity) ==
    /\ order[o] # NoOrder
    /\ taker # Owner(o)
    /\ ~expired
    /\ quantity <= order[o].quantity
    /\ \/ /\ order[o].kind = "ResaleAsk"
          /\ TotalOf(o, quantity) <= usdc[taker]
          /\ ResaleAskFillCore(o, quantity, taker,
                              [usdc EXCEPT ![taker] = @ - TotalOf(o, quantity)])
       \/ /\ order[o].kind = "Bid"
          /\ BidFillCore(o, quantity, taker)
    /\ UNCHANGED <<expired, history>>

(* Faulty: writers may take their own asks, as execute_trigger lets them. *)
FillAnyWriterAsk(taker, o, quantity) ==
    /\ order[o] # NoOrder
    /\ order[o].kind = "WriterAsk"
    /\ ~expired
    /\ quantity <= order[o].quantity
    /\ TotalOf(o, quantity) <= usdc[taker]
    /\ WriterAskFillCore(o, quantity, taker,
                        [usdc EXCEPT ![taker] = @ - TotalOf(o, quantity)])
    /\ UNCHANGED <<expired, history>>

FillWriterAsk(taker, o, quantity) ==
    /\ order[o] # NoOrder
    /\ order[o].kind = "WriterAsk"
    /\ taker # Owner(o)
    /\ ~expired
    /\ quantity <= order[o].quantity
    /\ TotalOf(o, quantity) <= usdc[taker]
    /\ WriterAskFillCore(o, quantity, taker,
                        [usdc EXCEPT ![taker] = @ - TotalOf(o, quantity)])
    /\ UNCHANGED <<expired, history>>

(* The buyer names the most it pays, as it saw the listing's price: by now  *)
(* the address may hold another listing.                                    *)
BuyResale(buyer, o, quantity, maxTotal) ==
    /\ order[o] # NoOrder
    /\ order[o].kind = "Listing"
    /\ ~expired
    /\ buyer # Owner(o)
    /\ quantity <= order[o].quantity
    /\ TotalOf(o, quantity) <= maxTotal
    /\ TotalOf(o, quantity) <= usdc[buyer]
    /\ ResaleAskFillCore(o, quantity, buyer,
                        [usdc EXCEPT ![buyer] = @ - TotalOf(o, quantity)])
    /\ UNCHANGED <<expired, history>>

Expire ==
    /\ ~expired
    /\ expired' = TRUE
    /\ UNCHANGED <<book, wallets, history>>

---------------------------------------------------------------------------
(* Anyone: finalizations, in this vault and in others.                      *)

KindOf(kinds) == {o \in OrderIds : order[o] # NoOrder /\ order[o].kind \in kinds}

(* The order stays, its tokens are gone, and the vault pays `payout` for    *)
(* them, at most their collateral.                                          *)
BurnEscrow(o, payout) ==
    /\ expired
    /\ o \in KindOf(ResaleKind)
    /\ escrow[o] > 0
    /\ payout <= CollateralPerContract(Strike) * escrow[o]
    /\ burned' = burned + escrow[o]
    /\ redeemed' = redeemed + payout
    /\ UNCHANGED <<expired, order, usdc, tokens, committed, gained>>

(* auto_finalize_holders asks of the two accounts only that they have one   *)
(* owner.  protocol_state owns every escrow of the book, and the treasury:  *)
(* so the payout goes to the treasury, or to the escrow of another order.   *)
FinalizeEscrow(o, payout) ==
    /\ BurnEscrow(o, payout)
    /\ \/ /\ treasury' = treasury + payout
          /\ escrow' = [escrow EXCEPT ![o] = 0]
       \/ \E p \in KindOf({"Bid", "WriterAsk"}) :
             /\ escrow' = [escrow EXCEPT ![o] = 0, ![p] = @ + payout]
             /\ UNCHANGED treasury

(* The tokens of any other settled vault can be paid for into an escrow of  *)
(* this book, while the series is still open, too.                          *)
ReceivePayout(o, payout) ==
    /\ o \in KindOf({"Bid", "WriterAsk"})
    /\ gained + payout <= MaxGained
    /\ escrow' = [escrow EXCEPT ![o] = @ + payout]
    /\ gained' = gained + payout
    /\ UNCHANGED <<expired, order, wallets, burned, redeemed>>

---------------------------------------------------------------------------

MakerStep ==
    \E o \in OrderIds :
        \/ \E kind \in OrderKind, price \in Prices, quantity \in Quantities :
               PostOrder(o, kind, price, quantity)
        \/ \E price \in Prices, quantity \in Quantities :
               ListForResale(o, price, quantity)
        \/ CancelOrder(o)
        \/ CancelResale(o)

TakerStep ==
    \E taker \in Traders, o \in OrderIds, quantity \in Quantities :
        \/ FillOrder(taker, o, quantity)
        \/ FillWriterAsk(taker, o, quantity)
        \/ \E price \in Prices : BuyResale(taker, o, quantity, price * quantity)

Sweep ==
    \E batch \in SUBSET OrderIds :
        SweepExpiredOrders(batch) \/ AutoCancelListings(batch)

TradeStep == MakerStep \/ TakerStep \/ Sweep \/ Expire

FinalizeStep ==
    \E o \in OrderIds, payout \in Payouts :
        FinalizeEscrow(o, payout) \/ ReceivePayout(o, payout)

Next == TradeStep \/ FinalizeStep

Spec == Init /\ [][Next]_bookVars

(* What the crank's passes send, over settled vaults only: the sweep takes  *)
(* writer asks for impossible and skips them, and the listings' pass skips  *)
(* a seller without a token account, which no wallet here is.               *)
CrankSweep(o) ==
    /\ order[o] # NoOrder
    /\ order[o].kind # "WriterAsk"
    /\ SweepExpiredOrders({o})

CrankCancel(o) == expired /\ AutoCancelListings({o})

(* Time passes, the vault is settled, and the crank, which runs both passes *)
(* on every tick over every settled vault that still has orders, goes on.   *)
FairSpec ==
    /\ Spec
    /\ WF_bookVars(Expire)
    /\ \A o \in OrderIds : WF_bookVars(CrankSweep(o)) /\ WF_bookVars(CrankCancel(o))

---------------------------------------------------------------------------
(* Properties. *)

TypeOK ==
    /\ expired \in BOOLEAN
    /\ order \in [OrderIds -> RestingOrder \union {NoOrder}]
    /\ escrow \in [OrderIds -> Nat]
    /\ usdc \in [Traders -> Nat]
    /\ tokens \in [Traders -> Nat]
    /\ treasury \in Nat
    /\ committed \in [Traders -> Nat]
    /\ burned \in Nat
    /\ redeemed \in Nat
    /\ gained \in Nat

(* An escrow holds what the remaining contracts of its order need, to the   *)
(* unit, whatever was filled in which portions: so the last fill can close  *)
(* the account (EscrowNotEmpty).  Only finalizations change that: tokens    *)
(* may be gone, all at once, when the series has expired (what the sweep's  *)
(* grace path expects), and USDC may be more, by what vaults have paid in.  *)
(* An order that is gone left nothing behind for the next at its address.   *)
EscrowExact ==
    \A o \in OrderIds :
        /\ order[o] = NoOrder => escrow[o] = 0
        /\ order[o] # NoOrder =>
              LET due == Escrowed(order[o], order[o].quantity)
              IN
              /\ order[o].quantity > 0
              /\ order[o].kind \in ResaleKind =>
                    escrow[o] = due \/ (expired /\ escrow[o] = 0)
              /\ order[o].kind \notin ResaleKind =>
                    /\ escrow[o] >= due
                    /\ escrow[o] <= due + redeemed + gained

(* Resting, filling in portions, cancelling, sweeping and finalizing        *)
(* neither create nor lose a unit of USDC: there is what the wallets had,   *)
(* and what vaults have paid for finalized tokens.  Every token, those      *)
(* included, is one of the initial ones or has its full collateral          *)
(* committed by a backer.                                                   *)
NothingLost ==
    /\ SumFunction(usdc) + treasury + SumFunction(committed)
         + SumFunctionOnSet(escrow, KindOf({"Bid", "WriterAsk"}))
       = SumFunction(StartUsdc) + redeemed + gained
    /\ CollateralPerContract(Strike)
         * (SumFunction(tokens) + SumFunctionOnSet(escrow, KindOf(ResaleKind)) + burned)
       = CollateralPerContract(Strike) * SumFunction(StartTokens)
         + SumFunction(committed)

(* The book and the listings implement LimitBook, which knows the two kinds *)
(* of resale as one: until expiry only trades move value, at the resting    *)
(* order's price, between two traders, and every resting order can be       *)
(* honoured in full whatever else its owner does.  What settled vaults pay  *)
(* adds to a trader's USDC or to the fees, and only what the series' own    *)
(* vault redeems, afterwards, costs its owner tokens.                       *)
Promise == INSTANCE LimitBook WITH
    open    <- ~expired,
    resting <- [o \in OrderIds |->
                  IF order[o] = NoOrder THEN NoOrder
                  ELSE [kind     |-> IF order[o].kind \in ResaleKind THEN "ResaleAsk"
                                     ELSE order[o].kind,
                        price    |-> order[o].price,
                        quantity |-> order[o].quantity]],
    cash    <- [t \in Traders |-> usdc[t] +
                  SumFunctionOnSet(escrow, {o \in KindOf({"Bid", "WriterAsk"}) : Owner(o) = t})],
    held    <- [t \in Traders |-> tokens[t] +
                  SumFunctionOnSet(escrow, {o \in KindOf(ResaleKind) : Owner(o) = t})],
    fees    <- treasury,
    backing <- committed

KeepsPromises == Promise!BookSpec

(* Once the series has expired, bids, resale asks and listings come back to *)
(* their owners for good, also to one who never returns.                    *)
CrankReturnsOrders ==
    <>[](\A o \in OrderIds : order[o] = NoOrder \/ order[o].kind = "WriterAsk")
==========================================================================
