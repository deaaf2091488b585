---------------------------- MODULE LimitBook ----------------------------
(***************************************************************************)
(* What the order book of one series promises, without saying where the    *)
(* money waits.  Every trader has so much USDC and so many option tokens;  *)
(* resting, cancelling and sweeping an order change neither; a trade moves *)
(* both at the resting order's own price, between two different traders,   *)
(* while the series is open; and as long as it is, each trader can honour, *)
(* in full and together, all the orders it has resting.  Once it is closed *)
(* the tokens of a resting ask may be redeemed at its vault, for somebody  *)
(* else's profit; and at any time a trader may be given what other vaults  *)
(* have paid.  OrderBook, which keeps an escrow account per order,         *)
(* implements this module.                                                 *)
(***************************************************************************)
EXTENDS VaultMath, Functions

CONSTANTS
    Traders,
    OrderIds,       \* an order is named <<owner, nonce>>
    NoOrder,        \* what rests where no order does
    Strike, FeeBps,
    Payouts         \* what other vaults may pay

VARIABLES
    open,           \* the series has not expired
    resting,        \* the orders: kind, price and quantity left
    cash, held,     \* USDC and option tokens of each trader
    fees,           \* what trades have paid the protocol
    backing         \* USDC each writer has put behind options it wrote

bookVars == <<open, resting, cash, held, fees, backing>>

Limit == [kind     : {"Bid", "ResaleAsk", "WriterAsk"},
          price    : Nat \ {0},
          quantity : Nat \ {0}]

Owner(o) == o[1]

(* What the order's owner has to keep for it, of each kind. *)
UsdcFor(r) ==
    IF r = NoOrder THEN 0
    ELSE CASE r.kind = "Bid"       -> r.price * r.quantity
           [] r.kind = "WriterAsk" -> CollateralPerContract(Strike) * r.quantity
           [] OTHER                -> 0
TokensFor(r) == IF r # NoOrder /\ r.kind = "ResaleAsk" THEN r.quantity ELSE 0

OrdersOf(t) == {o \in OrderIds : Owner(o) = t}

(* All resting orders of one trader, filled completely, can be paid for. *)
Honourable ==
    \A t \in Traders :
        /\ cash[t] >= SumFunctionOnSet([o \in OrderIds |-> UsdcFor(resting[o])],
                                       OrdersOf(t))
        /\ open => held[t] >= SumFunctionOnSet([o \in OrderIds |-> TokensFor(resting[o])],
                                               OrdersOf(t))

BookInit ==
    /\ open = TRUE
    /\ resting = [o \in OrderIds |-> NoOrder]
    /\ cash \in [Traders -> Nat]
    /\ held \in [Traders -> Nat]
    /\ fees = 0
    /\ backing = [t \in Traders |-> 0]

Close ==
    /\ open' = FALSE
    /\ UNCHANGED <<resting, cash, held, fees, backing>>

Rest(o) ==
    /\ open
    /\ resting[o] = NoOrder
    /\ resting'[o] \in Limit
    /\ resting' = [resting EXCEPT ![o] = resting'[o]]
    /\ UNCHANGED <<open, cash, held, fees, backing>>

(* Any set of orders may go at once: a sweep is one transaction. *)
Withdraw(orders) ==
    /\ \A o \in orders : resting[o] # NoOrder
    /\ resting' = [o \in OrderIds |-> IF o \in orders THEN NoOrder ELSE resting[o]]
    /\ UNCHANGED <<open, cash, held, fees, backing>>

Trade(taker, o, quantity) ==
    LET r      == resting[o]
        maker  == Owner(o)
        buyer  == IF r.kind = "Bid" THEN maker ELSE taker
        seller == IF r.kind = "Bid" THEN taker ELSE maker
        total  == quantity * r.price
        fee    == Fee(total, FeeBps)
        locked == IF r.kind = "WriterAsk"
                  THEN quantity * CollateralPerContract(Strike) ELSE 0
        given  == IF r.kind = "WriterAsk" THEN 0 ELSE quantity
    IN
    /\ open
    /\ taker # maker
    /\ resting' = [resting EXCEPT ![o] =
                     IF quantity = r.quantity THEN NoOrder
                     ELSE [r EXCEPT !.quantity = r.quantity - quantity]]
    /\ cash' = [cash EXCEPT ![buyer] = @ - total,
                            ![seller] = @ + (total - fee) - locked]
    /\ held' = [held EXCEPT ![buyer] = @ + quantity, ![seller] = @ - given]
    /\ fees' = fees + fee
    /\ backing' = [backing EXCEPT ![seller] = @ + locked]
    /\ UNCHANGED open

(* The settled vault takes the tokens of an ask that still rests and pays   *)
(* no more than what backs them, to the protocol or to another trader.      *)
Redeem(o, payout) ==
    /\ ~open
    /\ resting[o].kind = "ResaleAsk"
    /\ held' = [held EXCEPT ![Owner(o)] = @ - resting[o].quantity]
    /\ \/ fees' = fees + payout /\ UNCHANGED cash
       \/ \E t \in Traders : cash' = [cash EXCEPT ![t] = @ + payout] /\ UNCHANGED fees
    /\ UNCHANGED <<open, resting, backing>>

(* Another vault pays a trader.                                             *)
Windfall(t, payout) ==
    /\ cash' = [cash EXCEPT ![t] = @ + payout]
    /\ UNCHANGED <<open, resting, held, fees, backing>>

BookNext ==
    /\ \/ Close
       \/ \E o \in OrderIds : Rest(o)
       \/ \E orders \in SUBSET OrderIds : Withdraw(orders)
       \/ \E taker \in Traders, o \in OrderIds :
            /\ resting[o] # NoOrder
            /\ \E quantity \in 1..resting[o].quantity : Trade(taker, o, quantity)
       \/ \E o \in OrderIds :
            /\ resting[o] # NoOrder
            /\ \E payout \in 0..(CollateralPerContract(Strike) * resting[o].quantity) :
                  Redeem(o, payout)
       \/ \E t \in Traders, payout \in Payouts : Windfall(t, payout)
    /\ Honourable'

BookSpec == BookInit /\ [][BookNext]_bookVars
==========================================================================
