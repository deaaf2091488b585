------------------------- MODULE OrderBookProofs -------------------------
(***************************************************************************)
(* Theorems about OrderBook and Triggers, for every set of traders and     *)
(* addresses, every price, quantity, strike, fee and payoff.               *)
(*   The escrow invariant is inductive together with the types of the      *)
(* orders and escrows: wallets play no part in it, since what an           *)
(* instruction cannot pay it does not do.                                  *)
(*   What nobody loses is counted by trader: a wallet and what waits for   *)
(* it in escrows.  Then only trades move anything, each between two        *)
(* traders and the treasury, and the sums follow; and the wallets so seen  *)
(* are those of LimitBook, which the book implements.                      *)
(*   An execution of a trigger is such a trade too, paid out of the        *)
(* trigger's own escrow: the same lemmas serve for Triggers.               *)
(***************************************************************************)
EXTENDS Triggers, SumLemmas, TLAPS

(* Orders, escrows and what vaults have paid have their types. *)
BookTyped ==
    /\ order \in [OrderIds -> RestingOrder \union {NoOrder}]
    /\ escrow \in [OrderIds -> Nat]
    /\ redeemed \in Nat
    /\ gained \in Nat

BookInvariant == BookTyped /\ EscrowExact

(* What an order needs is a natural number. *)
LEMMA EscrowedNat ==
    ASSUME NEW r \in RestingOrder, NEW n \in Nat
    PROVE  Escrowed(r, n) \in Nat
<1>1. r.kind \in OrderKind \union {"Listing"} /\ r.price \in Nat /\ r.cpt \in Nat
  BY DEF RestingOrder
<1>2. r.price * n \in Nat /\ r.cpt * n \in Nat
  BY <1>1
<1> QED BY <1>1, <1>2 DEF Escrowed, OrderKind, ResaleKind

(* What EscrowExact says of one address: an order r, or none, and the       *)
(* balance of its escrow, when vaults have paid so much.                    *)
Agrees(r, balance, over, paid) ==
    /\ r = NoOrder => balance = 0
    /\ r # NoOrder =>
          /\ r.quantity > 0
          /\ r.kind \in ResaleKind =>
                balance = Escrowed(r, r.quantity) \/ (over /\ balance = 0)
          /\ r.kind \notin ResaleKind =>
                /\ balance >= Escrowed(r, r.quantity)
                /\ balance <= Escrowed(r, r.quantity) + paid

Paid == redeemed + gained

LEMMA ExactIs ==
    ASSUME BookTyped
    PROVE  EscrowExact <=> \A o \in OrderIds : Agrees(order[o], escrow[o], expired, Paid)
<1>1. \A o \in OrderIds : order[o] # NoOrder => Escrowed(order[o], order[o].quantity) \in Nat
  BY EscrowedNat DEF BookTyped, RestingOrder
<1>2. redeemed \in Nat /\ gained \in Nat
  BY DEF BookTyped
<1>3. \A n \in Nat : n + (redeemed + gained) = n + redeemed + gained
  BY <1>2
<1> QED BY <1>1, <1>3 DEF EscrowExact, Agrees, Paid

LEMMA ExactNext ==
    ASSUME BookTyped'
    PROVE  EscrowExact' <=> \A o \in OrderIds : Agrees(order'[o], escrow'[o], expired', Paid')
<1>1. \A o \in OrderIds : order'[o] # NoOrder
                              => Escrowed(order'[o], order'[o].quantity) \in Nat
  BY EscrowedNat DEF BookTyped, RestingOrder
<1>2. redeemed' \in Nat /\ gained' \in Nat
  BY DEF BookTyped
<1>3. \A n \in Nat : n + (redeemed' + gained') = n + redeemed' + gained'
  BY <1>2
<1> QED BY <1>1, <1>3 DEF EscrowExact, Agrees, Paid, Escrowed

(* Expiry, and what vaults pay, ask less of an escrow, not more. *)
LEMMA AgreesLater ==
    ASSUME NEW r \in RestingOrder \union {NoOrder}, NEW balance \in Nat,
           NEW over, NEW later, over => later,
           NEW paid \in Nat, NEW more \in Nat, paid <= more,
           Agrees(r, balance, over, paid)
    PROVE  Agrees(r, balance, later, more)
<1>1. CASE r = NoOrder
  BY <1>1 DEF Agrees
<1>2. CASE r # NoOrder
  <2>1. r.quantity \in Nat
    BY <1>2 DEF RestingOrder
  <2>2. Escrowed(r, r.quantity) \in Nat
    BY <1>2, <2>1, EscrowedNat
  <2> QED BY <1>2, <2>2 DEF Agrees
<1> QED BY <1>1, <1>2

---------------------------------------------------------------------------
(* Escrow arithmetic. *)

(* The portions of an order need, together, what the whole needs. *)
LEMMA EscrowedSplits ==
    ASSUME NEW r \in RestingOrder, NEW n \in Nat, NEW k \in Nat, k <= n
    PROVE  /\ Escrowed(r, n - k) = Escrowed(r, n) - Escrowed(r, k)
           /\ Escrowed(r, k) <= Escrowed(r, n)
<1>1. r.kind \in OrderKind \union {"Listing"} /\ r.price \in Nat /\ r.cpt \in Nat
  BY DEF RestingOrder
<1>2. ASSUME NEW c \in Nat
      PROVE  c * (n - k) = c * n - c * k /\ c * k <= c * n
  <2>1. n - k \in Nat
    OBVIOUS
  <2>2. c * (n - k) \in Nat
    BY <2>1
  <2>3. c * (n - k) = c * n - c * k
    OBVIOUS
  <2>4. c * n \in Nat /\ c * k \in Nat
    OBVIOUS
  <2> QED BY <2>2, <2>3, <2>4
<1>3. /\ r.price * (n - k) = r.price * n - r.price * k
      /\ r.price * k <= r.price * n
  BY <1>1, <1>2
<1>4. /\ r.cpt * (n - k) = r.cpt * n - r.cpt * k
      /\ r.cpt * k <= r.cpt * n
  BY <1>1, <1>2
<1> QED BY <1>1, <1>3, <1>4 DEF Escrowed, OrderKind, ResaleKind

(* Nothing that remains needs nothing. *)
LEMMA EscrowedNone ==
    ASSUME NEW r \in RestingOrder
    PROVE  Escrowed(r, 0) = 0
<1>1. r.kind \in OrderKind \union {"Listing"} /\ r.price \in Nat /\ r.cpt \in Nat
  BY DEF RestingOrder
<1> QED BY <1>1 DEF Escrowed, OrderKind, ResaleKind

(* An escrow that holds what its order needs is right, before expiry and    *)
(* after.                                                                   *)
LEMMA AgreesDue ==
    ASSUME NEW r \in RestingOrder, r.quantity > 0, NEW over, NEW paid \in Nat
    PROVE  Agrees(r, Escrowed(r, r.quantity), over, paid)
<1>1. r.quantity \in Nat
  BY DEF RestingOrder
<1>2. Escrowed(r, r.quantity) \in Nat
  BY <1>1, EscrowedNat
<1> QED BY <1>2, NoOrderAssumption DEF Agrees

---------------------------------------------------------------------------
(* The steps. *)

(* Vaults do not take back what they paid. *)
PaysOn == redeemed' \in Nat /\ gained' \in Nat /\ redeemed' >= redeemed /\ gained' >= gained

(* Where a step changes neither the order nor its escrow. *)
LEMMA Untouched ==
    ASSUME BookInvariant, PaysOn, expired => expired',
           NEW p \in OrderIds, order'[p] = order[p], escrow'[p] = escrow[p]
    PROVE  Agrees(order'[p], escrow'[p], expired', Paid')
<1>1. order[p] \in RestingOrder \union {NoOrder} /\ escrow[p] \in Nat
  BY DEF BookInvariant, BookTyped
<1>2. redeemed \in Nat /\ gained \in Nat
  BY DEF BookInvariant, BookTyped
<1>3. Paid' = redeemed' + gained'
  BY DEF Paid
<1>4. Paid \in Nat /\ Paid' \in Nat /\ Paid <= Paid'
  <2>1. redeemed' \in Nat /\ gained' \in Nat /\ redeemed <= redeemed' /\ gained <= gained'
    BY DEF PaysOn
  <2>2. ASSUME NEW v \in Nat, NEW w \in Nat, NEW x \in Nat, NEW y \in Nat, v <= x, w <= y
        PROVE  v + w \in Nat /\ x + y \in Nat /\ v + w <= x + y
    BY <2>2
  <2> QED BY <1>2, <1>3, <2>1, <2>2 DEF Paid
<1>5. Agrees(order[p], escrow[p], expired, Paid)
  BY ExactIs DEF BookInvariant
<1> QED BY <1>1, <1>4, <1>5, AgreesLater

(* Where a vault pays into an escrow of USDC.                               *)
LEMMA PaidMore ==
    ASSUME BookInvariant, NEW p \in OrderIds, NEW payout \in Nat,
           order[p] # NoOrder, order[p].kind \notin ResaleKind, NEW over
    PROVE  Agrees(order[p], escrow[p] + payout, over, Paid + payout)
<1>1. order[p] \in RestingOrder /\ escrow[p] \in Nat
  BY DEF BookInvariant, BookTyped
<1>2. Escrowed(order[p], order[p].quantity) \in Nat
  BY <1>1, EscrowedNat DEF RestingOrder
<1>3. Paid \in Nat
  BY DEF BookInvariant, BookTyped, Paid
<1>4. Agrees(order[p], escrow[p], expired, Paid)
  BY ExactIs DEF BookInvariant
<1> QED BY <1>1, <1>2, <1>3, <1>4 DEF Agrees

(* Most steps are not paid for.                                             *)
LEMMA PaysNothing ==
    ASSUME BookInvariant, UNCHANGED history
    PROVE  PaysOn /\ Paid' = Paid /\ Paid \in Nat
BY DEF BookInvariant, BookTyped, Paid, PaysOn, history

(* post_order and list_v2_for_resale escrow what the order needs. *)
LEMMA PlaceKeeps ==
    ASSUME BookInvariant,
           NEW o \in OrderIds, NEW kind \in OrderKind \union {"Listing"},
           NEW price \in Prices, NEW quantity \in Quantities,
           Place(o, kind, price, quantity)
    PROVE  BookInvariant'
<1> DEFINE r == [kind |-> kind, price |-> price, quantity |-> quantity,
                 cpt |-> IF kind = "WriterAsk" THEN CollateralPerContract(Strike) ELSE 0]
<1>1. price \in Nat /\ quantity \in Nat \ {0}
  BY BookAssumption
<1>2. CollateralPerContract(Strike) \in Nat
  BY BookAssumption DEF CollateralPerContract
<1>3. r \in RestingOrder
  BY <1>1, <1>2 DEF RestingOrder
<1>4. /\ order' = [order EXCEPT ![o] = r]
      /\ escrow' = [escrow EXCEPT ![o] = Escrowed(r, quantity)]
  BY DEF Place
<1>5. Escrowed(r, quantity) \in Nat
  BY <1>1, <1>3, EscrowedNat
<1>0. PaysOn /\ Paid' \in Nat
  BY PaysNothing DEF Place
<1>6. BookTyped'
  BY <1>0, <1>3, <1>4, <1>5 DEF BookInvariant, BookTyped, PaysOn
<1>7. EscrowExact'
  <2> SUFFICES ASSUME NEW p \in OrderIds
               PROVE  Agrees(order'[p], escrow'[p], expired', Paid')
    BY <1>6, ExactNext
  <2>1. CASE p = o
    <3>1. order'[p] = r /\ escrow'[p] = Escrowed(r, quantity)
      BY <2>1, <1>4 DEF BookInvariant, BookTyped
    <3>2. r.quantity = quantity
      OBVIOUS
    <3> HIDE DEF r
    <3> QED BY <3>1, <3>2, <1>0, <1>1, <1>3, AgreesDue
  <2>2. CASE p # o
    <3>1. order'[p] = order[p] /\ escrow'[p] = escrow[p] /\ expired' = expired
      BY <2>2, <1>4 DEF BookInvariant, BookTyped, Place
    <3> QED BY <3>1, <1>0, Untouched
  <2> QED BY <2>1, <2>2
<1> QED BY <1>6, <1>7 DEF BookInvariant

(* The four instructions that close orders leave nothing in them. *)
LEMMA CloseKeeps ==
    ASSUME BookInvariant, NEW orders \in SUBSET OrderIds, Close(orders)
    PROVE  BookInvariant'
<1>1. /\ order' = [o \in OrderIds |-> IF o \in orders THEN NoOrder ELSE order[o]]
      /\ escrow' = [o \in OrderIds |-> IF o \in orders THEN 0 ELSE escrow[o]]
  BY DEF Close
<1>0. PaysOn
  BY PaysNothing DEF Close
<1>2. BookTyped'
  BY <1>0, <1>1 DEF BookInvariant, BookTyped, PaysOn
<1>3. EscrowExact'
  <2> SUFFICES ASSUME NEW p \in OrderIds
               PROVE  Agrees(order'[p], escrow'[p], expired', Paid')
    BY <1>2, ExactNext
  <2>1. CASE p \in orders
    BY <2>1, <1>1 DEF Agrees
  <2>2. CASE p \notin orders
    <3>1. order'[p] = order[p] /\ escrow'[p] = escrow[p] /\ expired' = expired
      BY <2>2, <1>1 DEF Close
    <3> QED BY <3>1, <1>0, Untouched
  <2> QED BY <2>1, <2>2
<1> QED BY <1>2, <1>3 DEF BookInvariant

(* A fill that takes out what its portion needs: all fill cores do. *)
LEMMA FillKeeps ==
    ASSUME BookInvariant, ~expired, ~expired', UNCHANGED history,
           NEW o \in OrderIds, order[o] # NoOrder,
           NEW quantity \in Nat \ {0}, quantity <= order[o].quantity,
           Fill(o, quantity, Escrowed(order[o], quantity))
    PROVE  BookInvariant'
<1> DEFINE r    == order[o]
           left == r.quantity - quantity
           rest == [r EXCEPT !.quantity = left]
           due  == Escrowed(r, quantity)
<1>0. PaysOn /\ Paid' = Paid /\ Paid \in Nat
  BY PaysNothing
<1>1. r \in RestingOrder /\ escrow[o] \in Nat
  BY DEF BookInvariant, BookTyped
<1>2. r.quantity \in Nat /\ left \in Nat
  BY <1>1 DEF RestingOrder
<1>3. rest \in RestingOrder /\ rest.quantity = left /\ rest.kind = r.kind
  BY <1>1, <1>2 DEF RestingOrder
<1>4. Escrowed(rest, left) = Escrowed(r, left)
  BY <1>1, <1>3 DEF RestingOrder, Escrowed
<1>5. due \in Nat /\ Escrowed(r, left) \in Nat /\ Escrowed(r, r.quantity) \in Nat
  BY <1>1, <1>2, EscrowedNat
<1>6. Escrowed(r, left) = Escrowed(r, r.quantity) - due
  BY <1>1, <1>2, EscrowedSplits
<1>7. /\ due <= escrow[o]
      /\ left = 0 => escrow[o] = due
      /\ order' = [order EXCEPT ![o] = IF left = 0 THEN NoOrder ELSE rest]
      /\ escrow' = [escrow EXCEPT ![o] = escrow[o] - due]
  BY DEF Fill
<1>8. escrow[o] - due \in Nat
  BY <1>1, <1>5, <1>7
<1>9. BookTyped'
  BY <1>0, <1>3, <1>7, <1>8 DEF BookInvariant, BookTyped, PaysOn
<1>10. EscrowExact'
  <2> SUFFICES ASSUME NEW p \in OrderIds
               PROVE  Agrees(order'[p], escrow'[p], expired', Paid')
    BY <1>9, ExactNext
  <2>1. CASE p # o
    <3>1. order'[p] = order[p] /\ escrow'[p] = escrow[p]
      BY <2>1, <1>7 DEF BookInvariant, BookTyped
    <3> QED BY <3>1, <1>0, Untouched
  <2>2. CASE p = o /\ left = 0
    <3>1. order'[p] = NoOrder /\ escrow'[p] = 0
      BY <2>2, <1>1, <1>5, <1>7 DEF BookInvariant, BookTyped
    <3> QED BY <3>1 DEF Agrees
  <2>3. CASE p = o /\ left # 0
    <3>1. order'[p] = rest /\ escrow'[p] = escrow[o] - due
      BY <2>3, <1>7 DEF BookInvariant, BookTyped
    <3>2. Agrees(r, escrow[o], FALSE, Paid)
      BY ExactIs DEF BookInvariant, Agrees
    <3>3. /\ r.kind \in ResaleKind => escrow[o] = Escrowed(r, r.quantity)
          /\ r.kind \notin ResaleKind => /\ escrow[o] >= Escrowed(r, r.quantity)
                                         /\ escrow[o] <= Escrowed(r, r.quantity) + Paid
      BY <3>2 DEF Agrees
    <3>4. left > 0 /\ rest # NoOrder
      BY <1>2, <1>3, <2>3, NoOrderAssumption
    <3> HIDE DEF rest, left, r, due
    <3>5. /\ r.kind \in ResaleKind => escrow[o] - due = Escrowed(r, left)
          /\ r.kind \notin ResaleKind => /\ escrow[o] - due >= Escrowed(r, left)
                                         /\ escrow[o] - due <= Escrowed(r, left) + Paid
      BY <3>3, <1>0, <1>1, <1>5, <1>6
    <3> QED BY <3>1, <3>4, <3>5, <1>0, <1>3, <1>4 DEF Agrees
  <2> QED BY <2>1, <2>2, <2>3
<1> QED BY <1>9, <1>10 DEF BookInvariant

(* fill_order's arms, fill_writer_ask and buy_v2_resale are such fills. *)
LEMMA TakerKeeps ==
    ASSUME BookInvariant,
           NEW taker \in Traders, NEW o \in OrderIds, NEW quantity \in Quantities,
           \/ FillOrder(taker, o, quantity)
           \/ FillWriterAsk(taker, o, quantity)
           \/ \E price \in Prices : BuyResale(taker, o, quantity, price * quantity)
    PROVE  BookInvariant'
<1>1. /\ order[o] # NoOrder
      /\ quantity \in Nat \ {0}
      /\ quantity <= order[o].quantity
  BY BookAssumption DEF FillOrder, FillWriterAsk, BuyResale
<1>2. order[o] \in RestingOrder
  BY <1>1 DEF BookInvariant, BookTyped
<1>3. order[o].price \in Nat /\ order[o].cpt \in Nat
  BY <1>2 DEF RestingOrder
<1>4. Fill(o, quantity, Escrowed(order[o], quantity))
  <2>1. CASE order[o].kind = "Bid" /\ Fill(o, quantity, TotalOf(o, quantity))
    <3>1. Escrowed(order[o], quantity) = order[o].price * quantity
      BY <2>1 DEF Escrowed, ResaleKind
    <3>2. TotalOf(o, quantity) = order[o].price * quantity
      BY <1>1, <1>3 DEF TotalOf
    <3> QED BY <2>1, <3>1, <3>2
  <2>2. CASE order[o].kind \in ResaleKind /\ Fill(o, quantity, quantity)
    <3>1. Escrowed(order[o], quantity) = quantity
      BY <2>2 DEF Escrowed, ResaleKind
    <3> QED BY <2>2, <3>1
  <2>3. CASE order[o].kind = "WriterAsk" /\ Fill(o, quantity, order[o].cpt * quantity)
    <3>1. Escrowed(order[o], quantity) = order[o].cpt * quantity
      BY <2>3 DEF Escrowed, ResaleKind
    <3> QED BY <2>3, <3>1
  <2> QED BY <2>1, <2>2, <2>3
          DEF FillOrder, FillWriterAsk, BuyResale, BidFillCore, ResaleAskFillCore,
              WriterAskFillCore, ResaleKind
<1>5. ~expired /\ ~expired' /\ UNCHANGED history
  BY DEF FillOrder, FillWriterAsk, BuyResale
<1> QED BY <1>1, <1>4, <1>5, FillKeeps

(* Finalized, a token escrow is empty, ...                                  *)
LEMMA BurnKeeps ==
    ASSUME BookInvariant,
           NEW o \in OrderIds, NEW payout \in Payouts, BurnEscrow(o, payout),
           escrow' = [escrow EXCEPT ![o] = 0]
    PROVE  BookInvariant'
<1>1. /\ expired /\ expired' = expired /\ order' = order /\ payout \in Nat
      /\ order[o] # NoOrder /\ order[o].kind \in ResaleKind
  BY BookAssumption DEF BurnEscrow, KindOf
<1>2. PaysOn
  BY <1>1 DEF BurnEscrow, PaysOn, BookInvariant, BookTyped
<1>3. BookTyped'
  BY <1>1, <1>2 DEF BookInvariant, BookTyped, PaysOn
<1>4. \A q \in OrderIds : escrow'[q] = IF q = o THEN 0 ELSE escrow[q]
  BY DEF BookInvariant, BookTyped
<1>5. order[o].quantity > 0
  BY <1>1 DEF BookInvariant, EscrowExact
<1>6. Agrees(order'[o], escrow'[o], expired', Paid')
  BY <1>1, <1>4, <1>5 DEF Agrees
<1>7. ASSUME NEW q \in OrderIds, q # o
      PROVE  Agrees(order'[q], escrow'[q], expired', Paid')
  BY <1>1, <1>2, <1>4, <1>7, Untouched
<1> QED BY <1>3, <1>6, <1>7, ExactNext DEF BookInvariant

(* ... and the one the vault's payment goes to is worth as much more.       *)
LEMMA BurnPays ==
    ASSUME BookInvariant,
           NEW o \in OrderIds, NEW payout \in Payouts, BurnEscrow(o, payout),
           NEW p \in KindOf({"Bid", "WriterAsk"}),
           escrow' = [escrow EXCEPT ![o] = 0, ![p] = @ + payout]
    PROVE  BookInvariant'
<1>1. /\ expired /\ expired' = expired /\ order' = order /\ payout \in Nat
      /\ order[o] # NoOrder /\ order[o].kind \in ResaleKind
  BY BookAssumption DEF BurnEscrow, KindOf
<1>2. PaysOn /\ Paid' = Paid + payout /\ Paid \in Nat
  BY <1>1 DEF BurnEscrow, PaysOn, Paid, BookInvariant, BookTyped
<1>3. p \in OrderIds /\ p # o /\ order[p] # NoOrder /\ order[p].kind \notin ResaleKind
  BY <1>1 DEF KindOf, ResaleKind
<1>4. \A q \in OrderIds : escrow'[q] = IF q = o THEN 0
                                        ELSE IF q = p THEN escrow[p] + payout
                                        ELSE escrow[q]
  BY <1>3 DEF BookInvariant, BookTyped
<1>5. escrow[p] \in Nat
  BY <1>3 DEF BookInvariant, BookTyped
<1>6. BookTyped'
  <2>1. escrow' \in [OrderIds -> Nat]
    BY <1>1, <1>3, <1>5 DEF BookInvariant, BookTyped
  <2> QED BY <2>1, <1>1, <1>2 DEF BookInvariant, BookTyped, PaysOn
<1>7. order[o].quantity > 0
  BY <1>1 DEF BookInvariant, EscrowExact
<1>8. Agrees(order'[o], escrow'[o], expired', Paid')
  BY <1>1, <1>4, <1>7 DEF Agrees
<1>9. Agrees(order'[p], escrow'[p], expired', Paid')
  BY <1>1, <1>2, <1>3, <1>4, PaidMore
<1>10. ASSUME NEW q \in OrderIds, q # o, q # p
       PROVE  Agrees(order'[q], escrow'[q], expired', Paid')
  BY <1>1, <1>2, <1>4, <1>10, Untouched
<1> QED BY <1>6, <1>8, <1>9, <1>10, ExactNext DEF BookInvariant

(* Other vaults' payments are such payments, too.                           *)
LEMMA ReceiveKeeps ==
    ASSUME BookInvariant,
           NEW o \in OrderIds, NEW payout \in Payouts, ReceivePayout(o, payout)
    PROVE  BookInvariant'
<1>1. /\ expired' = expired /\ order' = order /\ payout \in Nat
      /\ order[o] # NoOrder /\ order[o].kind \notin ResaleKind
  BY BookAssumption DEF ReceivePayout, KindOf, ResaleKind
<1>2. PaysOn /\ Paid' = Paid + payout /\ Paid \in Nat
  BY <1>1 DEF ReceivePayout, PaysOn, Paid, BookInvariant, BookTyped
<1>3. escrow[o] \in Nat
  BY DEF BookInvariant, BookTyped
<1>4. \A q \in OrderIds : escrow'[q] = IF q = o THEN escrow[o] + payout ELSE escrow[q]
  BY DEF ReceivePayout, BookInvariant, BookTyped
<1>5. BookTyped'
  <2>1. escrow' \in [OrderIds -> Nat]
    BY <1>1, <1>3 DEF ReceivePayout, BookInvariant, BookTyped
  <2> QED BY <2>1, <1>1, <1>2 DEF BookInvariant, BookTyped, PaysOn
<1>6. Agrees(order'[o], escrow'[o], expired', Paid')
  BY <1>1, <1>2, <1>4, PaidMore
<1>7. ASSUME NEW q \in OrderIds, q # o
      PROVE  Agrees(order'[q], escrow'[q], expired', Paid')
  BY <1>1, <1>2, <1>4, <1>7, Untouched
<1> QED BY <1>5, <1>6, <1>7, ExactNext DEF BookInvariant

(* Every step keeps the invariant. *)
LEMMA StepKeeps == BookInvariant /\ [Next]_bookVars => BookInvariant'
<1> SUFFICES ASSUME BookInvariant, [Next]_bookVars
             PROVE  BookInvariant'
  OBVIOUS
<1>1. CASE MakerStep
  <2>1. PICK o \in OrderIds :
           \/ \E kind \in OrderKind, price \in Prices, quantity \in Quantities :
                  PostOrder(o, kind, price, quantity)
           \/ \E price \in Prices, quantity \in Quantities :
                  ListForResale(o, price, quantity)
           \/ CancelOrder(o)
           \/ CancelResale(o)
    BY <1>1 DEF MakerStep
  <2>2. CASE CancelOrder(o) \/ CancelResale(o)
    BY <2>2, CloseKeeps DEF CancelOrder, CancelResale
  <2>3. ASSUME NEW kind \in OrderKind, NEW price \in Prices,
               NEW quantity \in Quantities, PostOrder(o, kind, price, quantity)
        PROVE  BookInvariant'
    BY <2>3, PlaceKeeps DEF PostOrder
  <2>4. ASSUME NEW price \in Prices, NEW quantity \in Quantities,
               ListForResale(o, price, quantity)
        PROVE  BookInvariant'
    BY <2>4, PlaceKeeps DEF ListForResale
  <2> QED BY <2>1, <2>2, <2>3, <2>4
<1>2. CASE TakerStep
  BY <1>2, TakerKeeps DEF TakerStep
<1>3. CASE Sweep
  BY <1>3, CloseKeeps DEF Sweep, SweepExpiredOrders, AutoCancelListings
<1>4. CASE Expire \/ UNCHANGED bookVars
  <2>1. order' = order /\ escrow' = escrow /\ (expired => expired')
    BY <1>4 DEF Expire, bookVars, book
  <2>2. PaysOn
    BY <1>4, PaysNothing DEF Expire, bookVars
  <2>3. BookTyped'
    BY <2>1, <2>2 DEF BookInvariant, BookTyped, PaysOn
  <2>4. \A p \in OrderIds : Agrees(order'[p], escrow'[p], expired', Paid')
    BY <2>1, <2>2, Untouched
  <2> QED BY <2>3, <2>4, ExactNext DEF BookInvariant
<1>5. CASE FinalizeStep
  BY <1>5, BurnKeeps, BurnPays, ReceiveKeeps DEF FinalizeStep, FinalizeEscrow
<1> QED BY <1>1, <1>2, <1>3, <1>4, <1>5 DEF Next, TradeStep

---------------------------------------------------------------------------
(* Theorems. *)

(* The inductive invariant: orders and escrows are typed, and agree. *)
THEOREM BookKept == Spec => []BookInvariant
<1>1. Init => BookInvariant
  BY DEF Init, BookInvariant, BookTyped, EscrowExact
<1> QED BY <1>1, StepKeeps, PTL DEF Spec

(* An escrow holds exactly what the rest of its order needs, after any      *)
(* number of partial fills and cancels; but one of tokens may have been     *)
(* finalized after expiry, and one of USDC may hold more, by no more than   *)
(* vaults have paid.                                                        *)
THEOREM ExactEscrows == Spec => []EscrowExact
<1>1. BookInvariant => EscrowExact
  BY DEF BookInvariant
<1> QED BY <1>1, BookKept, PTL

(* As long as fills are taken, no portion of a resting order is refused for *)
(* want of escrow; and the last one, which needs the escrow to be empty     *)
(* then (EscrowNotEmpty), is refused for a payment from outside only.       *)
EveryFillPaid ==
    \A o \in OrderIds : ~expired /\ order[o] # NoOrder =>
        \A quantity \in 1..order[o].quantity :
            /\ Escrowed(order[o], quantity) <= escrow[o]
            /\ /\ order[o].quantity = quantity
               /\ order[o].kind \in ResaleKind \/ redeemed + gained = 0
               => escrow[o] = Escrowed(order[o], quantity)

THEOREM FillsPaid == Spec => []EveryFillPaid
<1>1. BookInvariant => EveryFillPaid
  <2> SUFFICES ASSUME BookInvariant,
                      NEW o \in OrderIds, ~expired, order[o] # NoOrder,
                      NEW quantity \in 1..order[o].quantity
               PROVE  /\ Escrowed(order[o], quantity) <= escrow[o]
                      /\ /\ order[o].quantity = quantity
                         /\ order[o].kind \in ResaleKind \/ Paid = 0
                         => escrow[o] = Escrowed(order[o], quantity)
    BY DEF EveryFillPaid, Paid
  <2>1. order[o] \in RestingOrder /\ escrow[o] \in Nat
    BY DEF BookInvariant, BookTyped
  <2>2. order[o].quantity \in Nat
    BY <2>1 DEF RestingOrder
  <2>3. quantity \in Nat /\ quantity <= order[o].quantity
    BY <2>2
  <2>4. /\ order[o].kind \in ResaleKind => escrow[o] = Escrowed(order[o], order[o].quantity)
        /\ order[o].kind \notin ResaleKind
             => /\ escrow[o] >= Escrowed(order[o], order[o].quantity)
                /\ escrow[o] <= Escrowed(order[o], order[o].quantity) + Paid
    BY ExactIs DEF BookInvariant, Agrees
  <2>5. /\ Escrowed(order[o], quantity) <= Escrowed(order[o], order[o].quantity)
        /\ Escrowed(order[o], quantity) \in Nat
        /\ Escrowed(order[o], order[o].quantity) \in Nat
    BY <2>1, <2>2, <2>3, EscrowedSplits, EscrowedNat
  <2> QED BY <2>1, <2>4, <2>5
<1> QED BY <1>1, BookKept, PTL

---------------------------------------------------------------------------
(* Wallets and escrows: what each trader is worth. *)

(* What waits in the escrows of t's orders of these kinds, of the orders    *)
(* and escrows given. *)
Resting(ord, kinds) == {o \in OrderIds : ord[o] # NoOrder /\ ord[o].kind \in kinds}
Waiting(ord, esc, kinds, t) ==
    SumFunctionOnSet(esc, {o \in Resting(ord, kinds) : Owner(o) = t})

(* A wallet and that. *)
Worth(w, ord, esc, kinds) == [t \in Traders |-> w[t] + Waiting(ord, esc, kinds, t)]

UsdcKind == {"Bid", "WriterAsk"}

(* What one order contributes. *)
Here(ord, esc, kinds, o) ==
    IF ord[o] # NoOrder /\ ord[o].kind \in kinds THEN esc[o] ELSE 0

(* The owner of an address is a trader. *)
LEMMA OwnerTrades == \A o \in OrderIds : Owner(o) \in Traders
  BY BookAssumption DEF Owner

(* The escrows as a function that is zero off the orders meant. *)
LEMMA WaitingTotal ==
    ASSUME NEW esc \in [OrderIds -> Nat], NEW ord, NEW kinds, NEW t
    PROVE  /\ [o \in OrderIds |-> IF Owner(o) = t THEN Here(ord, esc, kinds, o) ELSE 0]
                \in [OrderIds -> Int]
           /\ Waiting(ord, esc, kinds, t)
                = SumFunction([o \in OrderIds |->
                                 IF Owner(o) = t THEN Here(ord, esc, kinds, o) ELSE 0])
           /\ Waiting(ord, esc, kinds, t) \in Nat
<1> DEFINE g == [o \in OrderIds |-> IF Owner(o) = t THEN Here(ord, esc, kinds, o) ELSE 0]
           S == {o \in Resting(ord, kinds) : Owner(o) = t}
<1>1. g \in [OrderIds -> Nat] /\ g \in [OrderIds -> Int]
  BY DEF Here
<1>2. S \in SUBSET OrderIds
  BY DEF Resting
<1>3. (\A o \in S : g[o] = esc[o]) /\ (\A o \in OrderIds \ S : g[o] = 0)
  BY DEF Here, Resting
<1> HIDE DEF g, S
<1>4. SumFunctionOnSet(esc, S) = SumFunction(g)
  BY <1>1, <1>2, <1>3, SumRestrict, FiniteAssumption
<1>5. SumFunction(g) \in Nat
  BY <1>1, TotalNat, FiniteAssumption
<1> QED BY <1>1, <1>4, <1>5 DEF Waiting, g, S

(* What happens at one order is noticed by its owner only. *)
LEMMA WaitingChange ==
    ASSUME NEW esc \in [OrderIds -> Nat], NEW ord,
           NEW esc2 \in [OrderIds -> Nat], NEW ord2,
           NEW o \in OrderIds,
           \A p \in OrderIds \ {o} : ord2[p] = ord[p] /\ esc2[p] = esc[p],
           NEW kinds, NEW t
    PROVE  Waiting(ord2, esc2, kinds, t) = Waiting(ord, esc, kinds, t)
             + (IF t = Owner(o)
                THEN Here(ord2, esc2, kinds, o) - Here(ord, esc, kinds, o) ELSE 0)
<1> DEFINE f == [p \in OrderIds |-> IF Owner(p) = t THEN Here(ord, esc, kinds, p) ELSE 0]
           g == [p \in OrderIds |-> IF Owner(p) = t THEN Here(ord2, esc2, kinds, p) ELSE 0]
<1>1. f \in [OrderIds -> Int] /\ g \in [OrderIds -> Int]
  BY DEF Here
<1>2. \A p \in OrderIds \ {o} : g[p] = f[p]
  BY DEF Here
<1>3. g[o] - f[o] = IF t = Owner(o)
                    THEN Here(ord2, esc2, kinds, o) - Here(ord, esc, kinds, o) ELSE 0
  BY DEF Here
<1>4. /\ Waiting(ord, esc, kinds, t) = SumFunction(f)
      /\ Waiting(ord2, esc2, kinds, t) = SumFunction(g)
  BY WaitingTotal
<1> HIDE DEF f, g
<1>5. SumFunction(g) = SumFunction(f) + (g[o] - f[o])
  BY <1>1, <1>2, TotalChange, FiniteAssumption
<1> QED BY <1>3, <1>4, <1>5

(* What a close gives back no longer waits. *)
LEMMA WaitingClosed ==
    ASSUME NEW esc \in [OrderIds -> Nat],
           NEW ord \in [OrderIds -> RestingOrder \union {NoOrder}],
           NEW orders \in SUBSET OrderIds, \A o \in orders : ord[o] # NoOrder,
           NEW kinds, NEW t
    PROVE  Waiting(ord, esc, kinds, t)
             = Waiting([o \in OrderIds |-> IF o \in orders THEN NoOrder ELSE ord[o]],
                       [o \in OrderIds |-> IF o \in orders THEN 0 ELSE esc[o]], kinds, t)
               + SumFunctionOnSet(esc, {o \in orders : Owner(o) = t /\ ord[o].kind \in kinds})
<1> DEFINE ord2 == [o \in OrderIds |-> IF o \in orders THEN NoOrder ELSE ord[o]]
           esc2 == [o \in OrderIds |-> IF o \in orders THEN 0 ELSE esc[o]]
           S == {o \in orders : Owner(o) = t /\ ord[o].kind \in kinds}
           f == [p \in OrderIds |-> IF Owner(p) = t THEN Here(ord, esc, kinds, p) ELSE 0]
           g == [p \in OrderIds |-> IF Owner(p) = t THEN Here(ord2, esc2, kinds, p) ELSE 0]
           h == [p \in OrderIds |-> IF p \in S THEN esc[p] ELSE 0]
<1>1. esc2 \in [OrderIds -> Nat]
  OBVIOUS
<1>2. /\ f \in [OrderIds -> Int] /\ g \in [OrderIds -> Int] /\ h \in [OrderIds -> Int]
  <2> HIDE DEF ord2, esc2, S
  <2> QED BY <1>1 DEF Here
<1>3. \A p \in OrderIds : f[p] = g[p] + h[p]
  BY DEF Here
<1>4. /\ Waiting(ord, esc, kinds, t) = SumFunction(f)
      /\ Waiting(ord2, esc2, kinds, t) = SumFunction(g)
  <2> HIDE DEF ord2, esc2
  <2> QED BY <1>1, WaitingTotal
<1>5. S \in SUBSET OrderIds /\ (\A p \in S : h[p] = esc[p]) /\ (\A p \in OrderIds \ S : h[p] = 0)
  OBVIOUS
<1> HIDE DEF ord2, esc2, S, f, g, h
<1>6. SumFunctionOnSet(esc, S) = SumFunction(h)
  BY <1>2, <1>5, SumRestrict, FiniteAssumption
<1>7. SumFunction(f) = SumFunction(g) + SumFunction(h)
  BY <1>2, <1>3, TotalAdd, FiniteAssumption
<1> QED BY <1>4, <1>6, <1>7 DEF ord2, esc2, S

(* All that traders are worth is in their wallets or waits. *)
LEMMA WorthTotal ==
    ASSUME NEW w \in [Traders -> Int], NEW esc \in [OrderIds -> Nat], NEW ord, NEW kinds
    PROVE  /\ Worth(w, ord, esc, kinds) \in [Traders -> Int]
           /\ SumFunction(Worth(w, ord, esc, kinds))
                = SumFunction(w) + SumFunctionOnSet(esc, Resting(ord, kinds))
<1> DEFINE S == Resting(ord, kinds)
           owner == [o \in S |-> Owner(o)]
           g == [t \in Traders |-> SumFunctionOnSet(esc, {o \in S : owner[o] = t})]
<1>1. S \in SUBSET OrderIds /\ owner \in [S -> Traders]
  BY OwnerTrades DEF Resting
<1>2. IsFiniteSet(S) /\ \A o \in S : esc[o] \in Int
  BY <1>1, FS_Subset, FiniteAssumption
<1>3. g \in [Traders -> Int] /\ SumFunction(g) = SumFunctionOnSet(esc, S)
  <2> HIDE DEF S, owner
  <2> QED BY <1>1, <1>2, SumByOwner, FiniteAssumption
<1>4. \A t \in Traders : {o \in S : owner[o] = t} = {o \in S : Owner(o) = t}
  OBVIOUS
<1>5. \A t \in Traders : g[t] = Waiting(ord, esc, kinds, t)
  <2> HIDE DEF owner
  <2> QED BY <1>4 DEF Waiting
<1> DEFINE v == Worth(w, ord, esc, kinds)
<1>6. \A t \in Traders : v[t] = w[t] + g[t]
  <2> HIDE DEF g
  <2> QED BY <1>5 DEF Worth
<1>7. v \in [Traders -> Int]
  <2> HIDE DEF g
  <2> QED BY <1>3, <1>5, <1>6 DEF Worth
<1> HIDE DEF v, g
<1>8. SumFunction(v) = SumFunction(w) + SumFunction(g)
  BY <1>3, <1>6, <1>7, TotalAdd, FiniteAssumption
<1> QED BY <1>3, <1>7, <1>8 DEF v

(* The fee is a part of the premium. *)
LEMMA FeeWithin ==
    ASSUME NEW n \in Nat
    PROVE  Fee(n, FeeBps) \in Nat /\ Fee(n, FeeBps) <= n
<1> DEFINE p == n * FeeBps
<1>1. p \in Nat /\ p <= n * 10000
  BY BookAssumption
<1> HIDE DEF p
<1>2. p \div 10000 \in Nat /\ p \div 10000 <= n
  BY <1>1
<1> QED BY <1>2 DEF Fee, MulDiv, p

(* What each trader is worth in USDC, and in tokens. *)
Cash == Worth(usdc, order, escrow, UsdcKind)
Held == Worth(tokens, order, escrow, ResaleKind)

(* The wallets have their types. *)
WalletsTyped ==
    /\ expired \in BOOLEAN
    /\ usdc \in [Traders -> Nat]
    /\ tokens \in [Traders -> Nat]
    /\ treasury \in Nat
    /\ committed \in [Traders -> Nat]

(* A writer ask keeps the collateral of its own contracts. *)
AsksCovered ==
    \A o \in OrderIds :
        order[o] # NoOrder /\ order[o].kind = "WriterAsk"
            => order[o].cpt = CollateralPerContract(Strike)

(* What a fill needs to be a trade. *)
BookMoney == BookInvariant /\ WalletsTyped /\ AsksCovered

(* An instruction that moves between a wallet and an escrow makes nobody    *)
(* richer. *)
LEMMA PlaceMoves ==
    ASSUME BookMoney,
           NEW o \in OrderIds, NEW kind \in OrderKind \union {"Listing"},
           NEW price \in Prices, NEW quantity \in Quantities,
           Place(o, kind, price, quantity)
    PROVE  /\ BookMoney'
           /\ Worth(usdc', order', escrow', UsdcKind) = Cash
           /\ Worth(tokens', order', escrow', ResaleKind) = Held
<1> DEFINE r == [kind |-> kind, price |-> price, quantity |-> quantity,
                 cpt |-> IF kind = "WriterAsk" THEN CollateralPerContract(Strike) ELSE 0]
           amount == Escrowed(r, quantity)
<1>1. price \in Nat /\ quantity \in Nat /\ CollateralPerContract(Strike) \in Nat
  BY BookAssumption DEF CollateralPerContract
<1>2. r \in RestingOrder /\ r # NoOrder /\ r.kind = kind
      /\ (kind = "WriterAsk" => r.cpt = CollateralPerContract(Strike))
  BY <1>1, NoOrderAssumption DEF RestingOrder
<1>3. amount \in Nat
  <2> HIDE DEF r
  <2> QED BY <1>1, <1>2, EscrowedNat
<1>4. /\ order[o] = NoOrder
      /\ order' = [order EXCEPT ![o] = r]
      /\ escrow' = [escrow EXCEPT ![o] = amount]
      /\ UNCHANGED <<expired, treasury, committed>>
      /\ \/ /\ kind \in ResaleKind /\ amount <= tokens[Owner(o)]
            /\ tokens' = [tokens EXCEPT ![Owner(o)] = @ - amount]
            /\ usdc' = usdc
         \/ /\ kind \notin ResaleKind /\ amount <= usdc[Owner(o)]
            /\ usdc' = [usdc EXCEPT ![Owner(o)] = @ - amount]
            /\ tokens' = tokens
  BY DEF Place
<1> HIDE DEF r, amount
<1>5. BookInvariant' /\ escrow' \in [OrderIds -> Nat]
  BY PlaceKeeps DEF BookMoney, BookInvariant, BookTyped
<1>6. Owner(o) \in Traders
  BY OwnerTrades
<1>7. WalletsTyped'
  BY <1>3, <1>4, <1>6 DEF BookMoney, WalletsTyped
<1>8. /\ order \in [OrderIds -> RestingOrder \union {NoOrder}]
      /\ escrow \in [OrderIds -> Nat]
  BY DEF BookMoney, BookInvariant, BookTyped
<1>9. AsksCovered'
  BY <1>2, <1>4, <1>8 DEF BookMoney, AsksCovered
<1>10. \A p \in OrderIds \ {o} : order'[p] = order[p] /\ escrow'[p] = escrow[p]
  BY <1>4, <1>8
<1>11. order'[o] = r /\ escrow'[o] = amount
  BY <1>4, <1>8
<1>12. ASSUME NEW kinds, NEW t
       PROVE  /\ Waiting(order', escrow', kinds, t) = Waiting(order, escrow, kinds, t)
                   + (IF t = Owner(o) /\ kind \in kinds THEN amount ELSE 0)
              /\ Waiting(order, escrow, kinds, t) \in Nat
  <2>1. Waiting(order', escrow', kinds, t) = Waiting(order, escrow, kinds, t)
             + (IF t = Owner(o)
                THEN Here(order', escrow', kinds, o) - Here(order, escrow, kinds, o) ELSE 0)
    BY <1>5, <1>8, <1>10, WaitingChange
  <2>2. Here(order, escrow, kinds, o) = 0
    BY <1>4 DEF Here
  <2>3. Here(order', escrow', kinds, o) = IF kind \in kinds THEN amount ELSE 0
    BY <1>2, <1>11 DEF Here
  <2>4. Waiting(order, escrow, kinds, t) \in Nat
    BY <1>8, WaitingTotal
  <2> QED BY <1>3, <2>1, <2>2, <2>3, <2>4
<1>13. kind \in UsdcKind <=> kind \notin ResaleKind
  BY DEF UsdcKind, ResaleKind, OrderKind
<1>14. ASSUME NEW t \in Traders
       PROVE  /\ usdc'[t] + Waiting(order', escrow', UsdcKind, t)
                   = usdc[t] + Waiting(order, escrow, UsdcKind, t)
              /\ tokens'[t] + Waiting(order', escrow', ResaleKind, t)
                   = tokens[t] + Waiting(order, escrow, ResaleKind, t)
  <2>1. usdc[t] \in Nat /\ tokens[t] \in Nat
    BY DEF BookMoney, WalletsTyped
  <2>2. usdc'[t] = usdc[t] - (IF t = Owner(o) /\ kind \in UsdcKind THEN amount ELSE 0)
    BY <1>3, <1>4, <1>6, <1>13, <2>1 DEF BookMoney, WalletsTyped
  <2>3. tokens'[t] = tokens[t] - (IF t = Owner(o) /\ kind \in ResaleKind THEN amount ELSE 0)
    BY <1>3, <1>4, <1>6, <1>13, <2>1 DEF BookMoney, WalletsTyped
  <2> QED BY <1>3, <1>12, <2>1, <2>2, <2>3
<1> QED BY <1>5, <1>7, <1>9, <1>14 DEF BookMoney, Cash, Held, Worth

(* Neither does a cancel, a sweep or an auto-cancel. *)
LEMMA CloseMoves ==
    ASSUME BookMoney, NEW orders \in SUBSET OrderIds, \A o \in orders : order[o] # NoOrder,
           Close(orders)
    PROVE  /\ BookMoney'
           /\ Worth(usdc', order', escrow', UsdcKind) = Cash
           /\ Worth(tokens', order', escrow', ResaleKind) = Held
<1> DEFINE back(kinds, t) ==
             SumFunctionOnSet(escrow, {o \in orders : Owner(o) = t /\ order[o].kind \in kinds})
<1>1. /\ order \in [OrderIds -> RestingOrder \union {NoOrder}]
      /\ escrow \in [OrderIds -> Nat]
  BY DEF BookMoney, BookInvariant, BookTyped
<1>2. BookInvariant'
  BY CloseKeeps DEF BookMoney
<1>3. /\ order' = [o \in OrderIds |-> IF o \in orders THEN NoOrder ELSE order[o]]
      /\ escrow' = [o \in OrderIds |-> IF o \in orders THEN 0 ELSE escrow[o]]
      /\ UNCHANGED <<expired, treasury, committed>>
  BY DEF Close
<1>4. AsksCovered'
  BY <1>3 DEF BookMoney, AsksCovered
<1>5. ASSUME NEW t \in Traders
      PROVE  usdc'[t] = usdc[t] + back(UsdcKind, t) /\ tokens'[t] = tokens[t] + back(ResaleKind, t)
  <2>1. \A o \in orders : order[o].kind \notin ResaleKind <=> order[o].kind \in UsdcKind
    BY <1>1 DEF RestingOrder, UsdcKind, ResaleKind, OrderKind
  <2>2. {o \in orders : Owner(o) = t /\ order[o].kind \notin ResaleKind}
          = {o \in orders : Owner(o) = t /\ order[o].kind \in UsdcKind}
    BY <2>1
  <2>3. usdc'[t] = usdc[t] + SumFunctionOnSet(escrow,
                     {o \in orders : Owner(o) = t /\ order[o].kind \notin ResaleKind})
    BY DEF Close
  <2>4. tokens'[t] = tokens[t] + back(ResaleKind, t)
    BY DEF Close
  <2> QED BY <2>2, <2>3, <2>4
<1>6. ASSUME NEW kinds, NEW t
      PROVE  /\ Waiting(order, escrow, kinds, t)
                  = Waiting(order', escrow', kinds, t) + back(kinds, t)
             /\ back(kinds, t) \in Nat
             /\ Waiting(order', escrow', kinds, t) \in Nat
  <2>1. Waiting(order, escrow, kinds, t)
             = Waiting([o \in OrderIds |-> IF o \in orders THEN NoOrder ELSE order[o]],
                       [o \in OrderIds |-> IF o \in orders THEN 0 ELSE escrow[o]], kinds, t)
               + back(kinds, t)
    BY <1>1, WaitingClosed
  <2> DEFINE S == {o \in orders : Owner(o) = t /\ order[o].kind \in kinds}
  <2>2. IsFiniteSet(S) /\ \A o \in S : escrow[o] \in Nat
    BY <1>1, FS_Subset, FiniteAssumption
  <2>3. back(kinds, t) \in Nat
    <3> HIDE DEF S
    <3>1. SumFunctionOnSet(escrow, S) \in Nat
      BY <2>2, SumNat
    <3> QED BY <3>1 DEF S
  <2>4. escrow' \in [OrderIds -> Nat]
    BY <1>1, <1>3
  <2>5. Waiting(order', escrow', kinds, t) \in Nat
    BY <2>4, WaitingTotal
  <2> QED BY <1>3, <2>1, <2>3, <2>5
<1>7. ASSUME NEW t \in Traders
      PROVE  /\ usdc'[t] + Waiting(order', escrow', UsdcKind, t)
                  = usdc[t] + Waiting(order, escrow, UsdcKind, t)
             /\ tokens'[t] + Waiting(order', escrow', ResaleKind, t)
                  = tokens[t] + Waiting(order, escrow, ResaleKind, t)
             /\ usdc'[t] \in Nat /\ tokens'[t] \in Nat
  <2>1. usdc[t] \in Nat /\ tokens[t] \in Nat
    BY DEF BookMoney, WalletsTyped
  <2> HIDE DEF back
  <2> QED BY <1>5, <1>6, <2>1
<1>8. WalletsTyped'
  <2>1. usdc' \in [Traders -> Nat] /\ tokens' \in [Traders -> Nat]
    BY <1>7 DEF Close
  <2> QED BY <1>3, <2>1 DEF BookMoney, WalletsTyped
<1> QED BY <1>2, <1>4, <1>7, <1>8 DEF BookMoney, Cash, Held, Worth

(* A fill takes `amount` out of one escrow, and nothing out of the others. *)
LEMMA FillMoves ==
    ASSUME BookMoney, ~expired, ~expired', UNCHANGED history,
           NEW o \in OrderIds, order[o] # NoOrder,
           NEW quantity \in Nat \ {0}, quantity <= order[o].quantity,
           NEW amount, amount = Escrowed(order[o], quantity),
           Fill(o, quantity, amount)
    PROVE  /\ BookInvariant' /\ AsksCovered'
           /\ amount \in Nat
           /\ \A kinds, t :
                /\ Waiting(order, escrow, kinds, t) \in Nat
                /\ Waiting(order', escrow', kinds, t) = Waiting(order, escrow, kinds, t)
                     - (IF t = Owner(o) /\ order[o].kind \in kinds THEN amount ELSE 0)
<1> DEFINE r == order[o]
           left == r.quantity - quantity
           next == IF left = 0 THEN NoOrder ELSE [r EXCEPT !.quantity = left]
<1>1. /\ order \in [OrderIds -> RestingOrder \union {NoOrder}]
      /\ escrow \in [OrderIds -> Nat]
  BY DEF BookMoney, BookInvariant, BookTyped
<1>2. r \in RestingOrder
  BY <1>1
<1>3. amount \in Nat
  BY <1>2, EscrowedNat
<1>4. BookInvariant'
  BY FillKeeps DEF BookMoney
<1>5. /\ amount <= escrow[o]
      /\ left = 0 => escrow[o] = amount
      /\ order' = [order EXCEPT ![o] = next]
      /\ escrow' = [escrow EXCEPT ![o] = @ - amount]
  BY DEF Fill
<1>6. next # NoOrder => next.kind = r.kind /\ next.cpt = r.cpt
  BY <1>2 DEF RestingOrder
<1>7. left # 0 => next # NoOrder
  <2>1. r.quantity \in Nat /\ left \in Nat
    BY <1>2 DEF RestingOrder
  <2>2. [r EXCEPT !.quantity = left] \in RestingOrder
    BY <1>2, <2>1 DEF RestingOrder
  <2> QED BY <2>2, NoOrderAssumption
<1>8. left = 0 => next = NoOrder
  OBVIOUS
<1> HIDE DEF left, next
<1>9. order'[o] = next /\ escrow'[o] = escrow[o] - amount
  BY <1>1, <1>5
<1>10. \A p \in OrderIds \ {o} : order'[p] = order[p] /\ escrow'[p] = escrow[p]
  BY <1>1, <1>5
<1>11. AsksCovered'
  BY <1>6, <1>9, <1>10 DEF BookMoney, AsksCovered
<1>12. escrow' \in [OrderIds -> Nat]
  BY <1>4 DEF BookInvariant, BookTyped
<1>13. ASSUME NEW kinds, NEW t
       PROVE  /\ Waiting(order, escrow, kinds, t) \in Nat
              /\ Waiting(order', escrow', kinds, t) = Waiting(order, escrow, kinds, t)
                   - (IF t = Owner(o) /\ order[o].kind \in kinds THEN amount ELSE 0)
  <2>1. Waiting(order', escrow', kinds, t) = Waiting(order, escrow, kinds, t)
             + (IF t = Owner(o)
                THEN Here(order', escrow', kinds, o) - Here(order, escrow, kinds, o) ELSE 0)
    BY <1>1, <1>10, <1>12, WaitingChange, Z3
  <2>2. Here(order, escrow, kinds, o) = IF r.kind \in kinds THEN escrow[o] ELSE 0
    BY DEF Here
  <2>3. Here(order', escrow', kinds, o) = IF r.kind \in kinds THEN escrow[o] - amount ELSE 0
    <3>1. CASE left = 0
      <4>1. Here(order', escrow', kinds, o) = 0
        BY <3>1, <1>8, <1>9 DEF Here
      <4>2. escrow[o] - amount = 0
        BY <1>3, <1>5, <3>1
      <4> QED BY <4>1, <4>2
    <3>2. CASE left # 0
      BY <3>2, <1>6, <1>7, <1>9 DEF Here
    <3> QED BY <3>1, <3>2
  <2>4. Waiting(order, escrow, kinds, t) \in Nat /\ escrow[o] \in Nat
    BY <1>1, WaitingTotal
  <2> QED BY <1>3, <2>1, <2>2, <2>3, <2>4
<1> QED BY <1>3, <1>4, <1>11, <1>13

(* What a fill of `quantity` locks as collateral, and the tokens it takes   *)
(* out of the maker's hands. *)
Locked(o, quantity) ==
    IF order[o].kind = "WriterAsk" THEN quantity * CollateralPerContract(Strike) ELSE 0
Given(o, quantity) == IF order[o].kind = "WriterAsk" THEN 0 ELSE quantity

(* The split of the premium. *)
LEMMA SplitNat ==
    ASSUME NEW o \in OrderIds, order[o] \in RestingOrder, NEW quantity \in Nat
    PROVE  /\ TotalOf(o, quantity) \in Nat /\ FeeOf(o, quantity) \in Nat
           /\ ShareOf(o, quantity) \in Nat
           /\ ShareOf(o, quantity) = TotalOf(o, quantity) - FeeOf(o, quantity)
<1>1. order[o].price \in Nat
  BY DEF RestingOrder
<1>2. TotalOf(o, quantity) \in Nat
  BY <1>1 DEF TotalOf
<1> QED BY <1>2, FeeWithin DEF FeeOf, ShareOf

(* An ask that is lifted.  `paid` is what is in the wallets once the buyer  *)
(* has paid. *)
LEMMA AskMoves ==
    ASSUME BookMoney,
           NEW o \in OrderIds, order[o] # NoOrder,
           NEW quantity \in Nat \ {0}, quantity <= order[o].quantity,
           NEW buyer \in Traders, NEW paid \in [Traders -> Nat],
           ~expired, UNCHANGED expired, UNCHANGED history,
           \/ order[o].kind \in ResaleKind /\ ResaleAskFillCore(o, quantity, buyer, paid)
           \/ order[o].kind = "WriterAsk" /\ WriterAskFillCore(o, quantity, buyer, paid)
    PROVE  /\ BookMoney'
           /\ treasury' = treasury + FeeOf(o, quantity)
           /\ committed' = [committed EXCEPT ![Owner(o)] = @ + Locked(o, quantity)]
           /\ Locked(o, quantity) \in Nat
           /\ \A t \in Traders :
                /\ Worth(usdc', order', escrow', UsdcKind)[t]
                     = Worth(paid, order, escrow, UsdcKind)[t]
                       + (IF t = Owner(o) THEN ShareOf(o, quantity) - Locked(o, quantity) ELSE 0)
                /\ Worth(tokens', order', escrow', ResaleKind)[t]
                     = Held[t] + (IF t = buyer THEN quantity ELSE 0)
                       + (IF t = Owner(o) THEN - Given(o, quantity) ELSE 0)
<1> DEFINE r == order[o]
           amount == Escrowed(r, quantity)
           share == ShareOf(o, quantity)
           fee == FeeOf(o, quantity)
           locked == Locked(o, quantity)
           m == Owner(o)
<1>1. r \in RestingOrder /\ m \in Traders
  BY OwnerTrades DEF BookMoney, BookInvariant, BookTyped
<1>2. share \in Nat /\ fee \in Nat
  BY <1>1, SplitNat
<1>3. locked \in Nat /\ CollateralPerContract(Strike) \in Nat
  BY BookAssumption DEF Locked, CollateralPerContract
<1>4. r.kind = "WriterAsk" => r.cpt * quantity = locked /\ amount = locked
  <2>1. SUFFICES ASSUME r.kind = "WriterAsk"
                 PROVE  r.cpt * quantity = locked /\ amount = locked
    OBVIOUS
  <2>2. r.cpt = CollateralPerContract(Strike)
    BY <2>1 DEF BookMoney, AsksCovered
  <2>3. r.cpt * quantity = locked
    BY <2>1, <2>2, <1>3 DEF Locked
  <2> QED BY <2>1, <2>3 DEF Escrowed, ResaleKind
<1>5. r.kind \in ResaleKind => locked = 0 /\ amount = quantity
  BY DEF Locked, Escrowed, ResaleKind
<1>6. /\ Fill(o, quantity, amount)
      /\ usdc' = [paid EXCEPT ![m] = @ + share]
      /\ tokens' = [tokens EXCEPT ![buyer] = @ + quantity]
      /\ treasury' = treasury + fee
      /\ committed' = [committed EXCEPT ![m] = @ + locked]
  <2>1. CASE r.kind \in ResaleKind /\ ResaleAskFillCore(o, quantity, buyer, paid)
    <3>1. committed' = committed /\ locked = 0
      BY <2>1, <1>5 DEF ResaleAskFillCore
    <3>2. committed' = [committed EXCEPT ![m] = @ + locked]
      <4> HIDE DEF locked
      <4>1. committed \in [Traders -> Nat]
        BY DEF BookMoney, WalletsTyped
      <4> QED BY <3>1, <4>1, <1>1
    <3> QED BY <2>1, <3>2, <1>5 DEF ResaleAskFillCore
  <2>2. CASE r.kind = "WriterAsk" /\ WriterAskFillCore(o, quantity, buyer, paid)
    BY <2>2, <1>4 DEF WriterAskFillCore
  <2> QED BY <2>1, <2>2
<1>7. BookInvariant' /\ AsksCovered' /\ amount \in Nat
  <2> HIDE DEF amount
  <2>1. amount = Escrowed(order[o], quantity)
    BY DEF amount
  <2> QED BY <1>6, <2>1, FillMoves
<1>8. \A kinds, t :
        /\ Waiting(order, escrow, kinds, t) \in Nat
        /\ Waiting(order', escrow', kinds, t) = Waiting(order, escrow, kinds, t)
             - (IF t = m /\ r.kind \in kinds THEN amount ELSE 0)
  <2>1. amount = Escrowed(order[o], quantity)
    BY DEF amount
  <2> HIDE DEF amount
  <2> QED BY <1>6, <2>1, FillMoves
<1>9. r.kind \in ResaleKind \/ r.kind = "WriterAsk"
  OBVIOUS
<1> HIDE DEF amount, share, fee, locked, m
<1>10. WalletsTyped'
  BY <1>1, <1>2, <1>3, <1>6 DEF BookMoney, WalletsTyped
<1>11. ASSUME NEW t \in Traders
       PROVE  /\ usdc'[t] + Waiting(order', escrow', UsdcKind, t)
                   = (paid[t] + Waiting(order, escrow, UsdcKind, t))
                     + (IF t = m THEN share - locked ELSE 0)
              /\ tokens'[t] + Waiting(order', escrow', ResaleKind, t)
                   = (tokens[t] + Waiting(order, escrow, ResaleKind, t))
                     + (IF t = buyer THEN quantity ELSE 0)
                     + (IF t = m THEN - Given(o, quantity) ELSE 0)
  <2>1. paid[t] \in Nat /\ tokens[t] \in Nat
    BY DEF BookMoney, WalletsTyped
  <2>2. usdc'[t] = paid[t] + (IF t = m THEN share ELSE 0)
    BY <1>2, <1>6, <2>1
  <2>3. tokens'[t] = tokens[t] + (IF t = buyer THEN quantity ELSE 0)
    <3>1. tokens \in [Traders -> Nat]
      BY DEF BookMoney, WalletsTyped
    <3> QED BY <1>6, <2>1, <3>1
  <2>4. Waiting(order', escrow', UsdcKind, t) = Waiting(order, escrow, UsdcKind, t)
          - (IF t = m THEN locked ELSE 0)
    <3>1. CASE r.kind \in ResaleKind
      <4>1. r.kind \notin UsdcKind
        BY <3>1 DEF ResaleKind, UsdcKind
      <4> QED BY <1>5, <1>8, <3>1, <4>1
    <3>2. CASE r.kind = "WriterAsk"
      <4>1. r.kind \in UsdcKind
        BY <3>2 DEF UsdcKind
      <4> QED BY <1>4, <1>8, <3>2, <4>1
    <3> QED BY <1>9, <3>1, <3>2
  <2>5. Given(o, quantity) \in Nat
    BY DEF Given
  <2>6. Waiting(order', escrow', ResaleKind, t) = Waiting(order, escrow, ResaleKind, t)
          - (IF t = m THEN Given(o, quantity) ELSE 0)
    <3>1. CASE r.kind \in ResaleKind
      <4>1. Given(o, quantity) = quantity
        BY <3>1 DEF ResaleKind, Given
      <4> QED BY <1>5, <1>8, <3>1, <4>1
    <3>2. CASE r.kind = "WriterAsk"
      <4>1. r.kind \notin ResaleKind /\ Given(o, quantity) = 0
        BY <3>2 DEF ResaleKind, Given
      <4> QED BY <1>8, <3>2, <4>1
    <3> QED BY <1>9, <3>1, <3>2
  <2>7. Waiting(order, escrow, UsdcKind, t) \in Nat /\ Waiting(order, escrow, ResaleKind, t) \in Nat
    BY <1>8
  <2> QED BY <1>2, <1>3, <2>1, <2>2, <2>3, <2>4, <2>5, <2>6, <2>7
<1> QED
  <2>1. \A t \in Traders :
          /\ Worth(usdc', order', escrow', UsdcKind)[t]
               = Worth(paid, order, escrow, UsdcKind)[t]
                 + (IF t = m THEN share - locked ELSE 0)
          /\ Worth(tokens', order', escrow', ResaleKind)[t]
               = Held[t] + (IF t = buyer THEN quantity ELSE 0)
                 + (IF t = m THEN - Given(o, quantity) ELSE 0)
    BY <1>11 DEF Worth, Held
  <2>2. BookMoney'
    BY <1>7, <1>10 DEF BookMoney
  <2> QED BY <1>3, <1>6, <2>1, <2>2 DEF share, fee, locked, m

(* A bid that is hit. *)
LEMMA BidMoves ==
    ASSUME BookMoney,
           NEW o \in OrderIds, order[o] # NoOrder, order[o].kind = "Bid",
           NEW quantity \in Nat \ {0}, quantity <= order[o].quantity,
           NEW seller \in Traders, ~expired, UNCHANGED expired, UNCHANGED history,
           BidFillCore(o, quantity, seller)
    PROVE  /\ BookMoney'
           /\ treasury' = treasury + FeeOf(o, quantity)
           /\ UNCHANGED committed
           /\ \A t \in Traders :
                /\ Worth(usdc', order', escrow', UsdcKind)[t]
                     = Cash[t] + (IF t = Owner(o) THEN - TotalOf(o, quantity) ELSE 0)
                       + (IF t = seller THEN ShareOf(o, quantity) ELSE 0)
                /\ Worth(tokens', order', escrow', ResaleKind)[t]
                     = Held[t] + (IF t = Owner(o) THEN quantity ELSE 0)
                       + (IF t = seller THEN - quantity ELSE 0)
<1> DEFINE r == order[o]
           total == TotalOf(o, quantity)
           share == ShareOf(o, quantity)
           fee == FeeOf(o, quantity)
           m == Owner(o)
<1>1. r \in RestingOrder /\ m \in Traders
  BY OwnerTrades DEF BookMoney, BookInvariant, BookTyped
<1>2. share \in Nat /\ fee \in Nat /\ total \in Nat
  BY <1>1, SplitNat
<1>3. total = Escrowed(order[o], quantity)
  BY <1>1 DEF Escrowed, ResaleKind, TotalOf, RestingOrder
<1>4. /\ quantity <= tokens[seller]
      /\ Fill(o, quantity, total)
      /\ tokens' = [tokens EXCEPT ![seller] = @ - quantity, ![m] = @ + quantity]
      /\ usdc' = [usdc EXCEPT ![seller] = @ + share]
      /\ treasury' = treasury + fee
      /\ committed' = committed
  BY DEF BidFillCore
<1> HIDE DEF total, share, fee, m
<1>5. BookInvariant' /\ AsksCovered'
  BY <1>3, <1>4, FillMoves
<1>6. \A kinds, t :
        /\ Waiting(order, escrow, kinds, t) \in Nat
        /\ Waiting(order', escrow', kinds, t) = Waiting(order, escrow, kinds, t)
             - (IF t = Owner(o) /\ r.kind \in kinds THEN total ELSE 0)
  BY <1>3, <1>4, FillMoves
<1>7. usdc \in [Traders -> Nat] /\ tokens \in [Traders -> Nat]
  BY DEF BookMoney, WalletsTyped
<1>8. ASSUME NEW t \in Traders
      PROVE  /\ tokens'[t] = tokens[t] + (IF t = m THEN quantity ELSE 0)
                  + (IF t = seller THEN - quantity ELSE 0)
             /\ tokens'[t] \in Nat
             /\ usdc'[t] = usdc[t] + (IF t = seller THEN share ELSE 0)
  <2>1. tokens[t] \in Nat /\ tokens[seller] \in Nat
    BY <1>7
  <2> QED BY <1>1, <1>2, <1>4, <1>7, <2>1
<1>9. WalletsTyped'
  <2>1. tokens' \in [Traders -> Nat]
    BY <1>4, <1>7, <1>8
  <2> QED BY <1>2, <1>4, <2>1 DEF BookMoney, WalletsTyped
<1>10. r.kind \in UsdcKind /\ r.kind \notin ResaleKind
  BY DEF UsdcKind, ResaleKind
<1>11. ASSUME NEW t \in Traders
       PROVE  /\ usdc'[t] + Waiting(order', escrow', UsdcKind, t)
                   = (usdc[t] + Waiting(order, escrow, UsdcKind, t))
                     + (IF t = m THEN - total ELSE 0) + (IF t = seller THEN share ELSE 0)
              /\ tokens'[t] + Waiting(order', escrow', ResaleKind, t)
                   = (tokens[t] + Waiting(order, escrow, ResaleKind, t))
                     + (IF t = m THEN quantity ELSE 0)
                     + (IF t = seller THEN - quantity ELSE 0)
  <2>1. usdc[t] \in Nat /\ tokens[t] \in Nat
    BY <1>7
  <2>2. Waiting(order', escrow', UsdcKind, t) = Waiting(order, escrow, UsdcKind, t)
          - (IF t = m THEN total ELSE 0)
    BY <1>6, <1>10 DEF m
  <2>3. Waiting(order', escrow', ResaleKind, t) = Waiting(order, escrow, ResaleKind, t)
    BY <1>6, <1>10
  <2>4. Waiting(order, escrow, UsdcKind, t) \in Nat /\ Waiting(order, escrow, ResaleKind, t) \in Nat
    BY <1>6
  <2> QED BY <1>2, <1>8, <2>1, <2>2, <2>3, <2>4
<1> QED
  <2>1. \A t \in Traders :
          /\ Worth(usdc', order', escrow', UsdcKind)[t]
               = Cash[t] + (IF t = m THEN - total ELSE 0)
                 + (IF t = seller THEN share ELSE 0)
          /\ Worth(tokens', order', escrow', ResaleKind)[t]
               = Held[t] + (IF t = m THEN quantity ELSE 0)
                 + (IF t = seller THEN - quantity ELSE 0)
    BY <1>11 DEF Worth, Held, Cash
  <2>2. BookMoney'
    BY <1>5, <1>9 DEF BookMoney
  <2> QED BY <1>4, <2>1, <2>2 DEF total, share, fee, m

---------------------------------------------------------------------------
(* Finalized escrows. *)

(* No other order's escrow or kind changes: what waits for whom. *)
LEMMA EscrowChange ==
    ASSUME NEW ord, NEW esc \in [OrderIds -> Nat], NEW esc2 \in [OrderIds -> Nat],
           NEW o \in OrderIds, ord[o] # NoOrder,
           \A p \in OrderIds \ {o} : esc2[p] = esc[p],
           NEW kinds, NEW t
    PROVE  /\ Waiting(ord, esc, kinds, t) \in Nat
           /\ Waiting(ord, esc2, kinds, t) = Waiting(ord, esc, kinds, t)
                + (IF t = Owner(o) /\ ord[o].kind \in kinds THEN esc2[o] - esc[o] ELSE 0)
<1>1. \A p \in OrderIds \ {o} : ord[p] = ord[p] /\ esc2[p] = esc[p]
  OBVIOUS
<1>2. Waiting(ord, esc2, kinds, t) = Waiting(ord, esc, kinds, t)
        + (IF t = Owner(o) THEN Here(ord, esc2, kinds, o) - Here(ord, esc, kinds, o) ELSE 0)
  BY <1>1, WaitingChange
<1>3. /\ Here(ord, esc, kinds, o) = IF ord[o].kind \in kinds THEN esc[o] ELSE 0
      /\ Here(ord, esc2, kinds, o) = IF ord[o].kind \in kinds THEN esc2[o] ELSE 0
  BY DEF Here
<1>4. Waiting(ord, esc, kinds, t) \in Nat
  BY WaitingTotal
<1> QED BY <1>2, <1>3, <1>4

(* The owner of what is burned is poorer by it in tokens, and nobody is     *)
(* richer or poorer in USDC, but for a trader whose escrow is paid into.    *)
LEMMA BurnMoves ==
    ASSUME BookMoney,
           NEW o \in OrderIds, NEW payout \in Payouts, BurnEscrow(o, payout),
           treasury' \in Nat,
           escrow' = [escrow EXCEPT ![o] = 0]
    PROVE  /\ BookMoney'
           /\ \A t \in Traders :
                /\ Worth(usdc', order', escrow', UsdcKind)[t] = Cash[t]
                /\ Worth(tokens', order', escrow', ResaleKind)[t]
                     = Held[t] + (IF t = Owner(o) THEN - escrow[o] ELSE 0)
<1>1. /\ order[o] # NoOrder /\ order[o].kind \in ResaleKind
      /\ UNCHANGED <<expired, order, usdc, tokens, committed>>
  BY DEF BurnEscrow, KindOf
<1>2. escrow \in [OrderIds -> Nat]
  BY DEF BookMoney, BookInvariant, BookTyped
<1>3. BookInvariant'
  BY BurnKeeps DEF BookMoney
<1>4. BookMoney'
  BY <1>1, <1>3 DEF BookMoney, WalletsTyped, AsksCovered
<1>5. order[o].kind \notin UsdcKind
  BY <1>1 DEF ResaleKind, UsdcKind
<1> PICK now \in [OrderIds -> Nat] : /\ escrow' = now /\ now[o] = 0
                                     /\ \A p \in OrderIds \ {o} : now[p] = escrow[p]
  BY <1>2
<1>6. ASSUME NEW t \in Traders
      PROVE  /\ usdc'[t] + Waiting(order', escrow', UsdcKind, t)
                  = usdc[t] + Waiting(order, escrow, UsdcKind, t)
             /\ tokens'[t] + Waiting(order', escrow', ResaleKind, t)
                  = (tokens[t] + Waiting(order, escrow, ResaleKind, t))
                    + (IF t = Owner(o) THEN - escrow[o] ELSE 0)
  <2>1. usdc[t] \in Nat /\ tokens[t] \in Nat /\ escrow[o] \in Nat
    BY <1>2 DEF BookMoney, WalletsTyped
  <2>2. /\ Waiting(order, escrow, UsdcKind, t) \in Nat
        /\ Waiting(order, now, UsdcKind, t) = Waiting(order, escrow, UsdcKind, t)
    BY <1>1, <1>2, <1>5, EscrowChange
  <2>3. /\ Waiting(order, escrow, ResaleKind, t) \in Nat
        /\ Waiting(order, now, ResaleKind, t) = Waiting(order, escrow, ResaleKind, t)
             + (IF t = Owner(o) THEN 0 - escrow[o] ELSE 0)
    BY <1>1, <1>2, EscrowChange
  <2>4. /\ usdc'[t] = usdc[t] /\ tokens'[t] = tokens[t]
        /\ Waiting(order', escrow', UsdcKind, t) = Waiting(order, now, UsdcKind, t)
        /\ Waiting(order', escrow', ResaleKind, t) = Waiting(order, now, ResaleKind, t)
    BY <1>1
  <2>5. PICK n \in Nat : n = escrow[o]
    BY <2>1
  <2> QED BY <2>1, <2>2, <2>3, <2>4, <2>5
<1> QED BY <1>4, <1>6 DEF Cash, Held, Worth

LEMMA BurnPaysOne ==
    ASSUME BookMoney,
           NEW o \in OrderIds, NEW payout \in Payouts, BurnEscrow(o, payout),
           treasury' = treasury,
           NEW p \in KindOf({"Bid", "WriterAsk"}),
           escrow' = [escrow EXCEPT ![o] = 0, ![p] = @ + payout]
    PROVE  /\ BookMoney'
           /\ Owner(p) \in Traders
           /\ \A t \in Traders :
                /\ Worth(usdc', order', escrow', UsdcKind)[t]
                     = Cash[t] + (IF t = Owner(p) THEN payout ELSE 0)
                /\ Worth(tokens', order', escrow', ResaleKind)[t]
                     = Held[t] + (IF t = Owner(o) THEN - escrow[o] ELSE 0)
<1>1. /\ order[o] # NoOrder /\ order[o].kind \in ResaleKind
      /\ UNCHANGED <<expired, order, usdc, tokens, committed>>
      /\ payout \in Nat
  BY BookAssumption DEF BurnEscrow, KindOf
<1>2. escrow \in [OrderIds -> Nat]
  BY DEF BookMoney, BookInvariant, BookTyped
<1>3. BookInvariant'
  BY BurnPays DEF BookMoney
<1>4. BookMoney'
  BY <1>1, <1>3 DEF BookMoney, WalletsTyped, AsksCovered
<1>5. /\ p \in OrderIds /\ p # o /\ order[p] # NoOrder
      /\ order[p].kind \in UsdcKind /\ order[p].kind \notin ResaleKind
      /\ order[o].kind \notin UsdcKind
  BY <1>1 DEF KindOf, ResaleKind, UsdcKind
<1> PICK middle \in [OrderIds -> Nat] :
           middle[o] = 0 /\ \A q \in OrderIds \ {o} : middle[q] = escrow[q]
  <2>1. [escrow EXCEPT ![o] = 0] \in [OrderIds -> Nat]
    BY <1>2
  <2> QED BY <1>2, <2>1
<1> PICK now \in [OrderIds -> Nat] :
           /\ escrow' = now /\ now[p] = escrow[p] + payout
           /\ \A q \in OrderIds \ {p} : now[q] = middle[q]
  <2>1. escrow' \in [OrderIds -> Nat]
    BY <1>3 DEF BookInvariant, BookTyped
  <2>2. escrow'[p] = escrow[p] + payout /\ escrow'[o] = 0
        /\ \A q \in OrderIds \ {o, p} : escrow'[q] = escrow[q]
    BY <1>2, <1>5
  <2> QED BY <2>1, <2>2
<1>7. ASSUME NEW t \in Traders
      PROVE  /\ usdc'[t] + Waiting(order', escrow', UsdcKind, t)
                  = (usdc[t] + Waiting(order, escrow, UsdcKind, t))
                    + (IF t = Owner(p) THEN payout ELSE 0)
             /\ tokens'[t] + Waiting(order', escrow', ResaleKind, t)
                  = (tokens[t] + Waiting(order, escrow, ResaleKind, t))
                    + (IF t = Owner(o) THEN - escrow[o] ELSE 0)
  <2>1. usdc[t] \in Nat /\ tokens[t] \in Nat /\ escrow[o] \in Nat /\ escrow[p] \in Nat
    BY <1>2, <1>5 DEF BookMoney, WalletsTyped
  <2>2. /\ Waiting(order, escrow, UsdcKind, t) \in Nat
        /\ Waiting(order, middle, UsdcKind, t) = Waiting(order, escrow, UsdcKind, t)
    BY <1>1, <1>2, <1>5, EscrowChange
  <2>3. /\ Waiting(order, escrow, ResaleKind, t) \in Nat
        /\ Waiting(order, middle, ResaleKind, t) = Waiting(order, escrow, ResaleKind, t)
             + (IF t = Owner(o) THEN 0 - escrow[o] ELSE 0)
    BY <1>1, <1>2, EscrowChange
  <2>4. Waiting(order, now, UsdcKind, t) = Waiting(order, middle, UsdcKind, t)
             + (IF t = Owner(p) THEN (escrow[p] + payout) - escrow[p] ELSE 0)
    BY <1>5, EscrowChange
  <2>5. Waiting(order, now, ResaleKind, t) = Waiting(order, middle, ResaleKind, t)
    BY <1>5, EscrowChange
  <2>6. /\ usdc'[t] = usdc[t] /\ tokens'[t] = tokens[t]
        /\ Waiting(order', escrow', UsdcKind, t) = Waiting(order, now, UsdcKind, t)
        /\ Waiting(order', escrow', ResaleKind, t) = Waiting(order, now, ResaleKind, t)
    BY <1>1
  <2>7. PICK n \in Nat : n = escrow[o]
    BY <2>1
  <2>8. PICK m \in Nat : m = escrow[p]
    BY <2>1
  <2> QED BY <1>1, <2>1, <2>2, <2>3, <2>4, <2>5, <2>6, <2>7, <2>8
<1> QED BY <1>4, <1>5, <1>7, OwnerTrades DEF Cash, Held, Worth

(* A payment of another vault makes a maker richer by it.                   *)
LEMMA ReceiveMoves ==
    ASSUME BookMoney,
           NEW o \in OrderIds, NEW payout \in Payouts, ReceivePayout(o, payout)
    PROVE  /\ BookMoney'
           /\ Owner(o) \in Traders
           /\ \A t \in Traders :
                /\ Worth(usdc', order', escrow', UsdcKind)[t]
                     = Cash[t] + (IF t = Owner(o) THEN payout ELSE 0)
                /\ Worth(tokens', order', escrow', ResaleKind)[t] = Held[t]
<1>1. /\ order[o] # NoOrder /\ order[o].kind \in UsdcKind /\ order[o].kind \notin ResaleKind
      /\ UNCHANGED <<expired, order, usdc, tokens, treasury, committed>>
      /\ escrow' = [escrow EXCEPT ![o] = @ + payout]
      /\ payout \in Nat
  BY BookAssumption DEF ReceivePayout, KindOf, UsdcKind, ResaleKind, wallets
<1>2. escrow \in [OrderIds -> Nat]
  BY DEF BookMoney, BookInvariant, BookTyped
<1>3. BookInvariant'
  BY ReceiveKeeps DEF BookMoney
<1>4. BookMoney'
  BY <1>1, <1>3 DEF BookMoney, WalletsTyped, AsksCovered
<1> PICK now \in [OrderIds -> Nat] : /\ escrow' = now /\ now[o] = escrow[o] + payout
                                     /\ \A p \in OrderIds \ {o} : now[p] = escrow[p]
  <2>1. escrow' \in [OrderIds -> Nat]
    BY <1>3 DEF BookInvariant, BookTyped
  <2> QED BY <1>1, <1>2, <2>1
<1>6. order[o] # NoOrder /\ order[o].kind \in UsdcKind /\ order[o].kind \notin ResaleKind
  BY <1>1
<1>5. ASSUME NEW t \in Traders
      PROVE  /\ usdc'[t] + Waiting(order', escrow', UsdcKind, t)
                  = (usdc[t] + Waiting(order, escrow, UsdcKind, t))
                    + (IF t = Owner(o) THEN payout ELSE 0)
             /\ tokens'[t] + Waiting(order', escrow', ResaleKind, t)
                  = tokens[t] + Waiting(order, escrow, ResaleKind, t)
  <2>1. usdc[t] \in Nat /\ tokens[t] \in Nat /\ escrow[o] \in Nat
    BY <1>2 DEF BookMoney, WalletsTyped
  <2>2. ASSUME NEW kinds
        PROVE  /\ Waiting(order, escrow, kinds, t) \in Nat
               /\ Waiting(order, now, kinds, t) = Waiting(order, escrow, kinds, t)
                    + (IF t = Owner(o) /\ order[o].kind \in kinds THEN now[o] - escrow[o] ELSE 0)
    BY <1>2, <1>6, EscrowChange
  <2>3. /\ Waiting(order, escrow, UsdcKind, t) \in Nat
        /\ Waiting(order, escrow, ResaleKind, t) \in Nat
        /\ Waiting(order, now, UsdcKind, t) = Waiting(order, escrow, UsdcKind, t)
             + (IF t = Owner(o) THEN now[o] - escrow[o] ELSE 0)
        /\ Waiting(order, now, ResaleKind, t) = Waiting(order, escrow, ResaleKind, t)
             + (IF t = Owner(o) /\ order[o].kind \in ResaleKind THEN now[o] - escrow[o] ELSE 0)
    BY <1>6, <2>2
  <2>4. /\ usdc'[t] = usdc[t] /\ tokens'[t] = tokens[t]
        /\ Waiting(order', escrow', UsdcKind, t) = Waiting(order, now, UsdcKind, t)
        /\ Waiting(order', escrow', ResaleKind, t) = Waiting(order, now, ResaleKind, t)
    BY <1>1
  <2>5. PICK n \in Nat : n = escrow[o]
    BY <2>1
  <2> QED BY <1>1, <1>6, <2>1, <2>3, <2>4, <2>5
<1> QED BY <1>4, <1>5, OwnerTrades DEF Cash, Held, Worth

---------------------------------------------------------------------------
(* Fills are trades. *)

(* Who gets the tokens of a fill, and who gives them. *)
Buyer(taker, o) == IF order[o].kind = "Bid" THEN Owner(o) ELSE taker
Seller(taker, o) == IF order[o].kind = "Bid" THEN taker ELSE Owner(o)

(* The three instructions of takers. *)
TakerFills(taker, o, quantity) ==
    \/ FillOrder(taker, o, quantity)
    \/ FillWriterAsk(taker, o, quantity)
    \/ \E price \in Prices : BuyResale(taker, o, quantity, price * quantity)

(* Every fill is a trade between the taker and another trader. *)
LEMMA TradeMoves ==
    ASSUME BookMoney,
           NEW taker \in Traders, NEW o \in OrderIds, NEW quantity \in Quantities,
           TakerFills(taker, o, quantity)
    PROVE  /\ BookMoney'
           /\ ~expired /\ UNCHANGED expired
           /\ order[o] \in RestingOrder /\ order[o] # NoOrder /\ taker # Owner(o)
           /\ quantity \in Nat \ {0} /\ quantity <= order[o].quantity
           /\ Fill(o, quantity, Escrowed(order[o], quantity))
           /\ treasury' = treasury + FeeOf(o, quantity)
           /\ committed' = [committed EXCEPT ![Seller(taker, o)] = @ + Locked(o, quantity)]
           /\ Locked(o, quantity) \in Nat
           /\ \A t \in Traders :
                /\ Worth(usdc', order', escrow', UsdcKind)[t]
                     = Cash[t] + (IF t = Buyer(taker, o) THEN - TotalOf(o, quantity) ELSE 0)
                       + (IF t = Seller(taker, o)
                          THEN ShareOf(o, quantity) - Locked(o, quantity) ELSE 0)
                /\ Worth(tokens', order', escrow', ResaleKind)[t]
                     = Held[t] + (IF t = Buyer(taker, o) THEN quantity ELSE 0)
                       + (IF t = Seller(taker, o) THEN - Given(o, quantity) ELSE 0)
<1> DEFINE r == order[o]
           total == TotalOf(o, quantity)
           paid == [usdc EXCEPT ![taker] = @ - total]
<1>1. /\ r # NoOrder /\ taker # Owner(o) /\ ~expired /\ expired' = expired
      /\ UNCHANGED history
      /\ quantity \in Nat \ {0} /\ quantity <= r.quantity
  BY BookAssumption DEF TakerFills, FillOrder, FillWriterAsk, BuyResale
<1>2. r \in RestingOrder /\ Owner(o) \in Traders
  BY <1>1, OwnerTrades DEF BookMoney, BookInvariant, BookTyped
<1>3. \/ r.kind = "Bid" /\ BidFillCore(o, quantity, taker)
      \/ /\ total <= usdc[taker]
         /\ \/ r.kind \in ResaleKind /\ ResaleAskFillCore(o, quantity, taker, paid)
            \/ r.kind = "WriterAsk" /\ WriterAskFillCore(o, quantity, taker, paid)
  BY DEF TakerFills, FillOrder, FillWriterAsk, BuyResale, ResaleKind
<1>4. /\ total \in Nat /\ ShareOf(o, quantity) \in Nat
  BY <1>1, <1>2, SplitNat
<1>5. Fill(o, quantity, Escrowed(r, quantity))
  <2>1. CASE r.kind = "Bid" /\ BidFillCore(o, quantity, taker)
    <3>1. Escrowed(r, quantity) = total
      BY <2>1, <1>1, <1>2 DEF Escrowed, ResaleKind, TotalOf, RestingOrder
    <3> QED BY <2>1, <3>1 DEF BidFillCore
  <2>2. CASE r.kind \in ResaleKind /\ ResaleAskFillCore(o, quantity, taker, paid)
    <3>1. Escrowed(r, quantity) = quantity
      BY <2>2 DEF Escrowed, ResaleKind
    <3> QED BY <2>2, <3>1 DEF ResaleAskFillCore
  <2>3. CASE r.kind = "WriterAsk" /\ WriterAskFillCore(o, quantity, taker, paid)
    <3>1. Escrowed(r, quantity) = r.cpt * quantity
      BY <2>3 DEF Escrowed, ResaleKind
    <3> QED BY <2>3, <3>1 DEF WriterAskFillCore
  <2> QED BY <1>3, <2>1, <2>2, <2>3
<1>6. CASE r.kind = "Bid" /\ BidFillCore(o, quantity, taker)
  <2>1. Buyer(taker, o) = Owner(o) /\ Seller(taker, o) = taker
        /\ Locked(o, quantity) = 0 /\ Given(o, quantity) = quantity
    BY <1>6 DEF Buyer, Seller, Locked, Given
  <2>2. committed' = [committed EXCEPT ![taker] = @ + 0]
    <3>1. committed' = committed
      BY <1>6 DEF BidFillCore
    <3>2. committed \in [Traders -> Nat]
      BY DEF BookMoney, WalletsTyped
    <3> QED BY <3>1, <3>2
  <2>3. /\ BookMoney'
        /\ treasury' = treasury + FeeOf(o, quantity)
        /\ \A t \in Traders :
             /\ Worth(usdc', order', escrow', UsdcKind)[t]
                  = Cash[t] + (IF t = Owner(o) THEN - total ELSE 0)
                    + (IF t = taker THEN ShareOf(o, quantity) ELSE 0)
             /\ Worth(tokens', order', escrow', ResaleKind)[t]
                  = Held[t] + (IF t = Owner(o) THEN quantity ELSE 0)
                    + (IF t = taker THEN - quantity ELSE 0)
    <3> HIDE DEF paid, r, total
    <3> QED BY <1>1, <1>6, BidMoves DEF r, total
  <2>4. ShareOf(o, quantity) - 0 = ShareOf(o, quantity)
    BY <1>4
  <2> HIDE DEF total, paid
  <2> QED BY <1>1, <1>2, <1>5, <2>1, <2>2, <2>3, <2>4 DEF total
<1>7. CASE /\ total <= usdc[taker]
           /\ \/ r.kind \in ResaleKind /\ ResaleAskFillCore(o, quantity, taker, paid)
              \/ r.kind = "WriterAsk" /\ WriterAskFillCore(o, quantity, taker, paid)
  <2>1. Buyer(taker, o) = taker /\ Seller(taker, o) = Owner(o)
    BY <1>7 DEF Buyer, Seller, ResaleKind
  <2>2. usdc \in [Traders -> Nat]
    BY DEF BookMoney, WalletsTyped
  <2>3. paid \in [Traders -> Nat]
    <3>1. usdc[taker] - total \in Nat
      BY <1>4, <1>7, <2>2
    <3> QED BY <2>2, <3>1
  <2>4. ASSUME NEW t \in Traders
        PROVE  Worth(paid, order, escrow, UsdcKind)[t]
                 = Cash[t] + (IF t = taker THEN - total ELSE 0)
    <3>1. paid[t] = usdc[t] + (IF t = taker THEN - total ELSE 0)
      BY <1>4, <2>2
    <3>2. Waiting(order, escrow, UsdcKind, t) \in Nat
      BY WaitingTotal DEF BookMoney, BookInvariant, BookTyped
    <3>3. usdc[t] \in Nat
      BY <2>2
    <3>4. Worth(paid, order, escrow, UsdcKind)[t] = paid[t] + Waiting(order, escrow, UsdcKind, t)
          /\ Cash[t] = usdc[t] + Waiting(order, escrow, UsdcKind, t)
      BY DEF Worth, Cash
    <3> HIDE DEF paid, total
    <3> QED BY <1>4, <3>1, <3>2, <3>3, <3>4
  <2>5. /\ BookMoney'
        /\ treasury' = treasury + FeeOf(o, quantity)
        /\ committed' = [committed EXCEPT ![Owner(o)] = @ + Locked(o, quantity)]
        /\ Locked(o, quantity) \in Nat
        /\ \A t \in Traders :
             /\ Worth(usdc', order', escrow', UsdcKind)[t]
                  = Worth(paid, order, escrow, UsdcKind)[t]
                    + (IF t = Owner(o) THEN ShareOf(o, quantity) - Locked(o, quantity) ELSE 0)
             /\ Worth(tokens', order', escrow', ResaleKind)[t]
                  = Held[t] + (IF t = taker THEN quantity ELSE 0)
                    + (IF t = Owner(o) THEN - Given(o, quantity) ELSE 0)
    <3> HIDE DEF paid, r, total
    <3> QED BY <1>1, <1>7, <2>3, AskMoves DEF r
  <2> HIDE DEF total, paid
  <2> QED BY <1>1, <1>2, <1>5, <2>1, <2>4, <2>5 DEF total
<1> QED
  <2> HIDE DEF paid, total
  <2> QED BY <1>3, <1>6, <1>7

(* What is conserved, of what each trader is worth. *)
Kept(cash, held, fees, backing, u, k) ==
    /\ SumFunction(cash) + fees + SumFunction(backing) = u
    /\ CollateralPerContract(Strike) * SumFunction(held) = k + SumFunction(backing)

(* What is conserved, now and after a step. *)
KeptBefore(u, k) == Kept(Cash, Held, treasury, committed, u, k)
KeptAfter(u, k) ==
    Kept(Worth(usdc', order', escrow', UsdcKind), Worth(tokens', order', escrow', ResaleKind),
         treasury', committed', u, k)

(* The totals at the start, and now: with what vaults paid, and without     *)
(* what this one was paid for. *)
StartCash   == SumFunction(StartUsdc)
StartBacked == CollateralPerContract(Strike) * SumFunction(StartTokens)
NowCash     == StartCash + (redeemed + gained)
NowBacked   == StartBacked - CollateralPerContract(Strike) * burned

HistoryTyped == burned \in Nat /\ redeemed \in Nat /\ gained \in Nat

LEMMA StartTyped == StartCash \in Int /\ StartBacked \in Int
<1>1. StartUsdc \in [Traders -> Int] /\ StartTokens \in [Traders -> Int]
  BY BookAssumption
<1>2. SumFunction(StartUsdc) \in Int /\ SumFunction(StartTokens) \in Int
  BY <1>1, TotalInt, FiniteAssumption
<1>3. CollateralPerContract(Strike) \in Int
  BY BookAssumption DEF CollateralPerContract
<1> DEFINE k == SumFunction(StartTokens)
           c == CollateralPerContract(Strike)
<1>4. c * k \in Int
  <2> HIDE DEF k, c
  <2> QED BY <1>2, <1>3 DEF k, c
<1> QED BY <1>2, <1>4 DEF StartCash, StartBacked

(* NothingLost is that, by what traders are worth ... *)
LEMMA KeptNow ==
    BookMoney /\ HistoryTyped => (NothingLost <=> KeptBefore(NowCash, NowBacked))
<1> SUFFICES ASSUME BookMoney, HistoryTyped
             PROVE  NothingLost <=> KeptBefore(NowCash, NowBacked)
  OBVIOUS
<1>1. /\ usdc \in [Traders -> Int] /\ tokens \in [Traders -> Int]
      /\ usdc \in [Traders -> Nat] /\ tokens \in [Traders -> Nat]
      /\ committed \in [Traders -> Nat] /\ treasury \in Nat
      /\ escrow \in [OrderIds -> Nat]
      /\ burned \in Nat /\ redeemed \in Nat /\ gained \in Nat
  BY DEF BookMoney, WalletsTyped, BookInvariant, BookTyped, HistoryTyped
<1> DEFINE u == SumFunction(usdc)
           v == SumFunction(tokens)
           c == SumFunction(committed)
           e == SumFunctionOnSet(escrow, Resting(order, UsdcKind))
           d == SumFunctionOnSet(escrow, Resting(order, ResaleKind))
           m == CollateralPerContract(Strike)
<1>2. SumFunction(Worth(usdc, order, escrow, UsdcKind)) = u + e
      /\ SumFunction(Worth(tokens, order, escrow, ResaleKind)) = v + d
  BY <1>1, WorthTotal
<1>3. u \in Nat /\ v \in Nat /\ c \in Nat /\ m \in Nat
  BY <1>1, TotalNat, FiniteAssumption, BookAssumption DEF CollateralPerContract
<1>4. ASSUME NEW kinds PROVE SumFunctionOnSet(escrow, Resting(order, kinds)) \in Nat
  <2> DEFINE S == Resting(order, kinds)
  <2>1. IsFiniteSet(S) /\ \A x \in S : escrow[x] \in Nat
    BY <1>1, FS_Subset, FiniteAssumption DEF Resting
  <2> HIDE DEF S
  <2>2. SumFunctionOnSet(escrow, S) \in Nat
    BY <2>1, SumNat
  <2> QED BY <2>2 DEF S
<1>5. (KindOf({"Bid", "WriterAsk"})) = Resting(order, UsdcKind)
      /\ (KindOf(ResaleKind)) = Resting(order, ResaleKind)
  BY DEF KindOf, Resting, UsdcKind, ResaleKind
<1>6. e \in Nat /\ d \in Nat
  BY <1>4
<1>7. StartCash \in Int /\ StartBacked \in Int
  BY StartTyped
<1>8. NothingLost <=> /\ u + treasury + c + e = StartCash + redeemed + gained
                      /\ m * (v + d + burned) = StartBacked + c
  BY <1>5 DEF NothingLost, StartCash, StartBacked
<1>9. KeptBefore(NowCash, NowBacked) <=> /\ (u + e) + treasury + c = StartCash + (redeemed + gained)
                  /\ m * (v + d) = (StartBacked - m * burned) + c
  BY <1>2 DEF KeptBefore, Cash, Held, Kept, NowCash, NowBacked
<1> HIDE DEF u, v, c, e, d, m
<1>10. m * (v + d + burned) = m * (v + d) + m * burned
  BY <1>1, <1>3, <1>6
<1>11. m * (v + d) \in Int /\ m * burned \in Int
  BY <1>1, <1>3, <1>6
<1>12. u + treasury + c + e = (u + e) + treasury + c
  BY ONLY <1>1, <1>3, <1>6
<1>13. m * (v + d + burned) = StartBacked + c
         <=> m * (v + d) = (StartBacked - m * burned) + c
  <2> PICK x \in Int : x = m * (v + d)
    BY <1>11
  <2> PICK y \in Int : y = m * burned
    BY <1>11
  <2>1. m * (v + d + burned) = x + y
    BY <1>10
  <2>2. x + y = StartBacked + c <=> x = (StartBacked - y) + c
    BY ONLY <1>3, <1>7, x \in Int, y \in Int
  <2> QED BY <2>1, <2>2
<1>14. StartCash + redeemed + gained = StartCash + (redeemed + gained)
  BY ONLY <1>1, <1>7
<1> QED BY ONLY <1>8, <1>9, <1>12, <1>13, <1>14

(* ... and so it is after a step. *)
LEMMA KeptNext ==
    BookMoney' /\ HistoryTyped' => (NothingLost' <=> KeptAfter(NowCash', NowBacked'))
<1> SUFFICES ASSUME BookMoney', HistoryTyped'
             PROVE  NothingLost' <=> KeptAfter(NowCash', NowBacked')
  OBVIOUS
<1>1. /\ usdc' \in [Traders -> Int] /\ tokens' \in [Traders -> Int]
      /\ usdc' \in [Traders -> Nat] /\ tokens' \in [Traders -> Nat]
      /\ committed' \in [Traders -> Nat] /\ treasury' \in Nat
      /\ escrow' \in [OrderIds -> Nat]
      /\ burned' \in Nat /\ redeemed' \in Nat /\ gained' \in Nat
  BY DEF BookMoney, WalletsTyped, BookInvariant, BookTyped, HistoryTyped
<1> DEFINE u == SumFunction(usdc')
           v == SumFunction(tokens')
           c == SumFunction(committed')
           e == SumFunctionOnSet(escrow', Resting(order', UsdcKind))
           d == SumFunctionOnSet(escrow', Resting(order', ResaleKind))
           m == CollateralPerContract(Strike)
<1>2. SumFunction(Worth(usdc', order', escrow', UsdcKind)) = u + e
      /\ SumFunction(Worth(tokens', order', escrow', ResaleKind)) = v + d
  BY <1>1, WorthTotal
<1>3. u \in Nat /\ v \in Nat /\ c \in Nat /\ m \in Nat
  BY <1>1, TotalNat, FiniteAssumption, BookAssumption DEF CollateralPerContract
<1>4. ASSUME NEW kinds PROVE SumFunctionOnSet(escrow', Resting(order', kinds)) \in Nat
  <2> DEFINE S == Resting(order', kinds)
  <2>1. IsFiniteSet(S) /\ \A x \in S : escrow'[x] \in Nat
    BY <1>1, FS_Subset, FiniteAssumption DEF Resting
  <2> HIDE DEF S
  <2>2. SumFunctionOnSet(escrow', S) \in Nat
    BY <2>1, SumNat
  <2> QED BY <2>2 DEF S
<1>5. (KindOf({"Bid", "WriterAsk"}))' = Resting(order', UsdcKind)
      /\ (KindOf(ResaleKind))' = Resting(order', ResaleKind)
  BY DEF KindOf, Resting, UsdcKind, ResaleKind
<1>6. e \in Nat /\ d \in Nat
  BY <1>4
<1>7. StartCash \in Int /\ StartBacked \in Int
  BY StartTyped
<1>8. NothingLost' <=> /\ u + treasury' + c + e = StartCash + redeemed' + gained'
                      /\ m * (v + d + burned') = StartBacked + c
  BY <1>5 DEF NothingLost, StartCash, StartBacked
<1>9. KeptAfter(NowCash', NowBacked') <=> /\ (u + e) + treasury' + c = StartCash + (redeemed' + gained')
                  /\ m * (v + d) = (StartBacked - m * burned') + c
  BY <1>2 DEF KeptAfter, Kept, NowCash, NowBacked
<1> HIDE DEF u, v, c, e, d, m
<1>10. m * (v + d + burned') = m * (v + d) + m * burned'
  BY <1>1, <1>3, <1>6
<1>11. m * (v + d) \in Int /\ m * burned' \in Int
  BY <1>1, <1>3, <1>6
<1>12. u + treasury' + c + e = (u + e) + treasury' + c
  BY ONLY <1>1, <1>3, <1>6
<1>13. m * (v + d + burned') = StartBacked + c
         <=> m * (v + d) = (StartBacked - m * burned') + c
  <2> PICK x \in Int : x = m * (v + d)
    BY <1>11
  <2> PICK y \in Int : y = m * burned'
    BY <1>11
  <2>1. m * (v + d + burned') = x + y
    BY <1>10
  <2>2. x + y = StartBacked + c <=> x = (StartBacked - y) + c
    BY ONLY <1>3, <1>7, x \in Int, y \in Int
  <2> QED BY <2>1, <2>2
<1>14. StartCash + redeemed' + gained' = StartCash + (redeemed' + gained')
  BY ONLY <1>1, <1>7
<1> QED BY ONLY <1>8, <1>9, <1>12, <1>13, <1>14

(* Nothing is committed outside of the book. *)
LEMMA CommittedTotal ==
    BookMoney => SumFunction(committed) \in Int
<1> SUFFICES ASSUME BookMoney PROVE SumFunction(committed) \in Int
  OBVIOUS
<1>1. committed \in [Traders -> Int]
  BY DEF BookMoney, WalletsTyped
<1> QED BY <1>1, TotalInt, FiniteAssumption

(* An amount at one trader. *)
At(u, n) == [t \in Traders |-> IF t = u THEN n ELSE 0]

(* It adds up to that amount. *)
LEMMA TotalAt ==
    ASSUME NEW u \in Traders, NEW n \in Int
    PROVE  At(u, n) \in [Traders -> Int] /\ SumFunction(At(u, n)) = n
<1> DEFINE f == At(u, n)
           g == [t \in Traders |-> 0]
<1>1. /\ f \in [Traders -> Int] /\ g \in [Traders -> Int]
      /\ (\A t \in Traders \ {u} : f[t] = g[t]) /\ (f[u] - g[u] = n)
      /\ (\A t \in Traders : g[t] = 0)
  BY DEF At
<1> HIDE DEF f, g
<1>2. SumFunction(g) = 0
  BY <1>1, TotalZero, FiniteAssumption
<1>3. SumFunction(f) = SumFunction(g) + (f[u] - g[u])
  BY <1>1, TotalChange, FiniteAssumption
<1> QED BY <1>1, <1>2, <1>3 DEF f

(* Two such amounts are added to the total. *)
LEMMA TotalAddTwo ==
    ASSUME NEW f \in [Traders -> Int], NEW g \in [Traders -> Int],
           NEW p \in [Traders -> Int], NEW q \in [Traders -> Int],
           \A t \in Traders : g[t] = f[t] + p[t] + q[t]
    PROVE  SumFunction(g) = SumFunction(f) + SumFunction(p) + SumFunction(q)
<1> DEFINE h == [t \in Traders |-> f[t] + p[t]]
<1>1. /\ h \in [Traders -> Int]
      /\ \A t \in Traders : h[t] = f[t] + p[t] /\ g[t] = h[t] + q[t]
  OBVIOUS
<1> HIDE DEF h
<1>2. SumFunction(h) = SumFunction(f) + SumFunction(p)
  BY <1>1, TotalAdd, FiniteAssumption
<1>3. SumFunction(g) = SumFunction(h) + SumFunction(q)
  BY <1>1, TotalAdd, FiniteAssumption
<1> QED BY <1>2, <1>3

(* A trade conserves both. *)
LEMMA TradeKeeps ==
    ASSUME NEW cash \in [Traders -> Int], NEW cash2 \in [Traders -> Int],
           NEW held \in [Traders -> Int], NEW held2 \in [Traders -> Int],
           NEW fees \in Nat, NEW backing \in [Traders -> Nat],
           NEW seller \in Traders,
           NEW total \in Nat, NEW fee \in Nat, NEW quantity \in Nat, NEW given \in Nat,
           NEW locked \in Nat,
           locked = CollateralPerContract(Strike) * (quantity - given),
           NEW spent \in Int, NEW backed \in Int,
           Kept(cash, held, fees, backing, spent, backed),
           SumFunction(cash2) = SumFunction(cash) + (- total) + ((total - fee) - locked),
           SumFunction(held2) = SumFunction(held) + quantity + (- given)
    PROVE  Kept(cash2, held2, fees + fee, [backing EXCEPT ![seller] = @ + locked], spent, backed)
<1> DEFINE backing2 == [backing EXCEPT ![seller] = @ + locked]
           c == CollateralPerContract(Strike)
<1>2. SumFunction(cash2) = SumFunction(cash) + (- total) + ((total - fee) - locked)
  OBVIOUS
<1>3. SumFunction(held2) = SumFunction(held) + quantity + (- given)
  OBVIOUS
<1>4. SumFunction(backing2) = SumFunction(backing) + locked
  <2>1. backing2 \in [Traders -> Int] /\ backing \in [Traders -> Int]
        /\ (\A t \in Traders \ {seller} : backing2[t] = backing[t])
        /\ backing2[seller] - backing[seller] = locked
    OBVIOUS
  <2> HIDE DEF backing2
  <2> QED BY <2>1, TotalChange, FiniteAssumption
<1>5. SumFunction(cash) \in Int /\ SumFunction(held) \in Int /\ SumFunction(backing) \in Int
  BY TotalInt, FiniteAssumption
<1>6. c \in Int
  BY BookAssumption DEF CollateralPerContract
<1> DEFINE h == SumFunction(held)
           b == SumFunction(backing)
<1>7. c * (h + quantity + (- given)) = c * h + c * (quantity - given)
  <2> HIDE DEF c, h
  <2> QED BY <1>5, <1>6 DEF h
<1>8. c * h \in Int
  <2> HIDE DEF c, h
  <2> QED BY <1>5, <1>6 DEF h
<1>9. c * SumFunction(held2) = backed + SumFunction(backing2)
  <2>1. c * h = backed + b
    BY DEF Kept
  <2>2. c * SumFunction(held2) = c * h + locked
    BY <1>3, <1>7
  <2> DEFINE ch == c * h
  <2>3. ch \in Int /\ b \in Int
    BY <1>5, <1>8
  <2> HIDE DEF ch, c, h, b, backing2
  <2>4. ch + locked = backed + (b + locked)
    BY <2>1, <2>3 DEF ch
  <2> QED BY <1>4, <2>2, <2>4 DEF ch, b
<1>10. SumFunction(cash2) + (fees + fee) + SumFunction(backing2) = spent
  <2> DEFINE k == SumFunction(cash)
  <2>1. k + fees + b = spent
    BY DEF Kept
  <2>2. k \in Int /\ b \in Int
    BY <1>5
  <2>3. SumFunction(cash2) = k + (- total) + ((total - fee) - locked)
        /\ SumFunction(backing2) = b + locked
    BY <1>2, <1>4
  <2> HIDE DEF k, b, backing2
  <2> QED BY <2>1, <2>2, <2>3
<1> QED BY <1>9, <1>10 DEF Kept

(* The inductive invariant of the book's money. *)
MoneyInvariant == BookMoney /\ HistoryTyped /\ NothingLost

(* What traders are worth is an integer each ... *)
LEMMA WorthTyped == BookMoney => /\ Cash \in [Traders -> Int] /\ Held \in [Traders -> Int]
<1> SUFFICES ASSUME BookMoney PROVE Cash \in [Traders -> Int] /\ Held \in [Traders -> Int]
  OBVIOUS
<1>1. usdc \in [Traders -> Int] /\ tokens \in [Traders -> Int] /\ escrow \in [OrderIds -> Nat]
  BY DEF BookMoney, WalletsTyped, BookInvariant, BookTyped
<1> QED BY <1>1, WorthTotal DEF Cash, Held

(* ... after a step too. *)
LEMMA WorthTypedNext ==
    BookMoney' => /\ Worth(usdc', order', escrow', UsdcKind) \in [Traders -> Int]
                  /\ Worth(tokens', order', escrow', ResaleKind) \in [Traders -> Int]
<1> SUFFICES ASSUME BookMoney'
             PROVE  /\ Worth(usdc', order', escrow', UsdcKind) \in [Traders -> Int]
                    /\ Worth(tokens', order', escrow', ResaleKind) \in [Traders -> Int]
  OBVIOUS
<1>1. usdc' \in [Traders -> Int] /\ tokens' \in [Traders -> Int] /\ escrow' \in [OrderIds -> Nat]
  BY DEF BookMoney, WalletsTyped, BookInvariant, BookTyped
<1> QED BY <1>1, WorthTotal

(* Of what a writer ask gives, the collateral is locked. *)
LEMMA LockedIs ==
    ASSUME NEW o, NEW quantity \in Nat
    PROVE  /\ Given(o, quantity) \in Nat
           /\ Locked(o, quantity)
                = CollateralPerContract(Strike) * (quantity - Given(o, quantity))
<1>1. CollateralPerContract(Strike) \in Nat
  BY BookAssumption DEF CollateralPerContract
<1>2. CASE order[o].kind = "WriterAsk"
  <2>1. Given(o, quantity) = 0 /\ quantity - 0 = quantity
    BY <1>2 DEF Given
  <2>2. Locked(o, quantity) = quantity * CollateralPerContract(Strike)
    BY <1>2 DEF Locked
  <2> QED BY <1>1, <2>1, <2>2
<1>3. CASE order[o].kind # "WriterAsk"
  <2>1. Given(o, quantity) = quantity /\ quantity - quantity = 0 /\ Locked(o, quantity) = 0
    BY <1>3 DEF Given, Locked
  <2> QED BY <1>1, <2>1
<1> QED BY <1>2, <1>3

(* Nothing is gained or lost by a trade. *)
LEMMA TakerConserves ==
    ASSUME BookMoney, NEW u \in Int, NEW k \in Int, KeptBefore(u, k),
           NEW taker \in Traders, NEW o \in OrderIds, NEW quantity \in Quantities,
           TakerFills(taker, o, quantity)
    PROVE  BookMoney' /\ KeptAfter(u, k)
<1> DEFINE cash2 == Worth(usdc', order', escrow', UsdcKind)
           held2 == Worth(tokens', order', escrow', ResaleKind)
           total == TotalOf(o, quantity)
           fee == FeeOf(o, quantity)
           share == ShareOf(o, quantity)
           locked == Locked(o, quantity)
           given == Given(o, quantity)
           a == Buyer(taker, o)
           b == Seller(taker, o)
<1>1. BookMoney
  OBVIOUS
<1>2. /\ BookMoney'
      /\ order[o] \in RestingOrder
      /\ quantity \in Nat \ {0}
      /\ treasury' = treasury + fee
      /\ committed' = [committed EXCEPT ![b] = @ + locked]
      /\ locked \in Nat
      /\ \A t \in Traders :
           /\ cash2[t] = Cash[t] + (IF t = a THEN - total ELSE 0)
                           + (IF t = b THEN share - locked ELSE 0)
           /\ held2[t] = Held[t] + (IF t = a THEN quantity ELSE 0)
                           + (IF t = b THEN - given ELSE 0)
  BY <1>1, TradeMoves
<1>3. total \in Nat /\ fee \in Nat /\ share = total - fee
  BY <1>2, SplitNat
<1>4. given \in Nat /\ locked = CollateralPerContract(Strike) * (quantity - given)
  BY <1>2, LockedIs
<1>5. a \in Traders /\ b \in Traders
  BY OwnerTrades DEF Buyer, Seller
<1>6. Cash \in [Traders -> Int] /\ Held \in [Traders -> Int]
  BY <1>1, WorthTyped
<1>7. cash2 \in [Traders -> Int] /\ held2 \in [Traders -> Int]
  BY <1>2, WorthTypedNext
<1>8. Kept(Cash, Held, treasury, committed, u, k)
  BY DEF KeptBefore
<1>9. treasury \in Nat /\ committed \in [Traders -> Nat]
  BY <1>1 DEF BookMoney, WalletsTyped
<1> HIDE DEF cash2, held2, total, fee, share, locked, given, a, b
<1>10. SumFunction(cash2) = SumFunction(Cash) + (- total) + ((total - fee) - locked)
  <2>1. PICK m \in Int : m = - total
    BY <1>3
  <2>2. PICK n \in Int : n = (total - fee) - locked
    BY <1>2, <1>3
  <2>3. \A t \in Traders : cash2[t] = Cash[t] + At(a, m)[t] + At(b, n)[t]
    BY <1>2, <1>3, <2>1, <2>2 DEF At
  <2> DEFINE p == At(a, m)
             q == At(b, n)
  <2>4. /\ p \in [Traders -> Int] /\ SumFunction(p) = m
        /\ q \in [Traders -> Int] /\ SumFunction(q) = n
    BY <1>5, TotalAt
  <2>5. \A t \in Traders : cash2[t] = Cash[t] + p[t] + q[t]
    BY <2>3
  <2> HIDE DEF p, q
  <2>6. SumFunction(cash2) = SumFunction(Cash) + SumFunction(p) + SumFunction(q)
    BY <1>6, <1>7, <2>4, <2>5, TotalAddTwo
  <2> QED BY <2>1, <2>2, <2>4, <2>6
<1>11. SumFunction(held2) = SumFunction(Held) + quantity + (- given)
  <2>1. PICK n \in Int : n = - given
    BY <1>4
  <2>2. quantity \in Int
    BY <1>2
  <2>3. \A t \in Traders : held2[t] = Held[t] + At(a, quantity)[t] + At(b, n)[t]
    BY <1>2, <2>1 DEF At
  <2> DEFINE p == At(a, quantity)
             q == At(b, n)
  <2>4. /\ p \in [Traders -> Int] /\ SumFunction(p) = quantity
        /\ q \in [Traders -> Int] /\ SumFunction(q) = n
    BY <1>5, <2>2, TotalAt
  <2>5. \A t \in Traders : held2[t] = Held[t] + p[t] + q[t]
    BY <2>3
  <2> HIDE DEF p, q
  <2>6. SumFunction(held2) = SumFunction(Held) + SumFunction(p) + SumFunction(q)
    BY <1>6, <1>7, <2>4, <2>5, TotalAddTwo
  <2> QED BY <2>1, <2>4, <2>6
<1>12. Kept(cash2, held2, treasury + fee, [committed EXCEPT ![b] = @ + locked], u, k)
  <2>1. quantity \in Nat
    BY <1>2
  <2>2. locked \in Nat
    BY <1>2
  <2>3. Kept(cash2, held2, treasury + fee, [committed EXCEPT ![b] = committed[b] + locked], u, k)
    BY <1>3, <1>4, <1>5, <1>6, <1>7, <1>8, <1>9, <1>10, <1>11, <2>1, <2>2, TradeKeeps, Zenon
  <2> QED BY <2>3
<1>13. Kept(cash2, held2, treasury', committed', u, k)
  BY <1>2, <1>12
<1> QED BY <1>2, <1>13 DEF KeptAfter, cash2, held2

(* Nothing is gained or lost by a step of the makers either. *)
LEMMA MakerConserves ==
    ASSUME NEW u, NEW k, KeptBefore(u, k), UNCHANGED <<treasury, committed>>,
           Worth(usdc', order', escrow', UsdcKind) = Cash,
           Worth(tokens', order', escrow', ResaleKind) = Held
    PROVE  KeptAfter(u, k)
  BY DEF KeptBefore, KeptAfter

(* ... and so by no step of theirs, whatever the totals are. *)
LEMMA BookConserves ==
    ASSUME BookMoney, NEW u \in Int, NEW k \in Int, KeptBefore(u, k), [TradeStep]_bookVars
    PROVE  BookMoney' /\ KeptAfter(u, k)
<1>1. CASE MakerStep
  <2>1. PICK o \in OrderIds :
           \/ \E kind \in OrderKind, price \in Prices, quantity \in Quantities :
                  PostOrder(o, kind, price, quantity)
           \/ \E price \in Prices, quantity \in Quantities :
                  ListForResale(o, price, quantity)
           \/ CancelOrder(o)
           \/ CancelResale(o)
    BY <1>1 DEF MakerStep
  <2>2. CASE CancelOrder(o) \/ CancelResale(o)
    <3>1. order[o] # NoOrder /\ Close({o}) /\ {o} \in SUBSET OrderIds
      BY <2>2 DEF CancelOrder, CancelResale
    <3>2. UNCHANGED <<treasury, committed>>
      BY <3>1 DEF Close
    <3>3. /\ BookMoney'
          /\ Worth(usdc', order', escrow', UsdcKind) = Cash
          /\ Worth(tokens', order', escrow', ResaleKind) = Held
      BY <3>1, CloseMoves
    <3> QED BY <3>2, <3>3, MakerConserves
  <2>3. ASSUME NEW kind \in OrderKind \union {"Listing"}, NEW price \in Prices,
               NEW quantity \in Quantities, Place(o, kind, price, quantity)
        PROVE  BookMoney' /\ KeptAfter(u, k)
    <3>1. UNCHANGED <<treasury, committed>>
      BY <2>3 DEF Place
    <3>2. /\ BookMoney'
          /\ Worth(usdc', order', escrow', UsdcKind) = Cash
          /\ Worth(tokens', order', escrow', ResaleKind) = Held
      BY <2>3, PlaceMoves
    <3> QED BY <3>1, <3>2, MakerConserves
  <2> QED BY <2>1, <2>2, <2>3 DEF PostOrder, ListForResale
<1>2. CASE TakerStep
  BY <1>2, TakerConserves DEF TakerStep, TakerFills
<1>3. CASE Sweep
  <2>1. PICK batch \in SUBSET OrderIds : SweepExpiredOrders(batch) \/ AutoCancelListings(batch)
    BY <1>3 DEF Sweep
  <2>2. Close(batch) /\ \A o \in batch : order[o] # NoOrder
    BY <2>1 DEF SweepExpiredOrders, AutoCancelListings
  <2>3. UNCHANGED <<treasury, committed>>
    BY <2>2 DEF Close
  <2>4. /\ BookMoney'
        /\ Worth(usdc', order', escrow', UsdcKind) = Cash
        /\ Worth(tokens', order', escrow', ResaleKind) = Held
    BY <2>2, CloseMoves
  <2> QED BY <2>3, <2>4, MakerConserves
<1>4. CASE Expire \/ UNCHANGED bookVars
  <2>1. UNCHANGED <<order, escrow, usdc, tokens, treasury, committed>>
    BY <1>4 DEF Expire, bookVars, book, wallets
  <2>2. expired' \in BOOLEAN
    BY <1>4 DEF Expire, bookVars, BookMoney, WalletsTyped
  <2>3. BookMoney'
    <3>1. BookInvariant'
      BY <1>4, StepKeeps DEF BookMoney, Next, TradeStep
    <3> QED BY <2>1, <2>2, <3>1 DEF BookMoney, WalletsTyped, AsksCovered
  <2>4. /\ Worth(usdc', order', escrow', UsdcKind) = Cash
        /\ Worth(tokens', order', escrow', ResaleKind) = Held
    BY <2>1 DEF Cash, Held
  <2> QED BY <2>1, <2>3, <2>4, MakerConserves
<1> QED BY <1>1, <1>2, <1>3, <1>4 DEF TradeStep

(* None of them touches the history. *)
LEMMA HistoryStays == [TradeStep]_bookVars => UNCHANGED history
<1> SUFFICES ASSUME [TradeStep]_bookVars PROVE UNCHANGED history
  OBVIOUS
<1>1. ASSUME NEW orders, Close(orders) PROVE UNCHANGED history
  BY <1>1 DEF Close
<1>2. ASSUME NEW o, NEW kind, NEW price, NEW quantity, Place(o, kind, price, quantity)
      PROVE  UNCHANGED history
  BY <1>2 DEF Place
<1>3. CASE MakerStep
  BY <1>1, <1>2, <1>3
  DEF MakerStep, PostOrder, ListForResale, CancelOrder, CancelResale
<1>4. CASE TakerStep
  BY <1>4 DEF TakerStep, FillOrder, FillWriterAsk, BuyResale
<1>5. CASE Sweep
  BY <1>1, <1>5 DEF Sweep, SweepExpiredOrders, AutoCancelListings
<1>6. CASE Expire \/ UNCHANGED bookVars
  BY <1>6 DEF Expire, bookVars
<1> QED BY <1>3, <1>4, <1>5, <1>6 DEF TradeStep

(* One trader is richer or poorer by n. *)
LEMMA TotalAddOne ==
    ASSUME NEW f \in [Traders -> Int], NEW g \in [Traders -> Int],
           NEW u \in Traders, NEW n \in Int,
           \A t \in Traders : g[t] = f[t] + (IF t = u THEN n ELSE 0)
    PROVE  SumFunction(g) = SumFunction(f) + n
<1>1. \A t \in Traders : f[t] \in Int /\ g[t] \in Int
  OBVIOUS
<1>2. \A t \in Traders \ {u} : g[t] = f[t]
  BY <1>1
<1>3. g[u] - f[u] = n
  BY <1>1
<1>4. SumFunction(g) = SumFunction(f) + (g[u] - f[u])
  BY <1>2, TotalChange, FiniteAssumption
<1> QED BY <1>3, <1>4

(* Two functions that agree have the same total. *)
LEMMA TotalSame ==
    ASSUME NEW f \in [Traders -> Int], NEW g \in [Traders -> Int],
           \A t \in Traders : g[t] = f[t]
    PROVE  SumFunction(g) = SumFunction(f)
<1>1. f = g
  OBVIOUS
<1> QED BY <1>1

(* Tokens are burned, and paid for. *)
LEMMA BurnTotals ==
    ASSUME BookMoney,
           NEW o \in OrderIds, NEW payout \in Payouts, BurnEscrow(o, payout),
           treasury' \in Nat, escrow' = [escrow EXCEPT ![o] = 0]
    PROVE  /\ BookMoney' /\ UNCHANGED committed
           /\ SumFunction(Worth(usdc', order', escrow', UsdcKind)) = SumFunction(Cash)
           /\ SumFunction(Worth(tokens', order', escrow', ResaleKind))
                = SumFunction(Held) + (- escrow[o])
<1> DEFINE cash2 == Worth(usdc', order', escrow', UsdcKind)
           held2 == Worth(tokens', order', escrow', ResaleKind)
<1>1. /\ BookMoney' /\ committed' = committed
      /\ \A t \in Traders :
           /\ cash2[t] = Cash[t]
           /\ held2[t] = Held[t] + (IF t = Owner(o) THEN - escrow[o] ELSE 0)
  BY BurnMoves DEF BurnEscrow
<1>2. Cash \in [Traders -> Int] /\ Held \in [Traders -> Int]
  BY WorthTyped
<1>3. cash2 \in [Traders -> Int] /\ held2 \in [Traders -> Int]
  BY <1>1, WorthTypedNext
<1>4. PICK n \in Int : n = - escrow[o]
  BY DEF BookMoney, BookInvariant, BookTyped
<1> HIDE DEF cash2, held2
<1>5. SumFunction(cash2) = SumFunction(Cash)
  BY <1>1, <1>2, <1>3, TotalSame
<1>6. SumFunction(held2) = SumFunction(Held) + n
  <2>1. \A t \in Traders : held2[t] = Held[t] + (IF t = Owner(o) THEN n ELSE 0)
    BY <1>1, <1>4
  <2>2. Owner(o) \in Traders
    BY OwnerTrades
  <2> QED BY <1>2, <1>3, <2>1, <2>2, TotalAddOne
<1> QED BY <1>1, <1>4, <1>5, <1>6 DEF cash2, held2

(* ... by the vault, which adds its payment to the book's USDC. *)
LEMMA FinalizeTotals ==
    ASSUME BookMoney, NEW o \in OrderIds, NEW payout \in Payouts, FinalizeEscrow(o, payout)
    PROVE  /\ BookMoney' /\ UNCHANGED committed
           /\ SumFunction(Worth(usdc', order', escrow', UsdcKind)) + treasury'
                = SumFunction(Cash) + treasury + payout
           /\ SumFunction(Worth(tokens', order', escrow', ResaleKind))
                = SumFunction(Held) + (- escrow[o])
<1>1. payout \in Nat /\ treasury \in Nat /\ BurnEscrow(o, payout)
  BY BookAssumption DEF FinalizeEscrow, BookMoney, WalletsTyped
<1>2. SumFunction(Cash) \in Int
  BY WorthTyped, TotalInt, FiniteAssumption
<1>3. CASE treasury' = treasury + payout /\ escrow' = [escrow EXCEPT ![o] = 0]
  <2>1. treasury' \in Nat
    BY <1>1, <1>3
  <2>2. /\ BookMoney' /\ UNCHANGED committed
        /\ SumFunction(Worth(usdc', order', escrow', UsdcKind)) = SumFunction(Cash)
        /\ SumFunction(Worth(tokens', order', escrow', ResaleKind))
             = SumFunction(Held) + (- escrow[o])
    BY <1>1, <1>3, <2>1, BurnTotals
  <2> QED BY <1>1, <1>2, <1>3, <2>2
<1>4. ASSUME NEW p \in KindOf({"Bid", "WriterAsk"}), treasury' = treasury,
             escrow' = [escrow EXCEPT ![o] = 0, ![p] = @ + payout]
      PROVE  /\ BookMoney' /\ UNCHANGED committed
             /\ SumFunction(Worth(usdc', order', escrow', UsdcKind)) + treasury'
                  = SumFunction(Cash) + treasury + payout
             /\ SumFunction(Worth(tokens', order', escrow', ResaleKind))
                  = SumFunction(Held) + (- escrow[o])
  <2> DEFINE cash2 == Worth(usdc', order', escrow', UsdcKind)
             held2 == Worth(tokens', order', escrow', ResaleKind)
  <2>1. /\ BookMoney' /\ committed' = committed /\ Owner(p) \in Traders
        /\ \A t \in Traders :
             /\ cash2[t] = Cash[t] + (IF t = Owner(p) THEN payout ELSE 0)
             /\ held2[t] = Held[t] + (IF t = Owner(o) THEN - escrow[o] ELSE 0)
    BY <1>1, <1>4, BurnPaysOne DEF BurnEscrow
  <2>2. Cash \in [Traders -> Int] /\ Held \in [Traders -> Int]
    BY WorthTyped
  <2>3. cash2 \in [Traders -> Int] /\ held2 \in [Traders -> Int]
    BY <2>1, WorthTypedNext
  <2>4. PICK n \in Int : n = - escrow[o]
    BY DEF BookMoney, BookInvariant, BookTyped
  <2> HIDE DEF cash2, held2
  <2>5. SumFunction(cash2) = SumFunction(Cash) + payout
    <3>1. PICK k \in Int : k = payout
      BY <1>1
    <3>2. \A t \in Traders : cash2[t] = Cash[t] + (IF t = Owner(p) THEN k ELSE 0)
      BY <2>1, <3>1
    <3>3. Owner(p) \in Traders
      BY <2>1
    <3> QED BY <2>2, <2>3, <3>1, <3>2, <3>3, TotalAddOne
  <2>6. SumFunction(held2) = SumFunction(Held) + n
    <3>1. \A t \in Traders : held2[t] = Held[t] + (IF t = Owner(o) THEN n ELSE 0)
      BY <2>1, <2>4
    <3>2. Owner(o) \in Traders
      BY OwnerTrades
    <3> QED BY <2>2, <2>3, <3>1, <3>2, TotalAddOne
  <2>7. SumFunction(cash2) + treasury' = SumFunction(Cash) + treasury + payout
    BY <1>1, <1>2, <1>4, <2>5
  <2> QED BY <2>1, <2>4, <2>6, <2>7 DEF cash2, held2
<1> QED BY <1>3, <1>4 DEF FinalizeEscrow

(* Another vault adds its payment to the book's USDC too.                   *)
LEMMA ReceiveTotals ==
    ASSUME BookMoney, NEW o \in OrderIds, NEW payout \in Payouts, ReceivePayout(o, payout)
    PROVE  /\ BookMoney' /\ UNCHANGED committed
           /\ SumFunction(Worth(usdc', order', escrow', UsdcKind)) + treasury'
                = SumFunction(Cash) + treasury + payout
           /\ SumFunction(Worth(tokens', order', escrow', ResaleKind)) = SumFunction(Held)
<1> DEFINE cash2 == Worth(usdc', order', escrow', UsdcKind)
           held2 == Worth(tokens', order', escrow', ResaleKind)
<1>1. payout \in Nat /\ treasury \in Nat /\ UNCHANGED <<treasury, committed>>
  BY BookAssumption DEF ReceivePayout, wallets, BookMoney, WalletsTyped
<1>2. /\ BookMoney' /\ Owner(o) \in Traders
      /\ \A t \in Traders : /\ cash2[t] = Cash[t] + (IF t = Owner(o) THEN payout ELSE 0)
                            /\ held2[t] = Held[t]
  BY ReceiveMoves
<1>3. Cash \in [Traders -> Int] /\ Held \in [Traders -> Int]
  BY WorthTyped
<1>4. cash2 \in [Traders -> Int] /\ held2 \in [Traders -> Int]
  BY <1>2, WorthTypedNext
<1> HIDE DEF cash2, held2
<1>5. SumFunction(Cash) \in Int
  BY <1>3, TotalInt, FiniteAssumption
<1>6. SumFunction(cash2) = SumFunction(Cash) + payout
  <2>1. PICK k \in Int : k = payout
    BY <1>1
  <2>2. \A t \in Traders : cash2[t] = Cash[t] + (IF t = Owner(o) THEN k ELSE 0)
    BY <1>2, <2>1
  <2>3. Owner(o) \in Traders
    BY <1>2
  <2> QED BY <1>3, <1>4, <2>1, <2>2, <2>3, TotalAddOne
<1>7. SumFunction(held2) = SumFunction(Held)
  BY <1>2, <1>3, <1>4, TotalSame
<1>8. SumFunction(cash2) + treasury' = SumFunction(Cash) + treasury + payout
  BY <1>1, <1>5, <1>6
<1> QED BY <1>1, <1>2, <1>7, <1>8 DEF cash2, held2

(* Every step keeps the books of the book. *)
LEMMA MoneyStep == MoneyInvariant /\ [Next]_bookVars => MoneyInvariant'
<1> SUFFICES ASSUME MoneyInvariant, [Next]_bookVars
             PROVE  MoneyInvariant'
  OBVIOUS
<1>1. BookMoney /\ HistoryTyped /\ KeptBefore(NowCash, NowBacked)
  BY KeptNow DEF MoneyInvariant
<1> DEFINE c == CollateralPerContract(Strike)
<1>2. c \in Int /\ StartCash \in Int /\ StartBacked \in Int
  BY StartTyped, BookAssumption DEF CollateralPerContract
<1>3. c * burned \in Int /\ NowCash \in Int /\ NowBacked \in Int
  <2> HIDE DEF c
  <2>1. c * burned \in Int
    BY <1>1, <1>2 DEF HistoryTyped
  <2> QED BY <1>1, <1>2, <2>1 DEF HistoryTyped, NowCash, NowBacked, c
<1>4. CASE [TradeStep]_bookVars
  <2>1. BookMoney' /\ KeptAfter(NowCash, NowBacked)
    BY <1>1, <1>3, <1>4, BookConserves
  <2>2. burned' = burned /\ redeemed' = redeemed /\ gained' = gained
    BY <1>4, HistoryStays DEF history
  <2>3. NowCash' = NowCash /\ NowBacked' = NowBacked /\ HistoryTyped'
    BY <1>1, <2>2 DEF NowCash, NowBacked, StartCash, StartBacked, HistoryTyped
  <2> QED BY <2>1, <2>3, KeptNext DEF MoneyInvariant
<1>5. ASSUME NEW o \in OrderIds, NEW payout \in Payouts, FinalizeEscrow(o, payout)
      PROVE  MoneyInvariant'
  <2>1. /\ BookMoney' /\ committed' = committed
        /\ SumFunction(Worth(usdc', order', escrow', UsdcKind)) + treasury'
             = SumFunction(Cash) + treasury + payout
        /\ SumFunction(Worth(tokens', order', escrow', ResaleKind))
             = SumFunction(Held) + (- escrow[o])
    BY <1>1, <1>5, FinalizeTotals
  <2>2. /\ burned' = burned + escrow[o] /\ redeemed' = redeemed + payout /\ gained' = gained
        /\ escrow[o] \in Nat /\ payout \in Nat
    BY <1>1, <1>5, BookAssumption
    DEF FinalizeEscrow, BurnEscrow, BookMoney, BookInvariant, BookTyped
  <2>3. HistoryTyped'
    BY <1>1, <2>2 DEF HistoryTyped
  <2> PICK n \in Nat : n = escrow[o]
    BY <2>2
  <2> DEFINE u  == SumFunction(Cash)
             u2 == SumFunction(Worth(usdc', order', escrow', UsdcKind))
             v  == SumFunction(Held)
             v2 == SumFunction(Worth(tokens', order', escrow', ResaleKind))
             b  == SumFunction(committed)
  <2>4. u \in Int /\ v \in Int /\ u2 \in Int /\ b \in Int
    BY <1>1, <2>1, WorthTyped, WorthTypedNext, TotalInt, CommittedTotal, FiniteAssumption
  <2>5. /\ u + treasury + b = NowCash /\ c * v = NowBacked + b
        /\ treasury \in Nat /\ treasury' \in Nat
    BY <1>1, <2>1 DEF KeptBefore, Kept, BookMoney, WalletsTyped
  <2>6. NowCash' = NowCash + payout
    BY <1>1, <1>2, <2>2 DEF NowCash, StartCash, HistoryTyped
  <2> HIDE DEF c
  <2>7. c * (burned + n) = c * burned + c * n /\ c * n \in Int
    BY <1>1, <1>2 DEF HistoryTyped
  <2>8. NowBacked' = StartBacked - c * (burned + n)
    BY <2>2 DEF NowBacked, StartBacked, c
  <2>9. NowBacked' = NowBacked - c * n
    BY <1>2, <1>3, <2>7, <2>8 DEF NowBacked, c
  <2> HIDE DEF u, u2, v, v2, b
  <2>10. u2 + treasury' + b = NowCash'
    <3>1. u2 + treasury' = u + treasury + payout
      BY <2>1 DEF u, u2
    <3>2. u + treasury + b = NowCash /\ treasury \in Nat /\ treasury' \in Nat
      BY <2>5
    <3>3. NowCash \in Int /\ payout \in Nat
      BY <1>3, <2>2
    <3>4. PICK t \in Int, t2 \in Int, k \in Int : t = treasury /\ t2 = treasury' /\ k = payout
      BY <3>2, <3>3
    <3>5. u \in Int /\ u2 \in Int /\ b \in Int
      BY <2>4
    <3>6. u2 + t2 = u + t + k /\ NowCash = u + t + b
      BY <3>1, <3>2, <3>4
    <3>7. u2 + t2 + b = (u + t + b) + k
      <4>1. \A x \in Int, x2 \in Int, y \in Int :
              x2 + t2 = x + t + k => x2 + t2 + y = (x + t + y) + k
        OBVIOUS
      <4> QED BY ONLY <3>5, <3>6, <4>1
    <3> QED BY <2>6, <3>4, <3>6, <3>7
  <2>11. c * v2 = NowBacked' + b
    <3>1. v2 = v + (- n)
      BY <2>1 DEF v, v2
    <3>2. c * (v + (- n)) = c * v - c * n
      BY <1>2, <2>4
    <3>3. c * v = NowBacked + b /\ c * n \in Int /\ NowBacked' = NowBacked - c * n
      BY <2>5, <2>7, <2>9
    <3>4. PICK x \in Int : x = c * n
      BY <3>3
    <3>5. NowBacked \in Int /\ b \in Int
      BY <1>3, <2>4
    <3>6. c * v2 = (NowBacked + b) - x
      BY ONLY <3>1, <3>2, <3>3, <3>4
    <3>7. NowBacked' = NowBacked - x
      BY ONLY <3>3, <3>4
    <3> QED BY ONLY <3>4, <3>5, <3>6, <3>7
  <2>12. KeptAfter(NowCash', NowBacked')
    BY <2>1, <2>10, <2>11 DEF KeptAfter, Kept, u2, v2, b, c
  <2> QED BY <2>1, <2>3, <2>12, KeptNext DEF MoneyInvariant
<1>6. ASSUME NEW o \in OrderIds, NEW payout \in Payouts, ReceivePayout(o, payout)
      PROVE  MoneyInvariant'
  <2> DEFINE u  == SumFunction(Cash)
             u2 == SumFunction(Worth(usdc', order', escrow', UsdcKind))
             v  == SumFunction(Held)
             v2 == SumFunction(Worth(tokens', order', escrow', ResaleKind))
             b  == SumFunction(committed)
  <2>1. /\ BookMoney' /\ committed' = committed
        /\ u2 + treasury' = u + treasury + payout
        /\ v2 = v
    BY <1>1, <1>6, ReceiveTotals
  <2>2. /\ burned' = burned /\ redeemed' = redeemed /\ gained' = gained + payout
        /\ payout \in Nat
    BY <1>6, BookAssumption DEF ReceivePayout
  <2>3. HistoryTyped'
    BY <1>1, <2>2 DEF HistoryTyped
  <2>4. u \in Int /\ u2 \in Int /\ b \in Int
    BY <1>1, <2>1, WorthTyped, WorthTypedNext, TotalInt, CommittedTotal, FiniteAssumption
  <2>5. /\ u + treasury + b = NowCash /\ c * v = NowBacked + b
        /\ treasury \in Nat /\ treasury' \in Nat
    BY <1>1, <2>1 DEF KeptBefore, Kept, BookMoney, WalletsTyped
  <2>6. NowCash' = NowCash + payout
    BY <1>1, <1>2, <2>2 DEF NowCash, StartCash, HistoryTyped
  <2>7. NowBacked' = NowBacked
    BY <2>2 DEF NowBacked, StartBacked
  <2> HIDE DEF u, u2, v, v2, b, c
  <2>8. u2 + treasury' + b = NowCash'
    <3>1. PICK t \in Int, t2 \in Int, k \in Int : t = treasury /\ t2 = treasury' /\ k = payout
      BY <2>2, <2>5
    <3>2. u2 + t2 = u + t + k /\ NowCash = u + t + b
      BY <2>1, <2>5, <3>1
    <3>3. \A x \in Int, x2 \in Int, y \in Int :
            x2 + t2 = x + t + k => x2 + t2 + y = (x + t + y) + k
      OBVIOUS
    <3>4. u2 + t2 + b = (u + t + b) + k
      BY ONLY <2>4, <3>2, <3>3
    <3> QED BY <2>6, <3>1, <3>2, <3>4
  <2>9. KeptAfter(NowCash', NowBacked')
    BY <2>1, <2>5, <2>7, <2>8 DEF KeptAfter, Kept, u2, v, v2, b, c
  <2> QED BY <2>1, <2>3, <2>9, KeptNext DEF MoneyInvariant
<1> QED BY <1>4, <1>5, <1>6 DEF Next, FinalizeStep

(* It all starts in the wallets. *)
LEMMA MoneyInit == Init => MoneyInvariant
<1> SUFFICES ASSUME Init PROVE MoneyInvariant
  OBVIOUS
<1>1. BookMoney
  <2>1. BookInvariant
    BY DEF Init, BookInvariant, BookTyped, EscrowExact
  <2>2. AsksCovered
    BY DEF Init, AsksCovered
  <2>3. WalletsTyped
    <3>1. StartUsdc \in [Traders -> Nat] /\ StartTokens \in [Traders -> Nat]
      BY BookAssumption
    <3> QED BY <3>1 DEF Init, WalletsTyped
  <2> QED BY <2>1, <2>2, <2>3 DEF BookMoney
<1>2. Cash \in [Traders -> Int] /\ Held \in [Traders -> Int]
  BY <1>1, WorthTyped
<1>3. ASSUME NEW kinds PROVE KindOf(kinds) = {}
  BY DEF Init, KindOf
<1>4. SumFunction(committed) = 0
  <2>1. committed \in [Traders -> Int] /\ \A t \in Traders : committed[t] = 0
    BY DEF Init
  <2> QED BY <2>1, TotalZero, FiniteAssumption
<1>5. SumFunctionOnSet(escrow, {}) = 0
  BY SumEmpty
<1>6. SumFunction(StartUsdc) \in Int /\ SumFunction(StartTokens) \in Int
  <2>1. StartUsdc \in [Traders -> Int] /\ StartTokens \in [Traders -> Int]
    BY BookAssumption
  <2> QED BY <2>1, TotalInt, FiniteAssumption
<1>7. CollateralPerContract(Strike) \in Int
  BY BookAssumption DEF CollateralPerContract
<1> DEFINE u == SumFunction(StartUsdc)
           k == SumFunction(StartTokens)
           c == CollateralPerContract(Strike)
<1>8. u + 0 + 0 + 0 = u + 0 + 0 /\ c * (k + 0 + 0) = c * k + 0
  <2> HIDE DEF u, k, c
  <2>1. u \in Int /\ k \in Int /\ c \in Int
    BY <1>6, <1>7 DEF u, k, c
  <2>2. k + 0 + 0 = k /\ c * k \in Int
    BY <2>1
  <2> QED BY <2>1, <2>2
<1>9. /\ treasury = 0 /\ usdc = StartUsdc /\ tokens = StartTokens
      /\ burned = 0 /\ redeemed = 0 /\ gained = 0
  BY DEF Init
<1>10. NothingLost
  BY <1>3, <1>4, <1>5, <1>8, <1>9 DEF NothingLost
<1> QED BY <1>1, <1>9, <1>10 DEF MoneyInvariant, HistoryTyped

(* The inductive invariant: escrows are exact, writer asks hold their       *)
(* own collateral, and nothing has been gained or lost.                     *)
THEOREM MoneyKept == Spec => []MoneyInvariant
  BY MoneyInit, MoneyStep, PTL DEF Spec

(* Resting, filling, cancelling, sweeping and finalizing neither create nor *)
(* lose a unit of USDC but for the vault's payments, and every token, the   *)
(* finalized ones included, is one of the first ones or has its full        *)
(* collateral committed.                                                    *)
THEOREM NothingIsLost == Spec => []NothingLost
<1>1. MoneyInvariant => NothingLost
  BY DEF MoneyInvariant
<1> QED BY <1>1, MoneyKept, PTL

(* No balance goes below zero and no account is of another shape. *)
THEOREM BookTypes == Spec => []TypeOK
<1>1. MoneyInvariant => TypeOK
  BY DEF MoneyInvariant, BookMoney, BookInvariant, BookTyped, WalletsTyped, HistoryTyped,
         TypeOK
<1> QED BY <1>1, MoneyKept, PTL

---------------------------------------------------------------------------
(* The refinement of LimitBook. *)

(* What LimitBook sees of the orders. *)
Seen(r) ==
    IF r = NoOrder THEN NoOrder
    ELSE [kind     |-> IF r.kind \in ResaleKind THEN "ResaleAsk" ELSE r.kind,
          price    |-> r.price,
          quantity |-> r.quantity]

(* LimitBook sums as this module does. *)
LEMMA PromiseSum ==
    ASSUME NEW f, NEW s
    PROVE  Promise!SumFunctionOnSet(f, s) = SumFunctionOnSet(f, s)
  BY DEF Promise!SumFunctionOnSet, SumFunctionOnSet, Promise!FoldFunctionOnSet,
         FoldFunctionOnSet, Promise!MapThenFoldSet, MapThenFoldSet

(* Traders can honour all their orders: what those need waits in escrow,   *)
(* the tokens until the book closes.                                       *)
LEMMA HonourableNow == BookMoney => Promise!Honourable
<1> SUFFICES ASSUME BookMoney PROVE Promise!Honourable
  OBVIOUS
<1> DEFINE shown == [o \in OrderIds |->
                  IF order[o] = NoOrder THEN NoOrder
                  ELSE [kind     |-> IF order[o].kind \in ResaleKind THEN "ResaleAsk"
                                     ELSE order[o].kind,
                        price    |-> order[o].price,
                        quantity |-> order[o].quantity]]
           usdcFor == [o \in OrderIds |-> Promise!UsdcFor(shown[o])]
           tokensFor == [o \in OrderIds |-> Promise!TokensFor(shown[o])]
<1>1. /\ usdc \in [Traders -> Nat] /\ tokens \in [Traders -> Nat]
      /\ order \in [OrderIds -> RestingOrder \union {NoOrder}]
      /\ escrow \in [OrderIds -> Nat]
  BY DEF BookMoney, WalletsTyped, BookInvariant, BookTyped
<1>2. ASSUME NEW o \in OrderIds
      PROVE  /\ usdcFor[o] \in Int /\ usdcFor[o] <= Here(order, escrow, UsdcKind, o)
             /\ tokensFor[o] \in Int
             /\ ~expired => tokensFor[o] <= Here(order, escrow, ResaleKind, o)
  <2> DEFINE r == order[o]
             s == Seen(r)
  <2>1. shown[o] = s
    BY DEF Seen
  <2>2. CASE r = NoOrder
    <3>1. s = NoOrder
      BY <2>2 DEF Seen
    <3>2. shown[o] = NoOrder
      BY <2>1, <3>1
    <3> HIDE DEF shown
    <3> QED BY <2>2, <3>2 DEF Promise!UsdcFor, Promise!TokensFor, Here
  <2>3. CASE r # NoOrder
    <3>1. /\ r \in RestingOrder /\ r.price \in Nat /\ r.quantity \in Nat
          /\ escrow[o] \in Nat
          /\ ~expired /\ r.kind \in ResaleKind => escrow[o] = Escrowed(r, r.quantity)
          /\ r.kind \notin ResaleKind => escrow[o] >= Escrowed(r, r.quantity)
          /\ r.kind = "WriterAsk" => r.cpt = CollateralPerContract(Strike)
      BY <1>1, <2>3
      DEF BookMoney, BookInvariant, EscrowExact, AsksCovered, RestingOrder
    <3>2. s # NoOrder /\ s.price = r.price /\ s.quantity = r.quantity
          /\ s.kind = IF r.kind \in ResaleKind THEN "ResaleAsk" ELSE r.kind
      <4>1. s = [kind |-> IF r.kind \in ResaleKind THEN "ResaleAsk" ELSE r.kind,
                 price |-> r.price, quantity |-> r.quantity]
        BY <2>3 DEF Seen
      <4>2. s \in ShownOrder
        BY <3>1, <4>1 DEF RestingOrder, ShownOrder, OrderKind, ResaleKind
      <4>3. s # NoOrder
        BY <4>2, NoOrderAssumption
      <4> QED BY <4>1, <4>3
    <3>3. CASE r.kind = "Bid"
      <4>1. usdcFor[o] = r.price * r.quantity /\ tokensFor[o] = 0
        BY <2>1, <3>2, <3>3 DEF Promise!UsdcFor, Promise!TokensFor, ResaleKind
      <4>2. /\ Here(order, escrow, UsdcKind, o) = escrow[o]
            /\ Here(order, escrow, ResaleKind, o) = 0
        BY <2>3, <3>3 DEF Here, UsdcKind, ResaleKind
      <4>3. Escrowed(r, r.quantity) = r.price * r.quantity
        BY <3>3 DEF Escrowed, ResaleKind
      <4>4. r.kind \notin ResaleKind
        BY <3>3 DEF ResaleKind
      <4> HIDE DEF usdcFor, tokensFor, shown, s, r
      <4>5. PICK x \in Int : x = r.price * r.quantity
        BY <3>1
      <4> QED BY <3>1, <4>1, <4>2, <4>3, <4>4, <4>5
    <3>4. CASE r.kind = "WriterAsk"
      <4>1. usdcFor[o] = CollateralPerContract(Strike) * r.quantity /\ tokensFor[o] = 0
        BY <2>1, <3>2, <3>4
        DEF Promise!UsdcFor, Promise!TokensFor, ResaleKind,
            CollateralPerContract, Promise!CollateralPerContract
      <4>2. /\ Here(order, escrow, UsdcKind, o) = escrow[o]
            /\ Here(order, escrow, ResaleKind, o) = 0
        BY <2>3, <3>4 DEF Here, UsdcKind, ResaleKind
      <4>3. Escrowed(r, r.quantity) = CollateralPerContract(Strike) * r.quantity
        BY <3>1, <3>4 DEF Escrowed, ResaleKind
      <4>4. /\ r.kind \notin ResaleKind
            /\ CollateralPerContract(Strike) * r.quantity \in Int
        <5>1. CollateralPerContract(Strike) \in Int
          BY BookAssumption DEF CollateralPerContract
        <5> QED BY <3>1, <3>4, <5>1 DEF ResaleKind
      <4> HIDE DEF usdcFor, tokensFor, shown, s, r
      <4>5. PICK x \in Int : x = CollateralPerContract(Strike) * r.quantity
        BY <4>4
      <4> QED BY <3>1, <4>1, <4>2, <4>3, <4>4, <4>5
    <3>5. CASE r.kind \in ResaleKind
      <4>1. usdcFor[o] = 0 /\ tokensFor[o] = r.quantity
        BY <2>1, <3>2, <3>5 DEF Promise!UsdcFor, Promise!TokensFor
      <4>2. /\ Here(order, escrow, UsdcKind, o) = 0
            /\ Here(order, escrow, ResaleKind, o) = escrow[o]
        BY <2>3, <3>5 DEF Here, UsdcKind, ResaleKind
      <4>3. Escrowed(r, r.quantity) = r.quantity
        BY <3>5 DEF Escrowed, ResaleKind
      <4> HIDE DEF usdcFor, tokensFor, shown, s, r
      <4> QED BY <3>1, <4>1, <4>2, <4>3
    <3> QED BY <3>1, <3>3, <3>4, <3>5 DEF RestingOrder, OrderKind, ResaleKind
  <2> QED BY <2>2, <2>3
<1>3. ASSUME NEW t \in Traders
      PROVE  /\ usdc[t] + Waiting(order, escrow, UsdcKind, t)
                  >= SumFunctionOnSet(usdcFor, {o \in OrderIds : Owner(o) = t})
             /\ ~expired =>
                  tokens[t] + Waiting(order, escrow, ResaleKind, t)
                    >= SumFunctionOnSet(tokensFor, {o \in OrderIds : Owner(o) = t})
  <2>1. ASSUME NEW kinds, NEW f,
               \A o \in OrderIds : f[o] \in Int /\ f[o] <= Here(order, escrow, kinds, o)
        PROVE  /\ SumFunctionOnSet(f, {o \in OrderIds : Owner(o) = t})
                    <= Waiting(order, escrow, kinds, t)
               /\ SumFunctionOnSet(f, {o \in OrderIds : Owner(o) = t}) \in Int
               /\ Waiting(order, escrow, kinds, t) \in Nat
    <3> DEFINE g == [o \in OrderIds |->
                       IF Owner(o) = t THEN Here(order, escrow, kinds, o) ELSE 0]
               h == [o \in OrderIds |-> IF Owner(o) = t THEN f[o] ELSE 0]
               S == {o \in OrderIds : Owner(o) = t}
    <3>1. /\ g \in [OrderIds -> Int]
          /\ Waiting(order, escrow, kinds, t) = SumFunction(g)
          /\ Waiting(order, escrow, kinds, t) \in Nat
      BY <1>1, WaitingTotal
    <3>2. /\ S \in SUBSET OrderIds
          /\ (\A o \in S : h[o] = f[o]) /\ (\A o \in OrderIds \ S : h[o] = 0)
      OBVIOUS
    <3>3. h \in [OrderIds -> Int] /\ \A o \in OrderIds : h[o] <= g[o]
      BY <2>1
    <3> HIDE DEF g, h, S
    <3>4. SumFunctionOnSet(f, S) = SumFunction(h)
      BY <3>2, <3>3, SumRestrict, FiniteAssumption
    <3>5. SumFunction(h) <= SumFunction(g) /\ SumFunction(h) \in Int
      BY <3>1, <3>3, TotalMonotone, TotalInt, FiniteAssumption
    <3> QED BY <3>1, <3>4, <3>5 DEF S
  <2>2. usdc[t] \in Nat /\ tokens[t] \in Nat
    BY <1>1
  <2> HIDE DEF usdcFor, tokensFor
  <2>3. /\ SumFunctionOnSet(usdcFor, {o \in OrderIds : Owner(o) = t})
             <= Waiting(order, escrow, UsdcKind, t)
        /\ SumFunctionOnSet(usdcFor, {o \in OrderIds : Owner(o) = t}) \in Int
        /\ Waiting(order, escrow, UsdcKind, t) \in Nat
    BY <1>2, <2>1
  <2>4. ~expired =>
        /\ SumFunctionOnSet(tokensFor, {o \in OrderIds : Owner(o) = t})
             <= Waiting(order, escrow, ResaleKind, t)
        /\ SumFunctionOnSet(tokensFor, {o \in OrderIds : Owner(o) = t}) \in Int
        /\ Waiting(order, escrow, ResaleKind, t) \in Nat
    BY <1>2, <2>1
  <2> QED BY <2>2, <2>3, <2>4
<1> HIDE DEF usdcFor, tokensFor, shown
<1>4. ASSUME NEW t \in Traders
      PROVE  Promise!OrdersOf(t) = {o \in OrderIds : Owner(o) = t}
  BY DEF Promise!OrdersOf, Promise!Owner, Owner
<1>5. KindOf({"Bid", "WriterAsk"}) = Resting(order, UsdcKind)
      /\ KindOf(ResaleKind) = Resting(order, ResaleKind)
  BY DEF KindOf, Resting, UsdcKind
<1>6. ASSUME NEW t \in Traders
      PROVE  /\ usdc[t] + SumFunctionOnSet(escrow, {o \in KindOf({"Bid", "WriterAsk"}) : Owner(o) = t})
                  >= SumFunctionOnSet(usdcFor, Promise!OrdersOf(t))
             /\ ~expired =>
                  tokens[t] + SumFunctionOnSet(escrow, {o \in KindOf(ResaleKind) : Owner(o) = t})
                    >= SumFunctionOnSet(tokensFor, Promise!OrdersOf(t))
  BY <1>3, <1>4, <1>5 DEF Waiting
<1> DEFINE cash == [t \in Traders |-> usdc[t] +
                  SumFunctionOnSet(escrow, {o \in KindOf({"Bid", "WriterAsk"}) : Owner(o) = t})]
           held == [t \in Traders |-> tokens[t] +
                  SumFunctionOnSet(escrow, {o \in KindOf(ResaleKind) : Owner(o) = t})]
<1>7. \A t \in Traders :
        /\ cash[t] >= Promise!SumFunctionOnSet(usdcFor, Promise!OrdersOf(t))
        /\ ~expired => held[t] >= Promise!SumFunctionOnSet(tokensFor, Promise!OrdersOf(t))
  BY <1>6, PromiseSum
<1> HIDE DEF cash, held
<1> QED BY <1>7 DEF Promise!Honourable, usdcFor, tokensFor, shown, cash, held

(* The same variables, before and after a step. *)
LEMMA PromiseVars ==
    /\ [t \in Traders |-> usdc[t] +
          SumFunctionOnSet(escrow, {o \in KindOf({"Bid", "WriterAsk"}) : Owner(o) = t})] = Cash
    /\ [t \in Traders |-> tokens[t] +
          SumFunctionOnSet(escrow, {o \in KindOf(ResaleKind) : Owner(o) = t})] = Held
    /\ [t \in Traders |-> usdc'[t] +
          SumFunctionOnSet(escrow', {o \in KindOf({"Bid", "WriterAsk"})' : Owner(o) = t})]
         = Worth(usdc', order', escrow', UsdcKind)
    /\ [t \in Traders |-> tokens'[t] +
          SumFunctionOnSet(escrow', {o \in KindOf(ResaleKind)' : Owner(o) = t})]
         = Worth(tokens', order', escrow', ResaleKind)
  BY DEF Cash, Held, Worth, Waiting, Resting, KindOf, UsdcKind, ResaleKind

(* What LimitBook sees of the book. *)
Shows(ord) ==
    [o \in OrderIds |->
       IF ord[o] = NoOrder THEN NoOrder
       ELSE [kind     |-> IF ord[o].kind \in ResaleKind THEN "ResaleAsk"
                          ELSE ord[o].kind,
             price    |-> ord[o].price,
             quantity |-> ord[o].quantity]]

(* One order is shown as it is seen. *)
LEMMA ShowsOne ==
    ASSUME NEW ord \in [OrderIds -> RestingOrder \union {NoOrder}], NEW o \in OrderIds
    PROVE  /\ Shows(ord)[o] = NoOrder <=> ord[o] = NoOrder
           /\ ord[o] # NoOrder =>
                /\ Shows(ord)[o] =
                     [kind     |-> IF ord[o].kind \in ResaleKind THEN "ResaleAsk" ELSE ord[o].kind,
                      price    |-> ord[o].price,
                      quantity |-> ord[o].quantity]
                /\ Shows(ord)[o] \in ShownOrder
<1>1. CASE ord[o] = NoOrder
  BY <1>1 DEF Shows
<1>2. CASE ord[o] # NoOrder
  <2>1. ord[o] \in RestingOrder
    BY <1>2
  <2>2. Shows(ord)[o] =
          [kind     |-> IF ord[o].kind \in ResaleKind THEN "ResaleAsk" ELSE ord[o].kind,
           price    |-> ord[o].price,
           quantity |-> ord[o].quantity]
    BY <1>2 DEF Shows
  <2>3. Shows(ord)[o] \in ShownOrder
    BY <2>1, <2>2 DEF ShownOrder, RestingOrder, OrderKind, ResaleKind
  <2>4. Shows(ord)[o] # NoOrder
    BY <2>3, NoOrderAssumption
  <2> QED BY <1>2, <2>2, <2>3, <2>4
<1> QED BY <1>1, <1>2

(* post_order and list_v2_for_resale rest an order. *)
LEMMA PlaceRests ==
    ASSUME BookMoney,
           NEW o \in OrderIds, NEW kind \in OrderKind \union {"Listing"},
           NEW price \in Prices, NEW quantity \in Quantities,
           Place(o, kind, price, quantity)
    PROVE  Promise!Rest(o)
<1> DEFINE r == [kind |-> kind, price |-> price, quantity |-> quantity,
                 cpt |-> IF kind = "WriterAsk" THEN CollateralPerContract(Strike) ELSE 0]
           was == Shows(order)
           now == Shows(order')
<1>1. /\ BookMoney'
      /\ Worth(usdc', order', escrow', UsdcKind) = Cash
      /\ Worth(tokens', order', escrow', ResaleKind) = Held
  BY PlaceMoves
<1>2. /\ order \in [OrderIds -> RestingOrder \union {NoOrder}]
      /\ order' \in [OrderIds -> RestingOrder \union {NoOrder}]
  BY <1>1 DEF BookMoney, BookInvariant, BookTyped
<1>3. /\ ~expired /\ order[o] = NoOrder
      /\ order' = [order EXCEPT ![o] = r]
      /\ UNCHANGED <<expired, treasury, committed>>
  BY DEF Place
<1>4. price \in Nat \ {0} /\ quantity \in Nat \ {0}
  BY BookAssumption
<1>5. order'[o] = r /\ r # NoOrder
  <2>1. CollateralPerContract(Strike) \in Nat
    BY BookAssumption DEF CollateralPerContract
  <2>2. r \in RestingOrder
    BY <1>4, <2>1 DEF RestingOrder
  <2> QED BY <1>2, <1>3, <2>2, NoOrderAssumption
<1>6. now[o] = [kind |-> IF kind \in ResaleKind THEN "ResaleAsk" ELSE kind,
                price |-> price, quantity |-> quantity]
  <2>1. now[o] = [kind     |-> IF r.kind \in ResaleKind THEN "ResaleAsk" ELSE r.kind,
                  price    |-> r.price,
                  quantity |-> r.quantity]
    <3> HIDE DEF r
    <3> QED BY <1>2, <1>5, ShowsOne
  <2> QED BY <2>1
<1>7. now[o] \in Promise!Limit
  BY <1>4, <1>6 DEF Promise!Limit, OrderKind, ResaleKind
<1>8. was[o] = NoOrder
  BY <1>2, <1>3, ShowsOne
<1>9. now = [was EXCEPT ![o] = now[o]]
  <2>1. \A p \in OrderIds \ {o} : order'[p] = order[p]
    BY <1>2, <1>3
  <2> HIDE DEF r
  <2>2. \A p \in OrderIds \ {o} : now[p] = was[p]
    BY <2>1 DEF Shows
  <2> DEFINE next == now[o]
  <2>3. next = now[o]
    OBVIOUS
  <2> HIDE DEF next
  <2>4. now = [p \in OrderIds |-> now[p]] /\ was = [p \in OrderIds |-> was[p]]
    BY DEF Shows
  <2> HIDE DEF now, was
  <2> QED BY <2>2, <2>3, <2>4
<1> HIDE DEF was, now, r
<1> QED BY <1>1, <1>3, <1>7, <1>8, <1>9, PromiseVars DEF Promise!Rest, Shows, was, now

(* What cancels and sweeps take back is withdrawn. *)
LEMMA CloseWithdraws ==
    ASSUME BookMoney, NEW orders \in SUBSET OrderIds, \A o \in orders : order[o] # NoOrder,
           Close(orders)
    PROVE  Promise!Withdraw(orders)
<1> DEFINE was == Shows(order)
           now == Shows(order')
<1>1. /\ BookMoney'
      /\ Worth(usdc', order', escrow', UsdcKind) = Cash
      /\ Worth(tokens', order', escrow', ResaleKind) = Held
  BY CloseMoves
<1>2. order \in [OrderIds -> RestingOrder \union {NoOrder}]
  BY DEF BookMoney, BookInvariant, BookTyped
<1>3. /\ order' = [o \in OrderIds |-> IF o \in orders THEN NoOrder ELSE order[o]]
      /\ UNCHANGED <<expired, treasury, committed>>
  BY DEF Close
<1>4. \A o \in orders : was[o] # NoOrder
  BY <1>2, ShowsOne
<1>5. now = [o \in OrderIds |-> IF o \in orders THEN NoOrder ELSE was[o]]
  BY <1>3 DEF Shows
<1> HIDE DEF was, now
<1> QED BY <1>1, <1>3, <1>4, <1>5, PromiseVars DEF Promise!Withdraw, Shows, was, now

(* Every fill is a trade. *)
LEMMA FillTrades ==
    ASSUME BookMoney,
           NEW taker \in Traders, NEW o \in OrderIds, NEW quantity \in Quantities,
           TakerFills(taker, o, quantity)
    PROVE  /\ Shows(order)[o] # NoOrder
           /\ quantity \in 1..Shows(order)[o].quantity
           /\ Promise!Trade(taker, o, quantity)
<1> DEFINE was == Shows(order)
           now == Shows(order')
           cash2 == Worth(usdc', order', escrow', UsdcKind)
           held2 == Worth(tokens', order', escrow', ResaleKind)
           r == order[o]
           s == was[o]
           a == Buyer(taker, o)
           b == Seller(taker, o)
           total == TotalOf(o, quantity)
           fee == FeeOf(o, quantity)
           share == ShareOf(o, quantity)
           locked == Locked(o, quantity)
           given == Given(o, quantity)
<1>1. /\ BookMoney'
      /\ ~expired /\ UNCHANGED expired
      /\ r \in RestingOrder /\ r # NoOrder /\ taker # Owner(o)
      /\ quantity \in Nat \ {0} /\ quantity <= r.quantity
      /\ Fill(o, quantity, Escrowed(r, quantity))
      /\ treasury' = treasury + fee
      /\ committed' = [committed EXCEPT ![b] = @ + locked]
      /\ locked \in Nat
  BY TradeMoves
<1>2. \A t \in Traders :
        /\ cash2[t] = Cash[t] + (IF t = a THEN - total ELSE 0)
                        + (IF t = b THEN share - locked ELSE 0)
        /\ held2[t] = Held[t] + (IF t = a THEN quantity ELSE 0)
                        + (IF t = b THEN - given ELSE 0)
  BY TradeMoves
<1>3. /\ order \in [OrderIds -> RestingOrder \union {NoOrder}]
      /\ order' \in [OrderIds -> RestingOrder \union {NoOrder}]
  BY <1>1 DEF BookMoney, BookInvariant, BookTyped
<1>4. /\ s # NoOrder
      /\ s = [kind     |-> IF r.kind \in ResaleKind THEN "ResaleAsk" ELSE r.kind,
              price    |-> r.price,
              quantity |-> r.quantity]
  BY <1>1, <1>3, ShowsOne
<1>5. /\ s.price = r.price /\ s.quantity = r.quantity
      /\ (s.kind = "Bid" <=> r.kind = "Bid") /\ (s.kind = "WriterAsk" <=> r.kind = "WriterAsk")
  BY <1>4 DEF ResaleKind
<1>6. a \in Traders /\ b \in Traders /\ a # b
  BY <1>1, OwnerTrades DEF Buyer, Seller
<1>7. total \in Nat /\ fee \in Nat /\ share = total - fee
  BY <1>1, SplitNat
<1>8. given \in Nat
  BY <1>1, LockedIs
<1>9. r.quantity \in Nat /\ r.price \in Nat
  BY <1>1 DEF RestingOrder
<1>10. Cash \in [Traders -> Int] /\ Held \in [Traders -> Int]
       /\ cash2 \in [Traders -> Int] /\ held2 \in [Traders -> Int]
  BY <1>1, WorthTyped, WorthTypedNext
<1>11. now = [was EXCEPT ![o] = IF quantity = s.quantity THEN NoOrder
                                ELSE [s EXCEPT !.quantity = s.quantity - quantity]]
  <2> DEFINE left == r.quantity - quantity
             next == IF left = 0 THEN NoOrder ELSE [r EXCEPT !.quantity = left]
             snext == IF quantity = s.quantity THEN NoOrder
                      ELSE [s EXCEPT !.quantity = s.quantity - quantity]
  <2>1. order' = [order EXCEPT ![o] = next]
    BY <1>1 DEF Fill
  <2>2. order'[o] = next /\ \A p \in OrderIds \ {o} : order'[p] = order[p]
    <3> HIDE DEF next
    <3> QED BY <1>3, <2>1
  <2>3. \A p \in OrderIds \ {o} : now[p] = was[p]
    BY <2>2 DEF Shows
  <2>4. now[o] = snext
    <3>1. CASE quantity = r.quantity
      <4>1. next = NoOrder /\ snext = NoOrder
        BY <1>5, <1>9, <3>1
      <4>2. order'[o] = NoOrder
        BY <2>2, <4>1
      <4> HIDE DEF next, snext, now
      <4>3. now[o] = NoOrder
        BY <1>3, <4>2, ShowsOne DEF now
      <4> QED BY <4>1, <4>3
    <3>2. CASE quantity # r.quantity
      <4>1. left # 0 /\ left \in Nat
        BY <1>1, <1>9, <3>2
      <4>2. next = [r EXCEPT !.quantity = left]
        BY <4>1
      <4>3. next \in RestingOrder /\ next.kind = r.kind /\ next.price = r.price
            /\ next.quantity = left
        <5> HIDE DEF left, next
        <5> QED BY <1>1, <4>1, <4>2 DEF RestingOrder
      <4>4. next # NoOrder
        BY <4>3, NoOrderAssumption
      <4>5. now[o] = [kind     |-> IF r.kind \in ResaleKind THEN "ResaleAsk" ELSE r.kind,
                      price    |-> r.price,
                      quantity |-> left]
        <5>1. now[o] = [kind     |-> IF next.kind \in ResaleKind THEN "ResaleAsk" ELSE next.kind,
                        price    |-> next.price,
                        quantity |-> next.quantity]
          <6> HIDE DEF next
          <6> QED BY <1>3, <2>2, <4>4, ShowsOne
        <5> HIDE DEF next, left, now
        <5> QED BY <4>3, <5>1
      <4>6. snext = [s EXCEPT !.quantity = left]
        BY <1>5, <3>2
      <4> HIDE DEF next, left, snext, now, was, r
      <4> QED BY <1>4, <4>5, <4>6
    <3> QED BY <3>1, <3>2
  <2>5. now = [p \in OrderIds |-> now[p]] /\ was = [p \in OrderIds |-> was[p]]
    BY DEF Shows
  <2> HIDE DEF now, was, snext, s
  <2>6. now = [was EXCEPT ![o] = snext]
    BY <2>3, <2>4, <2>5
  <2> QED BY <2>6 DEF snext
<1> HIDE DEF was, now, cash2, held2, r, s, a, b, total, fee, share, locked, given
<1>12. cash2 = [Cash EXCEPT ![a] = @ - total, ![b] = @ + (total - fee) - locked]
  <2> DEFINE c == [Cash EXCEPT ![a] = @ - total, ![b] = @ + (total - fee) - locked]
  <2>1. ASSUME NEW t \in Traders PROVE cash2[t] = c[t]
    <3>1. Cash[t] \in Int
      BY <1>10
    <3>2. c[t] = IF t = b THEN Cash[t] + (total - fee) - locked
                 ELSE IF t = a THEN Cash[t] - total ELSE Cash[t]
      BY <1>6, <1>10
    <3> HIDE DEF c
    <3> QED BY <1>1, <1>2, <1>6, <1>7, <3>1, <3>2
  <2>2. c = [t \in Traders |-> c[t]]
    BY <1>10
  <2> HIDE DEF c
  <2>3. cash2 = c
    BY <1>10, <2>1, <2>2
  <2> QED BY <2>3 DEF c
<1>13. held2 = [Held EXCEPT ![a] = @ + quantity, ![b] = @ - given]
  <2> DEFINE c == [Held EXCEPT ![a] = @ + quantity, ![b] = @ - given]
  <2>1. ASSUME NEW t \in Traders PROVE held2[t] = c[t]
    <3>1. Held[t] \in Int
      BY <1>10
    <3>2. c[t] = IF t = b THEN Held[t] - given
                 ELSE IF t = a THEN Held[t] + quantity ELSE Held[t]
      BY <1>6, <1>10
    <3> HIDE DEF c
    <3> QED BY <1>1, <1>2, <1>6, <1>8, <3>1, <3>2
  <2>2. c = [t \in Traders |-> c[t]]
    BY <1>10
  <2> HIDE DEF c
  <2>3. held2 = c
    BY <1>10, <2>1, <2>2
  <2> QED BY <2>3 DEF c
<1>14. quantity \in 1..s.quantity
  BY <1>1, <1>5, <1>9
<1>15. /\ a = IF s.kind = "Bid" THEN Owner(o) ELSE taker
       /\ b = IF s.kind = "Bid" THEN taker ELSE Owner(o)
       /\ total = quantity * s.price
       /\ fee = Promise!Fee(quantity * s.price, FeeBps)
       /\ locked = IF s.kind = "WriterAsk"
                   THEN quantity * Promise!CollateralPerContract(Strike) ELSE 0
       /\ given = IF s.kind = "WriterAsk" THEN 0 ELSE quantity
  BY <1>5 DEF Buyer, Seller, TotalOf, FeeOf, Fee, Promise!Fee, MulDiv, Promise!MulDiv,
              Locked, Given, CollateralPerContract, Promise!CollateralPerContract,
              a, b, total, fee, locked, given, r
<1>16. Promise!Trade(taker, o, quantity)
  <2>1. Promise!Owner(o) = Owner(o)
    BY DEF Promise!Owner, Owner
  <2> DEFINE price == s.price
             maker == Promise!Owner(o)
             buyer == IF s.kind = "Bid" THEN maker ELSE taker
             seller == IF s.kind = "Bid" THEN taker ELSE maker
             sum == quantity * s.price
             cut == Promise!Fee(sum, FeeBps)
             lock == IF s.kind = "WriterAsk"
                     THEN quantity * Promise!CollateralPerContract(Strike) ELSE 0
             give == IF s.kind = "WriterAsk" THEN 0 ELSE quantity
  <2>2. a = buyer /\ b = seller /\ total = sum /\ fee = cut /\ locked = lock /\ given = give
    BY <1>15, <2>1
  <2>3. taker # maker
    BY <1>1, <2>1
  <2> HIDE DEF price, maker, buyer, seller, sum, cut, lock, give
  <2>4. /\ cash2 = [Cash EXCEPT ![buyer] = @ - sum, ![seller] = @ + (sum - cut) - lock]
        /\ held2 = [Held EXCEPT ![buyer] = @ + quantity, ![seller] = @ - give]
        /\ treasury' = treasury + cut
        /\ committed' = [committed EXCEPT ![seller] = @ + lock]
        /\ now = [was EXCEPT ![o] = IF quantity = s.quantity THEN NoOrder
                                    ELSE [s EXCEPT !.quantity = s.quantity - quantity]]
    BY <1>1, <1>11, <1>12, <1>13, <2>2 DEF s
  <2> DEFINE cash == [t \in Traders |-> usdc[t] +
                        SumFunctionOnSet(escrow, {p \in KindOf({"Bid", "WriterAsk"}) : Owner(p) = t})]
             held == [t \in Traders |-> tokens[t] +
                        SumFunctionOnSet(escrow, {p \in KindOf(ResaleKind) : Owner(p) = t})]
  <2>5. cash = Cash /\ held = Held /\ cash' = cash2 /\ held' = held2
    BY PromiseVars DEF cash2, held2
  <2>6. ~expired /\ expired' = expired
    BY <1>1
  <2> HIDE DEF cash2, held2, was, now
  <2>7. /\ cash' = [cash EXCEPT ![buyer] = @ - sum, ![seller] = @ + (sum - cut) - lock]
        /\ held' = [held EXCEPT ![buyer] = @ + quantity, ![seller] = @ - give]
    <3> HIDE DEF cash, held
    <3> QED BY <2>4, <2>5
  <2> QED BY <2>3, <2>4, <2>6, <2>7
        DEF Promise!Trade, Shows, was, now, s, price, maker, buyer, seller, sum, cut, lock, give
<1> QED BY <1>4, <1>14, <1>16 DEF was, s

(* A finalized escrow was a resting ask's, and whole. *)
LEMMA FinalizeRedeems ==
    ASSUME BookMoney, NEW o \in OrderIds, NEW payout \in Payouts, FinalizeEscrow(o, payout)
    PROVE  /\ Shows(order)[o] # NoOrder
           /\ payout \in 0..(Promise!CollateralPerContract(Strike) * Shows(order)[o].quantity)
           /\ Promise!Redeem(o, payout)
<1> DEFINE was == Shows(order)
           now == Shows(order')
           cash2 == Worth(usdc', order', escrow', UsdcKind)
           held2 == Worth(tokens', order', escrow', ResaleKind)
           s == was[o]
<1>1. /\ BurnEscrow(o, payout)
      /\ expired /\ order[o] # NoOrder /\ order[o].kind \in ResaleKind
      /\ escrow[o] > 0
      /\ payout <= CollateralPerContract(Strike) * escrow[o]
      /\ UNCHANGED <<expired, order, committed>>
      /\ payout \in Nat
  BY BookAssumption DEF FinalizeEscrow, BurnEscrow, KindOf
<1>2. /\ order \in [OrderIds -> RestingOrder \union {NoOrder}]
      /\ escrow \in [OrderIds -> Nat] /\ treasury \in Nat
  BY DEF BookMoney, BookInvariant, BookTyped, WalletsTyped
<1>3. /\ s # NoOrder
      /\ s = [kind     |-> IF order[o].kind \in ResaleKind THEN "ResaleAsk" ELSE order[o].kind,
              price    |-> order[o].price,
              quantity |-> order[o].quantity]
  BY <1>1, <1>2, ShowsOne
<1>4. s.kind = "ResaleAsk" /\ s.quantity = order[o].quantity
  BY <1>1, <1>3
<1>5. escrow[o] = s.quantity
  <2>1. escrow[o] = Escrowed(order[o], order[o].quantity) \/ escrow[o] = 0
    BY <1>1 DEF BookMoney, BookInvariant, EscrowExact
  <2>2. Escrowed(order[o], order[o].quantity) = order[o].quantity
    BY <1>1 DEF Escrowed, ResaleKind
  <2> QED BY <1>1, <1>4, <2>1, <2>2
<1>6. payout \in 0..(Promise!CollateralPerContract(Strike) * s.quantity)
  <2>1. Promise!CollateralPerContract(Strike) = CollateralPerContract(Strike)
    BY DEF CollateralPerContract, Promise!CollateralPerContract
  <2>2. CollateralPerContract(Strike) \in Int /\ escrow[o] \in Nat
    BY <1>2, BookAssumption DEF CollateralPerContract
  <2> HIDE DEF s
  <2>3. PICK x \in Int : x = CollateralPerContract(Strike) * escrow[o]
    BY <2>2
  <2>4. payout \in 0..x
    BY <1>1, <2>3
  <2> QED BY <1>5, <2>1, <2>3, <2>4
<1>7. Cash \in [Traders -> Int] /\ Held \in [Traders -> Int]
  BY WorthTyped
<1>8. /\ BookMoney'
      /\ \A t \in Traders : held2[t] = Held[t] + (IF t = Owner(o) THEN - escrow[o] ELSE 0)
      /\ \/ treasury' = treasury + payout /\ \A t \in Traders : cash2[t] = Cash[t]
         \/ /\ UNCHANGED treasury
            /\ \E w \in Traders :
                 \A t \in Traders : cash2[t] = Cash[t] + (IF t = w THEN payout ELSE 0)
  <2>1. CASE treasury' = treasury + payout /\ escrow' = [escrow EXCEPT ![o] = 0]
    <3>1. treasury' \in Nat
      BY <1>1, <1>2, <2>1
    <3> QED BY <1>1, <2>1, <3>1, BurnMoves
  <2>2. ASSUME NEW p \in KindOf({"Bid", "WriterAsk"}), UNCHANGED treasury,
               escrow' = [escrow EXCEPT ![o] = 0, ![p] = @ + payout]
        PROVE  /\ BookMoney'
               /\ \A t \in Traders : held2[t] = Held[t] + (IF t = Owner(o) THEN - escrow[o] ELSE 0)
               /\ \E w \in Traders :
                    \A t \in Traders : cash2[t] = Cash[t] + (IF t = w THEN payout ELSE 0)
    <3>1. treasury' = treasury
      BY <2>2
    <3> HIDE DEF cash2, held2
    <3>2. /\ BookMoney' /\ Owner(p) \in Traders
          /\ \A t \in Traders :
               /\ cash2[t] = Cash[t] + (IF t = Owner(p) THEN payout ELSE 0)
               /\ held2[t] = Held[t] + (IF t = Owner(o) THEN - escrow[o] ELSE 0)
      BY <1>1, <2>2, <3>1, BurnPaysOne DEF cash2, held2
    <3> QED BY <2>2, <3>2
  <2> QED BY <2>1, <2>2 DEF FinalizeEscrow
<1>9. cash2 \in [Traders -> Int] /\ held2 \in [Traders -> Int]
  BY <1>8, WorthTypedNext
<1> HIDE DEF cash2, held2, s
<1>10. held2 = [Held EXCEPT ![Owner(o)] = @ - s.quantity]
  <2>1. escrow[o] \in Nat
    BY <1>2
  <2>2. PICK n \in Nat : n = s.quantity
    BY <1>5, <2>1
  <2>3. \A t \in Traders : Held[t] \in Int
    BY <1>7
  <2>4. \A t \in Traders : held2[t] = IF t = Owner(o) THEN Held[t] - n ELSE Held[t]
    BY <1>5, <1>8, <2>2, <2>3
  <2> DEFINE c == [Held EXCEPT ![Owner(o)] = @ - n]
  <2>5. \A t \in Traders : c[t] = IF t = Owner(o) THEN Held[t] - n ELSE Held[t]
    BY <1>7
  <2>6. c = [t \in Traders |-> c[t]] /\ held2 = [t \in Traders |-> held2[t]]
    BY <1>7, <1>9
  <2> HIDE DEF c
  <2>7. held2 = c
    BY <2>4, <2>5, <2>6
  <2> QED BY <2>2, <2>7 DEF c
<1>11. \/ treasury' = treasury + payout /\ cash2 = Cash
       \/ /\ UNCHANGED treasury
          /\ \E w \in Traders : cash2 = [Cash EXCEPT ![w] = @ + payout]
  <2>1. ASSUME \A t \in Traders : cash2[t] = Cash[t] PROVE cash2 = Cash
    BY <1>7, <1>9, <2>1
  <2>2. ASSUME NEW w \in Traders,
               \A t \in Traders : cash2[t] = Cash[t] + (IF t = w THEN payout ELSE 0)
        PROVE  cash2 = [Cash EXCEPT ![w] = @ + payout]
    <3> DEFINE c == [Cash EXCEPT ![w] = @ + payout]
    <3>1. \A t \in Traders : Cash[t] \in Int
      BY <1>7
    <3>2. \A t \in Traders : c[t] = IF t = w THEN Cash[t] + payout ELSE Cash[t]
      BY <1>7
    <3>3. c = [t \in Traders |-> c[t]] /\ cash2 = [t \in Traders |-> cash2[t]]
      BY <1>7, <1>9
    <3> HIDE DEF c
    <3>4. \A t \in Traders : cash2[t] = c[t]
      BY <2>2, <3>1, <3>2
    <3>5. cash2 = c
      BY <3>3, <3>4
    <3> QED BY <3>5 DEF c
  <2> QED BY <1>8, <2>1, <2>2
<1>12. now = was
  BY <1>1
<1>13. Promise!Redeem(o, payout)
  <2>1. Promise!Owner(o) = Owner(o)
    BY DEF Promise!Owner, Owner
  <2> DEFINE cash == [t \in Traders |-> usdc[t] +
                        SumFunctionOnSet(escrow, {p \in KindOf({"Bid", "WriterAsk"}) : Owner(p) = t})]
             held == [t \in Traders |-> tokens[t] +
                        SumFunctionOnSet(escrow, {p \in KindOf(ResaleKind) : Owner(p) = t})]
  <2>2. cash = Cash /\ held = Held /\ cash' = cash2 /\ held' = held2
    BY PromiseVars DEF cash2, held2
  <2> HIDE DEF was, now
  <2>3. /\ held' = [held EXCEPT ![Promise!Owner(o)] = @ - s.quantity]
        /\ \/ treasury' = treasury + payout /\ UNCHANGED cash
           \/ \E w \in Traders : cash' = [cash EXCEPT ![w] = @ + payout] /\ UNCHANGED treasury
    <3> HIDE DEF cash, held
    <3> QED BY <1>10, <1>11, <2>1, <2>2
  <2>4. expired /\ UNCHANGED <<expired, committed>>
    BY <1>1
  <2> QED BY <1>4, <1>12, <2>3, <2>4 DEF Promise!Redeem, Shows, was, now, s
<1> QED BY <1>3, <1>6, <1>13 DEF was, s

(* Another vault's payment is a windfall of the maker's.                    *)
LEMMA ReceivePromises ==
    ASSUME BookMoney, NEW o \in OrderIds, NEW payout \in Payouts, ReceivePayout(o, payout)
    PROVE  Owner(o) \in Traders /\ Promise!Windfall(Owner(o), payout)
<1> DEFINE w == Owner(o)
           cash2 == Worth(usdc', order', escrow', UsdcKind)
           held2 == Worth(tokens', order', escrow', ResaleKind)
           c == [Cash EXCEPT ![w] = @ + payout]
<1>1. /\ BookMoney' /\ w \in Traders
      /\ \A t \in Traders : /\ cash2[t] = Cash[t] + (IF t = w THEN payout ELSE 0)
                            /\ held2[t] = Held[t]
  BY ReceiveMoves
<1>2. Cash \in [Traders -> Int] /\ Held \in [Traders -> Int]
  BY WorthTyped
<1>3. cash2 \in [Traders -> Int] /\ held2 \in [Traders -> Int]
  BY <1>1, WorthTypedNext
<1> HIDE DEF cash2, held2, w
<1>4. held2 = Held
  BY <1>1, <1>2, <1>3
<1>5. cash2 = c
  <2>1. \A t \in Traders : Cash[t] \in Int
    BY <1>2
  <2>2. \A t \in Traders : c[t] = IF t = w THEN Cash[t] + payout ELSE Cash[t]
    BY <1>2
  <2>3. c = [t \in Traders |-> c[t]] /\ cash2 = [t \in Traders |-> cash2[t]]
    BY <1>2, <1>3
  <2> HIDE DEF c
  <2>4. \A t \in Traders : cash2[t] = c[t]
    BY <1>1, <2>1, <2>2
  <2> QED BY <2>3, <2>4
<1>6. UNCHANGED <<expired, order, treasury, committed>>
  BY DEF ReceivePayout, wallets
<1>7. Promise!Windfall(w, payout)
  <2> DEFINE cash == [t \in Traders |-> usdc[t] +
                        SumFunctionOnSet(escrow, {p \in KindOf({"Bid", "WriterAsk"}) : Owner(p) = t})]
             held == [t \in Traders |-> tokens[t] +
                        SumFunctionOnSet(escrow, {p \in KindOf(ResaleKind) : Owner(p) = t})]
  <2>1. cash = Cash /\ held = Held /\ cash' = cash2 /\ held' = held2
    BY PromiseVars DEF cash2, held2
  <2>2. cash' = [cash EXCEPT ![w] = @ + payout] /\ UNCHANGED held
    <3> HIDE DEF cash, held
    <3> QED BY <1>4, <1>5, <2>1
  <2> QED BY <1>6, <2>2 DEF Promise!Windfall
<1> QED BY <1>1, <1>7 DEF w

(* Every step is one of LimitBook's, or none. *)
LEMMA PromiseStep ==
    BookMoney /\ [Next]_bookVars /\ Promise!Honourable' => [Promise!BookNext]_Promise!bookVars
<1> SUFFICES ASSUME BookMoney, [Next]_bookVars, Promise!Honourable'
             PROVE  [Promise!BookNext]_Promise!bookVars
  OBVIOUS
<1>1. ASSUME NEW o \in OrderIds, NEW kind \in OrderKind \union {"Listing"},
             NEW price \in Prices, NEW quantity \in Quantities, Place(o, kind, price, quantity)
      PROVE  Promise!BookNext
  <2>1. Promise!Rest(o)
    BY <1>1, PlaceRests
  <2> QED BY <2>1 DEF Promise!BookNext
<1>2. ASSUME NEW orders \in SUBSET OrderIds, \A o \in orders : order[o] # NoOrder, Close(orders)
      PROVE  Promise!BookNext
  <2>1. Promise!Withdraw(orders)
    BY <1>2, CloseWithdraws
  <2> QED BY <2>1 DEF Promise!BookNext
<1>3. CASE MakerStep
  <2>1. PICK o \in OrderIds :
           \/ \E kind \in OrderKind, price \in Prices, quantity \in Quantities :
                  PostOrder(o, kind, price, quantity)
           \/ \E price \in Prices, quantity \in Quantities :
                  ListForResale(o, price, quantity)
           \/ CancelOrder(o)
           \/ CancelResale(o)
    BY <1>3 DEF MakerStep
  <2>2. CASE CancelOrder(o) \/ CancelResale(o)
    <3>1. {o} \in SUBSET OrderIds /\ (\A p \in {o} : order[p] # NoOrder) /\ Close({o})
      BY <2>2 DEF CancelOrder, CancelResale
    <3> QED BY <1>2, <3>1
  <2>3. ASSUME NEW kind \in OrderKind, NEW price \in Prices,
               NEW quantity \in Quantities, PostOrder(o, kind, price, quantity)
        PROVE  Promise!BookNext
    BY <1>1, <2>3 DEF PostOrder
  <2>4. ASSUME NEW price \in Prices, NEW quantity \in Quantities,
               ListForResale(o, price, quantity)
        PROVE  Promise!BookNext
    BY <1>1, <2>4 DEF ListForResale
  <2> QED BY <2>1, <2>2, <2>3, <2>4
<1>4. CASE TakerStep
  <2>1. PICK taker \in Traders, o \in OrderIds, quantity \in Quantities :
           TakerFills(taker, o, quantity)
    BY <1>4 DEF TakerStep, TakerFills
  <2>2. /\ Shows(order)[o] # NoOrder
        /\ quantity \in 1..Shows(order)[o].quantity
        /\ Promise!Trade(taker, o, quantity)
    BY <2>1, FillTrades
  <2> QED BY <2>2 DEF Promise!BookNext, Shows
<1>5. CASE Sweep
  BY <1>2, <1>5 DEF Sweep, SweepExpiredOrders, AutoCancelListings
<1>8. CASE FinalizeStep
  <2>1. PICK o \in OrderIds, payout \in Payouts :
           FinalizeEscrow(o, payout) \/ ReceivePayout(o, payout)
    BY <1>8 DEF FinalizeStep
  <2>3. CASE ReceivePayout(o, payout)
    BY <2>3, ReceivePromises DEF Promise!BookNext
  <2> SUFFICES ASSUME FinalizeEscrow(o, payout) PROVE Promise!BookNext
    BY <2>1, <2>3
  <2>2. /\ Shows(order)[o] # NoOrder
        /\ payout \in 0..(Promise!CollateralPerContract(Strike) * Shows(order)[o].quantity)
        /\ Promise!Redeem(o, payout)
    BY <2>1, FinalizeRedeems
  <2> QED BY <2>2 DEF Promise!BookNext, Shows
<1>6. CASE Expire
  <2>1. UNCHANGED <<order, escrow, usdc, tokens, treasury, committed>> /\ expired' = TRUE
    BY <1>6 DEF Expire, book, wallets
  <2>2. Promise!Close
    <3>1. /\ Worth(usdc', order', escrow', UsdcKind) = Cash
          /\ Worth(tokens', order', escrow', ResaleKind) = Held
      BY <2>1 DEF Cash, Held
    <3> QED BY <2>1, <3>1, PromiseVars DEF Promise!Close
  <2> QED BY <2>2 DEF Promise!BookNext
<1>7. CASE UNCHANGED bookVars
  <2>1. UNCHANGED <<expired, order, escrow, usdc, tokens, treasury, committed>>
    BY <1>7 DEF bookVars, book, wallets
  <2>2. /\ Worth(usdc', order', escrow', UsdcKind) = Cash
        /\ Worth(tokens', order', escrow', ResaleKind) = Held
    BY <2>1 DEF Cash, Held
  <2> QED BY <2>1, <2>2, PromiseVars DEF Promise!bookVars
<1> QED BY <1>3, <1>4, <1>5, <1>6, <1>7, <1>8 DEF Next, TradeStep

(* The book starts as LimitBook does. *)
LEMMA PromiseInit == Init => Promise!BookInit
<1> SUFFICES ASSUME Init PROVE Promise!BookInit
  OBVIOUS
<1>1. \A kinds, t : {o \in KindOf(kinds) : Owner(o) = t} = {}
  BY DEF Init, KindOf
<1>2. StartUsdc \in [Traders -> Nat] /\ StartTokens \in [Traders -> Nat]
  BY BookAssumption
<1>3. SumFunctionOnSet(escrow, {}) = 0
  BY SumEmpty
<1>6. usdc = StartUsdc /\ tokens = StartTokens
  BY DEF Init
<1>4. [t \in Traders |-> usdc[t] +
          SumFunctionOnSet(escrow, {o \in KindOf({"Bid", "WriterAsk"}) : Owner(o) = t})]
        \in [Traders -> Nat]
  BY <1>1, <1>2, <1>3, <1>6
<1>5. [t \in Traders |-> tokens[t] +
          SumFunctionOnSet(escrow, {o \in KindOf(ResaleKind) : Owner(o) = t})]
        \in [Traders -> Nat]
  BY <1>1, <1>2, <1>3, <1>6
<1> QED BY <1>4, <1>5 DEF Promise!BookInit, Init

(* The detailed book implements LimitBook. *)
THEOREM PromisesKept == Spec => KeepsPromises
<1>1. MoneyInvariant => BookMoney
  BY DEF MoneyInvariant
<1> QED BY <1>1, MoneyKept, HonourableNow, PromiseInit, PromiseStep, PTL
        DEF Spec, KeepsPromises, Promise!BookSpec

---------------------------------------------------------------------------
(* Triggers: the money of the book, the vault's account and their escrows. *)

(* The triggers, their escrows and the pool have their types. *)
TriggerTyped ==
    /\ trigger \in [TriggerIds -> TriggerOrder \union {NoTrigger}]
    /\ tEscrow \in [TriggerIds -> Nat]
    /\ pool \in Nat

(* All that is in it is what was. *)
TotalKept(cash, fees, backing, inPool, waiting) ==
    SumFunction(cash) + fees + SumFunction(backing) + inPool + SumFunction(waiting)
    = SumFunction(StartUsdc) + StartPool + gained

(* All the USDC there is, by what traders are worth. *)
Accounted == TotalKept(Cash, treasury, committed, pool, tEscrow)

(* The inductive invariant of the triggers' money. *)
TriggerInvariant == BookMoney /\ TriggerTyped /\ BuysFunded /\ Accounted

(* What the run counts is what traders are worth, and the rest. *)
LEMMA AccountedIs ==
    ASSUME BookMoney, TriggerTyped
    PROVE  UsdcKept <=> Accounted
<1>1. /\ usdc \in [Traders -> Int] /\ usdc \in [Traders -> Nat]
      /\ committed \in [Traders -> Nat] /\ treasury \in Nat
      /\ escrow \in [OrderIds -> Nat]
      /\ tEscrow \in [TriggerIds -> Nat] /\ pool \in Nat
  BY DEF BookMoney, WalletsTyped, BookInvariant, BookTyped, TriggerTyped
<1> DEFINE u == SumFunction(usdc)
           c == SumFunction(committed)
           w == SumFunction(tEscrow)
           e == SumFunctionOnSet(escrow, Resting(order, UsdcKind))
<1>2. SumFunction(Cash) = u + e
  BY <1>1, WorthTotal DEF Cash
<1>3. u \in Nat /\ c \in Nat /\ w \in Nat
  BY <1>1, TotalNat, FiniteAssumption, FiniteTriggers
<1>4. e \in Nat
  <2> DEFINE S == Resting(order, UsdcKind)
  <2>1. IsFiniteSet(S) /\ \A x \in S : escrow[x] \in Nat
    BY <1>1, FS_Subset, FiniteAssumption DEF Resting
  <2> HIDE DEF S
  <2>2. SumFunctionOnSet(escrow, S) \in Nat
    BY <2>1, SumNat
  <2> QED BY <2>2 DEF S
<1>5. KindOf({"Bid", "WriterAsk"}) = Resting(order, UsdcKind)
  BY DEF KindOf, Resting, UsdcKind
<1>6. (u + e) + treasury + c + pool + w = u + treasury + c + pool + e + w
  <2> HIDE DEF u, c, e, w
  <2> QED BY <1>1, <1>3, <1>4
<1> QED BY <1>2, <1>5, <1>6 DEF UsdcKept, Accounted, TotalKept

(* At the start every escrow is empty. *)
LEMMA TriggerInit == TInit => TriggerInvariant
<1> SUFFICES ASSUME TInit PROVE TriggerInvariant
  OBVIOUS
<1>1. MoneyInvariant
  BY MoneyInit DEF TInit
<1>2. BookMoney
  BY <1>1 DEF MoneyInvariant
<1>3. TriggerTyped
  BY TriggerAssumption DEF TInit, TriggerTyped
<1>4. BuysFunded
  BY DEF TInit, BuysFunded, Placed
<1>5. SumFunction(tEscrow) = 0
  <2>1. tEscrow \in [TriggerIds -> Int] /\ \A t \in TriggerIds : tEscrow[t] = 0
    BY DEF TInit
  <2> QED BY <2>1, TotalZero, FiniteTriggers
<1>6. SumFunction(Cash) + treasury + SumFunction(committed) = SumFunction(StartUsdc)
  <2>1. KeptBefore(NowCash, NowBacked) /\ redeemed = 0 /\ gained = 0
    BY <1>1, KeptNow DEF MoneyInvariant, TInit, Init
  <2>2. NowCash = SumFunction(StartUsdc)
    <3>1. SumFunction(StartUsdc) \in Int
      BY StartTyped DEF StartCash
    <3> QED BY <2>1, <3>1 DEF NowCash, StartCash
  <2> QED BY <2>1, <2>2 DEF KeptBefore, Kept
<1>7. SumFunction(StartUsdc) \in Int
  <2>1. StartUsdc \in [Traders -> Int]
    BY BookAssumption
  <2> QED BY <2>1, TotalInt, FiniteAssumption
<1>8. pool = StartPool /\ StartPool \in Nat
  BY TriggerAssumption DEF TInit
<1>9. Accounted
  <2> DEFINE s == SumFunction(StartUsdc)
  <2>1. gained = 0
    BY DEF TInit, Init
  <2> QED BY <1>5, <1>6, <1>8, <2>1 DEF Accounted, TotalKept
<1> QED BY <1>2, <1>3, <1>4, <1>9 DEF TriggerInvariant

(* A step that leaves the book alone and moves USDC at one wallet. *)
LEMMA WalletMoves ==
    ASSUME BookMoney, NEW w \in Traders, UNCHANGED <<expired, book, committed, history>>,
           usdc' \in [Traders -> Nat], tokens' \in [Traders -> Nat], treasury' \in Nat,
           \A t \in Traders \ {w} : usdc'[t] = usdc[t]
    PROVE  /\ BookMoney'
           /\ SumFunction(Worth(usdc', order', escrow', UsdcKind))
                = SumFunction(Cash) + (usdc'[w] - usdc[w])
           /\ SumFunction(Cash) \in Int
<1> DEFINE f == Cash
           g == Worth(usdc', order', escrow', UsdcKind)
<1>1. UNCHANGED <<order, escrow, expired, committed>>
  BY DEF book
<1>2. BookMoney'
  <2>1. PaysOn
    BY PaysNothing DEF BookMoney
  <2>2. \A o \in OrderIds : Agrees(order'[o], escrow'[o], expired', Paid')
    BY <1>1, <2>1, Untouched DEF BookMoney
  <2>3. BookTyped'
    BY <1>1, <2>1 DEF BookMoney, BookInvariant, BookTyped, PaysOn
  <2> QED BY <1>1, <2>2, <2>3, ExactNext
          DEF BookMoney, WalletsTyped, AsksCovered, BookInvariant
<1>3. f \in [Traders -> Int]
  BY WorthTyped
<1>4. g \in [Traders -> Int]
  BY <1>2, WorthTypedNext
<1>5. usdc \in [Traders -> Nat] /\ escrow \in [OrderIds -> Nat]
  BY DEF BookMoney, WalletsTyped, BookInvariant, BookTyped
<1>6. \A t \in Traders : /\ f[t] = usdc[t] + Waiting(order, escrow, UsdcKind, t)
                         /\ g[t] = usdc'[t] + Waiting(order, escrow, UsdcKind, t)
                         /\ Waiting(order, escrow, UsdcKind, t) \in Nat
  BY <1>1, <1>5, WaitingTotal DEF Cash, Worth
<1> HIDE DEF f, g
<1>7. (\A t \in Traders \ {w} : g[t] = f[t]) /\ g[w] - f[w] = usdc'[w] - usdc[w]
  <2>1. usdc'[w] \in Nat /\ usdc[w] \in Nat
    BY <1>5
  <2> QED BY <1>6, <2>1
<1>8. SumFunction(g) = SumFunction(f) + (g[w] - f[w])
  BY <1>3, <1>4, <1>7, TotalChange, FiniteAssumption
<1>9. SumFunction(f) \in Int
  BY <1>3, TotalInt, FiniteAssumption
<1> QED BY <1>2, <1>7, <1>8, <1>9 DEF f, g

(* The escrow of one trigger changes. *)
LEMMA EscrowMoves ==
    ASSUME TriggerTyped, NEW t \in TriggerIds, tEscrow' \in [TriggerIds -> Nat],
           \A u \in TriggerIds \ {t} : tEscrow'[u] = tEscrow[u]
    PROVE  /\ SumFunction(tEscrow') = SumFunction(tEscrow) + (tEscrow'[t] - tEscrow[t])
           /\ SumFunction(tEscrow) \in Int
<1>1. tEscrow \in [TriggerIds -> Int] /\ tEscrow' \in [TriggerIds -> Int]
  BY DEF TriggerTyped
<1> QED BY <1>1, TotalChange, TotalInt, FiniteTriggers

(* What fired comes off the trigger and off its peer: neither needs more    *)
(* than it did.                                                             *)
LEMMA FiredKeeps ==
    ASSUME TriggerTyped, BuysFunded,
           NEW t \in TriggerIds, trigger[t] # NoTrigger,
           NEW quantity \in Nat \ {0}, quantity <= trigger[t].quantity,
           Fired(t, quantity), tEscrow' \in [TriggerIds -> Nat],
           \A u \in TriggerIds \ {t} : tEscrow'[u] = tEscrow[u],
           IF quantity = trigger[t].quantity \/ ~IsBuy(t)
           THEN tEscrow'[t] = 0
           ELSE tEscrow'[t] >= trigger[t].max_premium * (trigger[t].quantity - quantity)
    PROVE  /\ trigger' \in [TriggerIds -> TriggerOrder \union {NoTrigger}]
           /\ BuysFunded'
<1> DEFINE left == trigger[t].quantity - quantity
           p == trigger[t].link
           next(u) == IF u = t
                      THEN IF left = 0 THEN NoTrigger
                           ELSE [trigger[u] EXCEPT !.quantity = left, !.link = NoTrigger]
                      ELSE IF u = p
                      THEN [trigger[u] EXCEPT !.quantity = SaturatingSub(@, quantity),
                                              !.link = NoTrigger]
                      ELSE trigger[u]
<1>1. trigger' = [u \in TriggerIds |-> next(u)] /\ PeerAnswers(t)
  BY DEF Fired
<1>2. trigger[t] \in TriggerOrder /\ left \in Nat
  BY DEF TriggerTyped, TriggerOrder
<1>3. ASSUME NEW u \in TriggerIds
      PROVE  /\ next(u) \in TriggerOrder \union {NoTrigger}
             /\ IF next(u) # NoTrigger /\ next(u).kind = "StopEntryBuy"
                THEN tEscrow'[u] >= next(u).max_premium * next(u).quantity
                ELSE tEscrow'[u] = 0
  <2>1. CASE u = t /\ left = 0
    <3>1. quantity = trigger[t].quantity
      BY <1>2, <2>1 DEF TriggerOrder
    <3> QED BY <2>1, <3>1
  <2>2. CASE u = t /\ left # 0
    <3>1. next(u) \in TriggerOrder /\ next(u) # NoTrigger
          /\ next(u).kind = trigger[t].kind /\ next(u).quantity = left
          /\ next(u).max_premium = trigger[t].max_premium
      BY <1>2, <2>2, NoTriggerAssumption DEF TriggerOrder
    <3>2. quantity # trigger[t].quantity
      BY <1>2, <2>2 DEF TriggerOrder
    <3> HIDE DEF next
    <3> QED BY <2>2, <3>1, <3>2 DEF IsBuy
  <2>3. CASE u # t /\ u = p
    <3>1. trigger[u] \in TriggerOrder /\ trigger[u] # NoTrigger
      BY <1>1, <2>3, TriggerAssumption DEF PeerAnswers, TriggerTyped
    <3> DEFINE less == SaturatingSub(trigger[u].quantity, quantity)
    <3>2. less \in Nat /\ less <= trigger[u].quantity /\ trigger[u].max_premium \in Nat
      BY <3>1 DEF SaturatingSub, TriggerOrder
    <3>3. next(u) = [trigger[u] EXCEPT !.quantity = less, !.link = NoTrigger]
      BY <2>3
    <3> HIDE DEF less, next
    <3>4. next(u) \in TriggerOrder /\ next(u) # NoTrigger
          /\ next(u).kind = trigger[u].kind /\ next(u).quantity = less
          /\ next(u).max_premium = trigger[u].max_premium
      BY <3>1, <3>2, <3>3, NoTriggerAssumption DEF TriggerOrder
    <3>5. IF trigger[u].kind = "StopEntryBuy"
          THEN tEscrow'[u] >= trigger[u].max_premium * trigger[u].quantity
          ELSE tEscrow'[u] = 0
      BY <2>3, <3>1 DEF BuysFunded, Placed, IsBuy
    <3>6. trigger[u].max_premium * trigger[u].quantity >= trigger[u].max_premium * less
      <4> DEFINE m == trigger[u].max_premium
                 n == trigger[u].quantity
      <4>1. m \in Nat /\ n \in Nat
        BY <3>1 DEF TriggerOrder
      <4> HIDE DEF m, n
      <4>2. m * n >= m * less
        BY <3>2, <4>1 DEF n
      <4> QED BY <4>2 DEF m, n
    <3>7. tEscrow'[u] \in Nat
      OBVIOUS
    <3> DEFINE need == trigger[u].max_premium * trigger[u].quantity
               rest == trigger[u].max_premium * less
    <3>8. need \in Nat /\ rest \in Nat
      BY <3>1, <3>2 DEF TriggerOrder
    <3> HIDE DEF need, rest
    <3>9. trigger[u].kind = "StopEntryBuy" => tEscrow'[u] >= rest
      BY <3>5, <3>6, <3>7, <3>8 DEF need, rest
    <3> QED BY <3>4, <3>5, <3>9 DEF rest
  <2>4. CASE u # t /\ u # p
    BY <2>4 DEF TriggerTyped, BuysFunded, Placed, IsBuy
  <2> QED BY <2>1, <2>2, <2>3, <2>4
<1> HIDE DEF next
<1>4. \A u \in TriggerIds : trigger'[u] = next(u)
  BY <1>1
<1>5. trigger' \in [TriggerIds -> TriggerOrder \union {NoTrigger}]
  BY <1>1, <1>3
<1>6. BuysFunded'
  BY <1>3, <1>4 DEF BuysFunded, Placed, IsBuy
<1> QED BY <1>5, <1>6

(* The totals after a step. *)
AccountedNext == TotalKept(Worth(usdc', order', escrow', UsdcKind), treasury', committed',
                           pool', tEscrow')

(* The owner of a trigger is a trader. *)
LEMMA TriggerOwner == \A t \in TriggerIds : Owner(t) \in Traders
  BY TriggerAssumption DEF Owner

(* A trigger's owner pays into its escrow, or is paid out of it. *)
LEMMA OwnerKeeps ==
    ASSUME TriggerInvariant, NEW t \in TriggerIds,
           UNCHANGED <<expired, book, tokens, treasury, committed, history, vault>>,
           NEW amount \in Int,
           usdc' = [usdc EXCEPT ![Owner(t)] = @ - amount],
           usdc[Owner(t)] - amount \in Nat,
           tEscrow' \in [TriggerIds -> Nat],
           \A u \in TriggerIds \ {t} : tEscrow'[u] = tEscrow[u],
           tEscrow'[t] = tEscrow[t] + amount
    PROVE  BookMoney' /\ AccountedNext
<1>1. /\ BookMoney /\ TriggerTyped /\ Accounted
      /\ usdc \in [Traders -> Nat] /\ tokens \in [Traders -> Nat] /\ treasury \in Nat
      /\ tEscrow \in [TriggerIds -> Nat] /\ pool \in Nat
  BY DEF TriggerInvariant, BookMoney, WalletsTyped, TriggerTyped
<1>2. Owner(t) \in Traders
  BY TriggerOwner
<1>3. /\ usdc' \in [Traders -> Nat]
      /\ \A u \in Traders \ {Owner(t)} : usdc'[u] = usdc[u]
      /\ usdc'[Owner(t)] - usdc[Owner(t)] = - amount
  BY <1>1, <1>2
<1>4. /\ BookMoney' /\ SumFunction(Cash) \in Int
      /\ SumFunction(Worth(usdc', order', escrow', UsdcKind)) = SumFunction(Cash) + (- amount)
  BY <1>1, <1>2, <1>3, WalletMoves
<1>5. /\ SumFunction(tEscrow') = SumFunction(tEscrow) + amount
      /\ SumFunction(tEscrow) \in Int
  <2>1. tEscrow'[t] - tEscrow[t] = amount
    BY <1>1
  <2> QED BY <1>1, <2>1, EscrowMoves
<1>6. SumFunction(committed) \in Int
  BY <1>1, CommittedTotal
<1>7. TotalKept(Worth(usdc', order', escrow', UsdcKind), treasury, committed, pool, tEscrow')
  <2>1. SumFunction(Cash) + treasury + SumFunction(committed) + pool + SumFunction(tEscrow)
        = SumFunction(StartUsdc) + StartPool + gained
    BY <1>1 DEF Accounted, TotalKept
  <2>2. treasury \in Int /\ pool \in Int
    BY <1>1
  <2>3. (SumFunction(Cash) + (- amount)) + treasury + SumFunction(committed) + pool
        + (SumFunction(tEscrow) + amount)
        = SumFunction(Cash) + treasury + SumFunction(committed) + pool + SumFunction(tEscrow)
    BY <1>4, <1>5, <1>6, <2>2
  <2> QED BY <1>4, <1>5, <2>1, <2>3 DEF TotalKept
<1>8. treasury' = treasury /\ committed' = committed /\ pool' = pool
  BY DEF vault
<1> QED BY <1>4, <1>7, <1>8 DEF AccountedNext

(* What becomes of the invariant when the totals are kept. *)
LEMMA TriggerNext ==
    ASSUME BookMoney', TriggerTyped', BuysFunded', AccountedNext, UNCHANGED gained
    PROVE  TriggerInvariant'
  BY DEF TriggerInvariant, AccountedNext, Accounted, Cash, TotalKept

(* place_trigger *)
LEMMA PlaceTriggerKeeps ==
    ASSUME TriggerInvariant, NEW t \in TriggerIds, NEW kind \in Kinds,
           NEW quantity \in Quantities, NEW limit \in Limits,
           PlaceTrigger(t, kind, quantity, limit)
    PROVE  TriggerInvariant'
<1> DEFINE amount == IF kind = "StopEntryBuy" THEN limit * quantity ELSE 0
           r == [kind |-> kind, quantity |-> quantity,
                 max_premium |-> limit, link |-> NoTrigger]
<1>1. kind \in TriggerKind /\ quantity \in Nat /\ limit \in Nat
  BY TriggerAssumption, BookAssumption
<1>2. amount \in Nat /\ r \in TriggerOrder
  BY <1>1 DEF TriggerOrder
<1>3. r # NoTrigger
  BY <1>2, NoTriggerAssumption
<1>4. TriggerTyped /\ BookMoney /\ BuysFunded
  BY DEF TriggerInvariant
<1>5. /\ trigger[t] = NoTrigger
      /\ (kind = "StopEntryBuy" => amount <= usdc[Owner(t)])
      /\ (kind # "StopEntryBuy" => amount = 0)
      /\ usdc' = [usdc EXCEPT ![Owner(t)] = @ - amount]
      /\ tEscrow' = [tEscrow EXCEPT ![t] = amount]
      /\ trigger' = [trigger EXCEPT ![t] = r]
      /\ UNCHANGED <<expired, book, tokens, treasury, committed, history, vault>>
  BY DEF PlaceTrigger
<1>6. r.kind = "StopEntryBuy" => amount = r.max_premium * r.quantity
  OBVIOUS
<1>7. r.kind # "StopEntryBuy" => amount = 0
  OBVIOUS
<1> HIDE DEF amount, r
<1>8. usdc[Owner(t)] \in Nat
  BY <1>4, TriggerOwner DEF BookMoney, WalletsTyped
<1>9. usdc[Owner(t)] - amount \in Nat
  BY <1>2, <1>5, <1>8
<1>10. tEscrow[t] = 0
  BY <1>4, <1>5 DEF BuysFunded, Placed
<1>11. /\ tEscrow' \in [TriggerIds -> Nat]
       /\ \A u \in TriggerIds \ {t} : tEscrow'[u] = tEscrow[u] /\ trigger'[u] = trigger[u]
       /\ tEscrow'[t] = amount /\ trigger'[t] = r
  BY <1>2, <1>4, <1>5 DEF TriggerTyped
<1>12. tEscrow'[t] = tEscrow[t] + amount
  BY <1>2, <1>10, <1>11
<1>13. BookMoney' /\ AccountedNext
  <2>1. amount \in Int
    BY <1>2
  <2> QED BY <1>5, <1>9, <1>11, <1>12, <2>1, OwnerKeeps
<1>14. TriggerTyped'
  BY <1>2, <1>4, <1>5, <1>11 DEF TriggerTyped, vault
<1>15. BuysFunded'
  <2>1. ASSUME NEW u \in TriggerIds
        PROVE  IF trigger'[u] # NoTrigger /\ trigger'[u].kind = "StopEntryBuy"
               THEN tEscrow'[u] >= trigger'[u].max_premium * trigger'[u].quantity
               ELSE tEscrow'[u] = 0
    <3>1. CASE u = t
      <4>1. amount >= amount
        BY <1>2
      <4> QED BY <3>1, <1>3, <1>6, <1>7, <1>11, <4>1
    <3>2. CASE u # t
      BY <3>2, <1>4, <1>11 DEF BuysFunded, Placed, IsBuy
    <3> QED BY <3>1, <3>2
  <2> QED BY <2>1 DEF BuysFunded, Placed, IsBuy
<1> QED BY <1>5, <1>13, <1>14, <1>15, TriggerNext DEF history

(* link_oco, and an execution that skips, touch links only. *)
LEMMA LinksKeep ==
    ASSUME TriggerInvariant, UNCHANGED <<bookVars, tEscrow, vault>>,
           trigger' \in [TriggerIds -> TriggerOrder \union {NoTrigger}],
           \A u \in TriggerIds :
               /\ trigger'[u] = NoTrigger <=> trigger[u] = NoTrigger
               /\ trigger[u] # NoTrigger =>
                     /\ trigger'[u].kind = trigger[u].kind
                     /\ trigger'[u].max_premium = trigger[u].max_premium
                     /\ trigger'[u].quantity = trigger[u].quantity
    PROVE  TriggerInvariant'
<1>1. UNCHANGED <<expired, order, escrow, usdc, tokens, treasury, committed, tEscrow, pool,
                  redeemed, gained>>
  BY DEF bookVars, book, wallets, history, vault
<1>2. BookMoney'
  BY <1>1 DEF TriggerInvariant, BookMoney, WalletsTyped, AsksCovered, BookInvariant,
              BookTyped, EscrowExact, Escrowed
<1>3. TriggerTyped'
  BY <1>1 DEF TriggerInvariant, TriggerTyped
<1>4. BuysFunded'
  BY <1>1 DEF TriggerInvariant, BuysFunded, Placed, IsBuy
<1>5. AccountedNext
  BY <1>1 DEF TriggerInvariant, Accounted, AccountedNext, Cash
<1> QED BY <1>1, <1>2, <1>3, <1>4, <1>5, TriggerNext

(* link_oco *)
LEMMA LinkOcoKeeps ==
    ASSUME TriggerInvariant, NEW t \in TriggerIds, NEW p \in TriggerIds, LinkOco(t, p)
    PROVE  TriggerInvariant'
<1>1. /\ t # p /\ trigger[t] # NoTrigger /\ trigger[p] # NoTrigger
      /\ trigger' = [trigger EXCEPT ![t].link = p, ![p].link = t]
      /\ UNCHANGED <<bookVars, tEscrow, vault>>
  BY DEF LinkOco
<1>2. /\ trigger \in [TriggerIds -> TriggerOrder \union {NoTrigger}]
      /\ trigger[t] \in TriggerOrder /\ trigger[p] \in TriggerOrder
  BY <1>1 DEF TriggerInvariant, TriggerTyped
<1>3. /\ trigger'[t] = [trigger[t] EXCEPT !.link = p]
      /\ trigger'[p] = [trigger[p] EXCEPT !.link = t]
      /\ \A u \in TriggerIds \ {t, p} : trigger'[u] = trigger[u]
      /\ DOMAIN trigger' = TriggerIds /\ trigger' = [u \in TriggerIds |-> trigger'[u]]
  BY <1>1, <1>2
<1>4. \A u \in {t, p} :
          /\ trigger'[u] \in TriggerOrder
          /\ trigger'[u].kind = trigger[u].kind
          /\ trigger'[u].max_premium = trigger[u].max_premium
          /\ trigger'[u].quantity = trigger[u].quantity
  BY <1>2, <1>3 DEF TriggerOrder
<1>5. \A u \in {t, p} : trigger'[u] # NoTrigger /\ trigger[u] # NoTrigger
  BY <1>1, <1>4, NoTriggerAssumption
<1>6. trigger' \in [TriggerIds -> TriggerOrder \union {NoTrigger}]
  <2>1. \A u \in TriggerIds : trigger'[u] \in TriggerOrder \union {NoTrigger}
    BY <1>2, <1>3, <1>4
  <2> QED BY <1>3, <2>1
<1>7. \A u \in TriggerIds :
               /\ trigger'[u] = NoTrigger <=> trigger[u] = NoTrigger
               /\ trigger[u] # NoTrigger =>
                     /\ trigger'[u].kind = trigger[u].kind
                     /\ trigger'[u].max_premium = trigger[u].max_premium
                     /\ trigger'[u].quantity = trigger[u].quantity
  BY <1>3, <1>4, <1>5
<1> QED BY <1>1, <1>6, <1>7, LinksKeep

(* An execution that skips. *)
LEMMA SkippedKeeps ==
    ASSUME TriggerInvariant, NEW t \in TriggerIds, trigger[t] # NoTrigger, Skipped(t)
    PROVE  TriggerInvariant'
<1>1. /\ trigger' = [trigger EXCEPT ![t].link = NoTrigger]
      /\ UNCHANGED <<bookVars, tEscrow, vault>>
  BY DEF Skipped
<1>2. /\ trigger \in [TriggerIds -> TriggerOrder \union {NoTrigger}]
      /\ trigger[t] \in TriggerOrder
  BY DEF TriggerInvariant, TriggerTyped
<1>3. /\ trigger'[t] = [trigger[t] EXCEPT !.link = NoTrigger]
      /\ \A u \in TriggerIds \ {t} : trigger'[u] = trigger[u]
      /\ trigger' = [u \in TriggerIds |-> trigger'[u]]
  BY <1>1, <1>2
<1>4. /\ trigger'[t] \in TriggerOrder
      /\ trigger'[t].kind = trigger[t].kind
      /\ trigger'[t].max_premium = trigger[t].max_premium
      /\ trigger'[t].quantity = trigger[t].quantity
  BY <1>2, <1>3 DEF TriggerOrder
<1>5. trigger'[t] # NoTrigger
  BY <1>4, NoTriggerAssumption
<1>6. trigger' \in [TriggerIds -> TriggerOrder \union {NoTrigger}]
  <2>1. \A u \in TriggerIds : trigger'[u] \in TriggerOrder \union {NoTrigger}
    BY <1>2, <1>3, <1>4
  <2> QED BY <1>3, <2>1
<1>7. \A u \in TriggerIds :
               /\ trigger'[u] = NoTrigger <=> trigger[u] = NoTrigger
               /\ trigger[u] # NoTrigger =>
                     /\ trigger'[u].kind = trigger[u].kind
                     /\ trigger'[u].max_premium = trigger[u].max_premium
                     /\ trigger'[u].quantity = trigger[u].quantity
  BY <1>3, <1>4, <1>5
<1> QED BY <1>1, <1>6, <1>7, LinksKeep

(* cancel_trigger *)
LEMMA CancelTriggerKeeps ==
    ASSUME TriggerInvariant, NEW t \in TriggerIds, CancelTrigger(t)
    PROVE  TriggerInvariant'
<1> DEFINE p == trigger[t].link
           next(u) == IF u = t THEN NoTrigger
                      ELSE IF u = p THEN [trigger[u] EXCEPT !.link = NoTrigger]
                      ELSE trigger[u]
<1>1. /\ trigger[t] # NoTrigger /\ PeerAnswers(t)
      /\ usdc' = [usdc EXCEPT ![Owner(t)] = @ + tEscrow[t]]
      /\ tEscrow' = [tEscrow EXCEPT ![t] = 0]
      /\ trigger' = [u \in TriggerIds |-> next(u)]
      /\ UNCHANGED <<expired, book, tokens, treasury, committed, history, vault>>
  BY DEF CancelTrigger
<1>2. /\ TriggerTyped /\ BookMoney /\ BuysFunded
      /\ tEscrow[t] \in Nat /\ tEscrow \in [TriggerIds -> Nat] /\ usdc \in [Traders -> Nat]
  BY DEF TriggerInvariant, TriggerTyped, BookMoney, WalletsTyped
<1>3. /\ tEscrow' \in [TriggerIds -> Nat] /\ tEscrow'[t] = 0
      /\ \A u \in TriggerIds \ {t} : tEscrow'[u] = tEscrow[u]
  BY <1>1, <1>2
<1>4. BookMoney' /\ AccountedNext
  <2>1. PICK amount \in Int : amount = - tEscrow[t]
    BY <1>2
  <2>2. Owner(t) \in Traders /\ usdc[Owner(t)] \in Nat
    BY <1>2, TriggerOwner
  <2>3. usdc[Owner(t)] + tEscrow[t] = usdc[Owner(t)] - amount
        /\ usdc[Owner(t)] - amount \in Nat
        /\ tEscrow'[t] = tEscrow[t] + amount
    BY <1>2, <1>3, <2>1, <2>2
  <2>4. usdc' = [usdc EXCEPT ![Owner(t)] = @ - amount]
    BY <1>1, <2>3
  <2> QED BY <1>1, <1>3, <2>3, <2>4, OwnerKeeps
<1>5. ASSUME NEW u \in TriggerIds
      PROVE  /\ next(u) \in TriggerOrder \union {NoTrigger}
             /\ IF next(u) # NoTrigger /\ next(u).kind = "StopEntryBuy"
                THEN tEscrow'[u] >= next(u).max_premium * next(u).quantity
                ELSE tEscrow'[u] = 0
  <2>1. CASE u = t
    BY <2>1, <1>3
  <2>2. CASE u # t /\ u = p
    <3>1. trigger[u] \in TriggerOrder /\ trigger[u] # NoTrigger
      BY <1>1, <1>2, <2>2, TriggerAssumption DEF PeerAnswers, TriggerTyped
    <3>2. next(u) = [trigger[u] EXCEPT !.link = NoTrigger]
      BY <2>2
    <3> HIDE DEF next
    <3>3. next(u) \in TriggerOrder /\ next(u) # NoTrigger
          /\ next(u).kind = trigger[u].kind /\ next(u).quantity = trigger[u].quantity
          /\ next(u).max_premium = trigger[u].max_premium
      BY <3>1, <3>2, NoTriggerAssumption DEF TriggerOrder
    <3> QED BY <1>2, <1>3, <2>2, <3>1, <3>3 DEF BuysFunded, Placed, IsBuy
  <2>3. CASE u # t /\ u # p
    BY <2>3, <1>2, <1>3 DEF TriggerTyped, BuysFunded, Placed, IsBuy
  <2> QED BY <2>1, <2>2, <2>3
<1> HIDE DEF next
<1>6. \A u \in TriggerIds : trigger'[u] = next(u)
  BY <1>1
<1>7. TriggerTyped'
  BY <1>1, <1>2, <1>3, <1>5 DEF TriggerTyped, vault
<1>8. BuysFunded'
  BY <1>5, <1>6 DEF BuysFunded, Placed, IsBuy
<1> QED BY <1>1, <1>4, <1>7, <1>8, TriggerNext DEF history

(* An armed buy. *)
LEMMA BuyIs ==
    ASSUME TriggerInvariant, NEW t \in TriggerIds, trigger[t] # NoTrigger, IsBuy(t)
    PROVE  /\ trigger[t] \in TriggerOrder
           /\ trigger[t].quantity \in Nat /\ trigger[t].max_premium \in Nat
           /\ tEscrow[t] \in Nat /\ tEscrow \in [TriggerIds -> Nat]
           /\ tEscrow[t] >= trigger[t].max_premium * trigger[t].quantity
<1>1. trigger[t] \in TriggerOrder /\ tEscrow[t] \in Nat /\ tEscrow \in [TriggerIds -> Nat]
  BY DEF TriggerInvariant, TriggerTyped
<1>2. tEscrow[t] >= trigger[t].max_premium * trigger[t].quantity
  BY DEF TriggerInvariant, BuysFunded, Placed
<1> QED BY <1>1, <1>2 DEF TriggerOrder

(* What a buy spends and is returned leaves its escrow; the ceiling of what *)
(* it has left stays there.                                                 *)
LEMMA SpendKeeps ==
    ASSUME TriggerInvariant, NEW t \in TriggerIds, trigger[t] # NoTrigger, IsBuy(t),
           NEW quantity \in Nat \ {0}, quantity <= trigger[t].quantity,
           NEW paid \in Nat, paid <= trigger[t].max_premium * quantity,
           SpendEscrow(t, quantity, paid), Fired(t, quantity)
    PROVE  /\ Refund(t, quantity, paid) \in Nat
           /\ Repaid(t, quantity, paid) \in [Traders -> Nat]
           /\ tEscrow' \in [TriggerIds -> Nat]
           /\ \A u \in TriggerIds \ {t} : tEscrow'[u] = tEscrow[u]
           /\ tEscrow'[t] - tEscrow[t] = - (paid + Refund(t, quantity, paid))
           /\ SumFunction(tEscrow) \in Int
           /\ SumFunction(tEscrow')
                = SumFunction(tEscrow) + (- (paid + Refund(t, quantity, paid)))
           /\ trigger' \in [TriggerIds -> TriggerOrder \union {NoTrigger}]
           /\ BuysFunded'
<1> DEFINE refund == Refund(t, quantity, paid)
           n == trigger[t].quantity
           m == trigger[t].max_premium
<1>1. /\ n \in Nat /\ m \in Nat /\ tEscrow[t] \in Nat /\ tEscrow \in [TriggerIds -> Nat]
      /\ tEscrow[t] >= m * n
  BY BuyIs
<1>2. /\ paid <= tEscrow[t]
      /\ tEscrow' = [tEscrow EXCEPT ![t] = IF quantity = n THEN 0 ELSE tEscrow[t] - paid]
  BY DEF SpendEscrow
<1>3. refund = IF quantity = n THEN tEscrow[t] - paid ELSE 0
  BY DEF Refund
<1> HIDE DEF n, m, refund
<1>4. refund \in Nat
  BY <1>1, <1>2, <1>3
<1>5. /\ tEscrow' \in [TriggerIds -> Nat]
      /\ \A u \in TriggerIds \ {t} : tEscrow'[u] = tEscrow[u]
      /\ tEscrow'[t] = IF quantity = n THEN 0 ELSE tEscrow[t] - paid
  BY <1>1, <1>2
<1>6. tEscrow'[t] - tEscrow[t] = - (paid + refund)
  BY <1>1, <1>2, <1>3, <1>5
<1>7. /\ SumFunction(tEscrow') = SumFunction(tEscrow) + (- (paid + refund))
      /\ SumFunction(tEscrow) \in Int
  BY <1>5, <1>6, EscrowMoves DEF TriggerInvariant
<1>8. m * n - m * quantity = m * (n - quantity) /\ m * (n - quantity) \in Nat
      /\ m * n \in Nat /\ m * quantity \in Nat
  <2>1. n - quantity \in Nat
    BY <1>1 DEF n
  <2> QED BY <1>1, <2>1
<1>9. tEscrow[t] - paid >= m * (n - quantity)
  <2> DEFINE mn == m * n
             mq == m * quantity
             ml == m * (n - quantity)
  <2>1. mn \in Nat /\ mq \in Nat /\ ml \in Nat /\ mn - mq = ml
    BY <1>8
  <2>2. tEscrow[t] >= mn /\ paid <= mq
    BY <1>1 DEF m
  <2> HIDE DEF mn, mq, ml
  <2>3. tEscrow[t] - paid >= ml
    BY <1>1, <2>1, <2>2
  <2> QED BY <2>3 DEF ml
<1>10. IF quantity = trigger[t].quantity \/ ~IsBuy(t)
       THEN tEscrow'[t] = 0
       ELSE tEscrow'[t] >= trigger[t].max_premium * (trigger[t].quantity - quantity)
  BY <1>5, <1>9 DEF n, m
<1>11. /\ trigger' \in [TriggerIds -> TriggerOrder \union {NoTrigger}]
       /\ BuysFunded'
  BY <1>5, <1>10, FiredKeeps DEF TriggerInvariant
<1>12. Repaid(t, quantity, paid) \in [Traders -> Nat]
  <2>1. usdc \in [Traders -> Nat] /\ Owner(t) \in Traders
    BY TriggerOwner DEF TriggerInvariant, BookMoney, WalletsTyped
  <2>2. Repaid(t, quantity, paid) = [usdc EXCEPT ![Owner(t)] = @ + refund]
    BY DEF Repaid, refund
  <2> QED BY <1>4, <2>1, <2>2
<1> QED BY <1>4, <1>5, <1>6, <1>7, <1>11, <1>12 DEF refund

(* A fill costs no more than the ceiling for what it buys. *)
LEMMA WithinCeiling ==
    ASSUME NEW price \in Nat, NEW ceiling \in Nat, price <= ceiling, NEW n \in Nat
    PROVE  n * price \in Nat /\ n * price <= ceiling * n
  OBVIOUS

(* A trigger buys from the book: its owner is returned the refund, and the  *)
(* maker is paid out of the trigger's escrow.                               *)
LEMMA BuyFromBookKeeps ==
    ASSUME TriggerInvariant, NEW t \in TriggerIds, NEW o \in OrderIds, BuyFromBook(t, o)
    PROVE  TriggerInvariant'
<1> DEFINE quantity == Smaller(trigger[t].quantity, order[o].quantity)
           total == TotalOf(o, quantity)
           paid == Repaid(t, quantity, total)
           refund == Refund(t, quantity, total)
           fee == FeeOf(o, quantity)
           share == ShareOf(o, quantity)
           locked == Locked(o, quantity)
           a == Owner(t)
           b == Owner(o)
           cash2 == Worth(usdc', order', escrow', UsdcKind)
<1>1. /\ trigger[t] # NoTrigger /\ IsBuy(t) /\ order[o] # NoOrder
      /\ order[o].price <= trigger[t].max_premium
      /\ quantity > 0 /\ SpendEscrow(t, quantity, total) /\ Fired(t, quantity)
      /\ ~expired
      /\ UNCHANGED <<expired, history, vault>>
      /\ \/ order[o].kind \in ResaleKind /\ ResaleAskFillCore(o, quantity, a, paid)
         \/ order[o].kind = "WriterAsk" /\ WriterAskFillCore(o, quantity, a, paid)
  BY DEF BuyFromBook, AskWithinCeiling, ResaleKind
<1>2. BookMoney /\ TriggerTyped /\ Accounted
      /\ committed \in [Traders -> Nat] /\ treasury \in Nat /\ pool \in Nat
      /\ usdc \in [Traders -> Nat]
  BY DEF TriggerInvariant, BookMoney, WalletsTyped, TriggerTyped
<1>3. order[o] \in RestingOrder
  BY <1>1, <1>2 DEF BookMoney, BookInvariant, BookTyped
<1>4. trigger[t].quantity \in Nat /\ trigger[t].max_premium \in Nat
  BY <1>1, BuyIs
<1>5. order[o].price \in Nat /\ order[o].quantity \in Nat
  BY <1>3 DEF RestingOrder
<1>6. quantity \in Nat \ {0} /\ quantity <= trigger[t].quantity /\ quantity <= order[o].quantity
  BY <1>1, <1>4, <1>5 DEF Smaller
<1> HIDE DEF quantity
<1>7. total \in Nat /\ total <= trigger[t].max_premium * quantity
  BY <1>1, <1>4, <1>5, <1>6, WithinCeiling DEF TotalOf
<1>8. fee \in Nat /\ share \in Nat /\ share = total - fee
  BY <1>3, <1>6, SplitNat
<1> HIDE DEF total
<1>9. /\ refund \in Nat /\ paid \in [Traders -> Nat]
      /\ tEscrow' \in [TriggerIds -> Nat] /\ SumFunction(tEscrow) \in Int
      /\ SumFunction(tEscrow') = SumFunction(tEscrow) + (- (total + refund))
      /\ trigger' \in [TriggerIds -> TriggerOrder \union {NoTrigger}]
      /\ BuysFunded'
  BY <1>1, <1>6, <1>7, SpendKeeps
<1>10. a \in Traders /\ b \in Traders
  BY TriggerOwner, OwnerTrades
<1>11. paid = [usdc EXCEPT ![a] = @ + refund]
  BY DEF Repaid
<1> HIDE DEF paid, refund
<1>12. /\ BookMoney'
       /\ treasury' = treasury + fee
       /\ committed' = [committed EXCEPT ![b] = @ + locked]
       /\ locked \in Nat
       /\ \A u \in Traders : cash2[u] = Worth(paid, order, escrow, UsdcKind)[u]
                                        + (IF u = b THEN share - locked ELSE 0)
  BY <1>1, <1>2, <1>6, <1>9, <1>10, AskMoves
<1>13. Cash \in [Traders -> Int] /\ cash2 \in [Traders -> Int]
  BY <1>2, <1>12, WorthTyped, WorthTypedNext
<1> HIDE DEF fee, share, locked, a, b, cash2
<1>14. \A u \in Traders : cash2[u] = Cash[u] + (IF u = a THEN refund ELSE 0)
                                     + (IF u = b THEN share - locked ELSE 0)
  <2> SUFFICES ASSUME NEW u \in Traders
               PROVE  Worth(paid, order, escrow, UsdcKind)[u]
                        = Cash[u] + (IF u = a THEN refund ELSE 0)
    BY <1>12
  <2>1. usdc[u] \in Nat /\ paid[u] = usdc[u] + (IF u = a THEN refund ELSE 0)
    BY <1>2, <1>9, <1>11
  <2>2. Waiting(order, escrow, UsdcKind, u) \in Nat
    BY <1>2, WaitingTotal DEF BookMoney, BookInvariant, BookTyped
  <2>3. /\ Worth(paid, order, escrow, UsdcKind)[u] = paid[u] + Waiting(order, escrow, UsdcKind, u)
        /\ Cash[u] = usdc[u] + Waiting(order, escrow, UsdcKind, u)
    BY DEF Worth, Cash
  <2> QED BY <1>9, <2>1, <2>2, <2>3
<1>15. SumFunction(cash2) = SumFunction(Cash) + refund + (share - locked)
       /\ SumFunction(Cash) \in Int
  <2>1. PICK n \in Int : n = share - locked
    BY <1>8, <1>12
  <2>2. \A u \in Traders : cash2[u] = Cash[u] + At(a, refund)[u] + At(b, n)[u]
    BY <1>14, <2>1 DEF At
  <2> DEFINE p == At(a, refund)
             q == At(b, n)
  <2>3. /\ p \in [Traders -> Int] /\ SumFunction(p) = refund
        /\ q \in [Traders -> Int] /\ SumFunction(q) = n
    BY <1>9, <1>10, TotalAt
  <2>4. \A u \in Traders : cash2[u] = Cash[u] + p[u] + q[u]
    BY <2>2
  <2> HIDE DEF p, q
  <2>5. SumFunction(cash2) = SumFunction(Cash) + SumFunction(p) + SumFunction(q)
    BY <1>13, <2>3, <2>4, TotalAddTwo
  <2> QED BY <1>13, <2>1, <2>3, <2>5, TotalInt, FiniteAssumption
<1>16. SumFunction(committed') = SumFunction(committed) + locked
       /\ SumFunction(committed) \in Int
  <2> DEFINE f == committed
             g == committed'
  <2>1. /\ f \in [Traders -> Int] /\ g \in [Traders -> Int]
        /\ (\A u \in Traders \ {b} : g[u] = f[u]) /\ g[b] - f[b] = locked
    BY <1>2, <1>10, <1>12
  <2> HIDE DEF f, g
  <2>2. SumFunction(g) = SumFunction(f) + (g[b] - f[b])
    BY <1>10, <2>1, TotalChange, FiniteAssumption
  <2>3. SumFunction(f) \in Int
    BY <2>1, TotalInt, FiniteAssumption
  <2> QED BY <2>1, <2>2, <2>3 DEF f, g
<1>17. PICK x \in Int, y \in Int :
          x = refund + (share - locked) /\ y = - (total + refund)
  BY <1>7, <1>8, <1>9, <1>12
<1>18. x + fee + locked + 0 + y = 0
  BY <1>7, <1>8, <1>9, <1>12, <1>17
<1>19. SumFunction(cash2) = SumFunction(Cash) + x /\ SumFunction(tEscrow') = SumFunction(tEscrow) + y
  BY <1>7, <1>8, <1>9, <1>12, <1>15, <1>17
<1>20. TotalKept(cash2, treasury + fee, committed', pool + 0, tEscrow')
  <2>1. /\ Accounted /\ treasury \in Int /\ pool \in Int /\ fee \in Int /\ locked \in Int
        /\ SumFunction(Cash) \in Int /\ SumFunction(committed) \in Int
        /\ SumFunction(tEscrow) \in Int /\ 0 \in Int
    BY <1>2, <1>8, <1>9, <1>12, <1>15, <1>16
  <2> QED BY ONLY <2>1, <1>16, <1>18, <1>19, x \in Int, y \in Int DEF Accounted, TotalKept
<1>21. AccountedNext
  <2>1. pool' = pool + 0
    BY <1>1, <1>2 DEF vault
  <2> QED BY <1>12, <1>20, <2>1 DEF AccountedNext, cash2
<1>22. TriggerTyped'
  <2>1. pool' = pool
    BY <1>1 DEF vault
  <2> QED BY <1>2, <1>9, <2>1 DEF TriggerTyped
<1> QED BY <1>1, <1>9, <1>12, <1>21, <1>22, TriggerNext DEF history

(* A trigger buys from the vault: its account is paid out of the trigger's  *)
(* escrow.                                                                  *)
LEMMA BuyFromVaultKeeps ==
    ASSUME TriggerInvariant, NEW t \in TriggerIds, NEW premium \in Prices,
           BuyFromVault(t, premium)
    PROVE  TriggerInvariant'
<1> DEFINE quantity == trigger[t].quantity
           total == quantity * premium
           fee == Fee(total, FeeBps)
           refund == Refund(t, quantity, total)
           w == Owner(t)
<1>1. /\ trigger[t] # NoTrigger /\ IsBuy(t) /\ quantity > 0
      /\ total <= trigger[t].max_premium * quantity
      /\ SpendEscrow(t, quantity, total) /\ Fired(t, quantity)
      /\ usdc' = Repaid(t, quantity, total)
      /\ treasury' = treasury + fee
      /\ pool' = pool + (total - fee)
      /\ tokens' = [tokens EXCEPT ![w] = @ + quantity]
      /\ UNCHANGED <<expired, book, committed, history>>
  BY DEF BuyFromVault
<1>2. BookMoney /\ TriggerTyped /\ Accounted
      /\ committed \in [Traders -> Nat] /\ treasury \in Nat /\ pool \in Nat
      /\ usdc \in [Traders -> Nat] /\ tokens \in [Traders -> Nat]
  BY DEF TriggerInvariant, BookMoney, WalletsTyped, TriggerTyped
<1>3. quantity \in Nat \ {0} /\ quantity <= trigger[t].quantity
  <2>1. quantity \in Nat
    BY <1>1, BuyIs
  <2> QED BY <1>1, <2>1
<1>4. premium \in Nat
  BY BookAssumption
<1> HIDE DEF quantity
<1>5. total \in Nat
  BY <1>3, <1>4
<1> HIDE DEF total
<1>6. fee \in Nat /\ fee <= total
  BY <1>5, FeeWithin
<1> HIDE DEF fee
<1>7. /\ refund \in Nat /\ Repaid(t, quantity, total) \in [Traders -> Nat]
      /\ tEscrow' \in [TriggerIds -> Nat] /\ SumFunction(tEscrow) \in Int
      /\ SumFunction(tEscrow') = SumFunction(tEscrow) + (- (total + refund))
      /\ trigger' \in [TriggerIds -> TriggerOrder \union {NoTrigger}]
      /\ BuysFunded'
  BY <1>1, <1>3, <1>5, SpendKeeps
<1>8. w \in Traders
  BY TriggerOwner
<1>9. usdc' = [usdc EXCEPT ![w] = @ + refund]
  BY <1>1 DEF Repaid
<1> HIDE DEF refund, w
<1>10. /\ usdc' \in [Traders -> Nat] /\ tokens' \in [Traders -> Nat]
       /\ treasury' \in Nat /\ pool' \in Nat
       /\ \A u \in Traders \ {w} : usdc'[u] = usdc[u]
       /\ usdc'[w] - usdc[w] = refund
  BY <1>1, <1>2, <1>3, <1>5, <1>6, <1>7, <1>8, <1>9
<1>11. /\ BookMoney' /\ SumFunction(Cash) \in Int
       /\ SumFunction(Worth(usdc', order', escrow', UsdcKind)) = SumFunction(Cash) + refund
  BY <1>1, <1>2, <1>8, <1>10, WalletMoves
<1>12. SumFunction(committed) \in Int /\ SumFunction(committed) = SumFunction(committed) + 0
  BY <1>2, CommittedTotal
<1>13. PICK d \in Int, y \in Int : d = total - fee /\ y = - (total + refund)
  BY <1>5, <1>6, <1>7
<1>14. refund + fee + 0 + d + y = 0
  BY <1>5, <1>6, <1>7, <1>13
<1>15. TotalKept(Worth(usdc', order', escrow', UsdcKind), treasury + fee, committed,
                 pool + d, tEscrow')
  <2>1. /\ Accounted /\ treasury \in Int /\ pool \in Int /\ fee \in Int
        /\ SumFunction(Cash) \in Int /\ SumFunction(committed) \in Int
        /\ SumFunction(tEscrow) \in Int /\ refund \in Int
    BY <1>2, <1>6, <1>7, <1>11, <1>12
  <2>2. SumFunction(tEscrow') = SumFunction(tEscrow) + y
    BY <1>7, <1>13
  <2> QED BY ONLY <2>1, <2>2, <1>11, <1>14, d \in Int, y \in Int DEF Accounted, TotalKept
<1>16. AccountedNext
  BY <1>1, <1>13, <1>15 DEF AccountedNext
<1>17. TriggerTyped'
  BY <1>7, <1>10 DEF TriggerTyped
<1> QED BY <1>1, <1>7, <1>11, <1>16, <1>17, TriggerNext DEF history

(* What fires of a sell comes off it, and no trigger's escrow is touched. *)
LEMMA SellFires ==
    ASSUME TriggerInvariant, NEW t \in TriggerIds, trigger[t] # NoTrigger, ~IsBuy(t),
           NEW quantity \in Nat \ {0}, quantity <= trigger[t].quantity,
           Fired(t, quantity), UNCHANGED tEscrow
    PROVE  /\ trigger' \in [TriggerIds -> TriggerOrder \union {NoTrigger}]
           /\ BuysFunded'
           /\ SumFunction(tEscrow) \in Int
<1>1. tEscrow \in [TriggerIds -> Nat] /\ tEscrow[t] = 0
  BY DEF TriggerInvariant, TriggerTyped, BuysFunded
<1>2. /\ tEscrow' \in [TriggerIds -> Nat] /\ tEscrow'[t] = 0
      /\ \A u \in TriggerIds \ {t} : tEscrow'[u] = tEscrow[u]
  BY <1>1
<1>3. SumFunction(tEscrow) \in Int
  BY <1>2, EscrowMoves DEF TriggerInvariant
<1> QED BY <1>2, <1>3, FiredKeeps DEF TriggerInvariant

(* A trigger sells to a bid: its owner is the seller. *)
LEMMA SellToBookKeeps ==
    ASSUME TriggerInvariant, NEW t \in TriggerIds, NEW o \in OrderIds, SellToBook(t, o)
    PROVE  TriggerInvariant'
<1> DEFINE quantity == Smaller(Smaller(trigger[t].quantity, order[o].quantity),
                               tokens[Owner(t)])
           total == TotalOf(o, quantity)
           fee == FeeOf(o, quantity)
           share == ShareOf(o, quantity)
           a == Owner(o)
           b == Owner(t)
           cash2 == Worth(usdc', order', escrow', UsdcKind)
<1>1. /\ trigger[t] # NoTrigger /\ ~IsBuy(t) /\ order[o] # NoOrder /\ order[o].kind = "Bid"
      /\ quantity > 0 /\ BidFillCore(o, quantity, b) /\ Fired(t, quantity)
      /\ ~expired
      /\ UNCHANGED <<expired, history, tEscrow, vault>>
  BY DEF SellToBook, BidAboveFloor
<1>2. BookMoney /\ TriggerTyped /\ Accounted
      /\ committed \in [Traders -> Nat] /\ treasury \in Nat /\ pool \in Nat
      /\ tokens \in [Traders -> Nat] /\ tEscrow \in [TriggerIds -> Nat]
  BY DEF TriggerInvariant, BookMoney, WalletsTyped, TriggerTyped
<1>3. order[o] \in RestingOrder /\ trigger[t] \in TriggerOrder
  BY <1>1, <1>2 DEF BookMoney, BookInvariant, BookTyped, TriggerTyped
<1>4. a \in Traders /\ b \in Traders
  BY TriggerOwner, OwnerTrades
<1>5. order[o].quantity \in Nat /\ trigger[t].quantity \in Nat /\ tokens[b] \in Nat
  BY <1>2, <1>3, <1>4 DEF RestingOrder, TriggerOrder
<1>6. quantity \in Nat \ {0} /\ quantity <= trigger[t].quantity /\ quantity <= order[o].quantity
  BY <1>1, <1>5 DEF Smaller
<1> HIDE DEF quantity
<1>7. fee \in Nat /\ share \in Nat /\ share = total - fee /\ total \in Nat
  BY <1>3, <1>6, SplitNat
<1>8. /\ trigger' \in [TriggerIds -> TriggerOrder \union {NoTrigger}]
      /\ BuysFunded'
      /\ SumFunction(tEscrow) \in Int
  BY <1>1, <1>6, SellFires
<1>9. /\ BookMoney' /\ treasury' = treasury + fee /\ UNCHANGED committed
      /\ \A u \in Traders : cash2[u] = Cash[u] + (IF u = a THEN - total ELSE 0)
                                       + (IF u = b THEN share ELSE 0)
  BY <1>1, <1>2, <1>4, <1>6, BidMoves
<1>10. Cash \in [Traders -> Int] /\ cash2 \in [Traders -> Int]
  BY <1>2, <1>9, WorthTyped, WorthTypedNext
<1> HIDE DEF total, fee, share, a, b, cash2
<1>11. PICK m \in Int : m = - total
  BY <1>7
<1>12. SumFunction(cash2) = SumFunction(Cash) + m + share
       /\ SumFunction(Cash) \in Int
  <2>1. \A u \in Traders : cash2[u] = Cash[u] + At(a, m)[u] + At(b, share)[u]
    BY <1>9, <1>11 DEF At
  <2> DEFINE p == At(a, m)
             q == At(b, share)
  <2>2. /\ p \in [Traders -> Int] /\ SumFunction(p) = m
        /\ q \in [Traders -> Int] /\ SumFunction(q) = share
    BY <1>4, <1>7, TotalAt
  <2>3. \A u \in Traders : cash2[u] = Cash[u] + p[u] + q[u]
    BY <2>1
  <2> HIDE DEF p, q
  <2>4. SumFunction(cash2) = SumFunction(Cash) + SumFunction(p) + SumFunction(q)
    BY <1>10, <2>2, <2>3, TotalAddTwo
  <2> QED BY <1>10, <2>2, <2>4, TotalInt, FiniteAssumption
<1>13. SumFunction(committed) \in Int
  BY <1>2, CommittedTotal
<1>14. m + share + fee = 0
  BY <1>7, <1>11
<1>15. TotalKept(cash2, treasury + fee, committed, pool, tEscrow)
  <2>1. /\ Accounted /\ treasury \in Int /\ pool \in Int /\ fee \in Int /\ share \in Int
        /\ SumFunction(Cash) \in Int /\ SumFunction(committed) \in Int
        /\ SumFunction(tEscrow) \in Int
    BY <1>2, <1>7, <1>8, <1>12, <1>13
  <2> QED BY ONLY <2>1, <1>12, <1>14, m \in Int DEF Accounted, TotalKept
<1>16. AccountedNext
  BY <1>1, <1>9, <1>15 DEF AccountedNext, cash2, vault
<1>17. TriggerTyped'
  BY <1>1, <1>2, <1>8 DEF TriggerTyped, vault
<1> QED BY <1>1, <1>8, <1>9, <1>16, <1>17, TriggerNext DEF history

(* A trigger exercises: the vault's account pays its owner. *)
LEMMA ExerciseTriggerKeeps ==
    ASSUME TriggerInvariant, NEW t \in TriggerIds, NEW intrinsic \in Payoffs,
           ExerciseTrigger(t, intrinsic)
    PROVE  TriggerInvariant'
<1> DEFINE quantity == Smaller(trigger[t].quantity, tokens[Owner(t)])
           payout == quantity * intrinsic
           w == Owner(t)
<1>1. /\ trigger[t] # NoTrigger /\ ~IsBuy(t) /\ quantity > 0
      /\ payout <= pool /\ pool' = pool - payout
      /\ usdc' = [usdc EXCEPT ![w] = @ + payout]
      /\ tokens' = [tokens EXCEPT ![w] = @ - quantity]
      /\ Fired(t, quantity)
      /\ UNCHANGED <<expired, book, treasury, committed, history, tEscrow>>
  BY DEF ExerciseTrigger, IsBuy
<1>2. BookMoney /\ TriggerTyped /\ Accounted
      /\ committed \in [Traders -> Nat] /\ treasury \in Nat /\ pool \in Nat
      /\ usdc \in [Traders -> Nat] /\ tokens \in [Traders -> Nat]
      /\ tEscrow \in [TriggerIds -> Nat]
  BY DEF TriggerInvariant, BookMoney, WalletsTyped, TriggerTyped
<1>3. w \in Traders
  BY TriggerOwner
<1>4. trigger[t].quantity \in Nat /\ tokens[w] \in Nat
  BY <1>1, <1>2, <1>3 DEF TriggerTyped, TriggerOrder
<1>5. quantity \in Nat \ {0} /\ quantity <= trigger[t].quantity /\ quantity <= tokens[w]
  BY <1>1, <1>4 DEF Smaller
<1>6. intrinsic \in Nat
  BY TriggerAssumption
<1> HIDE DEF quantity
<1>7. payout \in Nat
  BY <1>5, <1>6
<1> HIDE DEF payout, w
<1>8. /\ trigger' \in [TriggerIds -> TriggerOrder \union {NoTrigger}]
      /\ BuysFunded'
      /\ SumFunction(tEscrow) \in Int
  BY <1>1, <1>5, SellFires
<1>9. tokens[w] - quantity \in Nat
  BY <1>4, <1>5
<1>10. /\ usdc' \in [Traders -> Nat] /\ tokens' \in [Traders -> Nat]
       /\ treasury' \in Nat /\ pool' \in Nat
       /\ \A u \in Traders \ {w} : usdc'[u] = usdc[u]
       /\ usdc'[w] - usdc[w] = payout
  BY <1>1, <1>2, <1>3, <1>7, <1>9
<1>11. /\ BookMoney' /\ SumFunction(Cash) \in Int
       /\ SumFunction(Worth(usdc', order', escrow', UsdcKind)) = SumFunction(Cash) + payout
  BY <1>1, <1>2, <1>3, <1>10, WalletMoves
<1>12. SumFunction(committed) \in Int
  BY <1>2, CommittedTotal
<1>13. TotalKept(Worth(usdc', order', escrow', UsdcKind), treasury, committed, pool - payout,
                 tEscrow)
  <2>1. /\ Accounted /\ treasury \in Int /\ pool \in Int /\ payout \in Int
        /\ SumFunction(Cash) \in Int /\ SumFunction(committed) \in Int
        /\ SumFunction(tEscrow) \in Int
    BY <1>2, <1>7, <1>8, <1>11, <1>12
  <2> QED BY ONLY <2>1, <1>11 DEF Accounted, TotalKept
<1>14. AccountedNext
  BY <1>1, <1>13 DEF AccountedNext
<1>15. TriggerTyped'
  BY <1>1, <1>2, <1>8, <1>10 DEF TriggerTyped
<1> QED BY <1>1, <1>8, <1>11, <1>14, <1>15, TriggerNext DEF history

(* A step of the book alone. *)
LEMMA BookKeeps ==
    ASSUME TriggerInvariant, [TradeStep]_bookVars, UNCHANGED <<triggers, vault>>
    PROVE  TriggerInvariant'
<1>1. /\ BookMoney /\ TriggerTyped /\ BuysFunded /\ Accounted
      /\ UNCHANGED <<trigger, tEscrow, pool>>
      /\ treasury \in Nat /\ pool \in Nat
  BY DEF TriggerInvariant, triggers, vault, BookMoney, WalletsTyped, TriggerTyped
<1>2. SumFunction(Cash) \in Int /\ SumFunction(Held) \in Int
  BY <1>1, WorthTyped, TotalInt, FiniteAssumption
<1>3. SumFunction(committed) \in Int
  BY <1>1, CommittedTotal
<1>4. SumFunction(tEscrow) \in Int
  <2>1. tEscrow \in [TriggerIds -> Int]
    BY <1>1 DEF TriggerTyped
  <2> QED BY <2>1, TotalInt, FiniteTriggers
<1>5. PICK u \in Int : u = SumFunction(Cash) + treasury + SumFunction(committed)
  BY <1>1, <1>2, <1>3
<1>6. PICK k \in Int : CollateralPerContract(Strike) * SumFunction(Held)
                         = k + SumFunction(committed)
  <2> DEFINE p == CollateralPerContract(Strike) * SumFunction(Held)
  <2>1. CollateralPerContract(Strike) \in Int
    BY BookAssumption DEF CollateralPerContract
  <2>2. p \in Int
    BY <1>2, <2>1
  <2> HIDE DEF p
  <2>3. PICK k \in Int : k = p - SumFunction(committed)
    BY <1>3, <2>2
  <2>4. p = k + SumFunction(committed)
    BY <1>3, <2>2, <2>3
  <2> QED BY <2>4 DEF p
<1>7. KeptBefore(u, k)
  BY <1>5, <1>6 DEF KeptBefore, Kept
<1>8. BookMoney' /\ KeptAfter(u, k)
  BY <1>1, <1>7, BookConserves
<1>9. SumFunction(Worth(usdc', order', escrow', UsdcKind)) + treasury' + SumFunction(committed')
        = SumFunction(Cash) + treasury + SumFunction(committed)
  BY <1>5, <1>8 DEF KeptAfter, Kept
<1>10. AccountedNext
  BY <1>1, <1>9 DEF AccountedNext, Accounted, TotalKept
<1>11. TriggerTyped' /\ BuysFunded'
  BY <1>1 DEF TriggerTyped, BuysFunded, Placed, IsBuy
<1>12. UNCHANGED gained
  BY HistoryStays DEF history
<1> QED BY <1>8, <1>10, <1>11, <1>12, TriggerNext

(* A buy that is paid for stays funded. *)
LEMMA PaidFunded ==
    ASSUME TriggerTyped, BuysFunded,
           NEW t \in TriggerIds, trigger[t] # NoTrigger, IsBuy(t), NEW payout \in Nat,
           trigger' = trigger, tEscrow'[t] = tEscrow[t] + payout,
           \A v \in TriggerIds \ {t} : tEscrow'[v] = tEscrow[v]
    PROVE  BuysFunded'
<1>1. trigger[t] \in TriggerOrder /\ tEscrow[t] \in Nat
  BY DEF TriggerTyped
<1>2. PICK need \in Int : need = trigger[t].max_premium * trigger[t].quantity
  BY <1>1 DEF TriggerOrder
<1>3. tEscrow[t] >= need
  BY <1>2 DEF BuysFunded, Placed
<1>4. tEscrow'[t] >= need
  BY <1>1, <1>3
<1>5. ASSUME NEW v \in TriggerIds
      PROVE  IF trigger[v] # NoTrigger /\ trigger[v].kind = "StopEntryBuy"
             THEN tEscrow'[v] >= trigger[v].max_premium * trigger[v].quantity
             ELSE tEscrow'[v] = 0
  <2>1. CASE v = t
    BY <1>2, <1>4, <2>1 DEF IsBuy
  <2>2. CASE v # t
    BY <2>2 DEF BuysFunded, Placed, IsBuy
  <2> QED BY <2>1, <2>2
<1> QED BY <1>5 DEF BuysFunded, Placed, IsBuy

(* What the vault pays for burned tokens: the pool is poorer by it, and the *)
(* treasury, a trader's escrow or the escrow of a buy richer.               *)
LEMMA FinalizeKeeps ==
    ASSUME TriggerInvariant, VaultFinalizes
    PROVE  TriggerInvariant'
<1>1. PICK o \in OrderIds, payout \in Payouts :
        /\ payout <= pool
        /\ \/ FinalizeEscrow(o, payout) /\ UNCHANGED triggers
           \/ \E t \in TriggerIds : FinalizeInto(o, payout, t)
        /\ pool' = pool - payout
        /\ UNCHANGED issued
  BY DEF VaultFinalizes
<1>2. /\ BookMoney /\ TriggerTyped /\ BuysFunded /\ Accounted
      /\ treasury \in Nat /\ pool \in Nat /\ payout \in Nat
      /\ tEscrow \in [TriggerIds -> Nat]
  BY BookAssumption DEF TriggerInvariant, BookMoney, WalletsTyped, TriggerTyped
<1>0. UNCHANGED gained
  BY <1>1 DEF FinalizeEscrow, FinalizeInto, BurnEscrow
<1>3. pool' \in Nat
  BY <1>1, <1>2
<1>4. SumFunction(Cash) \in Int /\ SumFunction(committed) \in Int
  BY <1>2, WorthTyped, TotalInt, CommittedTotal, FiniteAssumption
<1>5. SumFunction(tEscrow) \in Int
  <2>1. tEscrow \in [TriggerIds -> Int]
    BY <1>2
  <2> QED BY <2>1, TotalInt, FiniteTriggers
<1> PICK u \in Int, b \in Int, w \in Int, k \in Int :
           u = SumFunction(Cash) /\ b = SumFunction(committed) /\ w = SumFunction(tEscrow)
           /\ k = payout
  BY <1>2, <1>4, <1>5
<1>6. CASE FinalizeEscrow(o, payout) /\ UNCHANGED triggers
  <2>1. /\ BookMoney' /\ committed' = committed
        /\ SumFunction(Worth(usdc', order', escrow', UsdcKind)) + treasury'
             = u + treasury + k
    BY <1>2, <1>6, FinalizeTotals
  <2>2. trigger' = trigger /\ tEscrow' = tEscrow
    BY <1>6 DEF triggers
  <2>3. treasury' \in Nat
    BY <2>1 DEF BookMoney, WalletsTyped
  <2>4. SumFunction(Worth(usdc', order', escrow', UsdcKind)) \in Int
    <3>1. Worth(usdc', order', escrow', UsdcKind) \in [Traders -> Int]
      BY <2>1, WorthTypedNext
    <3> QED BY <3>1, TotalInt, FiniteAssumption
  <2>5. PICK u2 \in Int : u2 = SumFunction(Worth(usdc', order', escrow', UsdcKind))
    BY <2>4
  <2>6. (u2 + treasury') + b + (pool - k) + w = u + treasury + b + pool + w
    <3>1. u2 + treasury' = u + treasury + k
      BY <2>1, <2>5
    <3> QED BY <1>2, <2>3, <3>1
  <2>7. AccountedNext
    BY <1>1, <1>2, <2>1, <2>2, <2>5, <2>6 DEF AccountedNext, Accounted, TotalKept
  <2>8. TriggerTyped' /\ BuysFunded'
    BY <1>2, <1>3, <2>2 DEF TriggerTyped, BuysFunded, Placed, IsBuy
  <2> QED BY <1>0, <2>1, <2>7, <2>8, TriggerNext
<1>7. ASSUME NEW t \in TriggerIds, FinalizeInto(o, payout, t)
      PROVE  TriggerInvariant'
  <2>1. /\ trigger[t] # NoTrigger /\ IsBuy(t) /\ BurnEscrow(o, payout)
        /\ escrow' = [escrow EXCEPT ![o] = 0]
        /\ tEscrow' = [tEscrow EXCEPT ![t] = @ + payout]
        /\ treasury' = treasury /\ trigger' = trigger
    BY <1>7 DEF FinalizeInto
  <2>2. treasury' \in Nat
    BY <1>2, <2>1
  <2>3. /\ BookMoney' /\ committed' = committed
        /\ SumFunction(Worth(usdc', order', escrow', UsdcKind)) = u
    BY <1>2, <2>1, <2>2, BurnTotals
  <2>4. /\ tEscrow' \in [TriggerIds -> Nat] /\ tEscrow'[t] = tEscrow[t] + payout
        /\ \A v \in TriggerIds \ {t} : tEscrow'[v] = tEscrow[v]
    BY <1>2, <2>1
  <2>5. SumFunction(tEscrow') = w + k
    <3>1. tEscrow[t] \in Nat /\ tEscrow'[t] - tEscrow[t] = payout
      BY <1>2, <2>4
    <3> QED BY <1>2, <2>4, <3>1, EscrowMoves
  <2>6. AccountedNext
    BY <1>1, <1>2, <2>1, <2>3, <2>5 DEF AccountedNext, Accounted, TotalKept
  <2>7. TriggerTyped'
    BY <1>2, <1>3, <2>1, <2>4 DEF TriggerTyped
  <2>8. BuysFunded'
    BY <1>2, <2>1, <2>4, PaidFunded
  <2> QED BY <1>0, <2>3, <2>6, <2>7, <2>8, TriggerNext
<1> QED BY <1>1, <1>6, <1>7

(* What another vault pays is counted as paid in. *)
LEMMA OthersKeep ==
    ASSUME TriggerInvariant, OthersFinalize
    PROVE  TriggerInvariant'
<1>1. PICK payout \in Payouts :
        /\ \/ \E o \in OrderIds : ReceivePayout(o, payout) /\ UNCHANGED triggers
           \/ \E t \in TriggerIds : ReceiveInto(t, payout)
        /\ UNCHANGED vault
  BY DEF OthersFinalize
<1>2. /\ BookMoney /\ TriggerTyped /\ BuysFunded /\ Accounted
      /\ treasury \in Nat /\ pool \in Nat /\ payout \in Nat /\ pool' = pool
      /\ tEscrow \in [TriggerIds -> Nat] /\ gained \in Nat /\ gained' = gained + payout
  BY <1>1, BookAssumption
  DEF TriggerInvariant, BookMoney, WalletsTyped, TriggerTyped, BookInvariant, BookTyped,
      ReceivePayout, ReceiveInto, vault
<1>3. SumFunction(Cash) \in Int /\ SumFunction(committed) \in Int
  BY <1>2, WorthTyped, TotalInt, CommittedTotal, FiniteAssumption
<1>4. SumFunction(tEscrow) \in Int
  <2>1. tEscrow \in [TriggerIds -> Int]
    BY <1>2
  <2> QED BY <2>1, TotalInt, FiniteTriggers
<1>5. SumFunction(StartUsdc) + StartPool \in Int
  BY StartTyped, TriggerAssumption DEF StartCash
<1> DEFINE s == SumFunction(StartUsdc) + StartPool
           cash2 == SumFunction(Worth(usdc', order', escrow', UsdcKind))
<1> PICK u \in Int, b \in Int, w \in Int, k \in Int, c \in Int, t0 \in Int, g \in Int :
           /\ u = SumFunction(Cash) /\ b = SumFunction(committed) /\ w = SumFunction(tEscrow)
           /\ k = payout /\ c = s /\ t0 = treasury /\ g = gained
  BY <1>2, <1>3, <1>4, <1>5
<1>6. u + t0 + b + pool + w = c + g
  BY <1>2 DEF Accounted, TotalKept
<1>7. ASSUME BookMoney', TriggerTyped', BuysFunded', UNCHANGED committed,
             \/ cash2 + treasury' = u + t0 + k /\ tEscrow' = tEscrow
             \/ cash2 = u /\ treasury' = treasury /\ SumFunction(tEscrow') = w + k
      PROVE  TriggerInvariant'
  <2>1. cash2 \in Int /\ treasury' \in Nat
    <3>1. Worth(usdc', order', escrow', UsdcKind) \in [Traders -> Int]
      BY <1>7, WorthTypedNext
    <3> QED BY <1>7, <3>1, TotalInt, FiniteAssumption DEF BookMoney, WalletsTyped
  <2>2. PICK v \in Int, t2 \in Int : v = cash2 /\ t2 = treasury'
    BY <2>1
  <2>3. pool \in Int
    BY <1>2
  <2>4. CASE v + t2 = u + t0 + k /\ tEscrow' = tEscrow
    <3>1. v + t2 + b + pool + w = c + (g + k)
      BY ONLY <1>6, <2>3, <2>4, u \in Int, v \in Int, b \in Int, w \in Int, k \in Int,
              c \in Int, g \in Int, t0 \in Int, t2 \in Int
    <3> QED BY <1>2, <1>7, <2>2, <2>4, <3>1 DEF TriggerInvariant, Accounted, TotalKept, Cash
  <2>5. CASE v = u /\ t2 = t0 /\ SumFunction(tEscrow') = w + k
    <3>1. v + t2 + b + pool + (w + k) = c + (g + k)
      BY ONLY <1>6, <2>3, <2>5, u \in Int, v \in Int, b \in Int, w \in Int, k \in Int,
              c \in Int, g \in Int, t0 \in Int, t2 \in Int
    <3> QED BY <1>2, <1>7, <2>2, <2>5, <3>1 DEF TriggerInvariant, Accounted, TotalKept, Cash
  <2> QED BY <1>7, <2>2, <2>4, <2>5
<1> HIDE DEF cash2, s
<1>8. ASSUME NEW o \in OrderIds, ReceivePayout(o, payout), UNCHANGED triggers
      PROVE  TriggerInvariant'
  <2>1. /\ BookMoney' /\ committed' = committed
        /\ cash2 + treasury' = u + t0 + k
    BY <1>2, <1>8, ReceiveTotals DEF cash2
  <2>2. trigger' = trigger /\ tEscrow' = tEscrow
    BY <1>8 DEF triggers
  <2>3. TriggerTyped' /\ BuysFunded'
    BY <1>2, <2>2 DEF TriggerTyped, BuysFunded, Placed, IsBuy
  <2> QED BY <1>7, <2>1, <2>2, <2>3
<1>9. ASSUME NEW t \in TriggerIds, ReceiveInto(t, payout)
      PROVE  TriggerInvariant'
  <2>1. /\ trigger[t] # NoTrigger /\ IsBuy(t)
        /\ tEscrow' = [tEscrow EXCEPT ![t] = @ + payout]
        /\ trigger' = trigger
        /\ UNCHANGED <<expired, order, escrow, usdc, tokens, treasury, committed, redeemed>>
    BY <1>9 DEF ReceiveInto, book, wallets
  <2>2. BookMoney'
    <3>1. PaysOn
      BY <1>2, <2>1 DEF PaysOn, BookMoney, BookInvariant, BookTyped
    <3>2. \A o \in OrderIds : Agrees(order'[o], escrow'[o], expired', Paid')
      BY <1>2, <2>1, <3>1, Untouched DEF BookMoney
    <3>3. BookTyped'
      BY <1>2, <2>1, <3>1 DEF BookMoney, BookInvariant, BookTyped, PaysOn
    <3> QED BY <1>2, <2>1, <3>2, <3>3, ExactNext
            DEF BookMoney, WalletsTyped, AsksCovered, BookInvariant
  <2>3. cash2 = u
    BY <2>1 DEF cash2, Cash
  <2>4. /\ tEscrow' \in [TriggerIds -> Nat] /\ tEscrow'[t] = tEscrow[t] + payout
        /\ \A v \in TriggerIds \ {t} : tEscrow'[v] = tEscrow[v]
    BY <1>2, <2>1
  <2>5. SumFunction(tEscrow') = w + k
    <3>1. tEscrow[t] \in Nat /\ tEscrow'[t] - tEscrow[t] = payout
      BY <1>2, <2>4
    <3> QED BY <1>2, <2>4, <3>1, EscrowMoves
  <2>6. TriggerTyped'
    BY <1>2, <2>1, <2>4 DEF TriggerTyped
  <2>7. BuysFunded'
    BY <1>2, <2>1, <2>4, PaidFunded
  <2> QED BY <1>7, <2>1, <2>2, <2>3, <2>5, <2>6, <2>7
<1> QED BY <1>1, <1>8, <1>9

(* Every step keeps the money of triggers. *)
LEMMA TriggerStep == TriggerInvariant /\ [TNext]_allVars => TriggerInvariant'
<1> SUFFICES ASSUME TriggerInvariant, [TNext]_allVars
             PROVE  TriggerInvariant'
  OBVIOUS
<1>1. CASE OwnerStep
  BY <1>1, PlaceTriggerKeeps, LinkOcoKeeps, CancelTriggerKeeps DEF OwnerStep
<1>2. CASE ExecuteTrigger
  <2>1. PICK t \in TriggerIds :
          \/ \E o \in OrderIds \ ListingIds :
                 \/ BuyFromBook(t, o) \/ SkipBuyFromBook(t, o)
                 \/ SellToBook(t, o)  \/ SkipSellToBook(t, o)
          \/ \E premium \in Prices : BuyFromVault(t, premium)
          \/ \E intrinsic \in Payoffs : ExerciseTrigger(t, intrinsic)
          \/ SkipStopLoss(t)
          \/ SkipExercise(t)
    BY <1>2 DEF ExecuteTrigger
  <2>2. CASE \E o \in OrderIds : SkipBuyFromBook(t, o) \/ SkipSellToBook(t, o)
    BY <2>2, SkippedKeeps DEF SkipBuyFromBook, SkipSellToBook, BidAboveFloor
  <2>3. CASE SkipStopLoss(t) \/ SkipExercise(t)
    BY <2>3, SkippedKeeps DEF SkipStopLoss, SkipExercise
  <2>4. CASE \E o \in OrderIds : BuyFromBook(t, o) \/ SellToBook(t, o)
    BY <2>4, BuyFromBookKeeps, SellToBookKeeps
  <2>5. CASE \E premium \in Prices : BuyFromVault(t, premium)
    BY <2>5, BuyFromVaultKeeps
  <2>6. CASE \E intrinsic \in Payoffs : ExerciseTrigger(t, intrinsic)
    BY <2>6, ExerciseTriggerKeeps
  <2> QED BY <2>1, <2>2, <2>3, <2>4, <2>5, <2>6
<1>3. CASE BookStep \/ UNCHANGED allVars
  BY <1>3, BookKeeps DEF BookStep, allVars
<1> QED BY <1>1, <1>2, <1>3, FinalizeKeeps, OthersKeep DEF TNext

(* Whatever is placed, linked, fired in part, skipped, cancelled or filled  *)
(* under it, an armed buy can pay its ceiling for all it has left, and no   *)
(* USDC is lost or made: place_trigger, cancel_trigger and execute_trigger  *)
(* with the book's instructions, and finalizations, in between.             *)
THEOREM TriggerMoney == TSpec => []TriggerMoneyKept
<1>1. TriggerInvariant => TriggerMoneyKept
  BY AccountedIs DEF TriggerInvariant, TriggerMoneyKept
<1> QED BY <1>1, TriggerInit, TriggerStep, PTL DEF TSpec

---------------------------------------------------------------------------
(* Linked triggers. *)

(* What is left of a trigger after a step. *)
LeftNext(u) == IF trigger'[u] # NoTrigger THEN trigger'[u].quantity ELSE 0

(* What fires comes off the trigger, and off its peer as far as it goes;    *)
(* the pair is undone, and no other trigger is touched.                     *)
LEMMA FiredMoves ==
    ASSUME TriggerTyped,
           NEW t \in TriggerIds, trigger[t] # NoTrigger,
           NEW quantity \in Nat \ {0}, quantity <= trigger[t].quantity, Fired(t, quantity)
    PROVE  /\ LeftNext(t) = trigger[t].quantity - quantity
           /\ trigger'[t] # NoTrigger => trigger'[t].link = NoTrigger
           /\ \A p \in TriggerIds \ {t} :
                IF p = trigger[t].link
                THEN /\ trigger[p] # NoTrigger /\ trigger[p].link = t /\ Owner(p) = Owner(t)
                     /\ trigger'[p] # NoTrigger /\ trigger'[p].link = NoTrigger
                     /\ LeftNext(p) = SaturatingSub(trigger[p].quantity, quantity)
                ELSE trigger'[p] = trigger[p]
<1> DEFINE left == trigger[t].quantity - quantity
           p == trigger[t].link
<1>1. trigger[t] \in TriggerOrder /\ left \in Nat
  BY DEF TriggerTyped, TriggerOrder
<1>2. PeerAnswers(t)
  BY DEF Fired
<1>3. trigger'[t] = IF left = 0 THEN NoTrigger
                    ELSE [trigger[t] EXCEPT !.quantity = left, !.link = NoTrigger]
  BY DEF Fired
<1>4. /\ LeftNext(t) = left
      /\ trigger'[t] # NoTrigger => trigger'[t].link = NoTrigger
  <2>1. CASE left = 0
    BY <1>3, <2>1 DEF LeftNext
  <2>2. CASE left # 0
    <3> DEFINE r == [trigger[t] EXCEPT !.quantity = left, !.link = NoTrigger]
    <3>1. r \in TriggerOrder /\ r.quantity = left /\ r.link = NoTrigger
      BY <1>1 DEF TriggerOrder
    <3>2. trigger'[t] = r
      BY <1>3, <2>2
    <3> HIDE DEF r
    <3> QED BY <3>1, <3>2, NoTriggerAssumption DEF LeftNext
  <2> QED BY <2>1, <2>2
<1>5. ASSUME NEW u \in TriggerIds \ {t}, u = p
      PROVE  /\ trigger[u] # NoTrigger /\ trigger[u].link = t /\ Owner(u) = Owner(t)
             /\ trigger'[u] # NoTrigger /\ trigger'[u].link = NoTrigger
             /\ LeftNext(u) = SaturatingSub(trigger[u].quantity, quantity)
  <2>1. u # NoTrigger
    BY TriggerAssumption
  <2>2. trigger[u] # NoTrigger /\ trigger[u].link = t /\ Owner(u) = Owner(t)
    BY <1>2, <1>5, <2>1 DEF PeerAnswers
  <2>3. trigger[u] \in TriggerOrder
    BY <2>2 DEF TriggerTyped
  <2> DEFINE less == SaturatingSub(trigger[u].quantity, quantity)
             r == [trigger[u] EXCEPT !.quantity = less, !.link = NoTrigger]
  <2>4. less \in Nat
    BY <2>3 DEF SaturatingSub, TriggerOrder
  <2>5. trigger'[u] = r
    BY <1>5 DEF Fired
  <2> HIDE DEF less
  <2>6. r \in TriggerOrder /\ r.quantity = less /\ r.link = NoTrigger
    BY <2>3, <2>4 DEF TriggerOrder
  <2> HIDE DEF r
  <2>7. trigger'[u] # NoTrigger /\ trigger'[u].link = NoTrigger /\ LeftNext(u) = less
    BY <2>5, <2>6, NoTriggerAssumption DEF LeftNext
  <2> QED BY <2>2, <2>7 DEF less
<1>6. ASSUME NEW u \in TriggerIds \ {t}, u # p
      PROVE  trigger'[u] = trigger[u]
  BY <1>6 DEF Fired
<1> QED BY <1>4, <1>5, <1>6

(* t and p name each other. *)
Paired(t, p) ==
    /\ trigger[t] # NoTrigger /\ trigger[p] # NoTrigger
    /\ trigger[t].link = p /\ trigger[p].link = t

(* t is there after a step, and names p. *)
NamesNext(t, p) == trigger'[t] # NoTrigger /\ trigger'[t].link = p

(* What a step does to such a pair. *)
PairMoves(t, p) ==
    LET dt == trigger[t].quantity - LeftNext(t)
        dp == trigger[p].quantity - LeftNext(p)
    IN
    /\ (Traded /\ (dt > 0 \/ dp > 0)) =>
          /\ LeftNext(t) >= 0 /\ LeftNext(p) >= 0
          /\ dp = Smaller(trigger[p].quantity, dt) \/ dt = Smaller(trigger[t].quantity, dp)
    /\ (NamesNext(t, p) <=> NamesNext(p, t))
       \/ (dt = 0 /\ dp = 0 /\ UNCHANGED <<book, vault, tEscrow>>)

(* A fire, of one of the two or of another trigger. *)
LEMMA FiredTogether ==
    ASSUME TriggerTyped, NEW t \in TriggerIds, NEW p \in TriggerIds, Paired(t, p),
           NEW u \in TriggerIds, trigger[u] # NoTrigger,
           NEW quantity \in Nat \ {0}, quantity <= trigger[u].quantity, Fired(u, quantity)
    PROVE  PairMoves(t, p)
<1>1. /\ trigger[t] \in TriggerOrder /\ trigger[p] \in TriggerOrder
      /\ trigger[t].quantity \in Nat /\ trigger[p].quantity \in Nat
  BY DEF TriggerTyped, TriggerOrder, Paired
<1>2. t # NoTrigger /\ p # NoTrigger
  BY TriggerAssumption
<1>3. /\ LeftNext(u) = trigger[u].quantity - quantity
      /\ trigger'[u] # NoTrigger => trigger'[u].link = NoTrigger
      /\ \A q \in TriggerIds \ {u} :
           IF q = trigger[u].link
           THEN /\ trigger[q] # NoTrigger /\ trigger[q].link = u /\ Owner(q) = Owner(u)
                /\ trigger'[q] # NoTrigger /\ trigger'[q].link = NoTrigger
                /\ LeftNext(q) = SaturatingSub(trigger[q].quantity, quantity)
           ELSE trigger'[q] = trigger[q]
  BY FiredMoves
<1>4. ASSUME NEW a \in Nat, NEW b \in Nat, b = SaturatingSub(a, quantity)
      PROVE  b >= 0 /\ a - b = Smaller(a, quantity)
  BY <1>4 DEF SaturatingSub, Smaller
<1>5. ASSUME NEW x \in TriggerIds, NEW y \in TriggerIds, x # y, Paired(x, y), u = x
      PROVE  /\ LeftNext(x) >= 0 /\ LeftNext(y) >= 0
             /\ trigger[y].quantity - LeftNext(y)
                  = Smaller(trigger[y].quantity, trigger[x].quantity - LeftNext(x))
             /\ ~NamesNext(x, y) /\ ~NamesNext(y, x)
  <2>1. /\ trigger[x] \in TriggerOrder /\ trigger[y] \in TriggerOrder
        /\ trigger[x].quantity \in Nat /\ trigger[y].quantity \in Nat
    BY <1>5 DEF TriggerTyped, TriggerOrder, Paired
  <2>2. /\ LeftNext(x) = trigger[x].quantity - quantity
        /\ trigger'[x] # NoTrigger => trigger'[x].link = NoTrigger
        /\ trigger'[y].link = NoTrigger
        /\ LeftNext(y) = SaturatingSub(trigger[y].quantity, quantity)
    BY <1>3, <1>5 DEF Paired
  <2>3. LeftNext(y) \in Nat
    BY <2>1, <2>2 DEF SaturatingSub
  <2>4. LeftNext(y) >= 0 /\ trigger[y].quantity - LeftNext(y) = Smaller(trigger[y].quantity, quantity)
    BY <1>4, <2>1, <2>2, <2>3
  <2>5. trigger[x].quantity - LeftNext(x) = quantity /\ LeftNext(x) >= 0
    BY <1>5, <2>1, <2>2
  <2>6. ~NamesNext(x, y) /\ ~NamesNext(y, x)
    BY <2>2, TriggerAssumption DEF NamesNext
  <2> QED BY <2>4, <2>5, <2>6
<1>6. CASE t = p
  <2>1. CASE u = t
    <3>1. LeftNext(t) = trigger[t].quantity - quantity /\ LeftNext(t) >= 0
      BY <1>1, <1>3, <2>1
    <3>2. Smaller(trigger[t].quantity, trigger[t].quantity - LeftNext(t))
            = trigger[t].quantity - LeftNext(t)
      BY <1>1, <2>1, <3>1 DEF Smaller
    <3> QED BY <1>6, <3>1, <3>2 DEF PairMoves
  <2>2. CASE u # t
    <3>1. trigger'[t] = trigger[t]
      BY <1>3, <1>6, <2>2 DEF Paired
    <3> QED BY <1>1, <1>6, <3>1 DEF PairMoves, LeftNext, Paired
  <2> QED BY <2>1, <2>2
<1>7. CASE t # p /\ u = t
  BY <1>5, <1>7 DEF PairMoves
<1>8. CASE t # p /\ u = p
  <2>1. Paired(p, t)
    BY DEF Paired
  <2> QED BY <1>5, <1>8, <2>1 DEF PairMoves
<1>9. CASE u # t /\ u # p
  <2>1. trigger'[t] = trigger[t] /\ trigger'[p] = trigger[p]
    BY <1>3, <1>9 DEF Paired
  <2>2. LeftNext(t) = trigger[t].quantity /\ LeftNext(p) = trigger[p].quantity
    BY <2>1 DEF LeftNext, Paired
  <2>3. NamesNext(t, p) /\ NamesNext(p, t)
    BY <2>1 DEF NamesNext, Paired
  <2> QED BY <1>1, <2>2, <2>3 DEF PairMoves
<1> QED BY <1>6, <1>7, <1>8, <1>9

(* A step that leaves the two as they were. *)
LEMMA PairStays ==
    ASSUME TriggerTyped, NEW t \in TriggerIds, NEW p \in TriggerIds, Paired(t, p),
           trigger'[t] = trigger[t], trigger'[p] = trigger[p]
    PROVE  PairMoves(t, p)
<1>1. trigger[t].quantity \in Nat /\ trigger[p].quantity \in Nat
  BY DEF TriggerTyped, TriggerOrder, Paired
<1>2. LeftNext(t) = trigger[t].quantity /\ LeftNext(p) = trigger[p].quantity
  BY DEF LeftNext, Paired
<1>3. NamesNext(t, p) /\ NamesNext(p, t)
  BY DEF NamesNext, Paired
<1> QED BY <1>1, <1>2, <1>3 DEF PairMoves

(* What an execution fires. *)
LEMMA ExecutionFires ==
    ASSUME TriggerInvariant, ExecuteTrigger
    PROVE  \E u \in TriggerIds :
              /\ trigger[u] # NoTrigger
              /\ \/ Skipped(u)
                 \/ \E quantity \in Nat \ {0} :
                       quantity <= trigger[u].quantity /\ Fired(u, quantity)
<1>1. PICK u \in TriggerIds :
          \/ \E o \in OrderIds \ ListingIds :
                 \/ BuyFromBook(u, o) \/ SkipBuyFromBook(u, o)
                 \/ SellToBook(u, o)  \/ SkipSellToBook(u, o)
          \/ \E premium \in Prices : BuyFromVault(u, premium)
          \/ \E intrinsic \in Payoffs : ExerciseTrigger(u, intrinsic)
          \/ SkipStopLoss(u)
          \/ SkipExercise(u)
  BY DEF ExecuteTrigger
<1>2. trigger[u] # NoTrigger
  BY <1>1 DEF BuyFromBook, AskWithinCeiling, SkipBuyFromBook, SellToBook, BidAboveFloor,
              SkipSellToBook, BuyFromVault, ExerciseTrigger, SkipStopLoss, SkipExercise
<1>3. trigger[u].quantity \in Nat
  BY <1>2 DEF TriggerInvariant, TriggerTyped, TriggerOrder
<1>4. tokens[Owner(u)] \in Nat
  BY TriggerOwner DEF TriggerInvariant, BookMoney, WalletsTyped
<1>5. \A o \in OrderIds : order[o] # NoOrder => order[o].quantity \in Nat
  BY DEF TriggerInvariant, BookMoney, BookInvariant, BookTyped, RestingOrder
<1>6. CASE \/ \E o \in OrderIds : SkipBuyFromBook(u, o) \/ SkipSellToBook(u, o)
           \/ SkipStopLoss(u) \/ SkipExercise(u)
  BY <1>2, <1>6 DEF SkipBuyFromBook, SkipSellToBook, SkipStopLoss, SkipExercise
<1>7. ASSUME NEW o \in OrderIds, BuyFromBook(u, o)
      PROVE  \E quantity \in Nat \ {0} : quantity <= trigger[u].quantity /\ Fired(u, quantity)
  <2> DEFINE quantity == Smaller(trigger[u].quantity, order[o].quantity)
  <2>1. quantity > 0 /\ Fired(u, quantity) /\ order[o] # NoOrder
    BY <1>7 DEF BuyFromBook, AskWithinCeiling
  <2>2. quantity \in Nat \ {0} /\ quantity <= trigger[u].quantity
    BY <1>3, <1>5, <2>1 DEF Smaller
  <2> HIDE DEF quantity
  <2> QED BY <2>1, <2>2
<1>8. ASSUME NEW o \in OrderIds, SellToBook(u, o)
      PROVE  \E quantity \in Nat \ {0} : quantity <= trigger[u].quantity /\ Fired(u, quantity)
  <2> DEFINE quantity == Smaller(Smaller(trigger[u].quantity, order[o].quantity),
                                 tokens[Owner(u)])
  <2>1. quantity > 0 /\ Fired(u, quantity) /\ order[o] # NoOrder
    BY <1>8 DEF SellToBook, BidAboveFloor
  <2>2. quantity \in Nat \ {0} /\ quantity <= trigger[u].quantity
    BY <1>3, <1>4, <1>5, <2>1 DEF Smaller
  <2> HIDE DEF quantity
  <2> QED BY <2>1, <2>2
<1>9. ASSUME NEW premium \in Prices, BuyFromVault(u, premium)
      PROVE  \E quantity \in Nat \ {0} : quantity <= trigger[u].quantity /\ Fired(u, quantity)
  <2>1. trigger[u].quantity > 0 /\ Fired(u, trigger[u].quantity)
    BY <1>9 DEF BuyFromVault
  <2> QED BY <1>3, <2>1
<1>10. ASSUME NEW intrinsic \in Payoffs, ExerciseTrigger(u, intrinsic)
       PROVE  \E quantity \in Nat \ {0} : quantity <= trigger[u].quantity /\ Fired(u, quantity)
  <2> DEFINE quantity == Smaller(trigger[u].quantity, tokens[Owner(u)])
  <2>1. quantity > 0 /\ Fired(u, quantity)
    BY <1>10 DEF ExerciseTrigger
  <2>2. quantity \in Nat \ {0} /\ quantity <= trigger[u].quantity
    BY <1>3, <1>4, <2>1 DEF Smaller
  <2> HIDE DEF quantity
  <2> QED BY <2>1, <2>2
<1> QED BY <1>1, <1>2, <1>6, <1>7, <1>8, <1>9, <1>10

(* Every step moves the two legs of a pair together. *)
LEMMA PairStep ==
    ASSUME TriggerInvariant, [TNext]_allVars,
           NEW t \in TriggerIds, NEW p \in TriggerIds, Paired(t, p)
    PROVE  PairMoves(t, p)
<1>1. TriggerTyped /\ trigger \in [TriggerIds -> TriggerOrder \union {NoTrigger}]
  BY DEF TriggerInvariant, TriggerTyped
<1>2. t # NoTrigger /\ p # NoTrigger
  BY TriggerAssumption
<1>3. CASE BookStep \/ VaultFinalizes \/ OthersFinalize \/ UNCHANGED allVars
  <2>1. trigger' = trigger
    BY <1>3
    DEF BookStep, VaultFinalizes, FinalizeInto, OthersFinalize, ReceiveInto, allVars, triggers
  <2> QED BY <1>1, <2>1, PairStays
<1>4. CASE ExecuteTrigger
  <2>1. PICK u \in TriggerIds :
              /\ trigger[u] # NoTrigger
              /\ \/ Skipped(u)
                 \/ \E quantity \in Nat \ {0} :
                       quantity <= trigger[u].quantity /\ Fired(u, quantity)
    BY <1>4, ExecutionFires
  <2>2. CASE Skipped(u)
    <3>1. /\ trigger' = [trigger EXCEPT ![u].link = NoTrigger]
          /\ UNCHANGED <<bookVars, tEscrow, vault>>
      BY <2>2 DEF Skipped
    <3>2. ASSUME NEW x \in TriggerIds, trigger[x] # NoTrigger
          PROVE  LeftNext(x) = trigger[x].quantity /\ trigger[x].quantity \in Nat
      <4>1. trigger[x] \in TriggerOrder
        BY <1>1, <3>2
      <4>2. CASE x = u
        <5>1. trigger'[x] = [trigger[x] EXCEPT !.link = NoTrigger]
          BY <1>1, <3>1, <4>2
        <5>2. trigger'[x] \in TriggerOrder /\ trigger'[x].quantity = trigger[x].quantity
          BY <4>1, <5>1 DEF TriggerOrder
        <5> QED BY <4>1, <5>2, NoTriggerAssumption DEF LeftNext, TriggerOrder
      <4>3. CASE x # u
        <5>1. trigger'[x] = trigger[x]
          BY <1>1, <3>1, <4>3
        <5> QED BY <3>2, <4>1, <5>1 DEF LeftNext, TriggerOrder
      <4> QED BY <4>2, <4>3
    <3>3. UNCHANGED <<book, vault, tEscrow>> /\ ~Traded
      BY <3>1 DEF bookVars, vault, Traded, book
    <3>4. /\ LeftNext(t) = trigger[t].quantity /\ trigger[t].quantity \in Nat
          /\ LeftNext(p) = trigger[p].quantity /\ trigger[p].quantity \in Nat
      BY <3>2 DEF Paired
    <3> QED BY <3>3, <3>4 DEF PairMoves
  <2>3. CASE \E quantity \in Nat \ {0} :
                 quantity <= trigger[u].quantity /\ Fired(u, quantity)
    BY <1>1, <2>1, <2>3, FiredTogether
  <2> QED BY <2>1, <2>2, <2>3
<1>5. CASE OwnerStep
  <2>1. PICK u \in TriggerIds :
            \/ \E kind \in Kinds, quantity \in Quantities, limit \in Limits :
                   PlaceTrigger(u, kind, quantity, limit)
            \/ \E q \in TriggerIds : LinkOco(u, q)
            \/ CancelTrigger(u)
    BY <1>5 DEF OwnerStep
  <2>2. CASE \E kind \in Kinds, quantity \in Quantities, limit \in Limits :
                 PlaceTrigger(u, kind, quantity, limit)
    <3>1. trigger[u] = NoTrigger /\ \E r : trigger' = [trigger EXCEPT ![u] = r]
      BY <2>2 DEF PlaceTrigger
    <3>2. trigger'[t] = trigger[t] /\ trigger'[p] = trigger[p]
      BY <1>1, <3>1 DEF Paired
    <3> QED BY <1>1, <3>2, PairStays
  <2>3. CASE \E q \in TriggerIds : LinkOco(u, q)
    <3>1. PICK q \in TriggerIds : LinkOco(u, q)
      BY <2>3
    <3>2. /\ trigger[u].link = NoTrigger /\ trigger[q].link = NoTrigger
          /\ trigger' = [trigger EXCEPT ![u].link = q, ![q].link = u]
      BY <3>1 DEF LinkOco
    <3>3. t \notin {u, q} /\ p \notin {u, q}
      BY <1>2, <3>2 DEF Paired
    <3>4. trigger'[t] = trigger[t] /\ trigger'[p] = trigger[p]
      BY <1>1, <3>2, <3>3
    <3> QED BY <1>1, <3>4, PairStays
  <2>4. CASE CancelTrigger(u)
    <3>1. /\ PeerAnswers(u) /\ trigger[u] # NoTrigger
          /\ trigger' = [v \in TriggerIds |->
                           IF v = u THEN NoTrigger
                           ELSE IF v = trigger[u].link THEN [trigger[v] EXCEPT !.link = NoTrigger]
                           ELSE trigger[v]]
          /\ UNCHANGED <<book, pool>>
      BY <2>4 DEF CancelTrigger, vault
    <3>2. ~Traded
      BY <3>1 DEF Traded, book
    <3>3. CASE u # t /\ u # p
      <4>1. trigger[u].link # t /\ trigger[u].link # p
        BY <1>2, <3>1, <3>3 DEF PeerAnswers, Paired
      <4>2. trigger'[t] = trigger[t] /\ trigger'[p] = trigger[p]
        BY <3>1, <3>3, <4>1
      <4> QED BY <1>1, <4>2, PairStays
    <3>4. ASSUME NEW x \in {t, p}
          PROVE  (~NamesNext(x, t) /\ ~NamesNext(x, p)) \/ (u # t /\ u # p)
      <4>1. SUFFICES ASSUME u = t \/ u = p
                     PROVE  ~NamesNext(x, t) /\ ~NamesNext(x, p)
        OBVIOUS
      <4>2. trigger[x] \in TriggerOrder /\ x \in TriggerIds
        BY <1>1 DEF Paired
      <4>3. CASE x = u
        BY <3>1, <4>2, <4>3 DEF NamesNext
      <4>4. CASE x # u
        <5>1. x = trigger[u].link
          BY <4>1, <4>4 DEF Paired
        <5>2. trigger'[x] = [trigger[x] EXCEPT !.link = NoTrigger]
          BY <3>1, <4>2, <4>4, <5>1
        <5>3. trigger'[x].link = NoTrigger
          BY <4>2, <5>2 DEF TriggerOrder
        <5> QED BY <1>2, <5>3 DEF NamesNext
      <4> QED BY <4>3, <4>4
    <3> QED BY <3>2, <3>3, <3>4 DEF PairMoves
  <2> QED BY <2>1, <2>2, <2>3, <2>4
<1> QED BY <1>3, <1>4, <1>5 DEF TNext

(* No fire leaves the other leg of a pair as it was, however the two were   *)
(* placed and whatever fired of them before.                                *)
THEOREM OcoTogether == TSpec => OcoMovesTogether
<1> DEFINE Together ==
      \A t, p \in TriggerIds :
          LET dt == Left(t) - Left(t)'
              dp == Left(p) - Left(p)'
          IN  (/\ Placed(t) /\ Placed(p)
               /\ trigger[t].link = p /\ trigger[p].link = t)
              => /\ (Traded /\ (dt > 0 \/ dp > 0)) =>
                       /\ Left(t)' >= 0 /\ Left(p)' >= 0
                       /\ dp = Smaller(Left(p), dt) \/ dt = Smaller(Left(t), dp)
                 /\ (Names(t, p)' <=> Names(p, t)')
                    \/ (dt = 0 /\ dp = 0 /\ UNCHANGED <<book, vault, tEscrow>>)
<1>1. TriggerInvariant /\ [TNext]_allVars => [Together]_allVars
  <2> SUFFICES ASSUME TriggerInvariant, [TNext]_allVars,
                        NEW t \in TriggerIds, NEW p \in TriggerIds, Paired(t, p)
                 PROVE  LET dt == Left(t) - Left(t)'
                            dp == Left(p) - Left(p)'
                        IN /\ (Traded /\ (dt > 0 \/ dp > 0)) =>
                                 /\ Left(t)' >= 0 /\ Left(p)' >= 0
                                 /\ dp = Smaller(Left(p), dt) \/ dt = Smaller(Left(t), dp)
                           /\ (Names(t, p)' <=> Names(p, t)')
                              \/ (dt = 0 /\ dp = 0 /\ UNCHANGED <<book, vault, tEscrow>>)
    BY DEF Paired, Placed
  <2>2. PairMoves(t, p)
    BY PairStep
  <2>3. Left(t) = trigger[t].quantity /\ Left(p) = trigger[p].quantity
    BY DEF Left, Placed, Paired
  <2>4. Left(t)' = LeftNext(t) /\ Left(p)' = LeftNext(p)
    BY DEF Left, Placed, LeftNext
  <2>5. (Names(t, p)' <=> NamesNext(t, p)) /\ (Names(p, t)' <=> NamesNext(p, t))
    BY DEF Names, Placed, NamesNext
  <2> QED BY <2>2, <2>3, <2>4, <2>5 DEF PairMoves
<1> QED BY <1>1, TriggerInit, TriggerStep, PTL DEF TSpec, OcoMovesTogether

---------------------------------------------------------------------------
(* What a trigger's owner gets. *)

(* What waits in the escrows of u's triggers. *)
Armed(waiting, u) == SumFunctionOnSet(waiting, OwnedBy(TriggerIds, u))

(* A trader's wealth and holdings after a step. *)
WealthNext(u) ==
    Worth(usdc', order', escrow', UsdcKind)[u] + committed'[u] + Armed(tEscrow', u)
HoldingNext(u) == Worth(tokens', order', escrow', ResaleKind)[u]

(* It is an integer, and one trigger's change is its owner's. *)
LEMMA ArmedMoves ==
    ASSUME NEW f \in [TriggerIds -> Nat], NEW g \in [TriggerIds -> Nat], NEW t \in TriggerIds,
           \A u \in TriggerIds \ {t} : g[u] = f[u]
    PROVE  /\ Armed(f, Owner(t)) \in Int
           /\ Armed(g, Owner(t)) = Armed(f, Owner(t)) + (g[t] - f[t])
<1> DEFINE S == OwnedBy(TriggerIds, Owner(t))
<1>1. t \in S /\ S \in SUBSET TriggerIds
  BY DEF OwnedBy
<1>2. IsFiniteSet(S) /\ IsFiniteSet(S \ {t})
  BY <1>1, FS_Subset, FiniteTriggers
<1>3. /\ \A x \in S : f[x] \in Int /\ g[x] \in Int
      /\ \A x \in S \ {t} : f[x] = g[x] /\ f[x] \in Int
  BY <1>1
<1> HIDE DEF S
<1>4. /\ SumFunctionOnSet(f, S) = f[t] + SumFunctionOnSet(f, S \ {t})
      /\ SumFunctionOnSet(g, S) = g[t] + SumFunctionOnSet(g, S \ {t})
  BY <1>1, <1>2, <1>3, SumRemove
<1>5. SumFunctionOnSet(f, S \ {t}) = SumFunctionOnSet(g, S \ {t})
  BY <1>2, <1>3, SumSame
<1>6. SumFunctionOnSet(f, S \ {t}) \in Int
  BY <1>2, <1>3, SumInt
<1>7. f[t] \in Int /\ g[t] \in Int
  OBVIOUS
<1>8. /\ SumFunctionOnSet(f, S) \in Int
      /\ SumFunctionOnSet(g, S) = SumFunctionOnSet(f, S) + (g[t] - f[t])
  BY <1>4, <1>5, <1>6, <1>7
<1> QED BY <1>8 DEF Armed, S

(* The wealth and the holdings of a trader, by what waits for it. *)
LEMMA WealthIs ==
    ASSUME TriggerInvariant, NEW u \in Traders
    PROVE  /\ Wealth(u) = Cash[u] + committed[u] + Armed(tEscrow, u)
           /\ Holding(u) = Held[u]
<1>1. /\ usdc[u] \in Nat /\ committed[u] \in Nat
      /\ escrow \in [OrderIds -> Nat] /\ tEscrow \in [TriggerIds -> Nat]
  BY DEF TriggerInvariant, BookMoney, WalletsTyped, BookInvariant, BookTyped, TriggerTyped
<1>2. Armed(tEscrow, u) \in Int
  <2> DEFINE S == OwnedBy(TriggerIds, u)
  <2>1. S \in SUBSET TriggerIds
    BY DEF OwnedBy
  <2>2. IsFiniteSet(S) /\ \A x \in S : tEscrow[x] \in Int
    BY <1>1, <2>1, FS_Subset, FiniteTriggers
  <2> HIDE DEF S
  <2>3. SumFunctionOnSet(tEscrow, S) \in Int
    BY <2>2, SumInt
  <2> QED BY <2>3 DEF Armed, S
<1>3. Waiting(order, escrow, UsdcKind, u) \in Nat
  BY <1>1, WaitingTotal
<1>4. /\ OwnedBy(KindOf({"Bid", "WriterAsk"}), u) = {o \in Resting(order, UsdcKind) : Owner(o) = u}
      /\ OwnedBy(KindOf(ResaleKind), u) = {o \in Resting(order, ResaleKind) : Owner(o) = u}
  BY DEF OwnedBy, KindOf, Resting, UsdcKind
<1>5. Wealth(u) = usdc[u] + committed[u] + Armed(tEscrow, u) + Waiting(order, escrow, UsdcKind, u)
  BY <1>4 DEF Wealth, Armed, Waiting
<1>6. Holding(u) = tokens[u] + Waiting(order, escrow, ResaleKind, u)
  BY <1>4 DEF Holding, Waiting
<1>7. Cash[u] = usdc[u] + Waiting(order, escrow, UsdcKind, u)
      /\ Held[u] = tokens[u] + Waiting(order, escrow, ResaleKind, u)
  BY DEF Cash, Held, Worth
<1> QED BY <1>1, <1>2, <1>3, <1>5, <1>6, <1>7

(* The same after a step. *)
LEMMA WealthNextIs ==
    ASSUME TriggerInvariant', NEW u \in Traders
    PROVE  Wealth(u)' = WealthNext(u) /\ Holding(u)' = HoldingNext(u)
<1>1. /\ usdc'[u] \in Nat /\ committed'[u] \in Nat
      /\ escrow' \in [OrderIds -> Nat] /\ tEscrow' \in [TriggerIds -> Nat]
  BY DEF TriggerInvariant, BookMoney, WalletsTyped, BookInvariant, BookTyped, TriggerTyped
<1>2. Armed(tEscrow', u) \in Int
  <2> DEFINE S == OwnedBy(TriggerIds, u)
  <2>1. S \in SUBSET TriggerIds
    BY DEF OwnedBy
  <2>2. IsFiniteSet(S) /\ \A x \in S : tEscrow'[x] \in Int
    BY <1>1, <2>1, FS_Subset, FiniteTriggers
  <2> HIDE DEF S
  <2>3. SumFunctionOnSet(tEscrow', S) \in Int
    BY <2>2, SumInt
  <2> QED BY <2>3 DEF Armed, S
<1>3. Waiting(order', escrow', UsdcKind, u) \in Nat
  BY <1>1, WaitingTotal
<1>4. /\ OwnedBy(KindOf({"Bid", "WriterAsk"})', u) = {o \in Resting(order', UsdcKind) : Owner(o) = u}
      /\ OwnedBy(KindOf(ResaleKind)', u) = {o \in Resting(order', ResaleKind) : Owner(o) = u}
  BY DEF OwnedBy, KindOf, Resting, UsdcKind, ResaleKind
<1>5. Wealth(u)' = usdc'[u] + committed'[u] + Armed(tEscrow', u)
                     + Waiting(order', escrow', UsdcKind, u)
  BY <1>4 DEF Wealth, Armed, Waiting, OwnedBy
<1>6. Holding(u)' = tokens'[u] + Waiting(order', escrow', ResaleKind, u)
  BY <1>4 DEF Holding, Waiting, OwnedBy
<1>7. Worth(usdc', order', escrow', UsdcKind)[u] = usdc'[u] + Waiting(order', escrow', UsdcKind, u)
      /\ HoldingNext(u) = tokens'[u] + Waiting(order', escrow', ResaleKind, u)
  BY DEF Worth, HoldingNext
<1> QED BY <1>1, <1>2, <1>3, <1>5, <1>6, <1>7 DEF WealthNext

(* What t's owner gets when n of t fire. *)
WithinNext(t, n) ==
    LET u    == Owner(t)
        paid == Wealth(u) - WealthNext(u)
        fee  == treasury' - treasury
    IN
    \/ /\ IsBuy(t)
       /\ HoldingNext(u) = Holding(u) + n
       /\ paid <= trigger[t].max_premium * n
    \/ /\ ~IsBuy(t)
       /\ HoldingNext(u) = Holding(u) - n
       /\ order' # order => fee - paid >= trigger[t].max_premium * n

(* Some of it fires, within its limit. *)
FiresWithin(t) ==
    /\ trigger[t] # NoTrigger
    /\ \E n \in Nat \ {0} : n <= trigger[t].quantity /\ Fired(t, n) /\ WithinNext(t, n)

(* A fill is seen in the order it fills. *)
LEMMA FillShows ==
    ASSUME TriggerInvariant, NEW o \in OrderIds, order[o] # NoOrder,
           NEW quantity \in Nat \ {0}, quantity <= order[o].quantity,
           NEW amount, Fill(o, quantity, amount)
    PROVE  order'[o] # order[o]
<1> DEFINE left == order[o].quantity - quantity
           r == [order[o] EXCEPT !.quantity = left]
<1>1. order \in [OrderIds -> RestingOrder \union {NoOrder}] /\ order[o] \in RestingOrder
  BY DEF TriggerInvariant, BookMoney, BookInvariant, BookTyped
<1>2. order'[o] = IF left = 0 THEN NoOrder ELSE r
  BY <1>1 DEF Fill
<1>3. r.quantity = left /\ left # order[o].quantity
  BY <1>1 DEF RestingOrder
<1> HIDE DEF r, left
<1> QED BY <1>2, <1>3

(* An ask that another trader made, bought within the ceiling. *)
LEMMA BuyFromBookTrades ==
    ASSUME TriggerInvariant, NEW t \in TriggerIds, NEW o \in OrderIds, BuyFromBook(t, o),
           Owner(o) # Owner(t)
    PROVE  FiresWithin(t)
<1> DEFINE quantity == Smaller(trigger[t].quantity, order[o].quantity)
           total == TotalOf(o, quantity)
           paid == Repaid(t, quantity, total)
           refund == Refund(t, quantity, total)
           a == Owner(t)
           b == Owner(o)
<1>1. /\ trigger[t] # NoTrigger /\ IsBuy(t) /\ order[o] # NoOrder
      /\ order[o].price <= trigger[t].max_premium
      /\ quantity > 0 /\ SpendEscrow(t, quantity, total) /\ Fired(t, quantity)
      /\ ~expired
      /\ UNCHANGED <<expired, history, vault>>
      /\ \/ order[o].kind \in ResaleKind /\ ResaleAskFillCore(o, quantity, a, paid)
         \/ order[o].kind = "WriterAsk" /\ WriterAskFillCore(o, quantity, a, paid)
  BY DEF BuyFromBook, AskWithinCeiling, ResaleKind
<1>2. BookMoney /\ TriggerTyped /\ committed \in [Traders -> Nat] /\ usdc \in [Traders -> Nat]
      /\ tEscrow \in [TriggerIds -> Nat]
  BY DEF TriggerInvariant, BookMoney, WalletsTyped, TriggerTyped
<1>3. order[o] \in RestingOrder
  BY <1>1, <1>2 DEF BookMoney, BookInvariant, BookTyped
<1>4. trigger[t].quantity \in Nat /\ trigger[t].max_premium \in Nat
  BY <1>1, BuyIs
<1>5. order[o].price \in Nat /\ order[o].quantity \in Nat
  BY <1>3 DEF RestingOrder
<1>6. quantity \in Nat \ {0} /\ quantity <= trigger[t].quantity /\ quantity <= order[o].quantity
  BY <1>1, <1>4, <1>5 DEF Smaller
<1> HIDE DEF quantity
<1>7. total \in Nat /\ total <= trigger[t].max_premium * quantity
  BY <1>1, <1>4, <1>5, <1>6, WithinCeiling DEF TotalOf
<1> HIDE DEF total
<1>8. /\ refund \in Nat /\ paid \in [Traders -> Nat]
      /\ tEscrow' \in [TriggerIds -> Nat]
      /\ \A u \in TriggerIds \ {t} : tEscrow'[u] = tEscrow[u]
      /\ tEscrow'[t] - tEscrow[t] = - (total + refund)
  BY <1>1, <1>6, <1>7, SpendKeeps
<1>9. a \in Traders /\ b \in Traders /\ a # b
  BY TriggerOwner, OwnerTrades
<1>10. paid = [usdc EXCEPT ![a] = @ + refund]
  BY DEF Repaid
<1> HIDE DEF paid, refund
<1>11. /\ committed' = [committed EXCEPT ![b] = @ + Locked(o, quantity)]
       /\ \A u \in Traders :
            /\ Worth(usdc', order', escrow', UsdcKind)[u] = Worth(paid, order, escrow, UsdcKind)[u]
                 + (IF u = b THEN ShareOf(o, quantity) - Locked(o, quantity) ELSE 0)
            /\ Worth(tokens', order', escrow', ResaleKind)[u]
                 = Held[u] + (IF u = a THEN quantity ELSE 0)
                   + (IF u = b THEN - Given(o, quantity) ELSE 0)
  BY <1>1, <1>2, <1>6, <1>8, <1>9, AskMoves
<1>12. Armed(tEscrow, a) \in Int /\ Armed(tEscrow', a) = Armed(tEscrow, a) + (- (total + refund))
  BY <1>2, <1>8, ArmedMoves
<1>13. Cash[a] \in Int /\ Held[a] \in Int
  BY <1>2, <1>9, WorthTyped
<1>14. Wealth(a) = Cash[a] + committed[a] + Armed(tEscrow, a) /\ Holding(a) = Held[a]
  BY <1>9, WealthIs
<1> HIDE DEF a, b
<1>15. Worth(paid, order, escrow, UsdcKind)[a] = Cash[a] + refund
  <2>1. usdc[a] \in Nat /\ paid[a] = usdc[a] + refund
    BY <1>2, <1>9, <1>10
  <2>2. Waiting(order, escrow, UsdcKind, a) \in Nat
    BY <1>2, WaitingTotal DEF BookMoney, BookInvariant, BookTyped
  <2>3. /\ Worth(paid, order, escrow, UsdcKind)[a] = paid[a] + Waiting(order, escrow, UsdcKind, a)
        /\ Cash[a] = usdc[a] + Waiting(order, escrow, UsdcKind, a)
    BY <1>9 DEF Worth, Cash
  <2> QED BY <1>8, <2>1, <2>2, <2>3
<1>16. Worth(usdc', order', escrow', UsdcKind)[a] = Cash[a] + refund
       /\ HoldingNext(a) = Held[a] + quantity
       /\ committed'[a] = committed[a] /\ committed[a] \in Nat
  BY <1>2, <1>6, <1>8, <1>9, <1>11, <1>13, <1>15 DEF HoldingNext
<1>17. WealthNext(a) = (Cash[a] + refund) + committed[a] + (Armed(tEscrow, a) + (- (total + refund)))
  BY <1>12, <1>16 DEF WealthNext
<1>18. Wealth(a) - WealthNext(a) = total
  BY <1>7, <1>8, <1>12, <1>13, <1>14, <1>16, <1>17
<1>19. WithinNext(t, quantity)
  BY <1>1, <1>7, <1>14, <1>16, <1>18 DEF WithinNext, a
<1> QED BY <1>1, <1>6, <1>19 DEF FiresWithin

(* The vault's own quote, within the ceiling. *)
LEMMA BuyFromVaultTrades ==
    ASSUME TriggerInvariant, NEW t \in TriggerIds, NEW premium \in Prices,
           BuyFromVault(t, premium)
    PROVE  FiresWithin(t)
<1> DEFINE quantity == trigger[t].quantity
           total == quantity * premium
           refund == Refund(t, quantity, total)
           w == Owner(t)
<1>1. /\ trigger[t] # NoTrigger /\ IsBuy(t) /\ quantity > 0
      /\ total <= trigger[t].max_premium * quantity
      /\ SpendEscrow(t, quantity, total) /\ Fired(t, quantity)
      /\ usdc' = Repaid(t, quantity, total)
      /\ tokens' = [tokens EXCEPT ![w] = @ + quantity]
      /\ UNCHANGED <<order, escrow, committed>>
  BY DEF BuyFromVault, book
<1>2. BookMoney /\ TriggerTyped
      /\ committed \in [Traders -> Nat] /\ tEscrow \in [TriggerIds -> Nat]
      /\ usdc \in [Traders -> Nat] /\ tokens \in [Traders -> Nat]
      /\ escrow \in [OrderIds -> Nat]
  BY DEF TriggerInvariant, BookMoney, WalletsTyped, TriggerTyped, BookInvariant, BookTyped
<1>3. quantity \in Nat \ {0} /\ quantity <= trigger[t].quantity
  <2>1. quantity \in Nat
    BY <1>1, BuyIs
  <2> QED BY <1>1, <2>1
<1>4. premium \in Nat
  BY BookAssumption
<1> HIDE DEF quantity
<1>5. total \in Nat
  BY <1>3, <1>4
<1> HIDE DEF total
<1>6. /\ refund \in Nat
      /\ tEscrow' \in [TriggerIds -> Nat]
      /\ \A u \in TriggerIds \ {t} : tEscrow'[u] = tEscrow[u]
      /\ tEscrow'[t] - tEscrow[t] = - (total + refund)
  BY <1>1, <1>3, <1>5, SpendKeeps
<1>7. w \in Traders
  BY TriggerOwner
<1>8. usdc' = [usdc EXCEPT ![w] = @ + refund]
  BY <1>1 DEF Repaid
<1>9. Armed(tEscrow, w) \in Int /\ Armed(tEscrow', w) = Armed(tEscrow, w) + (- (total + refund))
  BY <1>2, <1>6, ArmedMoves
<1> HIDE DEF refund, w
<1>10. Wealth(w) = Cash[w] + committed[w] + Armed(tEscrow, w) /\ Holding(w) = Held[w]
  BY <1>7, WealthIs
<1>11. /\ usdc[w] \in Nat /\ usdc'[w] = usdc[w] + refund
       /\ tokens[w] \in Nat /\ tokens'[w] = tokens[w] + quantity
       /\ committed[w] \in Nat /\ committed'[w] = committed[w]
  BY <1>1, <1>2, <1>7, <1>8
<1>12. /\ Waiting(order, escrow, UsdcKind, w) \in Nat
       /\ Waiting(order, escrow, ResaleKind, w) \in Nat
  BY <1>2, WaitingTotal
<1>13. /\ Cash[w] = usdc[w] + Waiting(order, escrow, UsdcKind, w)
       /\ Held[w] = tokens[w] + Waiting(order, escrow, ResaleKind, w)
       /\ Worth(usdc', order', escrow', UsdcKind)[w] = usdc'[w] + Waiting(order, escrow, UsdcKind, w)
       /\ HoldingNext(w) = tokens'[w] + Waiting(order, escrow, ResaleKind, w)
  BY <1>1, <1>7 DEF Worth, Cash, Held, HoldingNext
<1>14. HoldingNext(w) = Holding(w) + quantity
  BY <1>3, <1>10, <1>11, <1>12, <1>13
<1>15. Wealth(w) - WealthNext(w) = total
  BY <1>5, <1>6, <1>9, <1>10, <1>11, <1>12, <1>13 DEF WealthNext
<1>16. WithinNext(t, quantity)
  BY <1>1, <1>14, <1>15 DEF WithinNext, w
<1> QED BY <1>1, <1>3, <1>16 DEF FiresWithin

(* A bid that another trader made, hit above the floor. *)
LEMMA SellToBookTrades ==
    ASSUME TriggerInvariant, NEW t \in TriggerIds, NEW o \in OrderIds, SellToBook(t, o),
           Owner(o) # Owner(t)
    PROVE  FiresWithin(t)
<1> DEFINE quantity == Smaller(Smaller(trigger[t].quantity, order[o].quantity),
                               tokens[Owner(t)])
           total == TotalOf(o, quantity)
           fee == FeeOf(o, quantity)
           share == ShareOf(o, quantity)
           a == Owner(o)
           b == Owner(t)
<1>1. /\ trigger[t] # NoTrigger /\ ~IsBuy(t) /\ order[o] # NoOrder /\ order[o].kind = "Bid"
      /\ order[o].price >= trigger[t].max_premium
      /\ quantity > 0 /\ BidFillCore(o, quantity, b) /\ Fired(t, quantity)
      /\ ~expired
      /\ UNCHANGED <<expired, history, tEscrow, vault>>
  BY DEF SellToBook, BidAboveFloor
<1>2. BookMoney /\ TriggerTyped
      /\ committed \in [Traders -> Nat] /\ treasury \in Nat
      /\ tokens \in [Traders -> Nat] /\ tEscrow \in [TriggerIds -> Nat]
  BY DEF TriggerInvariant, BookMoney, WalletsTyped, TriggerTyped
<1>3. order[o] \in RestingOrder /\ trigger[t] \in TriggerOrder
  BY <1>1, <1>2 DEF BookMoney, BookInvariant, BookTyped, TriggerTyped
<1>4. a \in Traders /\ b \in Traders /\ a # b
  BY TriggerOwner, OwnerTrades
<1>5. /\ order[o].quantity \in Nat /\ order[o].price \in Nat
      /\ trigger[t].quantity \in Nat /\ trigger[t].max_premium \in Nat
      /\ tokens[b] \in Nat
  BY <1>2, <1>3, <1>4 DEF RestingOrder, TriggerOrder
<1>6. quantity \in Nat \ {0} /\ quantity <= trigger[t].quantity /\ quantity <= order[o].quantity
  BY <1>1, <1>5 DEF Smaller
<1> HIDE DEF quantity
<1>7. fee \in Nat /\ share \in Nat /\ share = total - fee /\ total \in Nat
  BY <1>3, <1>6, SplitNat
<1>8. total >= trigger[t].max_premium * quantity
  <2>1. quantity * order[o].price >= trigger[t].max_premium * quantity
    BY <1>1, <1>5, <1>6, WithinCeiling
  <2> QED BY <2>1 DEF TotalOf
<1>9. /\ treasury' = treasury + fee /\ committed' = committed
      /\ \A u \in Traders :
           /\ Worth(usdc', order', escrow', UsdcKind)[u]
                = Cash[u] + (IF u = a THEN - total ELSE 0) + (IF u = b THEN share ELSE 0)
           /\ Worth(tokens', order', escrow', ResaleKind)[u]
                = Held[u] + (IF u = a THEN quantity ELSE 0) + (IF u = b THEN - quantity ELSE 0)
  BY <1>1, <1>2, <1>4, <1>6, BidMoves
<1>10. Cash[b] \in Int /\ Held[b] \in Int
  BY <1>2, <1>4, WorthTyped
<1>11. Wealth(b) = Cash[b] + committed[b] + Armed(tEscrow, b) /\ Holding(b) = Held[b]
  BY <1>4, WealthIs
<1>12. Armed(tEscrow, b) \in Int /\ Armed(tEscrow', b) = Armed(tEscrow, b)
  <2>1. tEscrow' = tEscrow
    BY <1>1
  <2> QED BY <1>2, <2>1, ArmedMoves
<1> HIDE DEF total, fee, share, a, b
<1>13. Worth(usdc', order', escrow', UsdcKind)[b] = Cash[b] + share
       /\ HoldingNext(b) = Held[b] - quantity
  BY <1>4, <1>6, <1>7, <1>9, <1>10 DEF HoldingNext
<1>14. WealthNext(b) = (Cash[b] + share) + committed[b] + Armed(tEscrow, b)
       /\ committed[b] \in Nat
  BY <1>2, <1>4, <1>9, <1>12, <1>13 DEF WealthNext
<1>15. (treasury' - treasury) - (Wealth(b) - WealthNext(b)) = total
  BY <1>2, <1>7, <1>9, <1>10, <1>11, <1>12, <1>14
<1>16. WithinNext(t, quantity)
  BY <1>1, <1>8, <1>11, <1>13, <1>15 DEF WithinNext, b
<1> QED BY <1>1, <1>6, <1>16 DEF FiresWithin

(* An exercise, which takes the options it pays for. *)
LEMMA ExerciseTrades ==
    ASSUME TriggerInvariant, NEW t \in TriggerIds, NEW intrinsic \in Payoffs,
           ExerciseTrigger(t, intrinsic)
    PROVE  FiresWithin(t)
<1> DEFINE quantity == Smaller(trigger[t].quantity, tokens[Owner(t)])
           w == Owner(t)
<1>1. /\ trigger[t] # NoTrigger /\ ~IsBuy(t) /\ quantity > 0
      /\ tokens' = [tokens EXCEPT ![w] = @ - quantity]
      /\ Fired(t, quantity)
      /\ order' = order /\ escrow' = escrow
  BY DEF ExerciseTrigger, IsBuy, book
<1>2. tokens \in [Traders -> Nat] /\ TriggerTyped /\ escrow \in [OrderIds -> Nat]
  BY DEF TriggerInvariant, BookMoney, WalletsTyped, BookInvariant, BookTyped
<1>3. w \in Traders
  BY TriggerOwner
<1>4. trigger[t].quantity \in Nat /\ tokens[w] \in Nat
  BY <1>1, <1>2, <1>3 DEF TriggerTyped, TriggerOrder
<1>5. quantity \in Nat \ {0} /\ quantity <= trigger[t].quantity
  BY <1>1, <1>4 DEF Smaller
<1> HIDE DEF quantity, w
<1>6. Waiting(order, escrow, ResaleKind, w) \in Nat
  BY <1>2, WaitingTotal
<1>7. /\ Holding(w) = tokens[w] + Waiting(order, escrow, ResaleKind, w)
      /\ HoldingNext(w) = (tokens[w] - quantity) + Waiting(order, escrow, ResaleKind, w)
  <2>1. Holding(w) = Held[w]
    BY <1>3, WealthIs
  <2>2. tokens'[w] = tokens[w] - quantity
    BY <1>1, <1>2, <1>3
  <2> QED BY <1>1, <1>3, <2>1, <2>2 DEF Held, HoldingNext, Worth
<1>8. HoldingNext(w) = Holding(w) - quantity
  BY <1>4, <1>5, <1>6, <1>7
<1>9. WithinNext(t, quantity)
  BY <1>1, <1>8 DEF WithinNext, w
<1> QED BY <1>1, <1>5, <1>9 DEF FiresWithin

(* The trigger that a trade on somebody's behalf fires. *)
LEMMA FireStep ==
    ASSUME TriggerInvariant, [TNext]_allVars, NEW u \in Traders, Traded,
           NEW s \in OwnedBy(TriggerIds, u), LeftNext(s) < Left(s),
           \A o \in OwnedBy(OrderIds, u) : order'[o] = order[o]
    PROVE  \E t \in OwnedBy(TriggerIds, u) : FiresWithin(t)
<1>1. s \in TriggerIds /\ Owner(s) = u
  BY DEF OwnedBy
<1>2. Left(s) \in Nat
  BY <1>1 DEF TriggerInvariant, TriggerTyped, TriggerOrder, Left, Placed
<1>3. trigger'[s] # trigger[s]
  <2>1. SUFFICES ASSUME trigger'[s] = trigger[s] PROVE FALSE
    OBVIOUS
  <2>2. LeftNext(s) = Left(s)
    BY <2>1 DEF LeftNext, Left, Placed
  <2> QED BY <1>2, <2>2
<1>4. ExecuteTrigger
  <2>1. ~OwnerStep
    <3>1. SUFFICES ASSUME OwnerStep PROVE UNCHANGED <<order, pool>>
      BY DEF Traded
    <3> QED BY <3>1 DEF OwnerStep, PlaceTrigger, LinkOco, CancelTrigger, bookVars, book, vault
  <2>2. ~(BookStep \/ VaultFinalizes \/ UNCHANGED allVars)
    BY <1>3 DEF BookStep, VaultFinalizes, FinalizeInto, allVars, triggers
  <2>3. ~OthersFinalize
    BY <1>3 DEF OthersFinalize, ReceiveInto, triggers
  <2> QED BY <2>1, <2>2, <2>3 DEF TNext
<1>5. PICK t \in TriggerIds :
          \/ \E o \in OrderIds \ ListingIds :
                 \/ BuyFromBook(t, o) \/ SkipBuyFromBook(t, o)
                 \/ SellToBook(t, o)  \/ SkipSellToBook(t, o)
          \/ \E premium \in Prices : BuyFromVault(t, premium)
          \/ \E intrinsic \in Payoffs : ExerciseTrigger(t, intrinsic)
          \/ SkipStopLoss(t)
          \/ SkipExercise(t)
  BY <1>4 DEF ExecuteTrigger
<1>6. ~Skipped(t)
  BY DEF Skipped, Traded, bookVars, book, vault
<1>7. ASSUME NEW n \in Nat \ {0}, n <= trigger[t].quantity, trigger[t] # NoTrigger, Fired(t, n)
      PROVE  Owner(t) = u
  <2>1. CASE s = t
    BY <1>1, <2>1
  <2>2. CASE s # t
    <3>1. s = trigger[t].link /\ Owner(s) = Owner(t)
      BY <1>1, <1>3, <1>7, <2>2, FiredMoves DEF TriggerInvariant
    <3> QED BY <1>1, <3>1
  <2> QED BY <2>1, <2>2
<1>8. ASSUME FiresWithin(t), trigger[t] # NoTrigger PROVE t \in OwnedBy(TriggerIds, u)
  BY <1>7, <1>8 DEF FiresWithin, OwnedBy
<1>9. /\ tokens \in [Traders -> Nat] /\ TriggerTyped
      /\ \A o \in OrderIds : order[o] # NoOrder => order[o].quantity \in Nat
  BY DEF TriggerInvariant, BookMoney, WalletsTyped, BookInvariant, BookTyped, RestingOrder
<1>10. ASSUME NEW o \in OrderIds, BuyFromBook(t, o) PROVE FiresWithin(t) /\ trigger[t] # NoTrigger
  <2> DEFINE quantity == Smaller(trigger[t].quantity, order[o].quantity)
             amount == Escrowed(order[o], quantity)
  <2>1. /\ trigger[t] # NoTrigger /\ order[o] # NoOrder /\ quantity > 0 /\ Fired(t, quantity)
        /\ \E n : Fill(o, quantity, n)
    BY <1>10 DEF BuyFromBook, AskWithinCeiling, WriterAskFillCore, ResaleAskFillCore
  <2>2. trigger[t].quantity \in Nat
    BY <1>9, <2>1 DEF TriggerTyped, TriggerOrder
  <2>3. /\ quantity \in Nat \ {0} /\ quantity <= trigger[t].quantity
        /\ quantity <= order[o].quantity
    BY <1>9, <2>1, <2>2 DEF Smaller
  <2> HIDE DEF quantity
  <2>4. order'[o] # order[o]
    BY <2>1, <2>3, FillShows
  <2>5. Owner(t) = u /\ Owner(o) # u
    BY <1>7, <2>1, <2>3, <2>4 DEF OwnedBy
  <2> QED BY <1>10, <2>1, <2>5, BuyFromBookTrades
<1>11. ASSUME NEW o \in OrderIds, SellToBook(t, o) PROVE FiresWithin(t) /\ trigger[t] # NoTrigger
  <2> DEFINE quantity == Smaller(Smaller(trigger[t].quantity, order[o].quantity),
                                 tokens[Owner(t)])
  <2>1. /\ trigger[t] # NoTrigger /\ order[o] # NoOrder /\ quantity > 0 /\ Fired(t, quantity)
        /\ \E n : Fill(o, quantity, n)
    BY <1>11 DEF SellToBook, BidAboveFloor, BidFillCore
  <2>2. trigger[t].quantity \in Nat /\ tokens[Owner(t)] \in Nat
    BY <1>9, <2>1, TriggerOwner DEF TriggerTyped, TriggerOrder
  <2>3. /\ quantity \in Nat \ {0} /\ quantity <= trigger[t].quantity
        /\ quantity <= order[o].quantity
    BY <1>9, <2>1, <2>2 DEF Smaller
  <2> HIDE DEF quantity
  <2>4. order'[o] # order[o]
    BY <2>1, <2>3, FillShows
  <2>5. Owner(t) = u /\ Owner(o) # u
    BY <1>7, <2>1, <2>3, <2>4 DEF OwnedBy
  <2> QED BY <1>11, <2>1, <2>5, SellToBookTrades
<1>12. ASSUME NEW premium \in Prices, BuyFromVault(t, premium)
       PROVE  FiresWithin(t) /\ trigger[t] # NoTrigger
  BY <1>12, BuyFromVaultTrades DEF BuyFromVault
<1>13. ASSUME NEW intrinsic \in Payoffs, ExerciseTrigger(t, intrinsic)
       PROVE  FiresWithin(t) /\ trigger[t] # NoTrigger
  BY <1>13, ExerciseTrades DEF ExerciseTrigger
<1>14. FiresWithin(t) /\ trigger[t] # NoTrigger
  BY <1>5, <1>6, <1>10, <1>11, <1>12, <1>13
     DEF SkipBuyFromBook, SkipSellToBook, SkipStopLoss, SkipExercise
<1> QED BY <1>8, <1>14

(* Whoever executes a trigger, its owner trades exactly what comes off it,  *)
(* for no more than its ceiling, or on the book no less than its floor.     *)
THEOREM FiresInLimit == TSpec => FiresWithinLimit
<1> DEFINE InLimit ==
      \A u \in Traders :
          (/\ Traded
           /\ \E t \in OwnedBy(TriggerIds, u) : Shrinks(t)
           /\ \A o \in OwnedBy(OrderIds, u) : order'[o] = order[o])
          => \E t \in OwnedBy(TriggerIds, u) : Within(t)
<1>1. TriggerInvariant /\ TriggerInvariant' /\ [TNext]_allVars => [InLimit]_allVars
  <2> SUFFICES ASSUME TriggerInvariant, TriggerInvariant', [TNext]_allVars,
                      NEW u \in Traders, Traded,
                      NEW s \in OwnedBy(TriggerIds, u), Shrinks(s),
                      \A o \in OwnedBy(OrderIds, u) : order'[o] = order[o]
               PROVE  \E t \in OwnedBy(TriggerIds, u) : Within(t)
    OBVIOUS
  <2>1. ASSUME NEW t \in TriggerIds PROVE Left(t)' = LeftNext(t)
    BY DEF Left, Placed, LeftNext
  <2>2. LeftNext(s) < Left(s)
    BY <2>1 DEF Shrinks, OwnedBy
  <2>3. PICK t \in OwnedBy(TriggerIds, u) : FiresWithin(t)
    BY <2>2, FireStep
  <2>4. PICK n \in Nat \ {0} : n <= trigger[t].quantity /\ Fired(t, n) /\ WithinNext(t, n)
    BY <2>3 DEF FiresWithin
  <2>5. t \in TriggerIds /\ Owner(t) = u
    BY DEF OwnedBy
  <2>6. Left(t) = trigger[t].quantity /\ Left(t) \in Nat
    BY <2>3, <2>5 DEF FiresWithin, TriggerInvariant, TriggerTyped, TriggerOrder, Left, Placed
  <2>7. Left(t) - Left(t)' = n
    <3>1. LeftNext(t) = trigger[t].quantity - n
      BY <2>3, <2>4, <2>5, FiredMoves DEF FiresWithin, TriggerInvariant
    <3> QED BY <2>1, <2>5, <2>6, <3>1
  <2>8. Wealth(u)' = WealthNext(u) /\ Holding(u)' = HoldingNext(u)
    BY WealthNextIs
  <2>9. Within(t)
    <3>1. n > 0
      OBVIOUS
    <3>2. CASE /\ IsBuy(t)
               /\ HoldingNext(u) = Holding(u) + n
               /\ Wealth(u) - WealthNext(u) <= trigger[t].max_premium * n
      BY <2>5, <2>7, <2>8, <3>1, <3>2 DEF Within
    <3>3. CASE /\ ~IsBuy(t)
               /\ HoldingNext(u) = Holding(u) - n
               /\ order' # order => (treasury' - treasury) - (Wealth(u) - WealthNext(u))
                                      >= trigger[t].max_premium * n
      BY <2>5, <2>7, <2>8, <3>1, <3>3 DEF Within
    <3> QED BY <2>4, <2>5, <3>2, <3>3 DEF WithinNext
  <2> QED BY <2>9
<1> QED BY <1>1, TriggerInit, TriggerStep, PTL DEF TSpec, FiresWithinLimit
==========================================================================
