--------------------------- MODULE TriggerKeeper ---------------------------
(***************************************************************************)
(* The trigger keeper (crank/triggerCrank.ts): each tick reads all trigger *)
(* orders and one batch of prices, decides order by order whether to fire, *)
(* quotes the vault's peg and looks for an ask for a buy, and sends        *)
(* execute_trigger, up to so many times.  All it knows it forgets between  *)
(* ticks.  Of the chain the model keeps what decides whether a fire has an *)
(* effect: Triggers has the fires themselves, and OCO links.  Options are  *)
(* calls.  The peg is quoted per contract by a vault without a spread, so  *)
(* that it is also the contract's mark; prices, premiums and thresholds    *)
(* are USDC.                                                               *)
(* A fault is a request that fails, a transaction that is lost, a          *)
(* confirmation that is, or a crash.                                       *)
(***************************************************************************)
EXTENDS Naturals

CONSTANTS
    Stops,           \* trigger orders
    Unlisted,        \* those on markets whose feed the price service lacks
    Kind, Tape, Comparator, Threshold, Margin, MaxPremium,
    Quantity,        \* contracts each was placed for
    Attempts,        \* fire attempts within a tick: one by Pyth, more by Switchboard
    Asks,            \* addresses of asks on the series
    Peg, None,       \* the route of a fire without an ask; no order in hand
    Spots, Premiums, Strike,    \* of the vault, which writes calls
    MaxDepth,
    MaxChanges, MaxFaults

ASSUME KeeperAssumption ==
    /\ Unlisted \subseteq Stops
    /\ Kind \in [Stops -> {"StopEntryBuy", "TakeProfitSell", "StopLossSell"}]
    /\ Tape \in [Stops -> {"Underlying", "Contract"}]
    /\ Comparator \in [Stops -> {"le", "ge"}]
    /\ Threshold \in [Stops -> Nat] /\ Margin \in [Stops -> Nat]
    /\ \A t \in Stops : Margin[t] <= Threshold[t]
    /\ MaxPremium \in [Stops -> Nat]
    /\ Quantity \in [Stops -> Nat \ {0}] /\ Attempts \in [Stops -> Nat \ {0}]
    /\ Peg \notin Asks /\ None \notin Stops
    /\ Spots \subseteq Nat \ {0} /\ Premiums \subseteq Nat /\ Strike \in Nat
    /\ MaxDepth \in Nat /\ MaxChanges \in Nat /\ MaxFaults \in Nat

Ask == [depth : 0..MaxDepth, price : Premiums, payable : BOOLEAN]

VARIABLES
    spot, fresh,     \* what the price service publishes, and whether lately
    ema,             \* what the chain reads
    premium, room,   \* the vault's quote, and whether it can write
    asks,            \* payable: the maker still has an account for USDC
    left,            \* of each order; 0 once it is closed
    holding,         \* option tokens in the wallet of an order's owner
    pc, todo, seen,  \* the tick: orders not visited yet, the price it read (0: none)
    cur, route, attempt,        \* the order in hand
    changes, faults

world == <<spot, fresh, ema, premium, room, asks, left, holding>>
tick  == <<pc, todo, seen, cur, route, attempt>>
vars  == <<world, tick, changes, faults>>

Init ==
    /\ spot \in Spots /\ ema \in Spots /\ fresh = TRUE
    /\ premium \in Premiums /\ room = TRUE
    /\ asks \in [Asks -> [depth : {0, MaxDepth}, price : Premiums, payable : {TRUE}]]
    /\ \E absent \in SUBSET Unlisted :
          left = [t \in Stops |-> IF t \in absent THEN 0 ELSE Quantity[t]]
    /\ holding = Quantity
    /\ pc = "idle" /\ todo = {} /\ seen = 0
    /\ cur = None /\ route = Peg /\ attempt = 0
    /\ changes = 0 /\ faults = 0

Fault   == faults < MaxFaults /\ faults' = faults + 1
NoFault == UNCHANGED faults

IsBuy(t) == Kind[t] = "StopEntryBuy"
Smaller(a, b) == IF a < b THEN a ELSE b

---------------------------------------------------------------------------
(* execute_trigger. *)

Crosses(t, price) ==
    IF Comparator[t] = "ge" THEN price >= Threshold[t] ELSE price <= Threshold[t]

(* The chain re-checks the condition on the order's own tape.               *)
ConditionMet(t) == Crosses(t, IF Tape[t] = "Underlying" THEN ema ELSE premium)

Depth(t) == IF route = Peg THEN left[t]
            ELSE Smaller(left[t], asks[route].depth)

(* Whether the fire of t by the route in hand would be accepted.            *)
Accepted(t) ==
    /\ left[t] > 0
    /\ fresh
    /\ ConditionMet(t)
    /\ IsBuy(t) =>
         IF route = Peg THEN premium <= MaxPremium[t] /\ room
         ELSE /\ asks[route].depth > 0
              /\ asks[route].price <= MaxPremium[t]
              /\ asks[route].payable
    /\ (Kind[t] = "TakeProfitSell" /\ holding[t] > 0) => ema > Strike

(* What it does.  A sell whose owner moved the tokens is skipped, and so is *)
(* a stop-loss, which has nowhere to go without a bid.                      *)
Execute(t) ==
    LET fired == CASE IsBuy(t) -> Depth(t)
                   [] Kind[t] = "TakeProfitSell" -> Smaller(left[t], holding[t])
                   [] OTHER -> 0
    IN
    /\ left' = [left EXCEPT ![t] = @ - fired]
    /\ holding' = IF IsBuy(t) THEN holding ELSE [holding EXCEPT ![t] = @ - fired]
    /\ asks' = IF IsBuy(t) /\ route # Peg
               THEN [asks EXCEPT ![route].depth = @ - fired] ELSE asks
    /\ UNCHANGED <<spot, fresh, ema, premium, room>>

---------------------------------------------------------------------------
(* The tick. *)

NothingInHand == cur' = None /\ route' = Peg /\ attempt' = 0

Idle == pc' = "idle" /\ todo' = {} /\ seen' = 0 /\ NothingInHand

(* The next order; the tick ends with the last one.                         *)
Done ==
    IF todo = {} THEN Idle
    ELSE pc' = "loop" /\ NothingInHand /\ UNCHANGED <<todo, seen>>

(* Faulty: an order that fails ends the tick.                               *)
ErrorEndsTick == Idle

(* One failing order is skipped and the tick goes on.                       *)
OrderErrors == Done

FetchOrders ==
    /\ pc = "idle"
    /\ \E t \in Stops : left[t] > 0
    /\ todo' = {t \in Stops : left[t] > 0}
    /\ pc' = "prices"
    /\ NoFault
    /\ UNCHANGED <<world, seen, cur, route, attempt, changes>>

(* One batch for all; without it the tick is over.  The feeds of            *)
(* Opta-sourced markets are asked for too, and a feed the service does not  *)
(* know fails the request: no tick gets further while such an order lives.  *)
ReadPrices ==
    /\ pc = "prices"
    /\ \/ /\ NoFault
          /\ todo \intersect Unlisted = {}
          /\ seen' = IF fresh THEN spot ELSE 0
          /\ pc' = "loop"
          /\ UNCHANGED <<todo, cur, route, attempt>>
       \/ NoFault /\ todo \intersect Unlisted # {} /\ Idle
       \/ Fault /\ Idle
    /\ UNCHANGED <<world, changes>>

(* evaluateTrigger without the budget: the condition on the price the tick  *)
(* read, and beyond a margin; a sell that is out of the money waits.  The   *)
(* view it decides on does not carry the order's tape.                      *)
Eligible(t) ==
    /\ seen # 0
    /\ IF Comparator[t] = "ge" THEN seen >= Threshold[t] + Margin[t]
       ELSE seen <= Threshold[t] - Margin[t]
    /\ ~IsBuy(t) => seen > Strike

(* The orders of the snapshot are visited in no order one could rely on.    *)
Visit ==
    /\ pc = "loop"
    /\ \E t \in todo :
        /\ todo' = todo \ {t}
        /\ IF Eligible(t)
           THEN /\ cur' = t /\ route' = Peg /\ attempt' = 1
                /\ pc' = IF IsBuy(t) THEN "quote" ELSE "fire"
                /\ UNCHANGED seen
           ELSE IF todo = {t} THEN pc' = "idle" /\ seen' = 0 /\ NothingInHand
                ELSE UNCHANGED <<pc, seen, cur, route, attempt>>
    /\ NoFault
    /\ UNCHANGED <<world, changes>>

(* A buy over budget at the peg waits, whatever rests on the book.          *)
Quote ==
    /\ pc = "quote"
    /\ \/ /\ NoFault
          /\ IF premium <= MaxPremium[cur]
             THEN pc' = "discover" /\ UNCHANGED <<todo, seen, cur, route, attempt>>
             ELSE Done
       \/ Fault /\ OrderErrors
    /\ UNCHANGED <<world, changes>>

(* selectBestAsk.                                                           *)
Liftable(t)  == {a \in Asks : asks[a].depth > 0 /\ asks[a].price <= MaxPremium[t]}
BestAsks(t) ==
    {a \in Liftable(t) : \A b \in Liftable(t) : asks[a].price <= asks[b].price}

(* Without an answer the fire takes the peg.                                *)
Discover ==
    /\ pc = "discover"
    /\ pc' = "fire"
    /\ \/ NoFault /\ route' \in IF Liftable(cur) = {} THEN {Peg} ELSE BestAsks(cur)
       \/ Fault /\ route' = Peg
    /\ UNCHANGED <<world, todo, seen, cur, attempt, changes>>

Retry ==
    IF attempt < Attempts[cur]
    THEN attempt' = attempt + 1 /\ pc' = "fire" /\ UNCHANGED <<todo, seen, cur, route>>
    ELSE OrderErrors

(* The quote and the simulation: what the chain rejects is not sent again,  *)
(* what never reached it is.                                                *)
Simulate ==
    /\ pc = "fire"
    /\ \/ NoFault /\ Accepted(cur) /\ pc' = "sent"
             /\ UNCHANGED <<todo, seen, cur, route, attempt>>
       \/ NoFault /\ ~Accepted(cur) /\ OrderErrors
       \/ Fault /\ (Retry \/ OrderErrors)
    /\ UNCHANGED <<world, changes>>

(* What was sent lands, is refused by then, or is lost; and what landed may *)
(* look as if it had not.                                                   *)
Land ==
    /\ pc = "sent"
    /\ \/ Accepted(cur) /\ Execute(cur) /\ ((NoFault /\ Done) \/ (Fault /\ Retry))
       \/ UNCHANGED world /\ Retry /\ (IF Accepted(cur) THEN Fault ELSE NoFault)
    /\ UNCHANGED changes

KeeperStep ==
    \/ FetchOrders \/ ReadPrices \/ Visit
    \/ Quote \/ Discover \/ Simulate \/ Land

Crash == pc # "idle" /\ Fault /\ Idle /\ UNCHANGED <<world, changes>>

---------------------------------------------------------------------------
(* Everybody else. *)

PricesMove ==
    /\ spot' \in Spots /\ ema' \in Spots /\ premium' \in Premiums
    /\ UNCHANGED <<fresh, room, asks, left, holding>>

FeedOrVaultChanges ==
    /\ fresh' \in BOOLEAN /\ room' \in BOOLEAN
    /\ UNCHANGED <<spot, ema, premium, asks, left, holding>>

MakerActs ==
    /\ \E a \in Asks, ask \in Ask : asks' = [asks EXCEPT ![a] = ask]
    /\ UNCHANGED <<spot, fresh, ema, premium, room, left, holding>>

(* An owner cancels, or moves tokens in or out.                             *)
OwnerActs ==
    /\ \E t \in Stops :
        \/ left' = [left EXCEPT ![t] = 0] /\ UNCHANGED holding
        \/ /\ \E n \in 0..Quantity[t] : holding' = [holding EXCEPT ![t] = n]
           /\ UNCHANGED left
    /\ UNCHANGED <<spot, fresh, ema, premium, room, asks>>

WorldChanges ==
    /\ changes < MaxChanges
    /\ changes' = changes + 1
    /\ \/ PricesMove \/ FeedOrVaultChanges \/ MakerActs \/ OwnerActs
    /\ UNCHANGED <<tick, faults>>

Next == KeeperStep \/ Crash \/ WorldChanges

Spec == Init /\ [][Next]_vars

(* The keeper ticks on; changes and faults are finitely many.               *)
FairSpec == Spec /\ WF_vars(KeeperStep)

---------------------------------------------------------------------------
(* Properties. *)

(* The price service says so beyond the margin, and so does the chain.      *)
Triggered(t) ==
    /\ fresh
    /\ IF Comparator[t] = "ge" THEN spot >= Threshold[t] + Margin[t]
       ELSE spot <= Threshold[t] - Margin[t]
    /\ ConditionMet(t)

(* Every ask it might be given can be filled.                               *)
BookInOrder(t) == \A a \in Liftable(t) : asks[a].payable

(* A trigger that stays within what the keeper can do: a buy its vault can  *)
(* write within budget, a take-profit in the money.                         *)
Within(t) ==
    \/ IsBuy(t) /\ premium <= MaxPremium[t] /\ room /\ BookInOrder(t)
    \/ /\ Kind[t] = "TakeProfitSell"
       /\ spot > Strike /\ ema > Strike /\ holding[t] > 0

(* An order is armed that fails every batch of prices. *)
PricesWithheld == \E t \in Unlisted : left[t] > 0

(* Such a trigger is fired in full, whatever becomes of other orders, of    *)
(* requests and of confirmations, once no armed order keeps the keeper from *)
(* its prices for good.                                                     *)
StopsFire ==
    \A t \in Stops :
        []<>(left[t] = 0 \/ ~(Triggered(t) /\ Within(t)) \/ PricesWithheld)
=============================================================================
