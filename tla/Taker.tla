------------------------------- MODULE Taker -------------------------------
(***************************************************************************)
(* The treasury's taker (taker/src/main.ts): each tick scans the asks that *)
(* rest on the book, waits out a delay per order, sizes a fill under the   *)
(* daily, float and open-interest caps, looks once more, sends it and      *)
(* charges a ledger.  The ledger and the sightings are a database that     *)
(* survives a crash; all else is the tick's.  Only orders that pass the    *)
(* constant gates (owner, American series) are kept, and an order is       *)
(* named by its address: a seller may cancel it and post another there.    *)
(* A fault is a request that fails, a confirmation that is lost, an order  *)
(* missing from a scan, or a crash.  USDC are whole units.                 *)
(***************************************************************************)
EXTENDS Naturals, FiniteSets

CONSTANTS
    Orders,        \* addresses of asks
    WriterAsks,    \* those whose fill mints, and opens interest
    Wallets, Owner,
    OffCurve,      \* wallets that are no curve point: program addresses
    StartBook,     \* what rests at the start: quantity and price
    Strike, Expiry,
    Prices, MaxQuantity,
    Band,          \* prices at an acceptable discount to fair value
    Delay,         \* delayForOrder: a function of the address
    MinTte,        \* least time to expiry for a fill
    MaxFill, MaxWalletDay, MaxGlobalDay, MaxFloat, MaxOi,
    DayLength, MaxTime,
    MaxReposts, MaxFaults

Asks   == [qty : 1..MaxQuantity, price : Prices]
Day(t) == t \div DayLength
Days   == {Day(t) : t \in 0..MaxTime}

ASSUME TakerAssumption ==
    /\ WriterAsks \subseteq Orders
    /\ Owner \in [Orders -> Wallets] /\ OffCurve \subseteq Wallets
    /\ Prices \subseteq Nat \ {0} /\ Prices # {} /\ Band \subseteq Prices
    /\ MaxQuantity \in Nat /\ StartBook \in [Orders -> [qty : 0..MaxQuantity, price : Prices]]
    /\ Strike \in [Orders -> Nat \ {0}] /\ Expiry \in [Orders -> Nat]
    /\ Delay \in [Orders -> Nat] /\ MinTte \in Nat
    /\ MaxFill \in Nat /\ MaxWalletDay \in Nat /\ MaxGlobalDay \in Nat
    /\ MaxFloat \in Nat /\ MaxOi \in Nat
    /\ DayLength \in Nat \ {0} /\ MaxTime \in Nat
    /\ MaxReposts \in Nat /\ MaxFaults \in Nat

VARIABLES
    now,
    book,      \* on chain: what rests at each address (quantity 0: nothing)
    seen,      \* seen_orders: when an address was first sighted
    walletSpent, globalSpent,   \* the daily ledgers
    float, oi,                  \* float_state
    pc, started, todo,          \* the tick, its time, its snapshot
    plan,      \* the fill in hand
    paid,      \* USDC that really left the treasury
    slips,     \* fills unrecorded, or of an order that changed under way
    reposts, faults

ledger == <<walletSpent, globalSpent, float, oi>>
tick   == <<pc, started, todo, plan>>
truth  == <<paid, slips>>
vars   == <<now, book, seen, ledger, tick, truth, reposts, faults>>

NoAsks == [o \in {} |-> [qty |-> 0, price |-> 0]]
NoPlan == [order |-> CHOOSE o \in Orders : TRUE, qty |-> 0, price |-> 0]

Init ==
    /\ now = 0
    /\ book = StartBook
    /\ seen = [o \in {} |-> 0]
    /\ walletSpent = [d \in Days |-> [w \in Wallets |-> 0]]
    /\ globalSpent = [d \in Days |-> 0]
    /\ float = 0 /\ oi = 0
    /\ pc = "idle" /\ started = 0 /\ todo = NoAsks /\ plan = NoPlan
    /\ paid = 0 /\ slips = 0
    /\ reposts = 0 /\ faults = 0

Fault   == faults < MaxFaults /\ faults' = faults + 1
NoFault == UNCHANGED faults

Resting == {o \in Orders : book[o].qty > 0}

(* The chain takes a fill if that much still rests and the series is open.  *)
Fillable(o, q) == book[o].qty >= q /\ now < Expiry[o]

---------------------------------------------------------------------------
(* The ledger. *)

(* Faulty: asks whether a cap is used up, not whether the fill fits it.     *)
WithinUsedUp(o, cost, interest) ==
    LET day == Day(started) IN
    /\ cost <= MaxFill
    /\ walletSpent[day][Owner[o]] + cost <= MaxWalletDay
    /\ globalSpent[day] + cost <= MaxGlobalDay
    /\ float < MaxFloat
    /\ oi < MaxOi

(* Faulty: leaves the seller's daily cap out.                               *)
WithinGlobalBudget(o, cost, interest) ==
    /\ cost <= MaxFill
    /\ globalSpent[Day(started)] + cost <= MaxGlobalDay
    /\ float + cost <= MaxFloat
    /\ oi + interest <= MaxOi

(* What fits the headroom of every cap, as the tick's own day counts it.    *)
WithinBudget(o, cost, interest) ==
    LET day == Day(started) IN
    /\ cost <= MaxFill
    /\ walletSpent[day][Owner[o]] + cost <= MaxWalletDay
    /\ globalSpent[day] + cost <= MaxGlobalDay
    /\ float + cost <= MaxFloat
    /\ oi + interest <= MaxOi

Interest(o, q) == IF o \in WriterAsks THEN q * Strike[o] ELSE 0

(* The largest quantity that fits, if any does.                             *)
Affordable(o, ask) ==
    LET fits == {q \in 1..ask.qty : WithinBudget(o, q * ask.price, Interest(o, q))}
    IN  {q \in fits : \A r \in fits : r <= q}

(* Faulty: a minting fill is charged as interest only.                      *)
RecordFillByKind(o, cost, interest) ==
    LET day == Day(now) IN
    /\ walletSpent' = [walletSpent EXCEPT ![day][Owner[o]] = @ + cost]
    /\ globalSpent' = [globalSpent EXCEPT ![day] = @ + cost]
    /\ float' = IF o \in WriterAsks THEN float ELSE float + cost
    /\ oi' = oi + interest

(* One database transaction, on the day of the confirmation.                *)
RecordFill(o, cost, interest) ==
    LET day == Day(now) IN
    /\ walletSpent' = [walletSpent EXCEPT ![day][Owner[o]] = @ + cost]
    /\ globalSpent' = [globalSpent EXCEPT ![day] = @ + cost]
    /\ float' = float + cost
    /\ oi' = oi + interest

---------------------------------------------------------------------------
(* The tick. *)

(* The scan, the prune of old sightings of orders it did not show, and the  *)
(* time everything in the tick is judged by.                                *)
BeginTick ==
    /\ pc = "idle"
    /\ \E visible \in SUBSET Resting :
        /\ IF visible = Resting THEN NoFault ELSE Fault
        /\ todo' = [o \in visible |-> book[o]]
        /\ LET old == {o \in DOMAIN seen : seen[o] + DayLength < now}
           IN  seen' = [o \in DOMAIN seen \ (old \ visible) |-> seen[o]]
    /\ pc' = "loop"
    /\ started' = now
    /\ UNCHANGED <<now, book, ledger, plan, truth, reposts>>

Rest(o) == [x \in DOMAIN todo \ {o} |-> todo[x]]

(* seeOrder: the clock of an address starts on first sight and stays.       *)
SeeOrder(o) ==
    seen' = [x \in DOMAIN seen \cup {o} |-> IF x \in DOMAIN seen THEN seen[x] ELSE started]

(* Every gate that needs no ledger.                                         *)
Passes(o) ==
    /\ started + MinTte <= Expiry[o]
    /\ started >= seen'[o] + Delay[o]
    /\ todo[o].price \in Band

(* evaluate, and a simulation that accepts the fill.                        *)
Approve(o) ==
    /\ pc = "loop" /\ o \in DOMAIN todo
    /\ SeeOrder(o)
    /\ Passes(o)
    /\ Owner[o] \notin OffCurve
    /\ \E q \in Affordable(o, todo[o]) :
        /\ Fillable(o, q)
        /\ plan' = [order |-> o, qty |-> q, price |-> todo[o].price]
    /\ pc' = "look"
    /\ todo' = Rest(o)
    /\ UNCHANGED <<now, book, ledger, started, truth, reposts, faults>>

(* No fill is decided on, or the simulation refuses the one that is. *)
Refused(o) ==
    \/ ~Passes(o)
    \/ Affordable(o, todo[o]) = {}
    \/ /\ Owner[o] \notin OffCurve
       /\ \A q \in Affordable(o, todo[o]) : ~Fillable(o, q)

(* Faulty: an order that is refused ends the tick.                          *)
SkipEndsTick(o) ==
    /\ pc = "loop" /\ o \in DOMAIN todo
    /\ SeeOrder(o)
    /\ (Refused(o) /\ NoFault) \/ Fault
    /\ todo' = NoAsks
    /\ UNCHANGED <<now, book, ledger, pc, started, plan, truth, reposts>>

(* A quote that reverts and a simulation that fails skip their order, too.  *)
Skip(o) ==
    /\ pc = "loop" /\ o \in DOMAIN todo
    /\ SeeOrder(o)
    /\ (Refused(o) /\ NoFault) \/ Fault
    /\ todo' = Rest(o)
    /\ UNCHANGED <<now, book, ledger, pc, started, plan, truth, reposts>>

(* What throws outside of the handling of one order ends the tick: a quote  *)
(* that fails otherwise, and, whenever a fill of it is decided on, building *)
(* the fill for an off-curve maker, who has no associated token account the *)
(* client would derive.                                                     *)
OrderEndsTick(o) ==
    /\ pc = "loop" /\ o \in DOMAIN todo
    /\ SeeOrder(o)
    /\ \/ /\ Owner[o] \in OffCurve
          /\ Passes(o) /\ Affordable(o, todo[o]) # {}
          /\ NoFault
       \/ Fault
    /\ pc' = "idle" /\ started' = 0 /\ todo' = NoAsks
    /\ UNCHANGED <<now, book, ledger, plan, truth, reposts>>

(* confirmStillRestingUnchanged.                                            *)
Unchanged(p) == book[p.order].price = p.price /\ book[p.order].qty >= p.qty

LastLook ==
    /\ pc = "look"
    /\ \/ Unchanged(plan) /\ NoFault /\ pc' = "send" /\ UNCHANGED plan
       \/ ~Unchanged(plan) /\ NoFault /\ pc' = "loop" /\ plan' = NoPlan
       \/ Fault /\ pc' = "loop" /\ plan' = NoPlan
    /\ UNCHANGED <<now, book, seen, ledger, started, todo, truth, reposts>>

(* The order is paid at the price it has when the fill lands: the           *)
(* instruction names an address and a quantity.                             *)
Lands(slip) ==
    LET o == plan.order IN
    /\ Fillable(o, plan.qty)
    /\ book' = [book EXCEPT ![o].qty = @ - plan.qty]
    /\ paid' = paid + plan.qty * book[o].price
    /\ slips' = IF slip \/ book[o].price # plan.price THEN slips + 1 ELSE slips

SendFill ==
    /\ pc = "send"
    /\ \/ Lands(FALSE) /\ NoFault /\ pc' = "record" /\ UNCHANGED plan
       \/ Lands(TRUE) /\ Fault /\ pc' = "loop" /\ plan' = NoPlan
       \/ ~Fillable(plan.order, plan.qty) /\ NoFault
          /\ pc' = "loop" /\ plan' = NoPlan /\ UNCHANGED <<book, truth>>
       \/ Fault /\ pc' = "loop" /\ plan' = NoPlan /\ UNCHANGED <<book, truth>>
    /\ UNCHANGED <<now, seen, ledger, started, todo, reposts>>

Record ==
    /\ pc = "record"
    /\ RecordFill(plan.order, plan.qty * plan.price, Interest(plan.order, plan.qty))
    /\ pc' = "loop"
    /\ plan' = NoPlan
    /\ UNCHANGED <<now, book, seen, started, todo, truth, reposts, faults>>

EndTick ==
    /\ pc = "loop" /\ DOMAIN todo = {}
    /\ pc' = "idle" /\ started' = 0
    /\ UNCHANGED <<now, book, seen, ledger, todo, plan, truth, reposts, faults>>

(* A fill that had landed is then known to nobody.  A batch of reads that   *)
(* fails before the first order is seen leaves the same behind.             *)
Crash ==
    /\ pc # "idle" /\ Fault
    /\ pc' = "idle" /\ started' = 0 /\ todo' = NoAsks /\ plan' = NoPlan
    /\ slips' = IF pc = "record" THEN slips + 1 ELSE slips
    /\ UNCHANGED <<now, book, seen, ledger, paid, reposts>>

---------------------------------------------------------------------------
(* Everybody else. *)

Others == <<seen, ledger, tick, truth, faults>>

TimePasses ==
    /\ now < MaxTime
    /\ now' = now + 1
    /\ UNCHANGED <<book, reposts, Others>>

(* cancel_order and post_order under the same nonce.                        *)
Repost(o, ask) ==
    /\ reposts < MaxReposts /\ now < Expiry[o]
    /\ book' = [book EXCEPT ![o] = ask]
    /\ reposts' = reposts + 1
    /\ UNCHANGED <<now, Others>>

(* fill_order by another taker, and cancel_order.                           *)
OtherFill(o, q) ==
    /\ q > 0 /\ Fillable(o, q)
    /\ book' = [book EXCEPT ![o].qty = @ - q]
    /\ UNCHANGED <<now, reposts, Others>>

Tick ==
    \/ BeginTick \/ LastLook \/ SendFill \/ Record \/ EndTick
    \/ \E o \in Orders : Approve(o) \/ Skip(o) \/ OrderEndsTick(o)

Next ==
    \/ Tick \/ Crash \/ TimePasses
    \/ \E o \in Orders : (\E q \in {1, book[o].qty} : OtherFill(o, q)) \/ (\E ask \in Asks : Repost(o, ask))

Spec == Init /\ [][Next]_vars

(* The loop goes on ticking and the clock with it; others may do nothing.   *)
FairSpec == Spec /\ WF_vars(Tick) /\ WF_vars(TimePasses)

---------------------------------------------------------------------------
(* Properties. *)

(* The float and the open interest on record never exceed their caps: every *)
(* fill is sized against the ledger that holds all the recorded ones        *)
(* (affordableQuantity, evaluate), and no second fill is sized before the   *)
(* first is on record or abandoned.                                         *)
LedgerCaps == float <= MaxFloat /\ oi <= MaxOi

(* A charge made on the day its tick began takes neither the seller nor the *)
(* day over the daily caps (affordableQuantity, recordFill).                *)
ChargesWithinCaps ==
    [][\A d \in Days : Day(started) = d /\ globalSpent'[d] > globalSpent[d] =>
          /\ globalSpent'[d] <= MaxGlobalDay
          /\ \A w \in Wallets : walletSpent'[d][w] > walletSpent[d][w] =>
                walletSpent'[d][w] <= MaxWalletDay]_vars

(* What left the treasury exceeds the float cap by at most a full fill, at  *)
(* the price it landed at, for each fill whose confirmation was lost or     *)
(* whose order changed after the last look (sendFill, recordFill).          *)
OverspendBounded ==
    \E top \in Prices : paid <= MaxFloat + slips * MaxFill * top

(* The bot has no reason, or no way, to buy of o. *)
Served(o) ==
    \/ book[o].qty = 0 \/ book[o].price \notin Band
    \/ now + MinTte > Expiry[o]
    \/ o \in DOMAIN seen /\ seen[o] + Delay[o] > MaxTime
    \/ ~(LET cost == book[o].price IN
          /\ cost <= MaxFill
          /\ walletSpent[Day(now)][Owner[o]] + cost <= MaxWalletDay
          /\ globalSpent[Day(now)] + cost <= MaxGlobalDay
          /\ float + cost <= MaxFloat
          /\ oi + Interest(o, 1) <= MaxOi)

(* A fill is due whose building throws, in every tick. *)
Blocked == \E o \in Orders : Owner[o] \in OffCurve /\ ~Served(o)

(* An ask that goes on resting in the band, with time and budget left, is   *)
(* bought: no other order, failed request or restart keeps the bot from it, *)
(* unless an off-curve seller's ask goes on resting there as well.          *)
SellersServed == <>[]~Blocked => <>[](\A o \in Orders : Served(o))
=============================================================================
