--------------------------- MODULE TreasuryProofs ---------------------------
(***************************************************************************)
(* Theorems about the two bots of the treasury, for every value of their   *)
(* constants.                                                              *)
(*                                                                         *)
(* Taker: its caps are kept because a fill that is under way still fits    *)
(* the ledger it was sized against: nothing is recorded between            *)
(* affordableQuantity and recordFill.  What was really paid stays near the *)
(* ledger because every way a payment can differ from its charge is one    *)
(* slip, and a slip is worth at most a full fill.                          *)
(*                                                                         *)
(* WriterBot: a visit of a pass works on what the pass enumerated, and     *)
(* what rests is at most that (Shrunk).  The collateral is bounded through *)
(* full orders, which a reprice cannot raise and a fill leaves alone; the  *)
(* notional through what the pass counts, which covers what it has yet to  *)
(* visit; the inventory through the options held as enumerated.  Bids are  *)
(* clear of asks because the ask that was recorded is the one that rests.  *)
(***************************************************************************)
EXTENDS Taker, WriterBot, SumLemmas, TLAPS

(* The taker bot. *)

(* The fill in hand is a quantity of an order, at a price, that fits.       *)
PlanFits ==
    /\ plan.order \in Orders /\ plan.qty \in Nat /\ plan.price \in Nat
    /\ WithinBudget(plan.order, plan.qty * plan.price, Interest(plan.order, plan.qty))

ChainTyped ==
    /\ now \in 0..MaxTime /\ started \in 0..MaxTime
    /\ book \in [Orders -> [qty : Nat, price : Nat]]

TodoTyped ==
    /\ DOMAIN todo \subseteq Orders
    /\ \A o \in DOMAIN todo : todo[o] \in [qty : Nat, price : Nat]

LedgerTyped ==
    /\ walletSpent \in [Days -> [Wallets -> Nat]]
    /\ globalSpent \in [Days -> Nat]
    /\ float \in Nat /\ oi \in Nat

LedgerInvariant ==
    /\ ChainTyped /\ TodoTyped /\ LedgerTyped /\ LedgerCaps
    /\ pc \in {"look", "send", "record"} => PlanFits

---------------------------------------------------------------------------
(* Arithmetic of a charge. *)

(* The cost and the interest of a fill are natural numbers.                 *)
LEMMA ChargeNat ==
    ASSUME NEW o \in Orders, NEW q \in Nat, NEW price \in Nat
    PROVE  q * price \in Nat /\ Interest(o, q) \in Nat
<1>1. Strike[o] \in Nat
  BY TakerAssumption
<1>2. ASSUME NEW x \in Nat, NEW y \in Nat PROVE x * y \in Nat
  BY <1>2
<1> QED BY <1>1, <1>2 DEF Interest

(* What a seller posts is a quantity at a price.                            *)
LEMMA AsksTyped == Asks \subseteq [qty : Nat, price : Nat]
<1>1. 1..MaxQuantity \subseteq Nat /\ Prices \subseteq Nat
  BY TakerAssumption
<1>2. ASSUME NEW ask \in Asks PROVE ask \in [qty : Nat, price : Nat]
  BY <1>1 DEF Asks
<1> QED BY <1>2

(* Every time of the model falls on one of its days.                        *)
LEMMA DayOfTime ==
    ASSUME NEW t \in 0..MaxTime
    PROVE  Day(t) \in Days
BY DEF Days

(* A tick that leaves the ledger and its fill alone leaves the fit alone.   *)
LEMMA FitStays ==
    ASSUME PlanFits, UNCHANGED <<ledger, started, plan>>
    PROVE  PlanFits'
BY DEF PlanFits, WithinBudget, ledger

---------------------------------------------------------------------------
(* The first state, and each step. *)

LEMMA InitHolds == Init => LedgerInvariant
<1> SUFFICES ASSUME Init PROVE LedgerInvariant
  OBVIOUS
<1>1. ChainTyped
  <2>1. book \in [Orders -> [qty : 0..MaxQuantity, price : Prices]]
    BY TakerAssumption DEF Init
  <2>2. 0 \in 0..MaxTime
    BY TakerAssumption
  <2>3. [qty : 0..MaxQuantity, price : Prices] \subseteq [qty : Nat, price : Nat]
    <3>1. 0..MaxQuantity \subseteq Nat /\ Prices \subseteq Nat
      BY TakerAssumption
    <3> QED BY <3>1
  <2> QED BY <2>1, <2>2, <2>3 DEF Init, ChainTyped
<1>2. TodoTyped
  BY DEF Init, NoAsks, TodoTyped
<1>3. LedgerTyped /\ LedgerCaps
  BY TakerAssumption DEF Init, LedgerTyped, LedgerCaps
<1> QED BY <1>1, <1>2, <1>3 DEF Init, LedgerInvariant

(* The scan copies what rests.                                              *)
LEMMA BeginTickKeeps ==
    ASSUME LedgerInvariant, BeginTick
    PROVE  LedgerInvariant'
<1>1. ChainTyped'
  BY DEF LedgerInvariant, ChainTyped, BeginTick
<1>2. TodoTyped'
  <2>1. PICK visible \in SUBSET Resting : todo' = [o \in visible |-> book[o]]
    BY DEF BeginTick
  <2>2. visible \subseteq Orders
    BY DEF Resting
  <2>3. \A o \in visible : book[o] \in [qty : Nat, price : Nat]
    BY <2>2 DEF LedgerInvariant, ChainTyped
  <2> QED BY <2>1, <2>2, <2>3 DEF TodoTyped
<1>3. (LedgerTyped /\ LedgerCaps)'
  BY DEF LedgerInvariant, BeginTick, ledger, LedgerTyped, LedgerCaps
<1>4. pc' = "loop"
  BY DEF BeginTick
<1> QED BY <1>1, <1>2, <1>3, <1>4 DEF LedgerInvariant

(* What is left of the snapshot is part of it.                              *)
LEMMA RestTyped ==
    ASSUME TodoTyped, NEW o, todo' = Rest(o)
    PROVE  TodoTyped'
BY DEF TodoTyped, Rest

(* evaluate sizes the fill with affordableQuantity.                         *)
LEMMA ApproveKeeps ==
    ASSUME LedgerInvariant, NEW o \in Orders, Approve(o)
    PROVE  LedgerInvariant'
<1>1. ChainTyped' /\ (LedgerTyped /\ LedgerCaps)'
  BY DEF LedgerInvariant, ChainTyped, LedgerTyped, LedgerCaps, Approve, ledger
<1>2. TodoTyped'
  BY RestTyped DEF LedgerInvariant, Approve
<1>3. PlanFits'
  <2>1. todo[o] \in [qty : Nat, price : Nat]
    BY DEF LedgerInvariant, TodoTyped, Approve
  <2>2. PICK q \in Affordable(o, todo[o]) :
            plan' = [order |-> o, qty |-> q, price |-> todo[o].price]
    BY DEF Approve
  <2>3. q \in Nat /\ WithinBudget(o, q * todo[o].price, Interest(o, q))
    BY <2>1, <2>2 DEF Affordable
  <2>4. UNCHANGED <<walletSpent, globalSpent, float, oi, started>>
    BY DEF Approve, ledger
  <2>5. plan'.order = o /\ plan'.qty = q /\ plan'.price = todo[o].price
    BY <2>2
  <2> QED BY <2>1, <2>3, <2>4, <2>5 DEF PlanFits, WithinBudget, Interest
<1> QED BY <1>1, <1>2, <1>3 DEF LedgerInvariant

LEMMA SkipKeeps ==
    ASSUME LedgerInvariant, NEW o \in Orders, Skip(o)
    PROVE  LedgerInvariant'
<1>1. ChainTyped' /\ (LedgerTyped /\ LedgerCaps)'
  BY DEF LedgerInvariant, ChainTyped, LedgerTyped, LedgerCaps, Skip, ledger
<1>2. TodoTyped'
  BY RestTyped DEF LedgerInvariant, Skip
<1>3. pc' = "loop"
  BY DEF Skip
<1> QED BY <1>1, <1>2, <1>3 DEF LedgerInvariant

(* A tick that ends early keeps the ledger and forgets the rest. *)
LEMMA OrderEndsTickKeeps ==
    ASSUME LedgerInvariant, NEW o \in Orders, OrderEndsTick(o)
    PROVE  LedgerInvariant'
<1>1. 0 \in 0..MaxTime
  BY TakerAssumption
<1>2. ChainTyped' /\ (LedgerTyped /\ LedgerCaps)'
  BY <1>1 DEF LedgerInvariant, ChainTyped, LedgerTyped, LedgerCaps, OrderEndsTick, ledger
<1>3. TodoTyped'
  BY DEF LedgerInvariant, TodoTyped, NoAsks, OrderEndsTick
<1>4. pc' = "idle"
  BY DEF OrderEndsTick
<1> QED BY <1>2, <1>3, <1>4 DEF LedgerInvariant

(* The last look keeps the plan as it is or drops it.                       *)
LEMMA LastLookKeeps ==
    ASSUME LedgerInvariant, LastLook
    PROVE  LedgerInvariant'
<1>1. ChainTyped' /\ TodoTyped' /\ (LedgerTyped /\ LedgerCaps)'
  BY DEF LedgerInvariant, ChainTyped, TodoTyped, LedgerTyped, LedgerCaps, LastLook, ledger
<1>2. UNCHANGED <<ledger, started>>
  BY DEF LastLook
<1>3. CASE pc' = "send" /\ UNCHANGED plan
  <2>1. PlanFits'
    BY <1>2, <1>3, FitStays DEF LedgerInvariant, LastLook
  <2> QED BY <1>1, <2>1 DEF LedgerInvariant
<1>4. CASE pc' = "loop"
  BY <1>1, <1>4 DEF LedgerInvariant
<1> QED BY <1>3, <1>4 DEF LastLook

(* A fill takes no more than rests.                                         *)
LEMMA BookShrinks ==
    ASSUME ChainTyped, NEW o \in Orders, NEW q \in Nat, q <= book[o].qty,
           book' = [book EXCEPT ![o].qty = @ - q], UNCHANGED <<now, started>>
    PROVE  ChainTyped'
<1>1. book[o] \in [qty : Nat, price : Nat]
  BY DEF ChainTyped
<1>2. book[o].qty - q \in Nat
  BY <1>1
<1>3. [book[o] EXCEPT !.qty = @ - q] \in [qty : Nat, price : Nat]
  BY <1>1, <1>2
<1>4. book' \in [Orders -> [qty : Nat, price : Nat]]
  BY <1>3 DEF ChainTyped
<1> QED BY <1>4 DEF ChainTyped

(* The fill is sent once, as planned; what it charges is not on record yet. *)
LEMMA SendFillKeeps ==
    ASSUME LedgerInvariant, SendFill
    PROVE  LedgerInvariant'
<1>1. TodoTyped' /\ (LedgerTyped /\ LedgerCaps)' /\ UNCHANGED <<now, ledger, started>>
  BY DEF LedgerInvariant, TodoTyped, LedgerTyped, LedgerCaps, SendFill, ledger
<1>2. PlanFits
  BY DEF LedgerInvariant, SendFill
<1>3. ChainTyped'
  <2>1. CASE \E slip \in BOOLEAN : Lands(slip)
    <3>1. plan.qty \in Nat /\ plan.order \in Orders /\ plan.qty <= book[plan.order].qty
      BY <1>2, <2>1 DEF PlanFits, Lands, Fillable, LedgerInvariant, ChainTyped
    <3>2. book' = [book EXCEPT ![plan.order].qty = @ - plan.qty]
      BY <2>1 DEF Lands
    <3> QED BY <1>1, <3>1, <3>2, BookShrinks DEF LedgerInvariant
  <2>2. CASE UNCHANGED book
    BY <1>1, <2>2 DEF LedgerInvariant, ChainTyped
  <2> QED BY <2>1, <2>2 DEF SendFill
<1>4. CASE pc' = "record" /\ UNCHANGED plan
  <2>1. PlanFits'
    BY <1>1, <1>2, <1>4, FitStays
  <2> QED BY <1>1, <1>3, <2>1 DEF LedgerInvariant
<1>5. CASE pc' = "loop"
  BY <1>1, <1>3, <1>5 DEF LedgerInvariant
<1> QED BY <1>4, <1>5 DEF SendFill

(* recordFill charges what was sized, against the ledger it was sized by.   *)
LEMMA RecordKeeps ==
    ASSUME LedgerInvariant, Record
    PROVE  LedgerInvariant'
<1> DEFINE day == Day(now)
<1> DEFINE owner == Owner[plan.order]
<1> DEFINE cost == plan.qty * plan.price
<1> DEFINE interest == Interest(plan.order, plan.qty)
<1>1. PlanFits
  BY DEF LedgerInvariant, Record
<1>2. day \in Days /\ owner \in Wallets
  BY <1>1, DayOfTime, TakerAssumption DEF LedgerInvariant, ChainTyped, PlanFits
<1>3. cost \in Nat /\ interest \in Nat
  BY <1>1, ChargeNat DEF PlanFits
<1>4. float + cost <= MaxFloat /\ oi + interest <= MaxOi
  BY <1>1 DEF PlanFits, WithinBudget
<1>5. /\ walletSpent' = [walletSpent EXCEPT ![day][owner] = @ + cost]
      /\ globalSpent' = [globalSpent EXCEPT ![day] = @ + cost]
      /\ float' = float + cost /\ oi' = oi + interest
  BY DEF Record, RecordFill
<1> HIDE DEF day, owner, cost, interest
<1>6. LedgerTyped'
  <2>1. walletSpent[day][owner] + cost \in Nat /\ globalSpent[day] + cost \in Nat
    BY <1>2, <1>3 DEF LedgerInvariant, LedgerTyped
  <2>2. globalSpent' \in [Days -> Nat]
    BY <1>5, <2>1 DEF LedgerInvariant, LedgerTyped
  <2>3. [walletSpent[day] EXCEPT ![owner] = @ + cost] \in [Wallets -> Nat]
    BY <1>2, <2>1 DEF LedgerInvariant, LedgerTyped
  <2>4. walletSpent' \in [Days -> [Wallets -> Nat]]
    BY <1>5, <2>3 DEF LedgerInvariant, LedgerTyped
  <2> QED BY <1>3, <1>5, <2>2, <2>4 DEF LedgerInvariant, LedgerTyped
<1>7. LedgerCaps'
  BY <1>4, <1>5 DEF LedgerCaps
<1>8. ChainTyped' /\ TodoTyped' /\ pc' = "loop"
  BY DEF LedgerInvariant, ChainTyped, TodoTyped, Record
<1> QED BY <1>6, <1>7, <1>8 DEF LedgerInvariant

(* The ends of a tick, foreseen and not.                                    *)
LEMMA EndTickKeeps ==
    ASSUME LedgerInvariant, EndTick \/ Crash
    PROVE  LedgerInvariant'
<1>1. 0 \in 0..MaxTime
  BY TakerAssumption
<1>2. ChainTyped'
  BY <1>1 DEF LedgerInvariant, ChainTyped, EndTick, Crash
<1>3. TodoTyped'
  BY DEF LedgerInvariant, TodoTyped, NoAsks, EndTick, Crash
<1>4. (LedgerTyped /\ LedgerCaps)' /\ pc' = "idle"
  BY DEF LedgerInvariant, LedgerTyped, LedgerCaps, EndTick, Crash, ledger
<1> QED BY <1>2, <1>3, <1>4 DEF LedgerInvariant

(* The clock, and other people on the book, touch neither ledger nor tick.  *)
LEMMA OthersKeep ==
    ASSUME LedgerInvariant, UNCHANGED Others, ChainTyped'
    PROVE  LedgerInvariant'
<1>1. TodoTyped' /\ (LedgerTyped /\ LedgerCaps)'
  BY DEF LedgerInvariant, TodoTyped, LedgerTyped, LedgerCaps, Others, tick, ledger
<1>2. UNCHANGED <<ledger, started, plan, pc>>
  BY DEF Others, tick
<1>3. CASE pc \in {"look", "send", "record"}
  <2>1. PlanFits'
    BY <1>2, <1>3, FitStays DEF LedgerInvariant
  <2> QED BY <1>1, <2>1 DEF LedgerInvariant
<1> QED BY <1>1, <1>2, <1>3 DEF LedgerInvariant

LEMMA TimePassesKeeps ==
    ASSUME LedgerInvariant, TimePasses
    PROVE  LedgerInvariant'
<1>1. now + 1 \in 0..MaxTime
  BY TakerAssumption DEF LedgerInvariant, ChainTyped, TimePasses
<1>2. ChainTyped'
  BY <1>1 DEF LedgerInvariant, ChainTyped, TimePasses, Others, tick
<1> QED BY <1>2, OthersKeep DEF TimePasses

LEMMA RepostKeeps ==
    ASSUME LedgerInvariant, NEW o \in Orders, NEW ask \in Asks, Repost(o, ask)
    PROVE  LedgerInvariant'
<1>1. ask \in [qty : Nat, price : Nat]
  BY AsksTyped
<1>2. ChainTyped'
  BY <1>1 DEF LedgerInvariant, ChainTyped, Repost, Others, tick
<1> QED BY <1>2, OthersKeep DEF Repost

LEMMA OtherFillKeeps ==
    ASSUME LedgerInvariant, NEW o \in Orders, NEW q \in {1, book[o].qty}, OtherFill(o, q)
    PROVE  LedgerInvariant'
<1>1. q \in Nat /\ q <= book[o].qty
  BY DEF LedgerInvariant, ChainTyped, OtherFill, Fillable
<1>2. ChainTyped'
  BY <1>1, BookShrinks DEF LedgerInvariant, OtherFill, Others, tick
<1> QED BY <1>2, OthersKeep DEF OtherFill

LEMMA StepKeeps == LedgerInvariant /\ [Next]_vars => LedgerInvariant'
<1> SUFFICES ASSUME LedgerInvariant, [Next]_vars PROVE LedgerInvariant'
  OBVIOUS
<1>1. CASE Tick
  BY <1>1, BeginTickKeeps, LastLookKeeps, SendFillKeeps, RecordKeeps, EndTickKeeps,
     ApproveKeeps, SkipKeeps, OrderEndsTickKeeps DEF Tick
<1>2. CASE Crash
  BY <1>2, EndTickKeeps
<1>3. CASE TimePasses
  BY <1>3, TimePassesKeeps
<1>4. ASSUME NEW o \in Orders, NEW q \in {1, book[o].qty}, OtherFill(o, q)
      PROVE  LedgerInvariant'
  BY <1>4, OtherFillKeeps
<1>5. ASSUME NEW o \in Orders, NEW ask \in Asks, Repost(o, ask)
      PROVE  LedgerInvariant'
  BY <1>5, RepostKeeps
<1>6. CASE UNCHANGED vars
  <2>1. UNCHANGED <<Others, now, book>>
    BY <1>6 DEF vars, Others
  <2>2. ChainTyped'
    BY <2>1 DEF LedgerInvariant, ChainTyped, Others, tick
  <2> QED BY <2>1, <2>2, OthersKeep
<1> QED BY <1>1, <1>2, <1>3, <1>4, <1>5, <1>6 DEF Next

---------------------------------------------------------------------------
(* The theorems. *)

(* The ledger invariant holds of every reachable state of the taker: what   *)
(* main.ts holds between evaluate and recordFill fits the database.         *)
THEOREM LedgerInvariantHolds == Spec => []LedgerInvariant
<1>1. Init => LedgerInvariant
  BY InitHolds
<1>2. LedgerInvariant /\ [Next]_vars => LedgerInvariant'
  BY StepKeeps
<1> QED BY <1>1, <1>2, PTL DEF Spec

(* recordFill never takes the float or the open interest past its cap,      *)
(* whatever the orders, the requests that fail and the restarts.            *)
THEOREM LedgerCapsHold == Spec => []LedgerCaps
<1>1. LedgerInvariant => LedgerCaps
  BY DEF LedgerInvariant
<1> QED BY <1>1, LedgerInvariantHolds, PTL

(* A charge on the tick's own day fits the daily caps.                      *)
LEMMA ChargeFits ==
    ASSUME LedgerInvariant, [Next]_vars, NEW d \in Days, Day(started) = d,
           globalSpent'[d] > globalSpent[d]
    PROVE  /\ globalSpent'[d] <= MaxGlobalDay
           /\ \A w \in Wallets : walletSpent'[d][w] > walletSpent[d][w] =>
                walletSpent'[d][w] <= MaxWalletDay
<1> DEFINE day == Day(now)
<1> DEFINE owner == Owner[plan.order]
<1> DEFINE cost == plan.qty * plan.price
<1>1. globalSpent[d] \in Nat
  BY DEF LedgerInvariant, LedgerTyped
<1>2. globalSpent' # globalSpent
  BY <1>1
<1>3. Record
  BY <1>2 DEF Next, vars, ledger, Tick, BeginTick, LastLook, SendFill, EndTick, Approve,
     Skip, OrderEndsTick, Crash, TimePasses, OtherFill, Repost, Others
<1>4. PlanFits
  BY <1>3 DEF LedgerInvariant, Record
<1>5. day \in Days /\ owner \in Wallets /\ cost \in Nat
  BY <1>4, DayOfTime, ChargeNat, TakerAssumption DEF LedgerInvariant, ChainTyped, PlanFits
<1>6. /\ walletSpent[d][owner] + cost <= MaxWalletDay
      /\ globalSpent[d] + cost <= MaxGlobalDay
  BY <1>4 DEF PlanFits, WithinBudget
<1>7. /\ walletSpent' = [walletSpent EXCEPT ![day][owner] = @ + cost]
      /\ globalSpent' = [globalSpent EXCEPT ![day] = @ + cost]
  BY <1>3 DEF Record, RecordFill
<1> HIDE DEF day, owner, cost
<1>8. day = d
  BY <1>1, <1>7 DEF LedgerInvariant, LedgerTyped
<1>9. globalSpent'[d] = globalSpent[d] + cost
  BY <1>5, <1>7, <1>8 DEF LedgerInvariant, LedgerTyped
<1>10. ASSUME NEW w \in Wallets, walletSpent'[d][w] > walletSpent[d][w]
       PROVE  walletSpent'[d][w] <= MaxWalletDay
  <2>1. walletSpent[d] \in [Wallets -> Nat]
    BY DEF LedgerInvariant, LedgerTyped
  <2>2. walletSpent'[d] = [walletSpent[d] EXCEPT ![owner] = @ + cost]
    BY <1>5, <1>7, <1>8 DEF LedgerInvariant, LedgerTyped
  <2>3. w = owner
    BY <1>10, <2>1, <2>2
  <2>4. walletSpent'[d][w] = walletSpent[d][owner] + cost
    BY <2>1, <2>2, <2>3
  <2> QED BY <1>6, <2>4
<1> QED BY <1>6, <1>9, <1>10

(* A fill that is recorded on the day its tick began is within the seller's *)
(* and the day's caps (affordableQuantity, recordFill).                     *)
THEOREM ChargesStayWithinCaps == Spec => ChargesWithinCaps
<1>1. LedgerInvariant /\ [Next]_vars =>
        [\A d \in Days : Day(started) = d /\ globalSpent'[d] > globalSpent[d] =>
            /\ globalSpent'[d] <= MaxGlobalDay
            /\ \A w \in Wallets : walletSpent'[d][w] > walletSpent[d][w] =>
                  walletSpent'[d][w] <= MaxWalletDay]_vars
  BY ChargeFits
<1> QED BY <1>1, LedgerInvariantHolds, PTL DEF Spec, ChargesWithinCaps
---------------------------------------------------------------------------
(* What was really paid. *)

(* What landed and is about to be charged.                                  *)
Due == IF pc = "record" THEN plan.qty * plan.price ELSE 0

(* Every payment is on record, due, or one of the slips.                    *)
Overspent == \E top \in Prices : paid <= float + Due + slips * MaxFill * top

(* Every ask in sight has one of the prices.                                *)
PricesKnown ==
    /\ \A o \in Orders : book[o].price \in Prices
    /\ \A o \in DOMAIN todo : todo[o].price \in Prices
    /\ pc \in {"look", "send", "record"} => plan.price \in Prices

PaymentInvariant ==
    /\ paid \in Nat /\ slips \in Nat
    /\ PricesKnown /\ Overspent

(* A product is no less for larger factors.                                 *)
LEMMA ProductGrows ==
    ASSUME NEW a \in Nat, NEW b \in Nat, NEW c \in Nat, NEW d \in Nat, a <= b, c <= d
    PROVE  a * c \in Nat /\ b * d \in Nat /\ a * c <= b * d
<1>1. a * c <= b * c
  BY Z3
<1>2. b * c <= b * d
  BY Z3
<1>3. a * c \in Nat /\ b * c \in Nat /\ b * d \in Nat
  BY Z3
<1> QED BY <1>1, <1>2, <1>3

(* One slip more makes room for a full fill at any price.                   *)
LEMMA OneMoreSlip ==
    ASSUME NEW top \in Prices, NEW price \in Prices, NEW n \in Nat,
           NEW q \in Nat, q <= MaxFill
    PROVE  \E high \in Prices :
              /\ n * MaxFill * top + q * price <= (n + 1) * MaxFill * high
              /\ n * MaxFill * top \in Nat /\ q * price \in Nat
<1>1. top \in Nat /\ price \in Nat /\ MaxFill \in Nat
  BY TakerAssumption
<1> DEFINE high == IF top < price THEN price ELSE top
<1>2. high \in Prices /\ high \in Nat /\ top <= high /\ price <= high
  BY <1>1
<1> HIDE DEF high
<1> DEFINE m == n * MaxFill
<1>3. m \in Nat
  BY <1>1, ProductGrows
<1>4. (n + 1) * MaxFill = m + MaxFill
  BY <1>1
<1> HIDE DEF m
<1>5. m * top \in Nat /\ m * high \in Nat /\ m * top <= m * high
  BY <1>1, <1>2, <1>3, ProductGrows
<1>6. q * price \in Nat /\ MaxFill * high \in Nat /\ q * price <= MaxFill * high
  BY <1>1, <1>2, ProductGrows
<1>7. (m + MaxFill) * high = m * high + MaxFill * high
  BY <1>1, <1>2, <1>3
<1>8. m * top + q * price <= (m + MaxFill) * high
  BY <1>5, <1>6, <1>7
<1>9. n * MaxFill * top = m * top /\ (n + 1) * MaxFill * high = (m + MaxFill) * high
  BY <1>4 DEF m
<1> QED BY <1>2, <1>5, <1>6, <1>8, <1>9

(* A fill that fits is worth its cost, and no more units than MaxFill.      *)
LEMMA PlanBounded ==
    ASSUME LedgerInvariant, PricesKnown, pc \in {"look", "send", "record"}
    PROVE  /\ plan.order \in Orders /\ plan.price \in Prices
           /\ plan.qty \in Nat /\ plan.qty <= MaxFill
           /\ plan.qty * plan.price \in Nat /\ plan.qty * plan.price <= MaxFill
<1>1. PlanFits /\ plan.price \in Prices
  BY DEF LedgerInvariant, PricesKnown
<1>2. plan.qty \in Nat /\ plan.price \in Nat /\ 1 <= plan.price /\ MaxFill \in Nat
  BY <1>1, TakerAssumption DEF PlanFits
<1>3. plan.qty * plan.price <= MaxFill
  BY <1>1 DEF PlanFits, WithinBudget
<1>4. plan.qty * 1 <= plan.qty * plan.price /\ plan.qty * plan.price \in Nat
  BY <1>2, ProductGrows
<1> QED BY <1>1, <1>2, <1>3, <1>4 DEF PlanFits

(* The charge of what is due, and a change of nothing at all, keep the sum. *)
LEMMA SamePayments ==
    ASSUME PaymentInvariant, UNCHANGED <<paid, slips>>, float' + Due' = float + Due,
           PricesKnown'
    PROVE  PaymentInvariant'
BY DEF PaymentInvariant, Overspent

(* A slip covers a payment that is off its charge by no more than the cost  *)
(* of the fill in hand.                                                     *)
LEMMA SlipCovered ==
    ASSUME PaymentInvariant, LedgerInvariant, LedgerInvariant', PricesKnown',
           NEW price \in Prices, NEW q \in Nat, q <= MaxFill,
           slips' = slips + 1, paid' \in Nat, Due \in Nat, Due' \in Nat,
           paid' + float + Due <= paid + float' + Due' + q * price
    PROVE  PaymentInvariant'
<1>1. PICK top \in Prices : paid <= float + Due + slips * MaxFill * top
  BY DEF PaymentInvariant, Overspent
<1>2. paid \in Nat /\ slips \in Nat /\ float \in Nat /\ float' \in Nat
  BY DEF PaymentInvariant, LedgerInvariant, LedgerTyped
<1>3. PICK high \in Prices :
         /\ slips * MaxFill * top + q * price <= (slips + 1) * MaxFill * high
         /\ slips * MaxFill * top \in Nat /\ q * price \in Nat
  BY <1>2, OneMoreSlip
<1>4. (slips + 1) * MaxFill * high \in Nat
  <2>1. slips + 1 \in Nat /\ MaxFill \in Nat /\ high \in Nat
    BY <1>2, TakerAssumption
  <2> QED BY <2>1, ProductGrows
<1>5. PICK x \in Nat, y \in Nat, z \in Nat :
         /\ x = slips * MaxFill * top /\ y = q * price
         /\ z = (slips + 1) * MaxFill * high
  BY <1>3, <1>4, Zenon
<1>6. paid' <= float' + Due' + z
  <2>1. x + y <= z /\ paid <= float + Due + x
        /\ paid' + float + Due <= paid + float' + Due' + y
    BY ONLY <1>1, <1>3, <1>5, paid' + float + Due <= paid + float' + Due' + q * price
  <2>2. PICK c \in Nat, c1 \in Nat, r \in Nat, r1 \in Nat, p \in Nat, p1 \in Nat :
           /\ c = Due /\ c1 = Due' /\ r = float /\ r1 = float'
           /\ p = paid /\ p1 = paid'
    BY <1>2, Zenon
  <2>3. p <= r + c + x /\ p1 + r + c <= p + r1 + c1 + y /\ x + y <= z
    BY ONLY <2>1, <2>2, Zenon
  <2>4. p1 <= r1 + c1 + z
    BY ONLY <2>3, c \in Nat, c1 \in Nat, r \in Nat, r1 \in Nat, p \in Nat, p1 \in Nat
  <2> QED BY ONLY <2>2, <2>4, Zenon
<1>7. slips' \in Nat /\ paid' <= float' + Due' + slips' * MaxFill * high
  BY <1>2, <1>5, <1>6
<1>8. high \in Prices
  BY <1>3
<1>9. Overspent'
  BY ONLY <1>7, <1>8 DEF Overspent
<1> QED BY <1>7, <1>9 DEF PaymentInvariant

(* What is due is a natural number.                                         *)
LEMMA DueNat ==
    ASSUME LedgerInvariant, PricesKnown
    PROVE  Due \in Nat
BY PlanBounded DEF Due

---------------------------------------------------------------------------
(* The prices in sight, step by step. *)

LEMMA PricesStayKnown ==
    ASSUME LedgerInvariant, PricesKnown, [Next]_vars
    PROVE  PricesKnown'
<1> DEFINE Book == \A o \in Orders : book[o].price \in Prices
<1> DEFINE Todo == \A o \in DOMAIN todo : todo[o].price \in Prices
<1> DEFINE Plan == pc \in {"look", "send", "record"} => plan.price \in Prices
<1>1. SUFFICES Book' /\ Todo' /\ Plan'
  BY DEF PricesKnown
<1>2. /\ Book /\ Todo /\ Plan
      /\ book \in [Orders -> [qty : Nat, price : Nat]] /\ DOMAIN todo \subseteq Orders
  BY DEF PricesKnown, LedgerInvariant, ChainTyped, TodoTyped
<1>3. ASSUME NEW o \in Orders, NEW q, book' = [book EXCEPT ![o].qty = @ - q]
      PROVE  Book'
  <2>1. \A x \in Orders : book'[x].price = book[x].price
    BY <1>2, <1>3
  <2> QED BY <1>2, <2>1
<1>4. CASE BeginTick
  <2>1. PICK visible \in SUBSET Resting : todo' = [o \in visible |-> book[o]]
    BY <1>4 DEF BeginTick
  <2>2. Todo'
    BY <1>2, <2>1 DEF Resting
  <2> QED BY <1>2, <1>4, <2>2 DEF BeginTick
<1>5. ASSUME NEW o \in Orders, Approve(o)
      PROVE  Book' /\ Todo' /\ Plan'
  <2>1. plan'.price = todo[o].price /\ o \in DOMAIN todo
    BY <1>5 DEF Approve
  <2> QED BY <1>2, <1>5, <2>1 DEF Approve, Rest
<1>6. ASSUME NEW o \in Orders, Skip(o)
      PROVE  Book' /\ Todo' /\ Plan'
  BY <1>2, <1>6 DEF Skip, Rest
<1>13. ASSUME NEW o \in Orders, OrderEndsTick(o)
       PROVE  Book' /\ Todo' /\ Plan'
  BY <1>2, <1>13 DEF OrderEndsTick, NoAsks
<1>7. CASE LastLook
  BY <1>2, <1>7 DEF LastLook
<1>8. CASE SendFill
  <2>1. plan.order \in Orders
    BY <1>8 DEF LedgerInvariant, PlanFits, SendFill
  <2>2. CASE \E slip \in BOOLEAN : Lands(slip)
    <3>1. book' = [book EXCEPT ![plan.order].qty = @ - plan.qty]
      BY <2>2 DEF Lands
    <3>2. Book'
      BY <1>3, <2>1, <3>1
    <3> QED BY <1>2, <1>8, <3>2 DEF SendFill
  <2>3. CASE UNCHANGED book
    BY <1>2, <1>8, <2>3 DEF SendFill
  <2> QED BY <1>8, <2>2, <2>3 DEF SendFill
<1>9. CASE Record \/ EndTick \/ Crash
  BY <1>2, <1>9 DEF Record, EndTick, Crash, NoAsks
<1>10. CASE TimePasses \/ UNCHANGED vars
  BY <1>2, <1>10 DEF TimePasses, Others, tick, vars
<1>11. ASSUME NEW o \in Orders, NEW q \in {1, book[o].qty}, OtherFill(o, q)
       PROVE  Book' /\ Todo' /\ Plan'
  <2>1. Book'
    BY <1>3, <1>11 DEF OtherFill
  <2> QED BY <1>2, <1>11, <2>1 DEF OtherFill, Others, tick
<1>12. ASSUME NEW o \in Orders, NEW ask \in Asks, Repost(o, ask)
       PROVE  Book' /\ Todo' /\ Plan'
  <2>1. ask.price \in Prices
    BY DEF Asks
  <2>2. Book'
    BY <1>2, <1>12, <2>1 DEF Repost
  <2> QED BY <1>2, <1>12, <2>2 DEF Repost, Others, tick
<1> QED BY <1>4, <1>5, <1>6, <1>7, <1>8, <1>9, <1>10, <1>11, <1>12,
       <1>13 DEF Next, Tick

---------------------------------------------------------------------------
(* The payments, step by step. *)

(* A fill that lands is due, if it is seen to land; a price that moved or a *)
(* confirmation that is lost is a slip.                                     *)
LEMMA SendFillPays ==
    ASSUME LedgerInvariant, PaymentInvariant, SendFill, LedgerInvariant', PricesKnown'
    PROVE  PaymentInvariant'
<1> DEFINE o == plan.order
<1> DEFINE price == book[o].price
<1> DEFINE cost == plan.qty * plan.price
<1>1. PricesKnown /\ pc = "send" /\ Due = 0 /\ float' = float
  BY DEF PaymentInvariant, SendFill, Due, ledger
<1>2. o \in Orders /\ plan.qty \in Nat /\ plan.qty <= MaxFill /\ price \in Prices
      /\ cost \in Nat
  BY <1>1, PlanBounded DEF PricesKnown
<1>3. paid \in Nat /\ slips \in Nat /\ float \in Nat
  BY DEF PaymentInvariant, LedgerInvariant, LedgerTyped
<1>4. plan.qty * price \in Nat
  <2>1. price \in Nat
    BY <1>2, TakerAssumption
  <2> HIDE DEF price
  <2> QED BY <1>2, <2>1, ProductGrows
<1>9. Due' \in Nat
  <2>1. CASE pc' = "record" /\ UNCHANGED plan
    BY <1>2, <2>1 DEF Due
  <2>2. CASE pc' = "loop"
    BY <2>2 DEF Due
  <2> QED BY <2>1, <2>2 DEF SendFill
<1>5. CASE \E slip \in BOOLEAN : Lands(slip) /\ slips' = slips + 1
  <2>1. paid' = paid + plan.qty * price
    BY <1>5 DEF Lands
  <2>2. PICK y \in Nat : y = plan.qty * price
    BY <1>4
  <2>3. paid' \in Nat /\ paid' + float + Due <= paid + float' + Due' + y
    <3>1. paid' = paid + y
      BY <2>1, <2>2
    <3>2. paid + y \in Nat
      BY <1>3
    <3>3. PICK e \in Nat, p \in Nat, r \in Nat : e = Due' /\ p = paid /\ r = float
      BY <1>3, <1>9, Zenon
    <3>4. p + y + r + 0 <= p + r + e + y
      BY ONLY e \in Nat, p \in Nat, r \in Nat, y \in Nat
    <3> QED BY ONLY <1>1, <3>1, <3>2, <3>3, <3>4, Zenon
  <2>4. Due \in Nat /\ slips' = slips + 1
    BY <1>1, <1>5
  <2>5. paid' + float + Due <= paid + float' + Due' + plan.qty * price
    BY <2>2, <2>3
  <2> HIDE DEF price
  <2> QED BY <1>2, <1>9, <2>3, <2>4, <2>5, SlipCovered
<1>6. CASE Lands(FALSE) /\ slips' # slips + 1 /\ pc' = "record" /\ UNCHANGED plan
  <2>1. price = plan.price /\ slips' = slips /\ paid' = paid + cost /\ Due' = cost
    BY <1>6 DEF Lands, Due
  <2>2. PICK top \in Prices : paid <= float + Due + slips * MaxFill * top
    BY DEF PaymentInvariant, Overspent
  <2> DEFINE s == slips * MaxFill * top
  <2>3. s \in Nat
    <3>1. top \in Nat /\ MaxFill \in Nat
      BY TakerAssumption
    <3> QED BY <1>3, <3>1, ProductGrows
  <2> HIDE DEF s, cost
  <2>4. paid' <= float' + Due' + s /\ paid' \in Nat
    BY <1>1, <1>2, <1>3, <2>1, <2>2, <2>3 DEF s
  <2>5. paid' <= float' + Due' + slips' * MaxFill * top
    BY <2>1, <2>4 DEF s
  <2> QED BY <1>3, <2>1, <2>4, <2>5 DEF PaymentInvariant, Overspent
<1>7. CASE UNCHANGED <<book, truth>> /\ pc' = "loop"
  <2>1. float' + Due' = float + Due
    BY <1>1, <1>3, <1>7 DEF Due
  <2> QED BY <1>7, <2>1, SamePayments DEF truth
<1>8. CASE Lands(TRUE)
  BY <1>5, <1>8 DEF Lands
<1> QED BY <1>5, <1>6, <1>7, <1>8 DEF SendFill

(* What was due is on record, or was abandoned as a slip.                   *)
LEMMA RecordPays ==
    ASSUME LedgerInvariant, PaymentInvariant, Record, PricesKnown'
    PROVE  PaymentInvariant'
<1>1. PricesKnown /\ pc = "record" /\ pc' = "loop" /\ UNCHANGED <<paid, slips>>
  BY DEF PaymentInvariant, Record, truth
<1>2. Due \in Nat /\ Due = plan.qty * plan.price /\ Due' = 0
  BY <1>1, DueNat DEF Due
<1>3. float' = float + Due /\ float \in Nat
  BY <1>2 DEF Record, RecordFill, LedgerInvariant, LedgerTyped
<1> QED BY <1>1, <1>2, <1>3, SamePayments

LEMMA CrashPays ==
    ASSUME LedgerInvariant, PaymentInvariant, Crash, LedgerInvariant', PricesKnown'
    PROVE  PaymentInvariant'
<1>1. PricesKnown /\ pc' = "idle" /\ paid' = paid /\ float' = float /\ Due' = 0
  BY DEF PaymentInvariant, Crash, Due, ledger
<1>2. paid \in Nat /\ slips \in Nat /\ float \in Nat /\ Due \in Nat
  BY <1>1, DueNat DEF PaymentInvariant, LedgerInvariant, LedgerTyped
<1>3. CASE pc = "record"
  <2>1. plan.price \in Prices /\ plan.qty \in Nat /\ plan.qty <= MaxFill
    BY <1>1, <1>3, PlanBounded
  <2>2. Due = plan.qty * plan.price /\ slips' = slips + 1
    BY <1>3 DEF Due, Crash
  <2>3. paid' + float + Due <= paid + float' + Due' + Due
    BY <1>1, <1>2
  <2>4. paid' + float + Due <= paid + float' + Due' + plan.qty * plan.price
    BY <2>2, <2>3
  <2> QED BY <1>1, <1>2, <2>1, <2>2, <2>4, SlipCovered
<1>4. CASE pc # "record"
  <2>1. Due = 0 /\ slips' = slips
    BY <1>4 DEF Due, Crash
  <2> QED BY <1>1, <1>2, <2>1, SamePayments
<1> QED BY <1>3, <1>4

LEMMA PaymentsKept ==
    ASSUME LedgerInvariant, PaymentInvariant, [Next]_vars
    PROVE  PaymentInvariant'
<1>1. LedgerInvariant' /\ PricesKnown /\ PricesKnown'
  BY StepKeeps, PricesStayKnown DEF PaymentInvariant
<1>2. ASSUME UNCHANGED <<paid, slips, float>>, pc # "record", pc' # "record"
      PROVE  PaymentInvariant'
  <2>1. Due = 0 /\ Due' = 0
    BY <1>2 DEF Due
  <2> QED BY <1>1, <1>2, <2>1, SamePayments
<1>3. CASE SendFill
  BY <1>1, <1>3, SendFillPays
<1>4. CASE Record
  BY <1>1, <1>4, RecordPays
<1>5. CASE Crash
  BY <1>1, <1>5, CrashPays
<1>6. CASE BeginTick \/ LastLook \/ EndTick \/ \E o \in Orders : Approve(o) \/ Skip(o) \/ OrderEndsTick(o)
  BY <1>2, <1>6 DEF BeginTick, LastLook, EndTick, Approve, Skip, OrderEndsTick, truth, ledger
<1>7. ASSUME UNCHANGED Others
      PROVE  PaymentInvariant'
  <2>1. UNCHANGED <<paid, slips, float, Due>>
    BY <1>7 DEF Others, tick, truth, ledger, Due
  <2> QED BY <1>1, <2>1, SamePayments
<1>8. CASE TimePasses
  BY <1>7, <1>8 DEF TimePasses, Others
<1>9. ASSUME NEW o \in Orders, NEW q \in {1, book[o].qty}, OtherFill(o, q)
      PROVE  PaymentInvariant'
  BY <1>7, <1>9 DEF OtherFill, Others
<1>10. ASSUME NEW o \in Orders, NEW ask \in Asks, Repost(o, ask)
      PROVE  PaymentInvariant'
  BY <1>7, <1>10 DEF Repost, Others
<1>11. CASE UNCHANGED vars
  BY <1>7, <1>11 DEF vars, Others
<1> QED BY <1>3, <1>4, <1>5, <1>6, <1>8, <1>9, <1>10, <1>11 DEF Next, Tick

LEMMA NothingPaidYet == Init => PaymentInvariant
<1> SUFFICES ASSUME Init PROVE PaymentInvariant
  OBVIOUS
<1>1. PICK top \in Prices : top \in Nat
  BY TakerAssumption
<1>2. 0 * MaxFill * top = 0
  BY <1>1, TakerAssumption
<1>3. Due = 0 /\ paid = 0 /\ slips = 0 /\ float = 0
  BY DEF Init, Due
<1>4. Overspent
  BY <1>2, <1>3 DEF Overspent
<1>5. PricesKnown
  BY TakerAssumption DEF Init, PricesKnown, NoAsks, Asks
<1> QED BY <1>3, <1>4, <1>5 DEF PaymentInvariant

(* What really left the treasury is on record, or due, or one of the slips: *)
(* fills that nobody saw land and orders that changed after the last look   *)
(* (sendFill, recordFill).                                                  *)
THEOREM PaymentsAccounted == Spec => []PaymentInvariant
<1>1. Init => PaymentInvariant
  BY NothingPaidYet
<1>2. LedgerInvariant /\ PaymentInvariant /\ [Next]_vars => PaymentInvariant'
  BY PaymentsKept
<1> QED BY <1>1, <1>2, LedgerInvariantHolds, PTL DEF Spec

(* The treasury's overspend is at most a full fill, at some price, for each *)
(* slip: the ledger is capped (LedgerCaps) and only slips escape it.        *)
THEOREM OverspendStaysBounded == Spec => []OverspendBounded
<1>1. LedgerInvariant /\ PaymentInvariant => OverspendBounded
  <2> SUFFICES ASSUME LedgerInvariant, PaymentInvariant
               PROVE  OverspendBounded
    OBVIOUS
  <2>1. PICK top \in Prices : paid <= float + Due + slips * MaxFill * top
    BY DEF PaymentInvariant, Overspent
  <2>2. paid \in Nat /\ slips \in Nat /\ float \in Nat /\ MaxFloat \in Nat
    BY TakerAssumption DEF PaymentInvariant, LedgerInvariant, LedgerTyped
  <2>3. Due \in Nat
    BY DueNat DEF PaymentInvariant
  <2>4. float + Due <= MaxFloat
    BY <2>2 DEF LedgerInvariant, LedgerCaps, PlanFits, WithinBudget, Due
  <2>5. slips * MaxFill * top \in Nat
    <3>1. top \in Nat /\ MaxFill \in Nat
      BY TakerAssumption
    <3> QED BY <2>2, <3>1, ProductGrows
  <2> DEFINE s == slips * MaxFill * top
  <2> HIDE DEF s
  <2>6. s \in Nat /\ paid <= float + Due + s
    BY <2>1, <2>5 DEF s
  <2>7. paid <= MaxFloat + s
    BY ONLY <2>2, <2>3, <2>4, <2>6
  <2> QED BY <2>7 DEF OverspendBounded, s
<1> QED BY <1>1, LedgerInvariantHolds, PaymentsAccounted, PTL

---------------------------------------------------------------------------
(* The writer bot. *)

Phases == {"idle", "asks", "bids", "longs", "quote"}
Quotes == [id : Nat \ {0}, price : Nat, qty : Nat \ {0}]

(* One side of the book in a series: ids tell its orders apart.             *)
Distinct(orders) == \A x, y \in orders : x.id = y.id => x = y
Side(orders, most) ==
    /\ orders \subseteq Quotes /\ IsFiniteSet(orders) /\ Distinct(orders)
    /\ \A o \in orders : o.qty <= most

Single(orders) == \A x, y \in orders : x = y

(* What third parties leave of a side.                                      *)
Shrunk(later, earlier) ==
    \A x \in later : \E y \in earlier : y.id = x.id /\ y.price = x.price /\ x.qty <= y.qty

Measures == [mark : Marks \cup {0}, ask : Nat]

WriterTyped ==
    /\ phase \in Phases /\ unvisited \in SUBSET Series
    /\ market \in [Series -> Marks \cup {0}]
    /\ asks \in [Series -> SUBSET Quotes] /\ bids \in [Series -> SUBSET Quotes]
    /\ snap \in [Series -> SUBSET Quotes]
    /\ held \in [Series -> Nat] /\ longs \in [Series -> Nat]
    /\ committed \in Nat /\ notional \in Nat
    /\ fills \in Nat /\ mishaps \in Nat /\ clean \in BOOLEAN
    /\ DOMAIN outcome \subseteq Series
    /\ \A s \in DOMAIN outcome : outcome[s] \in Measures

Sides == \A s \in Series : Side(asks[s], AskQty) /\ Side(bids[s], BidQty)

(* What the pass under way has not visited is as it was enumerated, or      *)
(* filled.                                                                  *)
Awaiting(s) == phase = "longs" \/ (phase = "quote" /\ s \in unvisited)

Enumerated ==
    /\ phase = "asks" => \A s \in unvisited :
          Distinct(snap[s]) /\ Shrunk(asks[s], snap[s]) /\ s \notin DOMAIN outcome
    /\ \A s \in Series : Awaiting(s) => Side(snap[s], BidQty) /\ Shrunk(bids[s], snap[s])
    /\ phase \in {"bids", "longs"} => unvisited = {}
    /\ phase = "idle" => DOMAIN outcome = {}

(* A series whose ask rests was marked, and the ask is within the drift.    *)
Marked ==
    \A s \in DOMAIN outcome : outcome[s].ask # 0 =>
        /\ outcome[s].mark \in Marks
        /\ AskPrice(outcome[s].mark) * 100 <= (100 + Drift) * outcome[s].ask

Structure == WriterTyped /\ Sides /\ Enumerated /\ Marked

---------------------------------------------------------------------------
Apart(s) == \A b \in bids[s], a \in asks[s] : ~Crosses(b.price, a.price)

(* In a clean tick a series has one order a side, and what was recorded of  *)
(* its ask is what rests.                                                   *)
CleanTick ==
    clean =>
        /\ phase = "asks" => \A s \in unvisited : Single(snap[s])
        /\ phase \in {"asks", "bids"} => \A s \in Series : Single(bids[s])
        /\ \A s \in Series : Awaiting(s) => Single(snap[s])
        /\ \A s \in DOMAIN outcome : outcome[s].ask # 0 =>
              \A a \in asks[s] : a.price = outcome[s].ask
        /\ phase = "quote" => \A s \in Series \ unvisited : Apart(s)
        /\ phase = "idle" => \A s \in Series : Apart(s)

---------------------------------------------------------------------------
TopStrike == Max({Collateral[s] : s \in Series})
TopBid    == Max({BidPrice(m) : m \in Marks})

(* The quantity of as many full orders, and what is missing to it.          *)
Full(orders, most)    == SumFunction([o \in orders |-> most])
Missing(orders, most) == SumFunction([o \in orders |-> most - o.qty])
Charge(count)     == SumFunction([s \in Series |-> count[s] * Collateral[s]])
FullCollateral    == Charge([s \in Series |-> Full(asks[s], AskQty)])
MissingCollateral == Charge([s \in Series |-> Missing(asks[s], AskQty)])

(* What fills and mishaps explain of the collateral over its ceiling.       *)
LiftSlack(lifted)        == lifted * TopStrike
AskSlack(lifted, failed) == (lifted + 2 * failed * AskQty) * TopStrike

AskExposure ==
    /\ MissingCollateral <= LiftSlack(fills)
    /\ FullCollateral <= MaxCollateral + AskSlack(fills, mishaps)
    /\ phase = "asks" => FullCollateral <= committed + AskSlack(fills, mishaps)

BidSlack(failed) == 2 * failed * BidQty * TopBid

(* The notional as the pass counts it.                                      *)
Counted(s) == Notional(IF Awaiting(s) THEN snap[s] ELSE bids[s])

BidExposure ==
    /\ NotionalOf(bids) <= MaxBidNotional + BidSlack(mishaps)
    /\ phase \in {"longs", "quote"} =>
          SumFunction([s \in Series |-> Counted(s)]) <= notional + BidSlack(mishaps)

(* The options that the bids of a series may ask for, and those and the     *)
(* ones held, after so many mishaps.                                        *)
MostAsked(failed) == (1 + failed) * BidQty
MostHeld(failed)  == MaxLong + (BidQty - 1) + 2 * failed * BidQty

Inventory ==
    \A s \in Series :
        /\ Full(bids[s], BidQty) <= MostAsked(mishaps)
        /\ Awaiting(s) => Full(snap[s], BidQty) <= MostAsked(mishaps)
        /\ held[s] + Quantity(bids[s]) <= MostHeld(mishaps)
        /\ phase = "quote" /\ s \in unvisited =>
              held[s] + Quantity(bids[s]) <= longs[s] + Quantity(snap[s])


---------------------------------------------------------------------------
(* Sums. *)

(* A sum is larger by what one more member counts for. *)
LEMMA SumInsert ==
    ASSUME NEW f, NEW T, IsFiniteSet(T), NEW x, x \notin T,
           \A y \in T \cup {x} : f[y] \in Int
    PROVE  SumFunctionOnSet(f, T \cup {x}) = SumFunctionOnSet(f, T) + f[x]
<1> DEFINE S == T \cup {x}
<1>1. IsFiniteSet(S) /\ x \in S /\ S \ {x} = T
  BY FS_AddElement
<1>2. \A y \in S : f[y] \in Int
  OBVIOUS
<1> HIDE DEF S
<1>3. SumFunctionOnSet(f, S) = f[x] + SumFunctionOnSet(f, S \ {x})
  BY <1>1, <1>2, SumRemove
<1>4. SumFunctionOnSet(f, T) \in Int /\ f[x] \in Int
  BY <1>1, <1>2, SumInt
<1>5. SumFunctionOnSet(f, S) = f[x] + SumFunctionOnSet(f, T)
  BY <1>1, <1>3, Zenon
<1>6. SumFunctionOnSet(f, S) = SumFunctionOnSet(f, T) + f[x]
  BY <1>4, <1>5
<1> QED BY <1>6 DEF S

(* A part counts for no more than the whole. *)
LEMMA SumPart ==
    ASSUME NEW f, NEW T, IsFiniteSet(T), \A y \in T : f[y] \in Nat, NEW S \in SUBSET T
    PROVE  SumFunctionOnSet(f, S) <= SumFunctionOnSet(f, T)
<1> DEFINE g == [y \in T |-> IF y \in S THEN f[y] ELSE 0]
           h == [y \in T |-> f[y]]
<1>1. /\ g \in [T -> Int] /\ h \in [T -> Int]
      /\ \A y \in T : g[y] <= h[y]
      /\ \A y \in S : g[y] = f[y]
      /\ \A y \in T \ S : g[y] = 0
      /\ DOMAIN h = T
      /\ \A y \in T : f[y] = h[y]
  OBVIOUS
<1> HIDE DEF g, h
<1>2. SumFunctionOnSet(f, S) = SumFunction(g)
  BY <1>1, SumRestrict
<1>3. SumFunctionOnSet(f, T) = SumFunctionOnSet(h, T)
  BY <1>1, SumSame
<1>4. SumFunction(h) = SumFunctionOnSet(h, T)
  BY <1>1 DEF SumFunction
<1>5. SumFunction(g) <= SumFunction(h)
  BY <1>1, TotalMonotone
<1> QED BY <1>2, <1>3, <1>4, <1>5

(* Nor does it with what was left out. *)
LEMMA SumLess ==
    ASSUME NEW f, NEW T, IsFiniteSet(T), \A y \in T : f[y] \in Nat,
           NEW x \in T, NEW S \in SUBSET (T \ {x})
    PROVE  SumFunctionOnSet(f, S) + f[x] <= SumFunctionOnSet(f, T)
<1> DEFINE R == T \ {x}
<1>1. IsFiniteSet(R) /\ \A y \in R : f[y] \in Nat
  BY FS_RemoveElement
<1>2. IsFiniteSet(S) /\ \A y \in S : f[y] \in Nat
  BY <1>1, FS_Subset
<1>3. SumFunctionOnSet(f, T) = f[x] + SumFunctionOnSet(f, R)
  BY SumRemove
<1>4. SumFunctionOnSet(f, S) <= SumFunctionOnSet(f, R)
  <2> HIDE DEF R
  <2> QED BY <1>1, SumPart DEF R
<1>5. SumFunctionOnSet(f, S) \in Nat /\ SumFunctionOnSet(f, R) \in Nat
  <2> HIDE DEF R
  <2> QED BY <1>1, <1>2, SumNat
<1> QED BY <1>3, <1>4, <1>5

(* A set that maps one to one into another, each member to one that counts *)
(* for no less, counts for no more. *)
LEMMA SumInto ==
    ASSUME NEW f, NEW S, IsFiniteSet(S), NEW T, IsFiniteSet(T), NEW into \in [S -> T],
           \A x \in S, y \in S : into[x] = into[y] => x = y,
           \A x \in S : f[x] \in Nat /\ f[x] <= f[into[x]],
           \A y \in T : f[y] \in Nat
    PROVE  SumFunctionOnSet(f, S) <= SumFunctionOnSet(f, T)
<1> DEFINE Part(t) == {x \in S : into[x] = t}
           g == [t \in T |-> SumFunctionOnSet(f, {x \in S : into[x] = t})]
           h == [t \in T |-> f[t]]
<1>1. g \in [T -> Int] /\ SumFunction(g) = SumFunctionOnSet(f, S)
  BY SumByOwner
<1>2. \A t \in T : SumFunctionOnSet(f, Part(t)) <= f[t]
  <2> TAKE t \in T
  <2>1. ASSUME NEW x \in S, into[x] = t PROVE SumFunctionOnSet(f, Part(t)) <= f[t]
    <3>1. Part(t) = {} \cup {x} /\ x \notin {} /\ IsFiniteSet({})
      BY <2>1, FS_EmptySet
    <3>2. SumFunctionOnSet(f, {} \cup {x}) = SumFunctionOnSet(f, {}) + f[x]
      BY <3>1, SumInsert
    <3>3. SumFunctionOnSet(f, {}) = 0
      BY SumEmpty
    <3> HIDE DEF Part
    <3> QED BY <2>1, <3>1, <3>2, <3>3
  <2>2. ASSUME \A x \in S : into[x] # t PROVE SumFunctionOnSet(f, Part(t)) <= f[t]
    <3>1. Part(t) = {}
      BY <2>2
    <3>2. SumFunctionOnSet(f, {}) = 0
      BY SumEmpty
    <3> HIDE DEF Part
    <3> QED BY <3>1, <3>2
  <2> HIDE DEF Part
  <2> QED BY <2>1, <2>2
<1>3. h \in [T -> Int] /\ DOMAIN h = T /\ \A t \in T : g[t] <= h[t] /\ f[t] = h[t]
  BY <1>2
<1> HIDE DEF g, h
<1>4. SumFunctionOnSet(f, T) = SumFunctionOnSet(h, T)
  BY <1>3, SumSame
<1>5. SumFunction(h) = SumFunctionOnSet(h, T)
  BY <1>3 DEF SumFunction
<1>6. SumFunction(g) <= SumFunction(h)
  BY <1>1, <1>3, TotalMonotone
<1> QED BY <1>1, <1>4, <1>5, <1>6

(* A finite set of numbers has a largest. *)
LEMMA Largest ==
    ASSUME NEW S, S \subseteq Nat, S # {}, IsFiniteSet(S)
    PROVE  Max(S) \in S /\ \A y \in S : y <= Max(S)
<1> DEFINE above == {n \in Nat : \A y \in S : y <= n}
           id == [y \in S |-> y]
<1>1. SumFunction(id) \in Nat /\ \A y \in S : id[y] <= SumFunction(id)
  <2>1. id \in [S -> Nat]
    OBVIOUS
  <2> HIDE DEF id
  <2> QED BY <2>1, TotalNat
<1>2. above # {} /\ above \subseteq Nat
  BY <1>1
<1>3. PICK n \in above : \A m \in above : n <= m
  <2> HIDE DEF above
  <2> QED BY <1>2, Least
<1>4. n \in S
  <2> SUFFICES ASSUME n \notin S PROVE FALSE
    OBVIOUS
  <2>1. n \in Nat /\ \A y \in S : y \in Nat /\ y <= n /\ y # n
    BY <1>3
  <2>2. PICK y \in S : TRUE
    OBVIOUS
  <2>3. n - 1 \in Nat /\ \A z \in S : z <= n - 1
    BY <2>1, <2>2
  <2>4. n - 1 \in above
    BY <2>3
  <2> QED BY <1>3, <2>1, <2>4
<1>5. \E x \in S : \A y \in S : x >= y
  BY <1>3, <1>4
<1>6. Max(S) \in S /\ \A y \in S : Max(S) >= y
  BY <1>5 DEF Max
<1> QED BY <1>6

---------------------------------------------------------------------------
(* What counts of orders: their number of options, what they pay, what they *)
(* would count if none were filled and what they lack of it.                *)
Qty         == [o \in Quotes |-> o.qty]
Value       == [o \in Quotes |-> o.qty * o.price]
Whole(most) == [o \in Quotes |-> most]
Lack(most)  == [o \in Quotes |-> IF o.qty <= most THEN most - o.qty ELSE 0]

(* The measures of the model are sums of these. *)
LEMMA Measured ==
    ASSUME NEW orders, NEW most \in Nat, Side(orders, most)
    PROVE  /\ Quantity(orders) = SumFunctionOnSet(Qty, orders)
           /\ Notional(orders) = SumFunctionOnSet(Value, orders)
           /\ Full(orders, most) = SumFunctionOnSet(Whole(most), orders)
           /\ Missing(orders, most) = SumFunctionOnSet(Lack(most), orders)
<1>1. IsFiniteSet(orders) /\ orders \subseteq Quotes /\ \A o \in orders : o.qty <= most
  BY DEF Side
<1> DEFINE q == [o \in orders |-> o.qty]
           v == [o \in orders |-> o.qty * o.price]
           w == [o \in orders |-> most]
           l == [o \in orders |-> most - o.qty]
<1>2. /\ \A o \in orders : q[o] = Qty[o] /\ v[o] = Value[o]
      /\ \A o \in orders : w[o] = Whole(most)[o] /\ l[o] = Lack(most)[o]
      /\ DOMAIN q = orders /\ DOMAIN v = orders /\ DOMAIN w = orders /\ DOMAIN l = orders
  BY <1>1 DEF Qty, Value, Whole, Lack
<1>3. /\ Quantity(orders) = SumFunction(q) /\ Notional(orders) = SumFunction(v)
      /\ Full(orders, most) = SumFunction(w) /\ Missing(orders, most) = SumFunction(l)
  BY DEF Quantity, Notional, Full, Missing
<1> HIDE DEF q, v, w, l
<1>4. /\ SumFunctionOnSet(q, orders) = SumFunctionOnSet(Qty, orders)
      /\ SumFunctionOnSet(v, orders) = SumFunctionOnSet(Value, orders)
  BY <1>1, <1>2, SumSame
<1>5. /\ SumFunctionOnSet(w, orders) = SumFunctionOnSet(Whole(most), orders)
      /\ SumFunctionOnSet(l, orders) = SumFunctionOnSet(Lack(most), orders)
  BY <1>1, <1>2, SumSame
<1> QED BY <1>2, <1>3, <1>4, <1>5 DEF SumFunction

(* They are counts. *)
LEMMA CountsTyped ==
    ASSUME NEW most \in Nat
    PROVE  /\ Qty \in [Quotes -> Nat] /\ Value \in [Quotes -> Nat]
           /\ Whole(most) \in [Quotes -> Nat] /\ Lack(most) \in [Quotes -> Nat]
<1>1. \A o \in Quotes : o.qty \in Nat /\ o.price \in Nat
  BY DEF Quotes
<1>2. \A o \in Quotes : o.qty * o.price \in Nat
  <2> TAKE o \in Quotes
  <2>1. PICK q \in Nat, p \in Nat : q = o.qty /\ p = o.price
    BY <1>1
  <2>2. q * p \in Nat
    OBVIOUS
  <2> QED BY <2>1, <2>2
<1>3. Qty \in [Quotes -> Nat] /\ Whole(most) \in [Quotes -> Nat]
  BY <1>1 DEF Qty, Whole
<1>4. Value \in [Quotes -> Nat]
  BY <1>2 DEF Value
<1>5. \A o \in Quotes : (IF o.qty <= most THEN most - o.qty ELSE 0) \in Nat
  BY <1>1
<1>6. Lack(most) \in [Quotes -> Nat]
  BY <1>5 DEF Lack
<1> QED BY <1>3, <1>4, <1>6

(* The counts of a side are numbers, and full orders count what theirs do   *)
(* and what they lack.                                                      *)
LEMMA CountsNat ==
    ASSUME NEW orders, NEW most \in Nat, Side(orders, most)
    PROVE  /\ Quantity(orders) \in Nat /\ Notional(orders) \in Nat
           /\ Full(orders, most) \in Nat /\ Missing(orders, most) \in Nat
           /\ Full(orders, most) = Quantity(orders) + Missing(orders, most)
<1>1. IsFiniteSet(orders) /\ orders \subseteq Quotes /\ \A o \in orders : o.qty <= most
  BY DEF Side
<1>2. \A o \in orders : /\ Qty[o] \in Nat /\ Value[o] \in Nat
                        /\ Whole(most)[o] \in Nat /\ Lack(most)[o] \in Nat
  BY <1>1, CountsTyped
<1>3. /\ SumFunctionOnSet(Qty, orders) \in Nat /\ SumFunctionOnSet(Value, orders) \in Nat
      /\ SumFunctionOnSet(Whole(most), orders) \in Nat
      /\ SumFunctionOnSet(Lack(most), orders) \in Nat
  BY <1>1, <1>2, SumNat
<1>4. \A o \in orders : Whole(most)[o] = Qty[o] + Lack(most)[o]
  <2> TAKE o \in orders
  <2>1. o \in Quotes /\ o.qty \in Nat /\ o.qty <= most
    BY <1>1 DEF Quotes
  <2>2. Whole(most)[o] = most /\ Qty[o] = o.qty /\ Lack(most)[o] = most - o.qty
    BY <2>1 DEF Whole, Qty, Lack
  <2> QED BY <2>1, <2>2
<1>5. SumFunctionOnSet(Whole(most), orders)
        = SumFunctionOnSet(Qty, orders) + SumFunctionOnSet(Lack(most), orders)
  BY <1>1, <1>2, <1>4, SumAdd
<1> QED BY <1>3, <1>5, Measured

---------------------------------------------------------------------------
(* Quotes come and go. *)

(* What is left of a side when some orders go. *)
LEMMA PartSide ==
    ASSUME NEW orders, NEW most \in Nat, Side(orders, most), NEW part \in SUBSET orders
    PROVE  /\ Side(part, most)
           /\ Quantity(part) <= Quantity(orders) /\ Notional(part) <= Notional(orders)
           /\ Full(part, most) <= Full(orders, most)
           /\ Missing(part, most) <= Missing(orders, most)
<1>1. IsFiniteSet(orders) /\ orders \subseteq Quotes
  BY DEF Side
<1>2. IsFiniteSet(part)
  BY <1>1, FS_Subset
<1>3. Side(part, most)
  BY <1>2 DEF Side, Distinct
<1>4. /\ \A o \in orders : Qty[o] \in Nat /\ Value[o] \in Nat
      /\ \A o \in orders : Whole(most)[o] \in Nat /\ Lack(most)[o] \in Nat
  BY <1>1, CountsTyped
<1>5. /\ SumFunctionOnSet(Qty, part) <= SumFunctionOnSet(Qty, orders)
      /\ SumFunctionOnSet(Value, part) <= SumFunctionOnSet(Value, orders)
      /\ SumFunctionOnSet(Whole(most), part) <= SumFunctionOnSet(Whole(most), orders)
      /\ SumFunctionOnSet(Lack(most), part) <= SumFunctionOnSet(Lack(most), orders)
  BY <1>1, <1>4, SumPart
<1> QED BY <1>3, <1>5, Measured

(* What one of them counted for is gone, too. *)
LEMMA LessSide ==
    ASSUME NEW orders, NEW most \in Nat, Side(orders, most),
           NEW o \in orders, NEW part \in SUBSET (orders \ {o})
    PROVE  /\ Side(part, most)
           /\ Quantity(part) + o.qty <= Quantity(orders)
           /\ Notional(part) + o.qty * o.price <= Notional(orders)
           /\ Full(part, most) + most <= Full(orders, most)
<1>1. IsFiniteSet(orders) /\ orders \subseteq Quotes /\ o \in Quotes
  BY DEF Side
<1>2. Side(part, most)
  BY PartSide
<1>3. /\ \A x \in orders : Qty[x] \in Nat /\ Value[x] \in Nat
      /\ \A x \in orders : Whole(most)[x] \in Nat
  BY <1>1, CountsTyped
<1>4. /\ SumFunctionOnSet(Qty, part) + Qty[o] <= SumFunctionOnSet(Qty, orders)
      /\ SumFunctionOnSet(Value, part) + Value[o] <= SumFunctionOnSet(Value, orders)
      /\ SumFunctionOnSet(Whole(most), part) + Whole(most)[o]
            <= SumFunctionOnSet(Whole(most), orders)
  BY <1>1, <1>3, SumLess
<1>5. Qty[o] = o.qty /\ Value[o] = o.qty * o.price /\ Whole(most)[o] = most
  BY <1>1 DEF Qty, Value, Whole
<1> QED BY <1>2, <1>4, <1>5, Measured

(* An order with an id of its own is added. *)
LEMMA InsertSide ==
    ASSUME NEW orders, NEW most \in Nat, Side(orders, most),
           NEW o \in Quotes, o.qty <= most, \A x \in orders : x.id # o.id
    PROVE  /\ Side(orders \cup {o}, most)
           /\ Quantity(orders \cup {o}) = Quantity(orders) + o.qty
           /\ Notional(orders \cup {o}) = Notional(orders) + o.qty * o.price
           /\ Full(orders \cup {o}, most) = Full(orders, most) + most
           /\ Missing(orders \cup {o}, most) = Missing(orders, most) + (most - o.qty)
<1> DEFINE more == orders \cup {o}
<1>1. IsFiniteSet(orders) /\ orders \subseteq Quotes /\ o \notin orders
  BY DEF Side
<1>2. IsFiniteSet(more)
  BY <1>1, FS_AddElement
<1>3. Side(more, most)
  <2>1. Distinct(more)
    BY DEF Side, Distinct
  <2> QED BY <1>2, <2>1 DEF Side
<1>4. /\ \A x \in more : Qty[x] \in Int /\ Value[x] \in Int
      /\ \A x \in more : Whole(most)[x] \in Int /\ Lack(most)[x] \in Int
  BY <1>1, CountsTyped
<1>5. /\ SumFunctionOnSet(Qty, more) = SumFunctionOnSet(Qty, orders) + Qty[o]
      /\ SumFunctionOnSet(Value, more) = SumFunctionOnSet(Value, orders) + Value[o]
      /\ SumFunctionOnSet(Whole(most), more)
            = SumFunctionOnSet(Whole(most), orders) + Whole(most)[o]
      /\ SumFunctionOnSet(Lack(most), more)
            = SumFunctionOnSet(Lack(most), orders) + Lack(most)[o]
  BY <1>1, <1>4, SumInsert
<1>6. Qty[o] = o.qty /\ Value[o] = o.qty * o.price /\ Whole(most)[o] = most
  BY DEF Qty, Value, Whole
<1>7. Lack(most)[o] = most - o.qty
  BY DEF Lack
<1> HIDE DEF more
<1>8. /\ Quantity(more) = Quantity(orders) + o.qty
      /\ Notional(more) = Notional(orders) + o.qty * o.price
  BY <1>3, <1>5, <1>6, Measured
<1>9. /\ Full(more, most) = Full(orders, most) + most
      /\ Missing(more, most) = Missing(orders, most) + (most - o.qty)
  BY <1>3, <1>5, <1>6, <1>7, Measured
<1> QED BY <1>3, <1>8, <1>9 DEF more

(* A side that was only filled since counts for no more. *)
LEMMA ShrunkSide ==
    ASSUME NEW later, NEW earlier, NEW most \in Nat, Side(later, most), Side(earlier, most),
           Shrunk(later, earlier)
    PROVE  Quantity(later) <= Quantity(earlier) /\ Notional(later) <= Notional(earlier)
<1>1. /\ IsFiniteSet(later) /\ later \subseteq Quotes /\ Distinct(later)
      /\ IsFiniteSet(earlier) /\ earlier \subseteq Quotes
  BY DEF Side
<1> DEFINE into == [x \in later |-> CHOOSE y \in earlier :
                        y.id = x.id /\ y.price = x.price /\ x.qty <= y.qty]
<1>2. /\ into \in [later -> earlier]
      /\ \A x \in later : /\ into[x].id = x.id /\ into[x].price = x.price
                        /\ x.qty <= into[x].qty
  BY DEF Shrunk
<1> HIDE DEF into
<1>3. \A x \in later, y \in later : into[x] = into[y] => x = y
  BY <1>1, <1>2 DEF Distinct
<1>4. \A x \in later : Qty[x] \in Nat /\ Qty[x] <= Qty[into[x]]
  <2> TAKE x \in later
  <2>1. x \in Quotes /\ into[x] \in Quotes
    BY <1>1, <1>2
  <2> QED BY <1>2, <2>1 DEF Qty, Quotes
<1>5. \A x \in later : Value[x] \in Nat /\ Value[x] <= Value[into[x]]
  <2> TAKE x \in later
  <2>1. x \in Quotes /\ into[x] \in Quotes
    BY <1>1, <1>2
  <2>2. PICK p \in Nat, q \in Nat, r \in Nat :
           p = x.price /\ p = into[x].price /\ q = x.qty /\ r = into[x].qty /\ q <= r
    BY <1>2, <2>1 DEF Quotes
  <2>3. q * p <= r * p /\ q * p \in Nat
    BY <2>2
  <2>4. Value[x] = q * p /\ Value[into[x]] = r * p
    BY <2>1, <2>2 DEF Value
  <2> QED BY <2>3, <2>4
<1>6. \A y \in earlier : Qty[y] \in Nat /\ Value[y] \in Nat
  BY <1>1, CountsTyped
<1>7. SumFunctionOnSet(Qty, later) <= SumFunctionOnSet(Qty, earlier)
  BY <1>1, <1>2, <1>3, <1>4, <1>6, SumInto
<1>8. SumFunctionOnSet(Value, later) <= SumFunctionOnSet(Value, earlier)
  BY <1>1, <1>2, <1>3, <1>5, <1>6, SumInto
<1> QED BY <1>7, <1>8, Measured

(* An order of which one option is filled. *)
LEMMA LiftedSide ==
    ASSUME NEW orders, NEW most \in Nat, Side(orders, most), NEW o \in orders
    PROVE  /\ Side(Lifted(orders, o), most) /\ Shrunk(Lifted(orders, o), orders)
           /\ Quantity(Lifted(orders, o)) + 1 = Quantity(orders)
           /\ Notional(Lifted(orders, o)) <= Notional(orders)
           /\ Full(Lifted(orders, o), most) <= Full(orders, most)
           /\ Missing(Lifted(orders, o), most) <= Missing(orders, most) + 1
<1> DEFINE rest == orders \ {o}
           less == [o EXCEPT !.qty = @ - 1]
           left == Lifted(orders, o)
<1>1. o \in Quotes /\ o.qty \in Nat \ {0} /\ o.qty <= most /\ orders \subseteq Quotes
  BY DEF Side, Quotes
<1>2. Side(rest, most) /\ \A x \in rest : x.id # o.id
  <2>1. rest \in SUBSET orders
    OBVIOUS
  <2>2. Side(rest, most)
    <3> HIDE DEF rest
    <3> QED BY <2>1, PartSide
  <2> QED BY <2>2 DEF Side, Distinct
<1>3. orders = rest \cup {o}
  OBVIOUS
<1> HIDE DEF rest
<1>4. /\ Quantity(orders) = Quantity(rest) + o.qty
      /\ Notional(orders) = Notional(rest) + o.qty * o.price
      /\ Full(orders, most) = Full(rest, most) + most
      /\ Missing(orders, most) = Missing(rest, most) + (most - o.qty)
  BY <1>1, <1>2, <1>3, InsertSide
<1>5. /\ Quantity(rest) \in Nat /\ Notional(rest) \in Nat
      /\ Full(rest, most) \in Nat /\ Missing(rest, most) \in Nat
  BY <1>2, CountsNat
<1>6. o.price \in Nat /\ o.qty * o.price \in Nat
  <2>1. o.price \in Nat
    BY <1>1 DEF Quotes
  <2> QED BY <1>1, <2>1
<1>7. Shrunk(left, orders)
  BY <1>1, <1>3 DEF Shrunk, Lifted, Quotes
<1>8. ASSUME o.qty = 1 PROVE left = rest
  BY <1>8 DEF Lifted, rest
<1>9. ASSUME o.qty # 1
      PROVE  /\ left = rest \cup {less} /\ less \in Quotes /\ less.id = o.id
             /\ less.price = o.price /\ less.qty = o.qty - 1
  BY <1>1, <1>9 DEF Lifted, rest, Quotes
<1> HIDE DEF left, less
<1>10. ASSUME o.qty # 1
       PROVE  /\ Side(left, most)
              /\ Quantity(left) = Quantity(rest) + (o.qty - 1)
              /\ Notional(left) = Notional(rest) + (o.qty - 1) * o.price
              /\ Full(left, most) = Full(rest, most) + most
              /\ Missing(left, most) = Missing(rest, most) + (most - (o.qty - 1))
  <2>1. less.qty <= most /\ \A x \in rest : x.id # less.id
    BY <1>1, <1>2, <1>9, <1>10
  <2>2. /\ less.qty = o.qty - 1 /\ less.price = o.price /\ left = rest \cup {less}
        /\ less \in Quotes
    BY <1>9, <1>10
  <2>3. /\ Side(rest \cup {less}, most)
        /\ Quantity(rest \cup {less}) = Quantity(rest) + less.qty
        /\ Notional(rest \cup {less}) = Notional(rest) + less.qty * less.price
        /\ Full(rest \cup {less}, most) = Full(rest, most) + most
        /\ Missing(rest \cup {less}, most) = Missing(rest, most) + (most - less.qty)
    BY <1>2, <2>1, <2>2, InsertSide
  <2> QED BY <2>2, <2>3, Zenon
<1>11. /\ Side(left, most) /\ Quantity(left) + 1 = Quantity(orders)
       /\ Full(left, most) <= Full(orders, most)
       /\ Missing(left, most) <= Missing(orders, most) + 1
  <2>1. CASE o.qty = 1
    BY <1>1, <1>2, <1>4, <1>5, <1>8, <2>1
  <2>2. CASE o.qty # 1
    BY <1>1, <1>4, <1>5, <1>10, <2>2
  <2> QED BY <2>1, <2>2
<1>12. Notional(left) <= Notional(orders)
  <2>1. CASE o.qty = 1
    BY <1>4, <1>5, <1>6, <1>8, <2>1
  <2>2. CASE o.qty # 1
    <3>1. PICK p \in Nat, q \in Nat : p = o.price /\ q = o.qty
      BY <1>1, <1>6
    <3>2. (q - 1) * p <= q * p /\ (q - 1) * p \in Int
      BY <3>1
    <3>3. Notional(left) = Notional(rest) + (q - 1) * p /\ Notional(orders) = Notional(rest) + q * p
      BY <1>4, <1>10, <2>2, <3>1
    <3> QED BY <1>5, <3>2, <3>3
  <2> QED BY <2>1, <2>2
<1> QED BY <1>7, <1>11, <1>12 DEF left

(* A post takes an id that none has. *)
LEMMA NextIdAbove ==
    ASSUME NEW orders, NEW most \in Nat, Side(orders, most)
    PROVE  NextId(orders) \in Nat \ {0} /\ \A x \in orders : x.id < NextId(orders)
<1> DEFINE ids == {o.id : o \in orders} \cup {0}
<1>1. IsFiniteSet(orders) /\ orders \subseteq Quotes
  BY DEF Side
<1>2. IsFiniteSet({o.id : o \in orders})
  <2> DEFINE f == [o \in orders |-> o.id]
  <2>1. IsFiniteSet({f[o] : o \in orders})
    <3>1. f \in Surjection(orders, {f[o] : o \in orders})
      BY DEF Surjection
    <3> HIDE DEF f
    <3> QED BY <1>1, <3>1, FS_Surjection
  <2> QED BY <2>1
<1>3. ids \subseteq Nat /\ ids # {} /\ IsFiniteSet(ids)
  BY <1>1, <1>2, FS_AddElement DEF Quotes
<1>4. Max(ids) \in ids /\ \A y \in ids : y <= Max(ids)
  <2> HIDE DEF ids
  <2> QED BY <1>3, Largest
<1>5. \A x \in orders : x.id \in ids
  OBVIOUS
<1>6. NextId(orders) = 1 + Max(ids)
  BY DEF NextId
<1> HIDE DEF ids
<1>7. PICK m \in Nat : m = Max(ids) /\ \A y \in ids : y <= m
  BY <1>3, <1>4
<1>8. \A x \in orders : x.id \in Nat /\ x.id <= m
  BY <1>3, <1>5, <1>7
<1> QED BY <1>6, <1>7, <1>8

(* A product that the provers need not look into.                           *)
Times(n, x) == n * x

(* What n landings of a post add. *)
PostedAs(orders, n, price, qty, most) ==
    /\ Side(Posted(orders, n, price, qty), most)
    /\ Quantity(Posted(orders, n, price, qty)) = Quantity(orders) + Times(n, qty)
    /\ Notional(Posted(orders, n, price, qty)) = Notional(orders) + Times(n, Times(qty, price))
    /\ Full(Posted(orders, n, price, qty), most) = Full(orders, most) + Times(n, most)
    /\ Missing(Posted(orders, n, price, qty), most)
          = Missing(orders, most) + Times(n, most - qty)

LEMMA PostedSide ==
    ASSUME NEW orders, NEW most \in Nat, Side(orders, most),
           NEW n \in 0..2, NEW price \in Nat, NEW qty \in Nat \ {0}, qty <= most
    PROVE  PostedAs(orders, n, price, qty, most)
<1> DEFINE i == NextId(orders)
           a == [id |-> i, price |-> price, qty |-> qty]
           b == [id |-> i + 1, price |-> price, qty |-> qty]
           one == orders \cup {a}
           two == one \cup {b}
           new == Posted(orders, n, price, qty)
<1>1. i \in Nat \ {0} /\ \A x \in orders : x.id < i
  BY NextIdAbove
<1>2. /\ n = 0 => new = orders
      /\ n = 1 => new = one
      /\ n = 2 => new = two
  <2> HIDE DEF i
  <2>1. {[id |-> i + k, price |-> price, qty |-> qty] : k \in 0..0} = {a}
    BY <1>1
  <2>2. {[id |-> i + k, price |-> price, qty |-> qty] : k \in 0..1} = {a, b}
    BY <1>1
  <2>3. n = 0 => new = orders
    BY DEF Posted
  <2>4. n = 1 => new = one
    BY <2>1 DEF Posted, i
  <2>5. n = 2 => new = two
    BY <2>2 DEF Posted, i
  <2> QED BY <2>3, <2>4, <2>5
<1>3. /\ a \in Quotes /\ a.qty = qty /\ a.price = price /\ a.id = i
      /\ b \in Quotes /\ b.qty = qty /\ b.price = price /\ b.id = i + 1
  BY <1>1 DEF Quotes
<1>4. \A x \in orders : x.id # a.id /\ x.id # b.id
  <2> HIDE DEF i, a, b
  <2>1. orders \subseteq Quotes /\ \A x \in orders : x.id \in Nat
    BY DEF Side, Quotes
  <2> QED BY <1>1, <1>3, <2>1
<1> HIDE DEF i, a, b, one, two, new
<1>5. /\ Side(one, most)
      /\ Quantity(one) = Quantity(orders) + qty
      /\ Notional(one) = Notional(orders) + qty * price
      /\ Full(one, most) = Full(orders, most) + most
      /\ Missing(one, most) = Missing(orders, most) + (most - qty)
  <2>1. a \in Quotes /\ a.qty <= most /\ \A x \in orders : x.id # a.id
    BY <1>3, <1>4
  <2>2. /\ Side(orders \cup {a}, most)
        /\ Quantity(orders \cup {a}) = Quantity(orders) + a.qty
        /\ Notional(orders \cup {a}) = Notional(orders) + a.qty * a.price
        /\ Full(orders \cup {a}, most) = Full(orders, most) + most
        /\ Missing(orders \cup {a}, most) = Missing(orders, most) + (most - a.qty)
    BY <2>1, InsertSide
  <2> QED BY <1>3, <2>2, Zenon DEF one
<1>6. \A x \in one : x.id # b.id
  BY <1>1, <1>3, <1>4 DEF one
<1>7. /\ Side(two, most)
      /\ Quantity(two) = Quantity(one) + qty
      /\ Notional(two) = Notional(one) + qty * price
      /\ Full(two, most) = Full(one, most) + most
      /\ Missing(two, most) = Missing(one, most) + (most - qty)
  <2>1. /\ Side(one, most) /\ b \in Quotes /\ b.qty <= most
        /\ \A x \in one : x.id # b.id
    BY <1>3, <1>5, <1>6
  <2>2. /\ Side(one \cup {b}, most)
        /\ Quantity(one \cup {b}) = Quantity(one) + b.qty
        /\ Notional(one \cup {b}) = Notional(one) + b.qty * b.price
        /\ Full(one \cup {b}, most) = Full(one, most) + most
        /\ Missing(one \cup {b}, most) = Missing(one, most) + (most - b.qty)
    BY <2>1, InsertSide
  <2> QED BY <1>3, <2>2, Zenon DEF two
<1>8. /\ Quantity(orders) \in Nat /\ Notional(orders) \in Nat
      /\ Full(orders, most) \in Nat /\ Missing(orders, most) \in Nat
      /\ qty * price \in Nat
  BY CountsNat
<1>9. PICK v \in Nat : v = qty * price
  BY <1>8
<1>10. CASE n = 0
  BY <1>2, <1>8, <1>9, <1>10 DEF new, Times, PostedAs
<1>11. CASE n = 1
  BY <1>2, <1>5, <1>8, <1>9, <1>11 DEF new, Times, PostedAs
<1>12. CASE n = 2
  BY <1>2, <1>5, <1>7, <1>8, <1>9, <1>12 DEF new, Times, PostedAs
<1> QED BY <1>10, <1>11, <1>12

(* Full ones lack nothing. *)
LEMMA PostedFull ==
    ASSUME NEW orders, NEW most \in Nat \ {0}, Side(orders, most),
           NEW n \in 0..2, NEW price \in Nat
    PROVE  /\ Side(Posted(orders, n, price, most), most)
           /\ Full(Posted(orders, n, price, most), most) = Full(orders, most) + Times(n, most)
           /\ Missing(Posted(orders, n, price, most), most) = Missing(orders, most)
<1> DEFINE P(q) == Posted(orders, n, price, q)
<1>1. \A q \in Nat \ {0} : q <= most =>
        /\ Side(P(q), most)
        /\ Full(P(q), most) = Full(orders, most) + Times(n, most)
        /\ Missing(P(q), most) = Missing(orders, most) + Times(n, most - q)
  <2> TAKE q \in Nat \ {0}
  <2> HAVE q <= most
  <2>1. most \in Nat
    OBVIOUS
  <2>2. PostedAs(orders, n, price, q, most)
    BY <2>1, PostedSide
  <2> QED BY <2>2 DEF PostedAs
<1> HIDE DEF P
<1>2. /\ Side(P(most), most)
      /\ Full(P(most), most) = Full(orders, most) + Times(n, most)
      /\ Missing(P(most), most) = Missing(orders, most) + Times(n, most - most)
  BY <1>1
<1>3. Times(n, most - most) = 0 /\ Missing(orders, most) \in Nat
  BY CountsNat DEF Times
<1> QED BY <1>2, <1>3 DEF P

(* Quotes are taken out by their ids. *)
LEMMA WithoutPart ==
    ASSUME NEW orders, NEW gone
    PROVE  Without(orders, gone) \in SUBSET orders
BY DEF Without

(* An order that lives is one of the side, and taking it out leaves less. *)
LEMMA WithoutLive ==
    ASSUME NEW orders, NEW o, Live(o, orders)
    PROVE  \E x \in orders : x.id = o.id /\ Without(orders, {o}) \in SUBSET (orders \ {x})
<1>1. PICK x \in orders : x.id = o.id
  BY DEF Live
<1>2. Without(orders, {o}) \in SUBSET (orders \ {x})
  BY <1>1 DEF Without, Live
<1> QED BY <1>1, <1>2

(* What was shrunk stays so. *)
LEMMA ShrunkMore ==
    ASSUME NEW later, NEW earlier, later \subseteq Quotes, earlier \subseteq Quotes, Shrunk(later, earlier)
    PROVE  /\ \A part \in SUBSET later : Shrunk(part, earlier)
           /\ \A o \in later : Shrunk(Lifted(later, o), earlier)
           /\ \A gone : Shrunk(Without(later, gone), Without(earlier, gone))
<1>1. \A part \in SUBSET later : Shrunk(part, earlier)
  BY DEF Shrunk
<1>2. ASSUME NEW o \in later, NEW x \in Lifted(later, o)
      PROVE  \E y \in earlier : y.id = x.id /\ y.price = x.price /\ x.qty <= y.qty
  <2>1. CASE x \in later
    BY <2>1 DEF Shrunk
  <2>2. CASE x \notin later
    <3>1. o \in Quotes /\ o.qty \in Nat
      BY DEF Quotes
    <3>2. x = [o EXCEPT !.qty = @ - 1]
      BY <2>2 DEF Lifted
    <3>3. x.id = o.id /\ x.price = o.price /\ x.qty = o.qty - 1
      BY <3>1, <3>2 DEF Quotes
    <3>4. PICK y \in earlier : y.id = o.id /\ y.price = o.price /\ o.qty <= y.qty
      BY DEF Shrunk
    <3>5. y.qty \in Nat
      BY DEF Quotes
    <3> QED BY <3>1, <3>3, <3>4, <3>5
  <2> QED BY <2>1, <2>2
<1>3. \A o \in later : Shrunk(Lifted(later, o), earlier)
  BY <1>2 DEF Shrunk
<1>4. \A gone : Shrunk(Without(later, gone), Without(earlier, gone))
  BY DEF Shrunk, Without, Live
<1> QED BY <1>1, <1>3, <1>4

(* And nothing is, to begin with. *)
LEMMA ShrunkSelf ==
    ASSUME NEW orders, orders \subseteq Quotes
    PROVE  Shrunk(orders, orders)
BY DEF Shrunk, Quotes

(* A single order is the newest. *)
LEMMA SingleNewest ==
    ASSUME NEW orders, orders \subseteq Quotes
    PROVE  /\ Newest(orders) \in SUBSET orders
           /\ Single(orders) => Newest(orders) = orders
BY DEF Newest, Single, Quotes

(* Nothing is left without the single order there was. *)
LEMMA SingleGone ==
    ASSUME NEW later, NEW earlier, Shrunk(later, earlier), Single(earlier), NEW o \in earlier
    PROVE  /\ Without(later, {o}) = {} /\ \A x \in later : x.price = o.price
           /\ \A x \in later : x.id = o.id
           /\ Without(later, earlier) = {}
BY DEF Shrunk, Single, Without, Live

---------------------------------------------------------------------------
(* The constants. *)

LEMMA Quantities ==
    /\ AskQty \in Nat \ {0} /\ BidQty \in Nat \ {0} /\ Drift \in Nat /\ AskSpread \in Nat
    /\ MaxCollateral \in Nat /\ MaxBidNotional \in Nat /\ MaxLong \in Nat
    /\ Marks \subseteq Nat \ {0} /\ IsFiniteSet(Series)
    /\ \A s \in Series : Collateral[s] \in Nat \ {0}
BY WriterAssumption

LEMMA TopStrikeIs ==
    TopStrike \in Nat /\ \A s \in Series : Collateral[s] <= TopStrike
<1> DEFINE S == {Collateral[s] : s \in Series}
<1>1. S \subseteq Nat /\ S # {}
  BY WriterAssumption
<1>2. IsFiniteSet(S)
  <2>1. Collateral \in Surjection(Series, S)
    BY WriterAssumption DEF Surjection
  <2> HIDE DEF S
  <2> QED BY <2>1, WriterAssumption, FS_Surjection
<1>3. \A s \in Series : Collateral[s] \in S
  OBVIOUS
<1>4. TopStrike = Max(S)
  BY DEF TopStrike
<1> HIDE DEF S
<1>5. Max(S) \in S /\ \A y \in S : y <= Max(S)
  BY <1>1, <1>2, Largest
<1> QED BY <1>1, <1>3, <1>4, <1>5

LEMMA PricesAre ==
    /\ BidSpread \in Nat
    /\ \A m \in Marks : BidPrice(m) \in Nat /\ AskPrice(m) \in Nat \ {0}
<1>1. BidSpread \in Nat
  BY Quantities DEF BidSpread, Larger
<1>2. ASSUME NEW m \in Marks PROVE BidPrice(m) \in Nat /\ AskPrice(m) \in Nat \ {0}
  <2>1. m \in Nat \ {0}
    BY Quantities
  <2>2. PICK k \in Nat : k = 100 - BidSpread
    BY <1>1, SpreadAssumption
  <2>3. PICK l \in Nat \ {0} : l = 100 + AskSpread
    BY Quantities
  <2>4. k * m \in Nat /\ l * m \in Nat \ {0}
    BY <2>1
  <2> QED BY <2>2, <2>3, <2>4 DEF BidPrice, AskPrice
<1> QED BY <1>1, <1>2

LEMMA TopBidIs ==
    TopBid \in Nat /\ \A m \in Marks : BidPrice(m) <= TopBid
<1> DEFINE S == {BidPrice(m) : m \in Marks}
           f == [m \in Marks |-> BidPrice(m)]
<1>1. S \subseteq Nat /\ S # {}
  BY WriterAssumption, PricesAre
<1>2. IsFiniteSet(S)
  <2>1. f \in Surjection(Marks, S)
    BY DEF Surjection
  <2> HIDE DEF S, f
  <2> QED BY <2>1, WriterAssumption, FS_Surjection
<1>3. \A m \in Marks : BidPrice(m) \in S
  OBVIOUS
<1>4. TopBid = Max(S)
  BY DEF TopBid
<1> HIDE DEF S
<1>5. Max(S) \in S /\ \A y \in S : y <= Max(S)
  BY <1>1, <1>2, Largest
<1> QED BY <1>1, <1>3, <1>4, <1>5

---------------------------------------------------------------------------
(* The ask loop, visit by visit. *)

(* What a visit does to the orders of its series, and to the measure.       *)
AskTurn(s) ==
    /\ Side(asks'[s], AskQty) /\ asks' = [asks EXCEPT ![s] = asks'[s]]
    /\ committed' \in Nat
    /\ NoMishap \/ Mishap
    /\ Missing(asks'[s], AskQty) <= Missing(asks[s], AskQty)
    /\ \/ Full(asks'[s], AskQty) <= Full(asks[s], AskQty) /\ committed' = committed
       \/ /\ Full(asks'[s], AskQty) <= Full(asks[s], AskQty) + 2 * AskQty
          /\ Mishap /\ committed <= committed'
       \/ /\ Full(asks'[s], AskQty) = Full(asks[s], AskQty) + AskQty
          /\ committed' = committed + AskQty * Collateral[s]
          /\ committed' <= MaxCollateral

(* What it records of the ask.                                              *)
Recorded(measure) ==
    /\ measure \in Measures
    /\ measure.ask # 0 =>
          /\ measure.mark \in Marks
          /\ AskPrice(measure.mark) * 100 <= (100 + Drift) * measure.ask

AskRecord(s) ==
    /\ DOMAIN outcome' \subseteq DOMAIN outcome \cup {s}
    /\ \A x \in DOMAIN outcome : x \in DOMAIN outcome' /\ outcome'[x] = outcome[x]
    /\ s \in DOMAIN outcome' =>
          /\ Recorded(outcome'[s])
          /\ outcome'[s].ask # 0 /\ clean' /\ Single(snap[s]) =>
                \A a \in asks'[s] : a.price = outcome'[s].ask

(* What a visit finds. *)
LEMMA AskVisit ==
    ASSUME Structure, NEW s \in Series, Visiting("asks", s)
    PROVE  /\ Side(asks[s], AskQty) /\ asks[s] \subseteq Quotes /\ asks[s] = asks[s]
           /\ Distinct(snap[s]) /\ Shrunk(asks[s], snap[s]) /\ snap[s] \subseteq Quotes
           /\ s \notin DOMAIN outcome /\ committed \in Nat
           /\ market[s] \in Marks \cup {0}
           /\ \A A : [asks EXCEPT ![s] = A][s] = A
BY DEF Structure, WriterTyped, Sides, Enumerated, Visiting

(* A visit that takes orders out, or nothing. *)
LEMMA AskLess ==
    ASSUME Structure, NEW s \in Series, Visiting("asks", s), NEW A \in SUBSET asks[s],
           asks' = [asks EXCEPT ![s] = A], UNCHANGED committed, NoMishap \/ Mishap
    PROVE  AskTurn(s) /\ asks'[s] = A
<1>1. /\ Side(asks[s], AskQty) /\ AskQty \in Nat /\ committed \in Nat /\ asks'[s] = A
  BY AskVisit, Quantities
<1>2. /\ Side(A, AskQty) /\ Full(A, AskQty) <= Full(asks[s], AskQty)
      /\ Missing(A, AskQty) <= Missing(asks[s], AskQty)
  BY <1>1, PartSide
<1> QED BY <1>1, <1>2 DEF AskTurn

(* A visit that leaves the record alone, or makes one. *)
LEMMA AskSilent ==
    ASSUME Structure, NEW s \in Series, Visiting("asks", s), UNCHANGED outcome
    PROVE  AskRecord(s)
BY AskVisit DEF AskRecord

LEMMA AskRecords ==
    ASSUME Structure, NEW s \in Series, Visiting("asks", s), NEW m, NEW ask,
           Outcome(s, m, ask), Recorded([mark |-> m, ask |-> ask]),
           ask # 0 /\ clean' /\ Single(snap[s]) => \A a \in asks'[s] : a.price = ask
    PROVE  AskRecord(s)
<1>1. s \notin DOMAIN outcome
  BY AskVisit
<1>2. DOMAIN outcome' = DOMAIN outcome \cup {s} /\ outcome'[s] = [mark |-> m, ask |-> ask]
  BY DEF Outcome
<1>3. \A x \in DOMAIN outcome : x \in DOMAIN outcome' /\ outcome'[x] = outcome[x]
  BY <1>1 DEF Outcome
<1>4. outcome'[s].ask = ask
  BY <1>2
<1> HIDE DEF Recorded
<1> QED BY <1>2, <1>3, <1>4 DEF AskRecord

(* A measure without an ask, and that of an ask just posted.                *)
LEMMA NoAsk ==
    ASSUME NEW m \in Marks \cup {0}
    PROVE  Recorded([mark |-> m, ask |-> 0])
BY DEF Recorded, Measures

LEMMA NewAsk ==
    ASSUME NEW m \in Marks
    PROVE  Recorded([mark |-> m, ask |-> AskPrice(m)])
<1>1. PICK p \in Nat : p = AskPrice(m)
  BY PricesAre
<1>2. Drift * p \in Nat /\ Drift \in Nat /\ (100 + Drift) * p = 100 * p + Drift * p
  BY Quantities
<1>3. p * 100 <= (100 + Drift) * p
  BY <1>2
<1> QED BY <1>1, <1>3 DEF Recorded, Measures

(* An ask within the drift of its price. *)
LEMMA OldAsk ==
    ASSUME NEW m \in Marks, NEW p \in Nat, ~Drifted(AskPrice(m), p)
    PROVE  Recorded([mark |-> m, ask |-> p])
<1>1. PICK q \in Nat : q = AskPrice(m)
  BY PricesAre
<1>2. PICK d \in Nat : d = Drift * p
  BY Quantities
<1>3. (100 + Drift) * p = 100 * p + d
  BY <1>2, Quantities
<1>4. Gap(q, p) * 100 <= d
  <2>1. Gap(q, p) \in Nat
    BY DEF Gap
  <2> QED BY <1>1, <1>2, <2>1 DEF Drifted
<1>5. q * 100 <= 100 * p + d
  <2>1. CASE q >= p
    BY <1>4, <2>1 DEF Gap
  <2>2. CASE ~(q >= p)
    BY <2>2
  <2> QED BY <2>1, <2>2
<1> QED BY <1>1, <1>3, <1>5 DEF Recorded, Measures

LEMMA PullStaleTurn ==
    ASSUME Structure, NEW s \in Series, PullStale(s)
    PROVE  AskTurn(s) /\ AskRecord(s)
<1>1. Visiting("asks", s) /\ UNCHANGED committed /\ UNCHANGED outcome
  BY DEF PullStale
<1>2. PICK stranded \in SUBSET snap[s] :
        /\ MishapIf(stranded # {})
        /\ asks' = [asks EXCEPT ![s] = Without(asks[s], snap[s] \ stranded)]
  BY AskVisit DEF PullStale, Structure, WriterTyped
<1>3. NoMishap \/ Mishap
  BY <1>2 DEF MishapIf
<1> QED BY <1>1, <1>2, <1>3, WithoutPart, AskLess, AskSilent

LEMMA PullUnquotedTurn ==
    ASSUME Structure, NEW s \in Series, PullUnquoted(s)
    PROVE  AskTurn(s) /\ AskRecord(s)
<1>1. Visiting("asks", s) /\ UNCHANGED committed /\ Outcome(s, 0, 0) /\ Mishap
  BY DEF PullUnquoted
<1>2. PICK pulled \in {{}, Newest(snap[s])} : asks' = [asks EXCEPT ![s] = Without(asks[s], pulled)]
  BY DEF PullUnquoted
<1>3. Recorded([mark |-> 0, ask |-> 0])
  BY NoAsk
<1> QED BY <1>1, <1>2, <1>3, WithoutPart, AskLess, AskRecords

LEMMA HoldAskTurn ==
    ASSUME Structure, NEW s \in Series, HoldAsk(s)
    PROVE  AskTurn(s) /\ AskRecord(s)
<1>1. Visiting("asks", s) /\ UNCHANGED <<asks, committed>> /\ NoMishap /\ market[s] # 0
  BY DEF HoldAsk, NoMishap
<1>2. PICK o \in Newest(snap[s]) :
        ~Drifted(AskPrice(market[s]), o.price) /\ Outcome(s, market[s], o.price)
  BY DEF HoldAsk
<1>3. /\ o \in snap[s] /\ o \in Quotes /\ market[s] \in Marks /\ Shrunk(asks[s], snap[s])
      /\ asks[s] \in SUBSET asks[s]
  BY <1>1, <1>2, AskVisit DEF Newest
<1>4. o.price \in Nat
  BY <1>3 DEF Quotes
<1>5. Recorded([mark |-> market[s], ask |-> o.price])
  BY <1>2, <1>3, <1>4, OldAsk
<1>6. asks' = [asks EXCEPT ![s] = asks[s]]
  BY <1>1 DEF Structure, WriterTyped
<1>7. AskTurn(s) /\ asks'[s] = asks[s]
  BY <1>1, <1>3, <1>6, AskLess
<1>8. Single(snap[s]) => \A a \in asks'[s] : a.price = o.price
  <2>1. Single(snap[s]) => \A a \in asks[s] : a.price = o.price
    BY <1>3 DEF Shrunk, Single
  <2> QED BY <1>7, <2>1, Zenon
<1>9. AskRecord(s)
  BY <1>1, <1>2, <1>5, <1>8, AskRecords
<1> QED BY <1>7, <1>9

(* A post that lands n times. *)
LEMMA AskMore ==
    ASSUME Structure, NEW s \in Series, Visiting("asks", s), market[s] # 0,
           NEW A \in SUBSET asks[s], NEW n \in 0..2,
           asks' = [asks EXCEPT ![s] = Posted(A, n, AskPrice(market[s]), AskQty)]
    PROVE  /\ Side(asks'[s], AskQty) /\ asks' = [asks EXCEPT ![s] = asks'[s]]
           /\ Missing(asks'[s], AskQty) <= Missing(asks[s], AskQty)
           /\ Full(asks'[s], AskQty) = Full(A, AskQty) + n * AskQty
           /\ Full(A, AskQty) \in Nat /\ Full(A, AskQty) <= Full(asks[s], AskQty)
           /\ n = 1 /\ A = {} => \A a \in asks'[s] : a.price = AskPrice(market[s])
<1>1. /\ Side(asks[s], AskQty) /\ AskQty \in Nat \ {0} /\ market[s] \in Marks
      /\ asks'[s] = Posted(A, n, AskPrice(market[s]), AskQty)
  BY AskVisit, Quantities
<1>2. AskPrice(market[s]) \in Nat
  BY <1>1, PricesAre
<1>3. /\ Side(A, AskQty) /\ Full(A, AskQty) <= Full(asks[s], AskQty)
      /\ Missing(A, AskQty) <= Missing(asks[s], AskQty)
  BY <1>1, PartSide
<1>4. /\ Side(asks'[s], AskQty)
      /\ Full(asks'[s], AskQty) = Full(A, AskQty) + Times(n, AskQty)
      /\ Missing(asks'[s], AskQty) = Missing(A, AskQty)
  <2>1. PICK p \in Nat : p = AskPrice(market[s])
    BY <1>2
  <2>2. /\ Side(Posted(A, n, p, AskQty), AskQty)
        /\ Full(Posted(A, n, p, AskQty), AskQty) = Full(A, AskQty) + Times(n, AskQty)
        /\ Missing(Posted(A, n, p, AskQty), AskQty) = Missing(A, AskQty)
    BY <1>1, <1>3, PostedFull
  <2> QED BY <1>1, <2>1, <2>2, Zenon
<1>5. Full(A, AskQty) \in Nat
  BY <1>1, <1>3, CountsNat
<1>6. Full(asks'[s], AskQty) = Full(A, AskQty) + n * AskQty
  BY <1>4 DEF Times
<1>7. Missing(asks'[s], AskQty) <= Missing(asks[s], AskQty)
  BY <1>3, <1>4
<1>8. ASSUME n = 1, A = {} PROVE \A a \in asks'[s] : a.price = AskPrice(market[s])
  BY <1>1, <1>8 DEF Posted
<1>9. asks' = [asks EXCEPT ![s] = asks'[s]]
  BY <1>1
<1> QED BY <1>3, <1>4, <1>5, <1>6, <1>7, <1>8, <1>9

LEMMA RepriceAskTurn ==
    ASSUME Structure, NEW s \in Series, RepriceAsk(s)
    PROVE  AskTurn(s) /\ AskRecord(s)
<1> DEFINE price == AskPrice(market[s])
<1>1. Visiting("asks", s) /\ UNCHANGED committed /\ market[s] # 0
  BY DEF RepriceAsk
<1>2. market[s] \in Marks /\ snap[s] \subseteq Quotes /\ Shrunk(asks[s], snap[s])
  BY <1>1, AskVisit
<1>3. PICK o \in Newest(snap[s]) :
        \/ /\ Live(o, asks[s])
           /\ \E n \in 0..1, reported \in BOOLEAN :
                /\ reported => n = 1
                /\ MishapIf(~reported)
                /\ asks' = [asks EXCEPT ![s] = Posted(Without(asks[s], {o}), n, price, AskQty)]
                /\ Outcome(s, market[s], IF reported THEN price ELSE 0)
        \/ /\ MishapIf(Live(o, asks[s])) /\ UNCHANGED asks
           /\ Outcome(s, market[s], 0)
  BY DEF RepriceAsk
<1>4. o \in snap[s]
  BY DEF Newest
<1>5. Recorded([mark |-> market[s], ask |-> 0]) /\ Recorded([mark |-> market[s], ask |-> price])
  BY <1>2, NoAsk, NewAsk
<1> DEFINE A == Without(asks[s], {o})
<1>6. A \in SUBSET asks[s]
  BY WithoutPart
<1>7. ASSUME Live(o, asks[s]), NEW n \in 0..1, NEW reported \in BOOLEAN,
             reported => n = 1, MishapIf(~reported),
             asks' = [asks EXCEPT ![s] = Posted(A, n, price, AskQty)],
             Outcome(s, market[s], IF reported THEN price ELSE 0)
      PROVE  AskTurn(s) /\ AskRecord(s)
  <2>1. /\ Side(asks'[s], AskQty) /\ asks' = [asks EXCEPT ![s] = asks'[s]]
        /\ Missing(asks'[s], AskQty) <= Missing(asks[s], AskQty)
        /\ Full(asks'[s], AskQty) = Full(A, AskQty) + n * AskQty
        /\ n = 1 /\ A = {} => \A a \in asks'[s] : a.price = price
        /\ Full(A, AskQty) \in Nat
    <3>1. n \in 0..2
      OBVIOUS
    <3> HIDE DEF A
    <3> QED BY <1>1, <1>6, <1>7, <3>1, AskMore
  <2>2. Full(A, AskQty) + AskQty <= Full(asks[s], AskQty)
    <3>1. PICK x \in asks[s] : A \in SUBSET (asks[s] \ {x})
      BY <1>7, WithoutLive
    <3>2. Side(asks[s], AskQty) /\ AskQty \in Nat
      BY <1>1, AskVisit, Quantities
    <3> HIDE DEF A
    <3> QED BY <3>1, <3>2, LessSide
  <2>3. Full(asks'[s], AskQty) <= Full(asks[s], AskQty)
    <3>1. PICK k \in Nat : k = n * AskQty /\ k <= AskQty
      BY Quantities
    <3>2. Side(asks[s], AskQty) /\ AskQty \in Nat
      BY <1>1, AskVisit, Quantities
    <3>3. Full(asks[s], AskQty) \in Nat
      BY <3>2, CountsNat
    <3> HIDE DEF A
    <3> QED BY <2>1, <2>2, <3>1, <3>2, <3>3
  <2>4. NoMishap \/ Mishap
    BY <1>7 DEF MishapIf
  <2>5. AskTurn(s)
    <3>1. committed' = committed /\ committed' \in Nat
      BY <1>1, AskVisit
    <3> QED BY <2>1, <2>3, <2>4, <3>1 DEF AskTurn
  <2>6. CASE reported
    <3>1. Single(snap[s]) => A = {}
      BY <1>2, <1>4, SingleGone
    <3>2. Outcome(s, market[s], price)
      BY <1>7, <2>6
    <3>3. AskRecord(s)
      <4> HIDE DEF A, price
      <4> QED BY <1>1, <1>5, <1>7, <2>1, <2>6, <3>1, <3>2, AskRecords
    <3> QED BY <2>5, <3>3
  <2>7. CASE ~reported
    <3>1. Outcome(s, market[s], 0)
      BY <1>7, <2>7
    <3>2. AskRecord(s)
      BY <1>1, <1>5, <3>1, AskRecords
    <3> QED BY <2>5, <3>2
  <2> QED BY <2>6, <2>7
<1>8. ASSUME MishapIf(Live(o, asks[s])), UNCHANGED asks, Outcome(s, market[s], 0)
      PROVE  AskTurn(s) /\ AskRecord(s)
  <2>1. asks' = [asks EXCEPT ![s] = asks[s]] /\ asks[s] \in SUBSET asks[s]
    BY <1>8 DEF Structure, WriterTyped
  <2>2. NoMishap \/ Mishap
    BY <1>8 DEF MishapIf
  <2> QED BY <1>1, <1>5, <1>8, <2>1, <2>2, AskLess, AskRecords
<1> QED BY <1>3, <1>7, <1>8

LEMMA PostAskTurn ==
    ASSUME Structure, NEW s \in Series, PostAsk(s)
    PROVE  AskTurn(s) /\ AskRecord(s)
<1> DEFINE price == AskPrice(market[s])
           more  == committed + AskQty * Collateral[s]
<1>1. Visiting("asks", s) /\ market[s] # 0 /\ snap[s] = {}
  BY DEF PostAsk
<1>2. market[s] \in Marks /\ asks[s] = {} /\ asks[s] \in SUBSET asks[s] /\ committed \in Nat
  BY <1>1, AskVisit DEF Shrunk
<1>3. Recorded([mark |-> market[s], ask |-> 0]) /\ Recorded([mark |-> market[s], ask |-> price])
  BY <1>2, NoAsk, NewAsk
<1>4. ASSUME NoMishap, UNCHANGED <<asks, committed>>, Outcome(s, market[s], 0)
      PROVE  AskTurn(s) /\ AskRecord(s)
  <2>1. asks' = [asks EXCEPT ![s] = asks[s]]
    BY <1>4 DEF Structure, WriterTyped
  <2> QED BY <1>1, <1>2, <1>3, <1>4, <2>1, AskLess, AskRecords
<1>5. ASSUME WithinCollateral(s), NEW n \in 0..2, NEW reported \in BOOLEAN,
             reported => n > 0, PostEnds(n, reported),
             asks' = [asks EXCEPT ![s] = Posted(asks[s], n, price, AskQty)],
             committed' = IF reported THEN more ELSE committed,
             Outcome(s, market[s], IF reported THEN price ELSE 0)
      PROVE  AskTurn(s) /\ AskRecord(s)
  <2>1. /\ Side(asks'[s], AskQty) /\ asks' = [asks EXCEPT ![s] = asks'[s]]
        /\ Missing(asks'[s], AskQty) <= Missing(asks[s], AskQty)
        /\ Full(asks'[s], AskQty) = Full(asks[s], AskQty) + n * AskQty
        /\ n = 1 => \A a \in asks'[s] : a.price = price
        /\ Full(asks[s], AskQty) \in Nat
    BY <1>1, <1>2, <1>5, AskMore
  <2>2. /\ AskQty \in Nat /\ Collateral[s] \in Nat /\ AskQty * Collateral[s] \in Nat
        /\ n * AskQty <= 2 * AskQty /\ n * AskQty \in Nat
    BY Quantities
  <2>3. PICK k \in Nat : k = AskQty * Collateral[s]
    BY <2>2
  <2>4. /\ committed' \in Nat /\ committed <= committed'
        /\ reported => committed' = committed + k
    BY <1>2, <1>5, <2>3
  <2>5. CASE n = 1 /\ reported
    <3>1. NoMishap
      BY <1>5, <2>5 DEF PostEnds, MishapIf
    <3>2. committed' <= MaxCollateral
      BY <1>5, <2>3, <2>4, <2>5 DEF WithinCollateral
    <3>3. Full(asks'[s], AskQty) = Full(asks[s], AskQty) + AskQty
      BY <2>1, <2>2, <2>5
    <3>4. AskTurn(s)
      BY <2>1, <2>3, <2>4, <2>5, <3>1, <3>2, <3>3 DEF AskTurn
    <3>5. Outcome(s, market[s], price)
      BY <1>5, <2>5
    <3>6. AskRecord(s)
      <4> HIDE DEF price
      <4> QED BY <1>1, <1>3, <2>1, <2>5, <3>5, AskRecords
    <3> QED BY <3>4, <3>6
  <2>6. CASE ~(n = 1 /\ reported)
    <3>1. Mishap
      BY <1>5, <2>6 DEF PostEnds, MishapIf
    <3>2. Full(asks'[s], AskQty) <= Full(asks[s], AskQty) + 2 * AskQty
      BY <2>1, <2>2
    <3>3. AskTurn(s)
      BY <2>1, <2>4, <3>1, <3>2 DEF AskTurn
    <3>4. ~clean'
      BY <3>1 DEF Mishap
    <3>5. Recorded([mark |-> market[s], ask |-> IF reported THEN price ELSE 0])
      <4>1. CASE reported
        BY <1>3, <4>1
      <4>2. CASE ~reported
        BY <1>3, <4>2
      <4> QED BY <4>1, <4>2
    <3>6. AskRecord(s)
      BY <1>1, <1>5, <3>4, <3>5, AskRecords
    <3> QED BY <3>3, <3>6
  <2> QED BY <2>5, <2>6
<1> QED BY <1>4, <1>5 DEF PostAsk

(* The visits of the ask loop. *)
AskVisits(s) ==
    PullStale(s) \/ PullUnquoted(s) \/ HoldAsk(s) \/ RepriceAsk(s) \/ PostAsk(s)

LEMMA AskTurns ==
    ASSUME Structure, NEW s \in Series, AskVisits(s)
    PROVE  /\ AskTurn(s) /\ AskRecord(s) /\ Visiting("asks", s)
           /\ UNCHANGED <<bids, notional>>
<1>1. AskTurn(s) /\ AskRecord(s)
  BY PullStaleTurn, PullUnquotedTurn, HoldAskTurn, RepriceAskTurn, PostAskTurn
     DEF AskVisits
<1>2. Visiting("asks", s) /\ UNCHANGED <<bids, notional>>
  BY DEF AskVisits, PullStale, PullUnquoted, HoldAsk, RepriceAsk, PostAsk
<1> QED BY <1>1, <1>2

---------------------------------------------------------------------------
(* The bid pass, visit by visit. *)

(* What a visit does to the orders of its series, and to the exposure: it   *)
(* takes orders out; or it is hit by a mishap and posts at most twice; or   *)
(* it posts once, within both caps.                                         *)
Lessened(s) ==
    /\ Notional(bids'[s]) <= Notional(bids[s])
    /\ Quantity(bids'[s]) <= Quantity(bids[s])
    /\ Full(bids'[s], BidQty) <= Full(bids[s], BidQty)

Excess(s) ==
    /\ Mishap
    /\ Notional(bids'[s]) <= Notional(bids[s]) + 2 * Times(BidQty, TopBid)
    /\ Quantity(bids'[s]) <= Quantity(bids[s]) + 2 * BidQty
    /\ \/ Full(bids'[s], BidQty) <= Full(bids[s], BidQty) + BidQty
       \/ Full(bids'[s], BidQty) <= 2 * BidQty

Quoted(s) ==
    /\ Notional(bids'[s]) <= Notional(snap[s]) + (notional' - notional)
    /\ notional' <= MaxBidNotional
    /\ \/ Full(bids'[s], BidQty) <= Full(bids[s], BidQty)
       \/ Full(bids'[s], BidQty) <= BidQty
    /\ \E d \in Nat :
        /\ longs[s] + d <= MaxLong
        /\ \/ Quantity(bids'[s]) + 1 <= Quantity(bids[s]) + d
           \/ Quantity(bids'[s]) <= d /\ Quantity(snap[s]) = 0 /\ Quantity(bids[s]) = 0

BidTurn(s) ==
    /\ Side(bids'[s], BidQty) /\ bids' = [bids EXCEPT ![s] = bids'[s]]
    /\ notional' \in Nat /\ notional <= notional'
    /\ NoMishap \/ Mishap
    /\ Lessened(s) \/ Excess(s) \/ Quoted(s)

(* In a clean tick it leaves the bids of the series clear of its asks.      *)
Tight(s) ==
    /\ Single(snap[s])
    /\ s \in DOMAIN outcome /\ outcome[s].ask # 0 =>
          \A a \in asks[s] : a.price = outcome[s].ask

Clears(s) ==
    clean' /\ Tight(s) => \A b \in bids'[s], a \in asks[s] : ~Crosses(b.price, a.price)

(* What a visit finds. *)
LEMMA BidVisit ==
    ASSUME Structure, NEW s \in Series, Visiting("quote", s)
    PROVE  /\ Side(bids[s], BidQty) /\ Side(snap[s], BidQty) /\ Shrunk(bids[s], snap[s])
           /\ notional \in Nat /\ longs[s] \in Nat /\ bids[s] \in SUBSET bids[s]
           /\ bids[s] \subseteq Quotes /\ snap[s] \subseteq Quotes
           /\ bids = [bids EXCEPT ![s] = bids[s]]
           /\ \A A : [bids EXCEPT ![s] = A][s] = A
           /\ s \in DOMAIN outcome /\ outcome[s].ask # 0 =>
                /\ outcome[s].mark \in Marks /\ outcome[s].ask \in Nat
                /\ AskPrice(outcome[s].mark) * 100 <= (100 + Drift) * outcome[s].ask
<1>1. /\ Side(bids[s], BidQty) /\ Side(snap[s], BidQty) /\ Shrunk(bids[s], snap[s])
  BY DEF Structure, Sides, Enumerated, Visiting, Awaiting
<1>2. /\ notional \in Nat /\ longs[s] \in Nat /\ bids[s] \in SUBSET bids[s]
      /\ bids[s] \subseteq Quotes /\ snap[s] \subseteq Quotes
      /\ bids = [bids EXCEPT ![s] = bids[s]]
      /\ \A A : [bids EXCEPT ![s] = A][s] = A
  BY DEF Structure, WriterTyped
<1>3. ASSUME s \in DOMAIN outcome, outcome[s].ask # 0
      PROVE  /\ outcome[s].mark \in Marks /\ outcome[s].ask \in Nat
             /\ AskPrice(outcome[s].mark) * 100 <= (100 + Drift) * outcome[s].ask
  BY <1>3 DEF Structure, WriterTyped, Marked, Measures
<1> QED BY <1>1, <1>2, <1>3

(* A visit that takes orders out, or nothing. *)
LEMMA BidLess ==
    ASSUME Structure, NEW s \in Series, Visiting("quote", s), NEW A \in SUBSET bids[s],
           bids' = [bids EXCEPT ![s] = A], UNCHANGED notional, NoMishap \/ Mishap
    PROVE  BidTurn(s) /\ bids'[s] = A
<1>1. /\ Side(bids[s], BidQty) /\ BidQty \in Nat /\ notional \in Nat /\ bids'[s] = A
  BY BidVisit, Quantities
<1>2. /\ Side(A, BidQty) /\ Full(A, BidQty) <= Full(bids[s], BidQty)
      /\ Notional(A) <= Notional(bids[s]) /\ Quantity(A) <= Quantity(bids[s])
  BY <1>1, PartSide
<1>3. Lessened(s)
  BY <1>1, <1>2 DEF Lessened
<1>4. notional' \in Nat /\ notional <= notional'
  BY <1>1
<1>5. Side(bids'[s], BidQty) /\ bids' = [bids EXCEPT ![s] = bids'[s]]
  BY <1>1, <1>2, Zenon
<1> QED BY <1>1, <1>3, <1>4, <1>5, Zenon DEF BidTurn

(* Nothing of what was enumerated is left when all of it is taken out.      *)
LEMMA AllGone ==
    ASSUME NEW later, NEW earlier, Shrunk(later, earlier)
    PROVE  Without(later, earlier) = {}
BY DEF Shrunk, Without, Live

LEMMA PullOrphanTurn ==
    ASSUME Structure, NEW s \in Series, PullOrphan(s)
    PROVE  BidTurn(s) /\ Clears(s)
<1>1. Visiting("quote", s) /\ UNCHANGED notional
  BY DEF PullOrphan
<1>2. PICK stranded \in SUBSET snap[s] :
        /\ MishapIf(stranded # {})
        /\ bids' = [bids EXCEPT ![s] = Without(bids[s], snap[s] \ stranded)]
  BY DEF PullOrphan
<1>3. NoMishap \/ Mishap
  BY <1>2 DEF MishapIf
<1>4. BidTurn(s) /\ bids'[s] = Without(bids[s], snap[s] \ stranded)
  BY <1>1, <1>2, <1>3, WithoutPart, BidLess
<1>5. ASSUME clean' PROVE bids'[s] = {}
  <2>1. stranded = {}
    BY <1>2, <1>5 DEF MishapIf, Mishap
  <2>2. snap[s] \ stranded = snap[s]
    BY <2>1
  <2>3. Without(bids[s], snap[s]) = {}
    BY <1>1, BidVisit, AllGone
  <2> QED BY <1>4, <2>2, <2>3
<1>6. Clears(s)
  BY <1>5 DEF Clears
<1> QED BY <1>4, <1>6

LEMMA StopBidTurn ==
    ASSUME Structure, NEW s \in Series, StopBid(s)
    PROVE  BidTurn(s) /\ Clears(s)
<1>1. Visiting("quote", s) /\ UNCHANGED notional
  BY DEF StopBid
<1>2. Shrunk(bids[s], snap[s]) /\ snap[s] \subseteq Quotes
  BY <1>1, BidVisit
<1>3. ASSUME NoMishap, bids' = [bids EXCEPT ![s] = Without(bids[s], Newest(snap[s]))]
      PROVE  BidTurn(s) /\ Clears(s)
  <2>1. BidTurn(s) /\ bids'[s] = Without(bids[s], Newest(snap[s]))
    BY <1>1, <1>3, WithoutPart, BidLess
  <2>2. Single(snap[s]) => bids'[s] = {}
    BY <1>2, <2>1, SingleNewest, AllGone
  <2>3. Clears(s)
    BY <2>2 DEF Clears, Tight
  <2> QED BY <2>1, <2>3
<1>4. ASSUME Mishap, UNCHANGED bids PROVE BidTurn(s) /\ Clears(s)
  <2>1. bids' = [bids EXCEPT ![s] = bids[s]] /\ bids[s] \in SUBSET bids[s]
    BY <1>1, <1>4, BidVisit
  <2>2. BidTurn(s)
    BY <1>1, <1>4, <2>1, BidLess
  <2>3. Clears(s)
    BY <1>4 DEF Clears, Mishap
  <2> QED BY <2>2, <2>3
<1> QED BY <1>3, <1>4 DEF StopBid

(* Products keep an order of numbers, and positive ones reflect it.         *)
LEMMA TimesGrows ==
    ASSUME NEW k \in Nat, NEW x \in Nat, NEW y \in Nat, x <= y
    PROVE  k * x <= k * y /\ k * x \in Nat /\ k * y \in Nat
<1>1. PICK d \in Nat : y = x + d
  <2>1. y - x \in Nat /\ y = x + (y - x)
    OBVIOUS
  <2> QED BY <2>1
<1>2. k * (x + d) = k * x + k * d /\ k * d \in Nat /\ k * x \in Nat
  OBVIOUS
<1> QED BY <1>1, <1>2

LEMMA TimesCancels ==
    ASSUME NEW k \in Nat \ {0}, NEW x \in Nat, NEW y \in Nat, k * x <= k * y
    PROVE  x <= y
<1> SUFFICES ASSUME y < x PROVE FALSE
  OBVIOUS
<1>1. PICK d \in Nat : x = y + 1 + d
  <2>1. x - y - 1 \in Nat /\ x = y + 1 + (x - y - 1)
    OBVIOUS
  <2> QED BY <2>1
<1>2. k * (y + 1 + d) = k * y + k + k * d /\ k * d \in Nat /\ k * y \in Nat
  OBVIOUS
<1> QED BY <1>1, <1>2

(* A bid within the drift of its price and an ask within the drift of its   *)
(* own do not cross: the tiers are wide enough.                             *)
LEMMA DriftApart ==
    ASSUME NEW m \in Marks, NEW b \in Nat, NEW a \in Nat, ~Drifted(BidPrice(m), b),
           AskPrice(m) * 100 <= (100 + Drift) * a
    PROVE  ~Crosses(b, a)
<1>1. PICK S \in Nat : S = 100 - BidSpread
  BY SpreadAssumption, PricesAre
<1>2. PICK D \in Nat : D = Drift /\ D < 100
  BY SpreadAssumption, Quantities
<1>3. PICK C \in Nat : C = 100 - D
  BY <1>2
<1>4. PICK E \in Nat : E = 100 + D
  OBVIOUS
<1>5. PICK A \in Nat \ {0} : A = 100 + AskSpread
  BY Quantities
<1>6. S * E * 100 <= A * C * 98
  BY <1>1, <1>2, <1>3, <1>4, <1>5, SpreadAssumption
<1>7. m \in Nat
  BY Quantities
<1>8. BidPrice(m) = S * m /\ AskPrice(m) = A * m
  BY <1>1, <1>5 DEF BidPrice, AskPrice
<1>9. A * m * 100 <= E * a
  BY <1>2, <1>4, <1>8
<1>10. C * b <= 100 * (S * m)
  <2>1. PICK q \in Nat : q = S * m
    BY <1>7
  <2>2. PICK v \in Nat : v = D * b
    OBVIOUS
  <2>3. Gap(q, b) * 100 <= v
    BY <1>2, <1>8, <2>1, <2>2 DEF Drifted, Gap
  <2>4. C * b = 100 * b - v
    BY <1>2, <1>3, <2>2
  <2>5. CASE q >= b
    BY <2>1, <2>2, <2>4, <2>5
  <2>6. CASE ~(q >= b)
    <3>1. Gap(q, b) = b - q
      BY <2>6 DEF Gap
    <3> QED BY <2>1, <2>3, <2>4, <3>1
  <2> QED BY <2>5, <2>6
<1>11. (A * C) * (b * 100) <= (A * C) * (a * 98)
  <2>1. (100 * A) * (C * b) <= (100 * A) * (100 * (S * m))
    BY <1>7, <1>10, TimesGrows
  <2>2. (100 * S) * (A * m * 100) <= (100 * S) * (E * a)
    BY <1>7, <1>9, TimesGrows
  <2>3. a * (S * E * 100) <= a * (A * C * 98)
    BY <1>6, TimesGrows
  <2>4. (100 * A) * (100 * (S * m)) = (100 * S) * (A * m * 100)
    BY <1>7
  <2>5. (100 * S) * (E * a) = a * (S * E * 100)
    OBVIOUS
  <2>6. (100 * A) * (C * b) = (A * C) * (b * 100)
    OBVIOUS
  <2>7. a * (A * C * 98) = (A * C) * (a * 98)
    OBVIOUS
  <2>8. PICK x1 \in Int : x1 = (100 * A) * (C * b)
    OBVIOUS
  <2>9. PICK x2 \in Int : x2 = (100 * S) * (A * m * 100)
    BY <1>7
  <2>10. PICK x3 \in Int : x3 = a * (S * E * 100)
    OBVIOUS
  <2>11. PICK x4 \in Int : x4 = a * (A * C * 98)
    OBVIOUS
  <2>12. x1 <= x2 /\ x2 <= x3 /\ x3 <= x4
    BY <2>1, <2>2, <2>3, <2>4, <2>5, <2>8, <2>9, <2>10, <2>11
  <2>13. x1 <= x4
    BY <2>12
  <2> QED BY <2>6, <2>7, <2>8, <2>11, <2>13
<1>12. A * C \in Nat \ {0}
  BY <1>2, <1>3
<1>13. b * 100 <= a * 98
  <2>1. PICK k \in Nat \ {0} : k = A * C
    BY <1>12
  <2>2. k * (b * 100) <= k * (a * 98)
    BY <1>11, <2>1
  <2> QED BY <2>2, TimesCancels
<1> QED BY <1>13 DEF Crosses

LEMMA HoldBidTurn ==
    ASSUME Structure, NEW s \in Series, HoldBid(s)
    PROVE  BidTurn(s) /\ Clears(s)
<1>1. /\ Visiting("quote", s) /\ UNCHANGED <<bids, notional>> /\ NoMishap
      /\ s \in DOMAIN outcome /\ outcome[s].ask # 0
  BY DEF HoldBid, MayQuote, NoMishap
<1>2. PICK o \in Newest(snap[s]) : ~Drifted(BidPrice(outcome[s].mark), o.price)
  BY DEF HoldBid, Price
<1>3. /\ outcome[s].mark \in Marks /\ outcome[s].ask \in Nat
      /\ AskPrice(outcome[s].mark) * 100 <= (100 + Drift) * outcome[s].ask
      /\ Shrunk(bids[s], snap[s]) /\ snap[s] \subseteq Quotes
      /\ bids = [bids EXCEPT ![s] = bids[s]] /\ bids[s] \in SUBSET bids[s]
  BY <1>1, BidVisit
<1>4. BidTurn(s) /\ bids'[s] = bids[s]
  <2>1. bids' = [bids EXCEPT ![s] = bids[s]]
    BY <1>1, <1>3
  <2> QED BY <1>1, <1>3, <2>1, BidLess
<1>5. o \in snap[s] /\ o.price \in Nat
  BY <1>3 DEF Newest, Quotes
<1>6. ~Crosses(o.price, outcome[s].ask)
  BY <1>2, <1>3, <1>5, DriftApart
<1>7. Single(snap[s]) => \A b \in bids[s] : b.price = o.price
  BY <1>3, <1>5 DEF Shrunk, Single
<1>8. Clears(s)
  BY <1>1, <1>4, <1>6, <1>7, Zenon DEF Clears, Tight
<1> QED BY <1>4, <1>8

(* A side without orders counts for nothing. *)
LEMMA EmptySide ==
    ASSUME NEW most \in Nat
    PROVE  /\ Side({}, most) /\ Quantity({}) = 0 /\ Notional({}) = 0
           /\ Full({}, most) = 0 /\ Missing({}, most) = 0
<1>1. Side({}, most)
  BY FS_EmptySet DEF Side, Distinct
<1> QED BY <1>1, Measured, SumEmpty

(* What the newest order of a side pays. *)
LEMMA NewestPays ==
    ASSUME NEW orders, NEW most \in Nat, Side(orders, most), NEW o \in Newest(orders)
    PROVE  Notional(Newest(orders)) = o.qty * o.price
<1>1. orders \subseteq Quotes /\ Distinct(orders) /\ \A x \in orders : x.qty <= most
  BY DEF Side
<1>2. o \in Quotes /\ o.qty <= most
  BY <1>1 DEF Newest
<1>3. \A x \in Newest(orders) : x = o
  BY <1>1 DEF Newest, Distinct, Quotes
<1>4. Newest(orders) = {} \cup {o}
  BY <1>3
<1>5. Notional({} \cup {o}) = Notional({}) + o.qty * o.price
  <2>1. Side({}, most) /\ \A x \in {} : x.id # o.id
    BY EmptySide
  <2> QED BY <1>2, <2>1, InsertSide
<1>6. PICK v \in Nat : v = o.qty * o.price
  BY <1>2 DEF Quotes
<1> QED BY <1>4, <1>5, <1>6, EmptySide

(* A bid has a depth, and fits under the inventory cap. *)
LEMMA DepthIs ==
    ASSUME NEW s, longs[s] \in Nat, MayQuote(s)
    PROVE  /\ Depth(s) \in Nat \ {0} /\ Depth(s) <= BidQty
           /\ longs[s] + Depth(s) <= MaxLong
<1>1. /\ Headroom(s) \in Nat \ {0} /\ BidQty \in Nat \ {0}
      /\ longs[s] + Headroom(s) <= MaxLong
  BY Quantities DEF MayQuote, Headroom
<1>2. \E x \in {BidQty, Headroom(s)} : \A y \in {BidQty, Headroom(s)} : x <= y
  BY <1>1
<1>3. /\ Depth(s) \in {BidQty, Headroom(s)}
      /\ \A y \in {BidQty, Headroom(s)} : Depth(s) <= y
  BY <1>2 DEF Depth, Min
<1>4. Depth(s) <= BidQty /\ Depth(s) <= Headroom(s)
  BY <1>3
<1>5. Depth(s) = BidQty \/ Depth(s) = Headroom(s)
  BY <1>3
<1>6. Depth(s) \in Nat \ {0}
  BY <1>1, <1>5, Zenon
<1>7. longs[s] + Depth(s) <= MaxLong
  BY <1>1, <1>4, <1>6, Quantities
<1> QED BY <1>4, <1>6, <1>7

(* The orders a post is added to: none, or those that are left when the     *)
(* newest enumerated is taken out.                                          *)
Replaces(s, A) ==
    \/ snap[s] = {} /\ A = bids[s]
    \/ \E o \in Newest(snap[s]) : Live(o, bids[s]) /\ A = Without(bids[s], {o})

LEMMA ReplacesLess ==
    ASSUME Structure, NEW s \in Series, Visiting("quote", s), NEW A, Replaces(s, A)
    PROVE  /\ A \in SUBSET bids[s] /\ Side(A, BidQty)
           /\ Single(snap[s]) => A = {}
           /\ \/ A = {} /\ Quantity(snap[s]) = 0 /\ Quantity(bids[s]) = 0
              \/ /\ Full(A, BidQty) + BidQty <= Full(bids[s], BidQty)
                 /\ Quantity(A) + 1 <= Quantity(bids[s])
<1>1. /\ Side(bids[s], BidQty) /\ Side(snap[s], BidQty) /\ Shrunk(bids[s], snap[s])
      /\ BidQty \in Nat /\ bids[s] \subseteq Quotes
  BY BidVisit, Quantities
<1>2. A \in SUBSET bids[s]
  BY WithoutPart DEF Replaces
<1>3. Side(A, BidQty)
  BY <1>1, <1>2, PartSide
<1>4. ASSUME snap[s] = {}, A = bids[s]
      PROVE  A = {} /\ Quantity(snap[s]) = 0 /\ Quantity(bids[s]) = 0
  <2>1. bids[s] = {}
    BY <1>1, <1>4 DEF Shrunk
  <2> QED BY <1>1, <1>4, <2>1, EmptySide
<1>5. ASSUME NEW o \in Newest(snap[s]), Live(o, bids[s]), A = Without(bids[s], {o})
      PROVE  /\ Single(snap[s]) => A = {}
             /\ Full(A, BidQty) + BidQty <= Full(bids[s], BidQty)
             /\ Quantity(A) + 1 <= Quantity(bids[s])
  <2>1. PICK x \in bids[s] : A \in SUBSET (bids[s] \ {x})
    BY <1>5, WithoutLive
  <2>2. /\ Full(A, BidQty) + BidQty <= Full(bids[s], BidQty)
        /\ Quantity(A) + x.qty <= Quantity(bids[s])
    BY <1>1, <2>1, LessSide
  <2>3. Quantity(A) \in Nat /\ Quantity(bids[s]) \in Nat /\ x.qty \in Nat \ {0}
    BY <1>1, <1>3, <2>1, CountsNat DEF Quotes
  <2>4. o \in snap[s]
    BY DEF Newest
  <2>5. Single(snap[s]) => A = {}
    BY <1>1, <1>5, <2>4, SingleGone
  <2> QED BY <2>2, <2>3, <2>5
<1> QED BY <1>2, <1>3, <1>4, <1>5 DEF Replaces

(* What the visit counts for the bid covers what it locks more than was     *)
(* enumerated.                                                              *)
LEMMA DeltaCovers ==
    ASSUME Structure, NEW s \in Series, Visiting("quote", s), NEW A, Replaces(s, A),
           Price(s) \in Nat, Depth(s) \in Nat
    PROVE  /\ Delta(s) \in Nat
           /\ Notional(A) + Times(Depth(s), Price(s)) <= Notional(snap[s]) + Delta(s)
<1>1. /\ Side(bids[s], BidQty) /\ Side(snap[s], BidQty) /\ Shrunk(bids[s], snap[s])
      /\ bids[s] \subseteq Quotes /\ snap[s] \subseteq Quotes /\ BidQty \in Nat
  BY BidVisit, Quantities
<1>2. PICK w \in Nat : w = Price(s) * Depth(s) /\ w = Times(Depth(s), Price(s))
  <2>1. \A p \in Nat, d \in Nat : p * d \in Nat /\ p * d = d * p
    OBVIOUS
  <2> QED BY <2>1 DEF Times
<1>3. PICK r \in Nat : r = Notional(Newest(snap[s]))
  <2>1. Newest(snap[s]) \in SUBSET snap[s]
    BY <1>1, SingleNewest
  <2>2. Side(Newest(snap[s]), BidQty)
    BY <1>1, <2>1, PartSide
  <2> QED BY <1>1, <2>2, CountsNat
<1>4. Delta(s) \in Nat /\ w - r <= Delta(s)
  <2>1. Delta(s) = IF w > r THEN w - r ELSE 0
    BY <1>2, <1>3 DEF Delta
  <2> QED BY <2>1
<1>5. Side(A, BidQty) /\ Notional(A) \in Nat /\ Notional(snap[s]) \in Nat
  BY <1>1, ReplacesLess, CountsNat
<1>6. Notional(A) + r <= Notional(snap[s])
  <2>1. ASSUME snap[s] = {}, A = bids[s] PROVE Notional(A) + r <= Notional(snap[s])
    <3>1. A = {} /\ Newest(snap[s]) = {}
      BY <1>1, <2>1 DEF Shrunk, Newest
    <3>2. Notional({}) = 0
      BY <1>1, EmptySide
    <3>3. Notional(A) = 0 /\ r = 0 /\ Notional(snap[s]) = 0
      BY <1>3, <2>1, <3>1, <3>2
    <3> QED BY <3>3
  <2>2. ASSUME NEW o \in Newest(snap[s]), A = Without(bids[s], {o})
        PROVE  Notional(A) + r <= Notional(snap[s])
    <3> DEFINE T == Without(snap[s], {o})
    <3>1. o \in snap[s]
      BY DEF Newest
    <3>2. T \in SUBSET (snap[s] \ {o})
      BY <3>1 DEF Without, Live
    <3>3. Shrunk(A, T)
      BY <1>1, <2>2, ShrunkMore
    <3> HIDE DEF T
    <3>4. Side(T, BidQty) /\ Notional(T) + o.qty * o.price <= Notional(snap[s])
      BY <1>1, <3>1, <3>2, LessSide
    <3>5. Notional(A) <= Notional(T)
      BY <1>1, <1>5, <3>3, <3>4, ShrunkSide
    <3>6. r = o.qty * o.price
      BY <1>1, <1>3, NewestPays
    <3>7. Notional(T) \in Nat
      BY <1>1, <3>4, CountsNat
    <3>8. Notional(T) + r <= Notional(snap[s])
      BY <3>4, <3>6
    <3> QED BY <1>5, <3>5, <3>7, <3>8
  <2> QED BY <2>1, <2>2 DEF Replaces
<1> QED BY <1>2, <1>4, <1>5, <1>6

(* A post that lands n times. *)
LEMMA BidMore ==
    ASSUME Structure, NEW s \in Series, Visiting("quote", s),
           s \in DOMAIN outcome, MayQuote(s), NEW A, Replaces(s, A),
           NEW n \in 0..2, NEW reported \in BOOLEAN,
           reported => n > 0, PostEnds(n, reported),
           bids' = [bids EXCEPT ![s] = Posted(A, n, Price(s), Depth(s))],
           notional' = IF reported THEN notional + Delta(s) ELSE notional
    PROVE  BidTurn(s) /\ Clears(s)
<1>1. /\ Side(bids[s], BidQty) /\ BidQty \in Nat \ {0} /\ notional \in Nat
      /\ longs[s] \in Nat /\ outcome[s].mark \in Marks
      /\ bids'[s] = Posted(A, n, Price(s), Depth(s))
      /\ bids' = [bids EXCEPT ![s] = bids'[s]]
  BY BidVisit, Quantities DEF MayQuote
<1>2. Price(s) \in Nat /\ Price(s) <= TopBid /\ TopBid \in Nat
  BY <1>1, PricesAre, TopBidIs DEF Price
<1>3. /\ Depth(s) \in Nat \ {0} /\ Depth(s) <= BidQty
      /\ longs[s] + Depth(s) <= MaxLong
  BY <1>1, DepthIs
<1>4. PICK p \in Nat, d \in Nat \ {0} : p = Price(s) /\ d = Depth(s)
  BY <1>2, <1>3
<1>5. Side(A, BidQty) /\ (Single(snap[s]) => A = {})
  BY ReplacesLess
<1>6. /\ Side(bids'[s], BidQty)
      /\ Quantity(bids'[s]) = Quantity(A) + Times(n, d)
      /\ Notional(bids'[s]) = Notional(A) + Times(n, Times(d, p))
      /\ Full(bids'[s], BidQty) = Full(A, BidQty) + Times(n, BidQty)
  <2>1. PostedAs(A, n, p, d, BidQty)
    BY <1>1, <1>3, <1>4, <1>5, PostedSide
  <2>2. bids'[s] = Posted(A, n, p, d)
    BY <1>1, <1>4
  <2> QED BY <2>1, <2>2 DEF PostedAs
<1>7. /\ Quantity(A) \in Nat /\ Notional(A) \in Nat /\ Full(A, BidQty) \in Nat
      /\ Quantity(bids[s]) \in Nat /\ Notional(bids[s]) \in Nat
      /\ Full(bids[s], BidQty) \in Nat
  BY <1>1, <1>5, CountsNat
<1>8. /\ Quantity(A) <= Quantity(bids[s]) /\ Notional(A) <= Notional(bids[s])
      /\ Full(A, BidQty) <= Full(bids[s], BidQty)
  BY <1>1, ReplacesLess, PartSide
<1>9. \/ A = {} /\ Quantity(snap[s]) = 0 /\ Quantity(bids[s]) = 0
      \/ /\ Full(A, BidQty) + BidQty <= Full(bids[s], BidQty)
         /\ Quantity(A) + 1 <= Quantity(bids[s])
  BY ReplacesLess
<1>10. A = {} => Quantity(A) = 0 /\ Full(A, BidQty) = 0
  BY <1>1, EmptySide
<1>11. /\ Delta(s) \in Nat
       /\ Notional(A) + Times(d, p) <= Notional(snap[s]) + Delta(s)
  BY <1>2, <1>3, <1>4, DeltaCovers
<1>12. notional' \in Nat /\ notional <= notional'
  BY <1>1, <1>11
<1>13. PICK v \in Nat, t \in Nat :
         v = Times(d, p) /\ t = Times(BidQty, TopBid) /\ v <= t
  <2>1. PICK b \in Nat, u \in Nat : b = BidQty /\ u = TopBid /\ d <= b /\ p <= u
    BY <1>1, <1>2, <1>3, <1>4
  <2>2. d * p <= d * u /\ u * d <= u * b
    BY <2>1, TimesGrows
  <2>3. d * u = u * d /\ u * b = b * u /\ d * p \in Nat /\ b * u \in Nat /\ d * u \in Nat
    OBVIOUS
  <2>4. d * p <= b * u
    BY <2>2, <2>3
  <2> QED BY <2>1, <2>3, <2>4 DEF Times
<1>14. CASE n = 1 /\ reported
  <2>1. NoMishap
    BY <1>14 DEF PostEnds, MishapIf
  <2>2. /\ Quantity(bids'[s]) = Quantity(A) + d
        /\ Notional(bids'[s]) = Notional(A) + v
        /\ Full(bids'[s], BidQty) = Full(A, BidQty) + BidQty
    BY <1>1, <1>6, <1>7, <1>13, <1>14 DEF Times
  <2>3. notional' = notional + Delta(s) /\ notional' <= MaxBidNotional
    BY <1>14 DEF MayQuote
  <2>4. Notional(bids'[s]) <= Notional(snap[s]) + (notional' - notional)
    <3>1. Side(snap[s], BidQty)
      BY BidVisit
    <3>2. Notional(snap[s]) \in Nat
      BY <1>1, <3>1, CountsNat
    <3> QED BY <1>1, <1>7, <1>11, <1>13, <2>2, <2>3, <3>2
  <2>5. \/ Full(bids'[s], BidQty) <= Full(bids[s], BidQty)
        \/ Full(bids'[s], BidQty) <= BidQty
    BY <1>1, <1>7, <1>9, <1>10, <2>2
  <2>6. /\ longs[s] + d <= MaxLong
        /\ \/ Quantity(bids'[s]) + 1 <= Quantity(bids[s]) + d
           \/ Quantity(bids'[s]) <= d /\ Quantity(snap[s]) = 0 /\ Quantity(bids[s]) = 0
    <3>1. longs[s] + d <= MaxLong
      BY <1>3, <1>4
    <3>2. ASSUME Quantity(A) + 1 <= Quantity(bids[s])
          PROVE  Quantity(bids'[s]) + 1 <= Quantity(bids[s]) + d
      BY <1>7, <2>2, <3>2
    <3>3. ASSUME A = {} PROVE Quantity(bids'[s]) <= d
      BY <1>10, <2>2, <3>3
    <3> QED BY <1>9, <3>1, <3>2, <3>3
  <2>7. Quoted(s)
    BY <2>3, <2>4, <2>5, <2>6 DEF Quoted
  <2>8. BidTurn(s)
    BY <1>1, <1>6, <1>12, <2>1, <2>7, Zenon DEF BidTurn
  <2>9. ASSUME A = {} PROVE \A b \in bids'[s] : b.price = Price(s)
    BY <1>1, <1>14, <2>9 DEF Posted
  <2>10. Clears(s)
    <3>1. outcome[s].ask # 0 /\ ~Crosses(Price(s), outcome[s].ask)
      BY DEF MayQuote
    <3> QED BY <1>5, <2>9, <3>1, Zenon DEF Clears, Tight
  <2> QED BY <2>8, <2>10
<1>15. CASE ~(n = 1 /\ reported)
  <2>1. Mishap
    BY <1>15 DEF PostEnds, MishapIf
  <2>2. PICK q \in Nat, m \in Nat, f \in Nat :
          /\ q = Times(n, d) /\ q <= 2 * BidQty
          /\ m = Times(n, v) /\ m <= 2 * t
          /\ f = Times(n, BidQty) /\ f <= 2 * BidQty
    <3>1. CASE n = 0
      BY <1>1, <3>1 DEF Times
    <3>2. CASE n = 1
      BY <1>1, <1>3, <1>4, <1>13, <3>2 DEF Times
    <3>3. CASE n = 2
      BY <1>1, <1>3, <1>4, <1>13, <3>3 DEF Times
    <3> QED BY <3>1, <3>2, <3>3
  <2>3. Quantity(bids'[s]) <= Quantity(bids[s]) + 2 * BidQty
    BY <1>1, <1>6, <1>7, <1>8, <2>2
  <2>4. Notional(bids'[s]) <= Notional(bids[s]) + 2 * Times(BidQty, TopBid)
    BY <1>6, <1>7, <1>8, <1>13, <2>2
  <2>5. \/ Full(bids'[s], BidQty) <= Full(bids[s], BidQty) + BidQty
        \/ Full(bids'[s], BidQty) <= 2 * BidQty
    BY <1>1, <1>6, <1>7, <1>9, <1>10, <2>2
  <2>6. Excess(s)
    BY <2>1, <2>3, <2>4, <2>5 DEF Excess
  <2>7. BidTurn(s)
    BY <1>1, <1>6, <1>12, <2>1, <2>6, Zenon DEF BidTurn
  <2>8. Clears(s)
    BY <2>1 DEF Clears, Mishap
  <2> QED BY <2>7, <2>8
<1> QED BY <1>14, <1>15

LEMMA RepriceBidTurn ==
    ASSUME Structure, NEW s \in Series, RepriceBid(s)
    PROVE  BidTurn(s) /\ Clears(s)
<1>1. Visiting("quote", s) /\ s \in DOMAIN outcome /\ MayQuote(s)
  BY DEF RepriceBid
<1>2. PICK o \in Newest(snap[s]) :
        \/ /\ Live(o, bids[s])
           /\ \E n \in 0..2, reported \in BOOLEAN :
               /\ reported => n > 0
               /\ PostEnds(n, reported)
               /\ bids' = [bids EXCEPT ![s] =
                             Posted(Without(bids[s], {o}), n, Price(s), Depth(s))]
               /\ notional' = IF reported THEN notional + Delta(s) ELSE notional
        \/ MishapIf(Live(o, bids[s])) /\ UNCHANGED <<bids, notional>>
  BY DEF RepriceBid
<1>3. ASSUME Live(o, bids[s]), NEW n \in 0..2, NEW reported \in BOOLEAN,
             reported => n > 0, PostEnds(n, reported),
             bids' = [bids EXCEPT ![s] =
                        Posted(Without(bids[s], {o}), n, Price(s), Depth(s))],
             notional' = IF reported THEN notional + Delta(s) ELSE notional
      PROVE  BidTurn(s) /\ Clears(s)
  <2> DEFINE A == Without(bids[s], {o})
  <2>1. Replaces(s, A)
    BY <1>3 DEF Replaces
  <2>2. bids' = [bids EXCEPT ![s] = Posted(A, n, Price(s), Depth(s))]
    BY <1>3
  <2> HIDE DEF A
  <2> QED BY <1>1, <1>3, <2>1, <2>2, BidMore
<1>4. ASSUME MishapIf(Live(o, bids[s])), UNCHANGED <<bids, notional>>
      PROVE  BidTurn(s) /\ Clears(s)
  <2>1. NoMishap \/ Mishap
    BY <1>4 DEF MishapIf
  <2>2. bids' = [bids EXCEPT ![s] = bids[s]] /\ bids[s] \in SUBSET bids[s]
    BY <1>1, <1>4, BidVisit
  <2>3. BidTurn(s) /\ bids'[s] = bids[s]
    BY <1>1, <1>4, <2>1, <2>2, BidLess
  <2>4. o \in snap[s] /\ Shrunk(bids[s], snap[s])
    BY <1>1, BidVisit DEF Newest
  <2>5. ASSUME clean', Single(snap[s]) PROVE bids'[s] = {}
    <3>1. ~Live(o, bids[s])
      BY <1>4, <2>5 DEF MishapIf, Mishap
    <3>2. \A x \in bids[s] : x.id = o.id
      BY <2>4, <2>5 DEF Shrunk, Single
    <3> QED BY <2>3, <3>1, <3>2 DEF Live
  <2>6. Clears(s)
    BY <2>5 DEF Clears, Tight
  <2> QED BY <2>3, <2>6
<1> QED BY <1>2, <1>3, <1>4

LEMMA PostBidTurn ==
    ASSUME Structure, NEW s \in Series, PostBid(s)
    PROVE  BidTurn(s) /\ Clears(s)
<1>1. Visiting("quote", s) /\ s \in DOMAIN outcome /\ MayQuote(s)
  BY DEF PostBid
<1>2. Replaces(s, bids[s])
  BY DEF PostBid, Replaces
<1>3. PICK n \in 0..2, reported \in BOOLEAN :
        /\ reported => n > 0
        /\ PostEnds(n, reported)
        /\ bids' = [bids EXCEPT ![s] = Posted(bids[s], n, Price(s), Depth(s))]
        /\ notional' = IF reported THEN notional + Delta(s) ELSE notional
  BY DEF PostBid
<1> QED BY <1>1, <1>2, <1>3, BidMore

(* The visits of the bid pass. *)
BidVisits(s) ==
    PullOrphan(s) \/ StopBid(s) \/ HoldBid(s) \/ RepriceBid(s) \/ PostBid(s)

LEMMA BidTurns ==
    ASSUME Structure, NEW s \in Series, BidVisits(s)
    PROVE  /\ BidTurn(s) /\ Clears(s) /\ Visiting("quote", s)
           /\ UNCHANGED <<asks, committed, outcome>>
<1>1. BidTurn(s) /\ Clears(s)
  BY PullOrphanTurn, StopBidTurn, HoldBidTurn, RepriceBidTurn, PostBidTurn
     DEF BidVisits
<1>2. Visiting("quote", s) /\ UNCHANGED <<asks, committed, outcome>>
  BY DEF BidVisits, PullOrphan, StopBid, HoldBid, RepriceBid, PostBid
<1> QED BY <1>1, <1>2

---------------------------------------------------------------------------
(* The structure is kept. *)

(* Totals over the series are numbers. *)
LEMMA TotalsNat ==
    ASSUME Sides
    PROVE  /\ CollateralOf(asks) \in Nat /\ NotionalOf(bids) \in Nat
           /\ [s \in Series |-> Quantity(asks[s]) * Collateral[s]] \in [Series -> Nat]
           /\ [s \in Series |-> Notional(bids[s])] \in [Series -> Nat]
<1> DEFINE c == [s \in Series |-> Quantity(asks[s]) * Collateral[s]]
           v == [s \in Series |-> Notional(bids[s])]
<1>1. \A s \in Series : Quantity(asks[s]) \in Nat /\ Notional(bids[s]) \in Nat
  BY CountsNat, Quantities DEF Sides
<1>2. \A s \in Series : Quantity(asks[s]) * Collateral[s] \in Nat
  <2>1. \A x \in Nat, y \in Nat : x * y \in Nat
    OBVIOUS
  <2> QED BY <1>1, <2>1, Quantities
<1>3. c \in [Series -> Nat] /\ v \in [Series -> Nat]
  BY <1>1, <1>2
<1> HIDE DEF c, v
<1>4. SumFunction(c) \in Nat /\ SumFunction(v) \in Nat
  BY <1>3, Quantities, TotalNat
<1> QED BY <1>3, <1>4 DEF c, v, CollateralOf, NotionalOf

(* Types of what a mishap counts. *)
LEMMA MishapTyped ==
    ASSUME mishaps \in Nat, clean \in BOOLEAN, NoMishap \/ Mishap
    PROVE  mishaps' \in Nat /\ clean' \in BOOLEAN
<1>1. mishaps + 1 \in Nat /\ FALSE \in BOOLEAN
  OBVIOUS
<1>2. NoMishap => mishaps' = mishaps /\ clean' = clean
  BY Zenon DEF NoMishap
<1>3. Mishap => mishaps' = mishaps + 1 /\ clean' = FALSE
  BY Zenon DEF Mishap
<1> QED BY <1>1, <1>2, <1>3, Zenon

LEMMA BeginStructure ==
    ASSUME Structure, BeginReconcile
    PROVE  Structure'
<1>1. committed' \in Nat
  BY TotalsNat DEF Structure, BeginReconcile
<1>2. WriterTyped'
  BY <1>1 DEF Structure, WriterTyped, BeginReconcile, chain, env, Phases
<1>3. Sides'
  BY DEF Structure, Sides, BeginReconcile, chain
<1>4. Enumerated'
  <2>1. \A s \in Series : Distinct(asks[s]) /\ Shrunk(asks[s], asks[s])
    BY ShrunkSelf DEF Structure, Sides, Side
  <2>2. /\ phase' = "asks" /\ unvisited' = Series /\ snap' = asks /\ asks' = asks
        /\ DOMAIN outcome' = {}
    BY DEF BeginReconcile, chain
  <2> QED BY <2>1, <2>2 DEF Enumerated, Awaiting
<1>5. Marked'
  BY DEF BeginReconcile, Marked
<1> QED BY <1>2, <1>3, <1>4, <1>5 DEF Structure

LEMMA EndAsksStructure ==
    ASSUME Structure, EndAsks
    PROVE  Structure'
<1>1. WriterTyped' /\ Sides' /\ Marked'
  BY DEF Structure, WriterTyped, Sides, Marked, EndAsks, chain, locals, env, Phases
<1>2. Enumerated'
  BY DEF Enumerated, Awaiting, EndAsks, locals
<1> QED BY <1>1, <1>2 DEF Structure

LEMMA EnumerateStructure ==
    ASSUME Structure, Enumerate
    PROVE  Structure'
<1>1. NotionalOf(bids) \in Nat
  BY TotalsNat DEF Structure
<1>2. WriterTyped'
  BY <1>1 DEF Structure, WriterTyped, Enumerate, chain, env, Phases
<1>3. Sides' /\ Marked'
  BY DEF Structure, Sides, Marked, Enumerate, chain
<1>4. Enumerated'
  <2>1. CASE phase = "bids"
    <3>1. \A s \in Series : Side(bids[s], BidQty) /\ Shrunk(bids[s], bids[s])
      BY ShrunkSelf DEF Structure, Sides, Side
    <3>2. phase' = "longs" /\ snap' = bids /\ bids' = bids /\ unvisited' = {}
      BY <2>1 DEF Enumerate, chain, Structure, Enumerated
    <3> QED BY <3>1, <3>2 DEF Enumerated
  <2>2. CASE phase # "bids"
    <3>1. phase = "longs" /\ phase' = "quote" /\ snap' = snap /\ bids' = bids
      BY <2>2 DEF Enumerate, chain
    <3>2. \A s \in Series : Side(snap[s], BidQty) /\ Shrunk(bids[s], snap[s])
      BY <3>1 DEF Structure, Enumerated, Awaiting
    <3> QED BY <3>1, <3>2 DEF Enumerated
  <2> QED BY <2>1, <2>2
<1> QED BY <1>2, <1>3, <1>4 DEF Structure

LEMMA ForgetStructure ==
    ASSUME Structure, Forget, NoMishap \/ Mishap
    PROVE  Structure'
<1>1. mishaps' \in Nat /\ clean' \in BOOLEAN
  BY MishapTyped DEF Structure, WriterTyped
<1>2. WriterTyped'
  BY <1>1 DEF Structure, WriterTyped, Forget, Nothing, chain, env, Phases
<1>3. Sides' /\ Marked'
  BY DEF Structure, Sides, Marked, Forget, chain
<1>4. Enumerated'
  BY DEF Enumerated, Awaiting, Forget
<1> QED BY <1>2, <1>3, <1>4 DEF Structure

LEMMA AskStructure ==
    ASSUME Structure, NEW s \in Series, AskVisits(s)
    PROVE  Structure'
<1>1. /\ AskTurn(s) /\ AskRecord(s) /\ Visiting("asks", s)
      /\ bids' = bids /\ notional' = notional
  BY AskTurns
<1>2. /\ Side(asks'[s], AskQty) /\ asks' = [asks EXCEPT ![s] = asks'[s]]
      /\ committed' \in Nat /\ (NoMishap \/ Mishap)
  BY <1>1 DEF AskTurn
<1>3. /\ asks' \in [Series -> SUBSET Quotes]
      /\ \A x \in Series \ {s} : asks'[x] = asks[x]
  BY <1>2 DEF Structure, WriterTyped, Side
<1>4. \A x \in DOMAIN outcome' :
        \/ x = s /\ Recorded(outcome'[x])
        \/ x \in DOMAIN outcome /\ outcome'[x] = outcome[x]
  BY <1>1 DEF AskRecord
<1>5. DOMAIN outcome' \subseteq Series /\ DOMAIN outcome' \subseteq DOMAIN outcome \cup {s}
  BY <1>1 DEF AskRecord, Structure, WriterTyped
<1>6. \A x \in DOMAIN outcome' : outcome'[x] \in Measures
  BY <1>4 DEF Recorded, Structure, WriterTyped
<1>7. mishaps' \in Nat /\ clean' \in BOOLEAN
  BY <1>2, MishapTyped DEF Structure, WriterTyped
<1>8. /\ phase = "asks" /\ phase' = "asks" /\ unvisited' = unvisited \ {s}
      /\ UNCHANGED <<market, held, snap, longs, fills>>
  BY <1>1 DEF Visiting, env
<1>9. WriterTyped'
  BY <1>1, <1>2, <1>3, <1>5, <1>6, <1>7, <1>8 DEF Structure, WriterTyped
<1>10. Sides'
  BY <1>1, <1>2, <1>3 DEF Structure, Sides
<1>11. Enumerated'
  <2>1. \A x \in unvisited \ {s} : x \in Series
    BY DEF Structure, WriterTyped
  <2> QED BY <1>3, <1>5, <1>8, <2>1 DEF Structure, Enumerated, Awaiting
<1>12. Marked'
  BY <1>4 DEF Marked, Recorded, Structure
<1> QED BY <1>9, <1>10, <1>11, <1>12 DEF Structure

LEMMA BidStructure ==
    ASSUME Structure, NEW s \in Series, BidVisits(s)
    PROVE  Structure'
<1>1. /\ BidTurn(s) /\ Visiting("quote", s)
      /\ asks' = asks /\ committed' = committed /\ outcome' = outcome
  BY BidTurns
<1>2. /\ Side(bids'[s], BidQty) /\ bids' = [bids EXCEPT ![s] = bids'[s]]
      /\ notional' \in Nat /\ (NoMishap \/ Mishap)
  BY <1>1 DEF BidTurn
<1>3. /\ bids' \in [Series -> SUBSET Quotes]
      /\ \A x \in Series \ {s} : bids'[x] = bids[x]
  BY <1>2 DEF Structure, WriterTyped, Side
<1>4. mishaps' \in Nat /\ clean' \in BOOLEAN
  BY <1>2, MishapTyped DEF Structure, WriterTyped
<1>5. /\ phase = "quote" /\ phase' = "quote" /\ unvisited' = unvisited \ {s}
      /\ UNCHANGED <<market, held, snap, longs, fills>>
  BY <1>1 DEF Visiting, env
<1>6. WriterTyped'
  BY <1>1, <1>2, <1>3, <1>4, <1>5 DEF Structure, WriterTyped
<1>7. Sides'
  BY <1>1, <1>2, <1>3 DEF Structure, Sides
<1>8. Enumerated'
  BY <1>3, <1>5 DEF Structure, Enumerated, Awaiting
<1>9. Marked'
  BY <1>1 DEF Structure, Marked
<1> QED BY <1>6, <1>7, <1>8, <1>9 DEF Structure

(* What an order that is lifted leaves. *)
LEMMA FillAskLifts ==
    ASSUME Structure, NEW s \in Series, FillAsk(s)
    PROVE  \E o \in asks[s] :
             /\ asks' = [asks EXCEPT ![s] = asks'[s]] /\ asks'[s] = Lifted(asks[s], o)
             /\ \A x \in Series \ {s} : asks'[x] = asks[x]
             /\ Side(asks[s], AskQty) /\ asks[s] \subseteq Quotes
BY DEF FillAsk, Structure, WriterTyped, Sides

LEMMA FillBidLifts ==
    ASSUME Structure, NEW s \in Series, FillBid(s)
    PROVE  \E o \in bids[s] :
             /\ bids' = [bids EXCEPT ![s] = bids'[s]] /\ bids'[s] = Lifted(bids[s], o)
             /\ \A x \in Series \ {s} : bids'[x] = bids[x]
             /\ Side(bids[s], BidQty) /\ bids[s] \subseteq Quotes
BY DEF FillBid, Structure, WriterTyped, Sides

LEMMA FillAskStructure ==
    ASSUME Structure, NEW s \in Series, FillAsk(s)
    PROVE  Structure'
<1>1. PICK o \in asks[s] :
        /\ asks' = [asks EXCEPT ![s] = asks'[s]] /\ asks'[s] = Lifted(asks[s], o)
        /\ \A x \in Series \ {s} : asks'[x] = asks[x]
        /\ Side(asks[s], AskQty) /\ asks[s] \subseteq Quotes
  BY FillAskLifts
<1>2. Side(Lifted(asks[s], o), AskQty)
  BY <1>1, Quantities, LiftedSide
<1>3. Side(asks'[s], AskQty) /\ asks'[s] \subseteq Quotes
  BY <1>1, <1>2 DEF Side
<1>4. asks' \in [Series -> SUBSET Quotes]
  BY <1>1, <1>3 DEF Structure, WriterTyped
<1>5. UNCHANGED <<market, bids, held, phase, unvisited, snap, committed, outcome, longs,
                  notional, mishaps, clean>>
      /\ fills' = fills + 1
  BY DEF FillAsk, Outsiders, locals
<1>6. WriterTyped'
  BY <1>4, <1>5 DEF Structure, WriterTyped
<1>7. Sides'
  BY <1>1, <1>3, <1>5 DEF Structure, Sides
<1>8. Enumerated'
  <2>1. ASSUME phase = "asks", NEW x \in unvisited
        PROVE  Shrunk(asks'[x], snap[x])
    <3>1. x \in Series /\ Shrunk(asks[x], snap[x]) /\ snap[x] \subseteq Quotes
      BY <2>1 DEF Structure, WriterTyped, Enumerated
    <3>2. CASE x = s
      <4>1. Shrunk(Lifted(asks[s], o), snap[s])
        BY <1>1, <3>1, <3>2, ShrunkMore
      <4> QED BY <1>1, <3>2, <4>1
    <3>3. CASE x # s
      BY <1>1, <3>1, <3>3
    <3> QED BY <3>2, <3>3
  <2> QED BY <1>5, <2>1 DEF Structure, Enumerated, Awaiting
<1>9. Marked'
  BY <1>5 DEF Structure, Marked
<1> QED BY <1>6, <1>7, <1>8, <1>9 DEF Structure

LEMMA FillBidStructure ==
    ASSUME Structure, NEW s \in Series, FillBid(s)
    PROVE  Structure'
<1>1. PICK o \in bids[s] :
        /\ bids' = [bids EXCEPT ![s] = bids'[s]] /\ bids'[s] = Lifted(bids[s], o)
        /\ \A x \in Series \ {s} : bids'[x] = bids[x]
        /\ Side(bids[s], BidQty) /\ bids[s] \subseteq Quotes
  BY FillBidLifts
<1>2. Side(Lifted(bids[s], o), BidQty)
  BY <1>1, Quantities, LiftedSide
<1>3. Side(bids'[s], BidQty) /\ bids'[s] \subseteq Quotes
  BY <1>1, <1>2 DEF Side
<1>4. bids' \in [Series -> SUBSET Quotes]
  BY <1>1, <1>3 DEF Structure, WriterTyped
<1>5. /\ UNCHANGED <<market, asks, phase, unvisited, snap, committed, outcome, longs,
                     notional, mishaps, clean>>
      /\ fills' = fills + 1 /\ held' = [held EXCEPT ![s] = held[s] + 1]
  BY DEF FillBid, Outsiders, locals
<1>6. held' \in [Series -> Nat]
  BY <1>5 DEF Structure, WriterTyped
<1>7. WriterTyped'
  BY <1>4, <1>5, <1>6 DEF Structure, WriterTyped
<1>8. Sides'
  BY <1>1, <1>3, <1>5 DEF Structure, Sides
<1>9. Enumerated'
  <2>1. ASSUME NEW x \in Series, Awaiting(x)
        PROVE  Shrunk(bids'[x], snap[x])
    <3>1. Shrunk(bids[x], snap[x]) /\ snap[x] \subseteq Quotes
      BY <2>1 DEF Structure, WriterTyped, Enumerated
    <3>2. CASE x = s
      <4>1. Shrunk(Lifted(bids[s], o), snap[s])
        BY <1>1, <3>1, <3>2, ShrunkMore
      <4> QED BY <1>1, <3>2, <4>1
    <3>3. CASE x # s
      BY <1>1, <3>1, <3>3
    <3> QED BY <3>2, <3>3
  <2> QED BY <1>5, <2>1 DEF Structure, Enumerated, Awaiting
<1>10. Marked'
  BY <1>5 DEF Structure, Marked
<1> QED BY <1>7, <1>8, <1>9, <1>10 DEF Structure

LEMMA MoveStructure ==
    ASSUME Structure, NEW s \in Series, NEW m \in Marks \cup {0}, Move(s, m)
    PROVE  Structure'
<1>1. /\ UNCHANGED <<asks, bids, held, phase, unvisited, snap, committed, outcome, longs,
                     notional, fills, mishaps, clean>>
      /\ market' = [market EXCEPT ![s] = m]
  BY DEF Move, Outsiders, locals
<1>2. WriterTyped' /\ Sides' /\ Marked'
  BY <1>1 DEF Structure, WriterTyped, Sides, Marked
<1>3. Enumerated'
  BY <1>1 DEF Structure, Enumerated, Awaiting
<1> QED BY <1>2, <1>3 DEF Structure

(* The steps, split as the lemmas are. *)
LEMMA StepCases ==
    ASSUME [WNext]_wvars
    PROVE  \/ BeginReconcile \/ EndAsks \/ Enumerate
           \/ Forget /\ (NoMishap \/ Mishap) /\ (EndReconcile \/ CutShort)
           \/ \E s \in Series :
                AskVisits(s) \/ BidVisits(s) \/ FillAsk(s) \/ FillBid(s)
                \/ \E m \in Marks \cup {0} : Move(s, m)
           \/ UNCHANGED wvars
<1>1. ASSUME EndReconcile \/ CutShort PROVE Forget /\ (NoMishap \/ Mishap)
  BY <1>1 DEF EndReconcile, CutShort
<1>2. ASSUME NEW s \in Series, Reconcile(s) PROVE AskVisits(s) \/ BidVisits(s)
  BY <1>2 DEF Reconcile, AskVisits, BidVisits
<1> QED BY <1>1, <1>2 DEF WNext

LEMMA StructureKept ==
    ASSUME Structure, [WNext]_wvars
    PROVE  Structure'
<1>1. ASSUME UNCHANGED wvars PROVE Structure'
  <2>1. UNCHANGED <<market, asks, bids, held, phase, unvisited, snap, committed, outcome,
                    longs, notional, fills, mishaps, clean>>
    BY <1>1 DEF wvars, chain, locals, env
  <2>2. WriterTyped' /\ Sides' /\ Marked'
    BY <2>1 DEF Structure, WriterTyped, Sides, Marked
  <2>3. Enumerated'
    BY <2>1 DEF Structure, Enumerated, Awaiting
  <2> QED BY <2>2, <2>3 DEF Structure
<1> QED BY <1>1, StepCases, BeginStructure, EndAsksStructure, EnumerateStructure,
        ForgetStructure, AskStructure, BidStructure, FillAskStructure, FillBidStructure,
        MoveStructure

LEMMA StructureInit == WInit => Structure
<1> SUFFICES ASSUME WInit PROVE Structure
  OBVIOUS
<1>1. WriterTyped
  BY DEF WInit, WriterTyped, Nothing, Phases
<1>2. Sides
  BY Quantities, EmptySide DEF WInit, Sides, Nothing
<1>3. Enumerated /\ Marked
  BY DEF WInit, Enumerated, Awaiting, Marked
<1> QED BY <1>1, <1>2, <1>3 DEF Structure

---------------------------------------------------------------------------
(* A clean tick ends with bids clear of asks. *)

LEMMA AtMostOne ==
    ASSUME NEW orders, IsFiniteSet(orders), Cardinality(orders) <= 1
    PROVE  Single(orders)
<1>1. Cardinality(orders) \in Nat
  BY FS_CardinalityType
<1>2. Cardinality(orders) = 0 \/ Cardinality(orders) = 1
  BY <1>1
<1>3. orders = {} \/ \E x : orders = {x}
  BY <1>2, FS_EmptySet, FS_Singleton
<1> QED BY <1>3 DEF Single

(* What a fill leaves of a side is as single as it was, at the same prices. *)
LEMMA LiftedSame ==
    ASSUME NEW orders, NEW most \in Nat, Side(orders, most), NEW o \in orders
    PROVE  /\ Single(orders) => Single(Lifted(orders, o))
           /\ \A x \in Lifted(orders, o) : \E y \in orders : y.price = x.price
<1>1. \A x \in Lifted(orders, o) : \E y \in orders : y.price = x.price
  BY LiftedSide DEF Shrunk
<1>2. ASSUME Single(orders) PROVE Single(Lifted(orders, o))
  <2>1. orders \ {o} = {}
    BY <1>2 DEF Single
  <2>2. \E left : Lifted(orders, o) \subseteq {left}
    BY <2>1 DEF Lifted
  <2> QED BY <2>2 DEF Single
<1> QED BY <1>1, <1>2

LEMMA StaysClean ==
    ASSUME NoMishap \/ Mishap, clean'
    PROVE  clean /\ NoMishap
BY Zenon DEF NoMishap, Mishap

LEMMA BeginClean ==
    ASSUME Structure, CleanTick, BeginReconcile
    PROVE  CleanTick'
<1> SUFFICES ASSUME clean' PROVE CleanTick'
  BY DEF CleanTick
<1>1. /\ phase' = "asks" /\ snap' = asks /\ bids' = bids /\ DOMAIN outcome' = {}
      /\ unvisited' = Series
  BY DEF BeginReconcile, chain
<1>2. \A s \in Series : Cardinality(asks[s]) <= 1 /\ Cardinality(bids[s]) <= 1
  BY DEF BeginReconcile
<1>3. \A s \in Series : IsFiniteSet(asks[s]) /\ IsFiniteSet(bids[s])
  BY DEF Structure, Sides, Side
<1>4. \A s \in Series : Single(asks[s]) /\ Single(bids[s])
  BY <1>2, <1>3, AtMostOne
<1> QED BY <1>1, <1>4 DEF CleanTick, Awaiting

LEMMA EndAsksClean ==
    ASSUME Structure, CleanTick, EndAsks
    PROVE  CleanTick'
<1>1. /\ phase = "asks" /\ phase' = "bids"
      /\ UNCHANGED <<asks, bids, snap, unvisited, outcome, clean>>
  BY DEF EndAsks, chain, locals
<1> QED BY <1>1 DEF CleanTick, Awaiting

LEMMA EnumerateClean ==
    ASSUME Structure, CleanTick, Enumerate
    PROVE  CleanTick'
<1>1. UNCHANGED <<asks, bids, outcome, clean>>
  BY DEF Enumerate, chain
<1>2. CASE phase = "bids"
  <2>1. phase' = "longs" /\ snap' = bids
    BY <1>2 DEF Enumerate
  <2> QED BY <1>1, <1>2, <2>1 DEF CleanTick, Awaiting
<1>3. CASE phase # "bids"
  <2>1. phase = "longs" /\ phase' = "quote" /\ snap' = snap /\ unvisited' = Series
    BY <1>3 DEF Enumerate
  <2> QED BY <1>1, <2>1 DEF CleanTick, Awaiting
<1> QED BY <1>2, <1>3

LEMMA ForgetClean ==
    ASSUME Structure, CleanTick, Forget, NoMishap \/ Mishap, EndReconcile \/ CutShort
    PROVE  CleanTick'
<1> SUFFICES ASSUME clean' PROVE CleanTick'
  BY DEF CleanTick
<1>1. clean /\ NoMishap
  BY StaysClean
<1>2. EndReconcile
  BY DEF CutShort, Mishap
<1>3. /\ phase = "quote" /\ unvisited = {} /\ phase' = "idle" /\ DOMAIN outcome' = {}
      /\ UNCHANGED <<asks, bids>>
  BY <1>2 DEF EndReconcile, Forget, chain
<1>4. \A s \in Series : Apart(s)
  BY <1>1, <1>3 DEF CleanTick
<1>5. \A s \in Series : Apart(s)'
  BY <1>3, <1>4 DEF Apart
<1> QED BY <1>3, <1>5 DEF CleanTick, Awaiting

LEMMA AskClean ==
    ASSUME Structure, CleanTick, NEW s \in Series, AskVisits(s)
    PROVE  CleanTick'
<1> SUFFICES ASSUME clean' PROVE CleanTick'
  BY DEF CleanTick
<1>1. AskTurn(s) /\ AskRecord(s) /\ Visiting("asks", s) /\ bids' = bids
  BY AskTurns
<1>2. NoMishap \/ Mishap
  BY <1>1 DEF AskTurn
<1>3. clean
  BY <1>2, StaysClean
<1>4. /\ phase = "asks" /\ phase' = "asks" /\ unvisited' = unvisited \ {s} /\ snap' = snap
      /\ s \in unvisited
  BY <1>1 DEF Visiting
<1>5. \A x \in Series \ {s} : asks'[x] = asks[x]
  <2>1. asks' = [asks EXCEPT ![s] = asks'[s]]
    BY <1>1 DEF AskTurn
  <2> QED BY <2>1 DEF Structure, WriterTyped
<1>6. Single(snap[s])
  BY <1>3, <1>4 DEF CleanTick
<1>7. ASSUME NEW x \in DOMAIN outcome', outcome'[x].ask # 0
      PROVE  \A a \in asks'[x] : a.price = outcome'[x].ask
  <2>1. CASE x = s
    BY <1>1, <1>6, <1>7, <2>1 DEF AskRecord
  <2>2. CASE x # s
    <3>1. x \in DOMAIN outcome /\ x \in Series
      BY <1>1, <2>2 DEF AskRecord, Structure, WriterTyped
    <3>2. outcome'[x] = outcome[x] /\ asks'[x] = asks[x]
      BY <1>1, <1>5, <2>2, <3>1 DEF AskRecord
    <3> QED BY <1>3, <1>7, <3>1, <3>2 DEF CleanTick
  <2> QED BY <2>1, <2>2
<1> QED BY <1>1, <1>3, <1>4, <1>7 DEF CleanTick, Awaiting

LEMMA BidClean ==
    ASSUME Structure, CleanTick, NEW s \in Series, BidVisits(s)
    PROVE  CleanTick'
<1> SUFFICES ASSUME clean' PROVE CleanTick'
  BY DEF CleanTick
<1>1. /\ BidTurn(s) /\ Clears(s) /\ Visiting("quote", s)
      /\ asks' = asks /\ outcome' = outcome
  BY BidTurns
<1>2. NoMishap \/ Mishap
  BY <1>1 DEF BidTurn
<1>3. clean
  BY <1>2, StaysClean
<1>4. /\ phase = "quote" /\ phase' = "quote" /\ unvisited' = unvisited \ {s} /\ snap' = snap
      /\ s \in unvisited
  BY <1>1 DEF Visiting
<1>5. \A x \in Series \ {s} : bids'[x] = bids[x]
  <2>1. bids' = [bids EXCEPT ![s] = bids'[s]]
    BY <1>1 DEF BidTurn
  <2> QED BY <2>1 DEF Structure, WriterTyped
<1>6. Tight(s)
  BY <1>3, <1>4 DEF CleanTick, Awaiting, Tight
<1>7. Apart(s)'
  BY <1>1, <1>6 DEF Clears, Apart
<1>8. \A x \in Series \ unvisited' : Apart(x)'
  <2>1. ASSUME NEW x \in Series \ unvisited', x # s PROVE Apart(x)'
    <3>1. x \in Series \ unvisited
      BY <1>4, <2>1
    <3>2. Apart(x)
      BY <1>3, <1>4, <3>1 DEF CleanTick
    <3> QED BY <1>1, <1>5, <2>1, <3>2 DEF Apart
  <2> QED BY <1>7, <2>1
<1> QED BY <1>1, <1>3, <1>4, <1>8 DEF CleanTick, Awaiting

LEMMA FillAskClean ==
    ASSUME Structure, CleanTick, NEW s \in Series, FillAsk(s)
    PROVE  CleanTick'
<1>1. PICK o \in asks[s] :
        /\ asks'[s] = Lifted(asks[s], o) /\ Side(asks[s], AskQty)
        /\ \A x \in Series \ {s} : asks'[x] = asks[x]
  BY FillAskLifts
<1>2. UNCHANGED <<bids, phase, unvisited, snap, outcome, clean>>
  BY DEF FillAsk, Outsiders, locals
<1>3. \A x \in Lifted(asks[s], o) : \E y \in asks[s] : y.price = x.price
  BY <1>1, Quantities, LiftedSame
<1>4. \A x \in Series : \A a \in asks'[x] : \E y \in asks[x] : y.price = a.price
  BY <1>1, <1>3
<1>5. \A x \in Series : Apart(x) => Apart(x)'
  <2> TAKE x \in Series
  <2> HAVE Apart(x)
  <2>1. ASSUME NEW b \in bids[x], NEW a \in asks'[x] PROVE ~Crosses(b.price, a.price)
    <3>1. PICK y \in asks[x] : y.price = a.price
      BY <1>4
    <3> QED BY <3>1, Zenon DEF Apart
  <2> QED BY <1>2, <2>1 DEF Apart
<1>6. DOMAIN outcome \subseteq Series
  BY DEF Structure, WriterTyped
<1>7. ASSUME clean, NEW x \in DOMAIN outcome, outcome[x].ask # 0
      PROVE  \A a \in asks'[x] : a.price = outcome[x].ask
  BY <1>4, <1>6, <1>7 DEF CleanTick
<1> QED BY <1>2, <1>5, <1>7 DEF CleanTick, Awaiting

LEMMA FillBidClean ==
    ASSUME Structure, CleanTick, NEW s \in Series, FillBid(s)
    PROVE  CleanTick'
<1>1. PICK o \in bids[s] :
        /\ bids'[s] = Lifted(bids[s], o) /\ Side(bids[s], BidQty)
        /\ \A x \in Series \ {s} : bids'[x] = bids[x]
  BY FillBidLifts
<1>2. UNCHANGED <<asks, phase, unvisited, snap, outcome, clean>>
  BY DEF FillBid, Outsiders, locals
<1>3. /\ \A x \in Lifted(bids[s], o) : \E y \in bids[s] : y.price = x.price
      /\ Single(bids[s]) => Single(Lifted(bids[s], o))
  BY <1>1, Quantities, LiftedSame
<1>4. /\ \A x \in Series : \A b \in bids'[x] : \E y \in bids[x] : y.price = b.price
      /\ \A x \in Series : Single(bids[x]) => Single(bids'[x])
  BY <1>1, <1>3
<1>5. \A x \in Series : Apart(x) => Apart(x)'
  <2> TAKE x \in Series
  <2> HAVE Apart(x)
  <2>1. ASSUME NEW b \in bids'[x], NEW a \in asks[x] PROVE ~Crosses(b.price, a.price)
    <3>1. PICK y \in bids[x] : y.price = b.price
      BY <1>4
    <3> QED BY <3>1, Zenon DEF Apart
  <2> QED BY <1>2, <2>1 DEF Apart
<1> QED BY <1>2, <1>4, <1>5 DEF CleanTick, Awaiting

LEMMA CleanTickKept ==
    ASSUME Structure, CleanTick, [WNext]_wvars
    PROVE  CleanTick'
<1>1. ASSUME UNCHANGED <<asks, bids, phase, unvisited, snap, outcome, clean>>
      PROVE  CleanTick'
  BY <1>1 DEF CleanTick, Awaiting, Apart
<1>2. ASSUME NEW s \in Series, NEW m, Move(s, m) PROVE CleanTick'
  BY <1>1, <1>2 DEF Move, Outsiders, locals
<1>3. ASSUME UNCHANGED wvars PROVE CleanTick'
  BY <1>1, <1>3 DEF wvars, chain, locals, env
<1> QED BY <1>2, <1>3, StepCases, BeginClean, EndAsksClean, EnumerateClean, ForgetClean,
        AskClean, BidClean, FillAskClean, FillBidClean

LEMMA CleanTickInit == WInit => CleanTick
BY DEF WInit, CleanTick, Awaiting, Apart, Nothing

---------------------------------------------------------------------------
(* The collateral of the asks. *)

(* A total of which one term changes grows by no more than that term does.  *)
LEMMA TotalGrows ==
    ASSUME NEW f \in [Series -> Nat], NEW g \in [Series -> Nat], NEW s \in Series,
           \A x \in Series \ {s} : g[x] = f[x], NEW k \in Nat, g[s] <= f[s] + k
    PROVE  /\ SumFunction(f) \in Nat /\ SumFunction(g) \in Nat
           /\ SumFunction(g) <= SumFunction(f) + k
<1>1. f \in [Series -> Int] /\ g \in [Series -> Int]
  OBVIOUS
<1>2. SumFunction(f) \in Nat /\ SumFunction(g) \in Nat
  BY Quantities, TotalNat
<1>3. SumFunction(g) = SumFunction(f) + (g[s] - f[s])
  BY <1>1, Quantities, TotalChange
<1>4. f[s] \in Nat /\ g[s] \in Nat
  OBVIOUS
<1> QED BY <1>2, <1>3, <1>4

(* So does the collateral, by that many contracts of the series.            *)
LEMMA ChargeGrows ==
    ASSUME NEW f \in [Series -> Nat], NEW g \in [Series -> Nat], NEW s \in Series,
           \A x \in Series \ {s} : g[x] = f[x], NEW k \in Nat, g[s] <= f[s] + k
    PROVE  /\ Charge(f) \in Nat /\ Charge(g) \in Nat
           /\ k * Collateral[s] \in Nat
           /\ Charge(g) <= Charge(f) + k * Collateral[s]
<1> DEFINE F == [x \in Series |-> f[x] * Collateral[x]]
           G == [x \in Series |-> g[x] * Collateral[x]]
<1>1. \A x \in Nat, y \in Nat : x * y \in Nat
  OBVIOUS
<1>2. \A x \in Series : f[x] * Collateral[x] \in Nat /\ g[x] * Collateral[x] \in Nat
  BY <1>1, Quantities
<1>3. F \in [Series -> Nat] /\ G \in [Series -> Nat]
  BY <1>2
<1>4. \A x \in Series \ {s} : G[x] = F[x]
  OBVIOUS
<1>5. PICK n \in Nat : n = k * Collateral[s]
  BY <1>1, Quantities
<1>6. G[s] <= F[s] + n
  <2>1. PICK c \in Nat, a \in Nat, b \in Nat :
          c = Collateral[s] /\ a = f[s] /\ b = g[s] /\ b <= a + k
    BY Quantities
  <2>2. c * b <= c * (a + k)
    BY <2>1, TimesGrows
  <2>3. c * (a + k) = a * c + k * c /\ c * b = b * c
    OBVIOUS
  <2>4. b * c <= a * c + k * c
    BY <2>2, <2>3
  <2>5. F[s] = a * c /\ G[s] = b * c /\ n = k * c
    BY <1>5, <2>1
  <2> QED BY <2>4, <2>5
<1>7. Charge(f) = SumFunction(F) /\ Charge(g) = SumFunction(G)
  BY DEF Charge
<1> HIDE DEF F, G
<1>8. SumFunction(F) \in Nat /\ SumFunction(G) \in Nat /\ SumFunction(G) <= SumFunction(F) + n
  BY <1>3, <1>4, <1>6, TotalGrows
<1> QED BY <1>5, <1>7, <1>8

(* The collateral of the asks and what they lack is that of full ones.      *)
LEMMA CollateralSplit ==
    ASSUME Sides
    PROVE  /\ CollateralOf(asks) \in Nat /\ FullCollateral \in Nat /\ MissingCollateral \in Nat
           /\ FullCollateral = CollateralOf(asks) + MissingCollateral
<1> DEFINE c == [s \in Series |-> Quantity(asks[s]) * Collateral[s]]
           f == [s \in Series |-> Full(asks[s], AskQty) * Collateral[s]]
           m == [s \in Series |-> Missing(asks[s], AskQty) * Collateral[s]]
<1>1. \A s \in Series :
        /\ Quantity(asks[s]) \in Nat /\ Full(asks[s], AskQty) \in Nat
        /\ Missing(asks[s], AskQty) \in Nat
        /\ Full(asks[s], AskQty) = Quantity(asks[s]) + Missing(asks[s], AskQty)
  BY CountsNat, Quantities DEF Sides
<1>2. \A x \in Nat, y \in Nat, k \in Nat : x * k \in Nat /\ (x + y) * k = x * k + y * k
  OBVIOUS
<1>3. \A s \in Series : /\ c[s] \in Nat /\ f[s] \in Nat /\ m[s] \in Nat
                        /\ f[s] = c[s] + m[s]
  <2> TAKE s \in Series
  <2>1. PICK x \in Nat, y \in Nat, k \in Nat :
          x = Quantity(asks[s]) /\ y = Missing(asks[s], AskQty) /\ k = Collateral[s]
    BY <1>1, Quantities
  <2>2. c[s] = x * k /\ m[s] = y * k /\ f[s] = (x + y) * k
    BY <1>1, <2>1
  <2>3. x * k \in Nat /\ y * k \in Nat /\ (x + y) * k = x * k + y * k
    BY <1>2
  <2> HIDE DEF c, f, m
  <2> QED BY <2>2, <2>3
<1>4. /\ c \in [Series -> Int] /\ f \in [Series -> Int] /\ m \in [Series -> Int]
      /\ c \in [Series -> Nat] /\ f \in [Series -> Nat] /\ m \in [Series -> Nat]
  <2>1. /\ DOMAIN c = Series /\ c = [s \in Series |-> c[s]]
        /\ DOMAIN f = Series /\ f = [s \in Series |-> f[s]]
        /\ DOMAIN m = Series /\ m = [s \in Series |-> m[s]]
    OBVIOUS
  <2> HIDE DEF c, f, m
  <2> QED BY <1>3, <2>1
<1>5. /\ CollateralOf(asks) = SumFunction(c)
      /\ FullCollateral = SumFunction(f) /\ MissingCollateral = SumFunction(m)
  BY DEF CollateralOf, FullCollateral, MissingCollateral, Charge
<1> HIDE DEF c, f, m
<1>6. SumFunction(f) = SumFunction(c) + SumFunction(m)
  BY <1>3, <1>4, Quantities, TotalAdd
<1>7. SumFunction(c) \in Nat /\ SumFunction(f) \in Nat /\ SumFunction(m) \in Nat
  BY <1>4, Quantities, TotalNat
<1> QED BY <1>5, <1>6, <1>7

(* The slack grows with the fills and the mishaps. *)
LEMMA AskSlackGrows ==
    ASSUME NEW n \in Nat, NEW i \in Nat
    PROVE  /\ AskSlack(n, i) \in Nat /\ LiftSlack(n) \in Nat
           /\ LiftSlack(n) <= AskSlack(n, i)
           /\ LiftSlack(n + 1) = LiftSlack(n) + TopStrike
           /\ AskSlack(n + 1, i) = AskSlack(n, i) + TopStrike
           /\ AskSlack(n, i + 1) = AskSlack(n, i) + 2 * Times(AskQty, TopStrike)
           /\ Times(AskQty, TopStrike) \in Nat
<1>1. PICK t \in Nat, a \in Nat : t = TopStrike /\ a = AskQty
  BY TopStrikeIs, Quantities
<1>2. PICK p \in Nat, q \in Nat, r \in Nat : p = n * t /\ q = a * t /\ r = i * q
  <2>1. \A x \in Nat, y \in Nat : x * y \in Nat
    OBVIOUS
  <2> QED BY <2>1
<1>3. AskSlack(n, i) = p + 2 * r
  <2>1. AskSlack(n, i) = (n + 2 * i * a) * t
    BY <1>1 DEF AskSlack
  <2>2. (n + 2 * i * a) * t = n * t + 2 * (i * (a * t))
    OBVIOUS
  <2> QED BY <1>2, <2>1, <2>2
<1>4. AskSlack(n + 1, i) = p + t + 2 * r
  <2>1. AskSlack(n + 1, i) = (n + 1 + 2 * i * a) * t
    BY <1>1 DEF AskSlack
  <2>2. (n + 1 + 2 * i * a) * t = n * t + t + 2 * (i * (a * t))
    OBVIOUS
  <2> QED BY <1>2, <2>1, <2>2
<1>5. AskSlack(n, i + 1) = p + 2 * r + 2 * q
  <2>1. AskSlack(n, i + 1) = (n + 2 * (i + 1) * a) * t
    BY <1>1 DEF AskSlack
  <2>2. (n + 2 * (i + 1) * a) * t = n * t + 2 * (i * (a * t)) + 2 * (a * t)
    OBVIOUS
  <2> QED BY <1>2, <2>1, <2>2
<1>6. LiftSlack(n) = p /\ LiftSlack(n + 1) = p + t /\ Times(AskQty, TopStrike) = q
  BY <1>1, <1>2 DEF Times, LiftSlack
<1> QED BY <1>1, <1>2, <1>3, <1>4, <1>5, <1>6

(* A mishap or none only adds to it. *)
LEMMA AskSlackStays ==
    ASSUME fills \in Nat, mishaps \in Nat, NoMishap \/ Mishap
    PROVE  /\ AskSlack(fills, mishaps') \in Nat
           /\ AskSlack(fills, mishaps) \in Nat
           /\ AskSlack(fills, mishaps) <= AskSlack(fills, mishaps')
<1>1. mishaps' = mishaps \/ mishaps' = mishaps + 1
  BY Zenon DEF NoMishap, Mishap
<1>2. mishaps + 1 \in Nat
  OBVIOUS
<1>3. /\ AskSlack(fills, mishaps) \in Nat /\ AskSlack(fills, mishaps + 1) \in Nat
      /\ AskSlack(fills, mishaps) <= AskSlack(fills, mishaps + 1)
  <2>1. PICK k \in Nat : k = AskSlack(fills, mishaps)
    BY AskSlackGrows
  <2>2. PICK q \in Nat : AskSlack(fills, mishaps + 1) = k + 2 * q
    BY <2>1, AskSlackGrows
  <2> QED BY <2>1, <2>2
<1> QED BY <1>1, <1>3

LEMMA BeginAsks ==
    ASSUME Structure, AskExposure, BeginReconcile
    PROVE  AskExposure'
<1>1. /\ asks' = asks /\ fills' = fills /\ mishaps' = mishaps
      /\ committed' = CollateralOf(asks)
  BY DEF BeginReconcile, chain, env
<1>2. FullCollateral' = FullCollateral /\ MissingCollateral' = MissingCollateral
  BY <1>1 DEF FullCollateral, MissingCollateral
<1>3. /\ CollateralOf(asks) \in Nat /\ FullCollateral \in Nat /\ MissingCollateral \in Nat
      /\ FullCollateral = CollateralOf(asks) + MissingCollateral
  BY CollateralSplit DEF Structure
<1>4. /\ LiftSlack(fills) \in Nat /\ AskSlack(fills, mishaps) \in Nat
      /\ LiftSlack(fills) <= AskSlack(fills, mishaps)
  BY AskSlackGrows DEF Structure, WriterTyped
<1>5. MissingCollateral <= LiftSlack(fills)
  BY DEF AskExposure
<1>6. FullCollateral <= CollateralOf(asks) + AskSlack(fills, mishaps)
  BY <1>3, <1>4, <1>5
<1> QED BY <1>1, <1>2, <1>6 DEF AskExposure

(* Steps that leave the asks alone. *)
LEMMA AsksAlone ==
    ASSUME Structure, AskExposure, UNCHANGED <<asks, fills>>,
           phase' # "asks" \/ UNCHANGED <<phase, committed>>,
           NoMishap \/ Mishap
    PROVE  AskExposure'
<1>1. FullCollateral' = FullCollateral /\ MissingCollateral' = MissingCollateral
  BY DEF FullCollateral, MissingCollateral
<1>2. FullCollateral \in Nat /\ committed \in Nat
  BY CollateralSplit DEF Structure, WriterTyped
<1>3. /\ AskSlack(fills, mishaps') \in Nat /\ AskSlack(fills, mishaps) \in Nat
      /\ AskSlack(fills, mishaps) <= AskSlack(fills, mishaps')
  BY AskSlackStays DEF Structure, WriterTyped
<1>4. FullCollateral <= MaxCollateral + AskSlack(fills, mishaps')
  BY <1>2, <1>3, Quantities DEF AskExposure
<1>5. phase = "asks" => FullCollateral <= committed + AskSlack(fills, mishaps')
  BY <1>2, <1>3 DEF AskExposure
<1> QED BY <1>1, <1>4, <1>5 DEF AskExposure

LEMMA AskAsks ==
    ASSUME Structure, AskExposure, NEW s \in Series, AskVisits(s)
    PROVE  AskExposure'
<1>1. AskTurn(s) /\ Visiting("asks", s) /\ Structure'
  BY AskTurns, AskStructure
<1>2. phase = "asks" /\ phase' = "asks" /\ fills' = fills
  BY <1>1 DEF Visiting, env
<1>3. \A x \in Series \ {s} : asks'[x] = asks[x]
  <2>1. asks' = [asks EXCEPT ![s] = asks'[s]]
    BY <1>1 DEF AskTurn
  <2> QED BY <2>1 DEF Structure, WriterTyped
<1> DEFINE F == [x \in Series |-> Full(asks[x], AskQty)]
           G == [x \in Series |-> Full(asks'[x], AskQty)]
           M == [x \in Series |-> Missing(asks[x], AskQty)]
           L == [x \in Series |-> Missing(asks'[x], AskQty)]
<1>4. \A x \in Series : /\ Full(asks[x], AskQty) \in Nat /\ Missing(asks[x], AskQty) \in Nat
                        /\ Full(asks'[x], AskQty) \in Nat /\ Missing(asks'[x], AskQty) \in Nat
  <2>1. \A x \in Series : Side(asks[x], AskQty) /\ Side(asks'[x], AskQty)
    BY <1>1 DEF Structure, Sides
  <2> QED BY <2>1, Quantities, CountsNat
<1>5. /\ F \in [Series -> Nat] /\ G \in [Series -> Nat] /\ M \in [Series -> Nat]
      /\ L \in [Series -> Nat]
      /\ \A x \in Series \ {s} : G[x] = F[x] /\ L[x] = M[x]
      /\ F[s] = Full(asks[s], AskQty) /\ G[s] = Full(asks'[s], AskQty)
      /\ M[s] = Missing(asks[s], AskQty) /\ L[s] = Missing(asks'[s], AskQty)
  BY <1>3, <1>4
<1>6. /\ FullCollateral = Charge(F) /\ FullCollateral' = Charge(G)
      /\ MissingCollateral = Charge(M) /\ MissingCollateral' = Charge(L)
  BY DEF FullCollateral, MissingCollateral, Charge
<1> HIDE DEF F, G, M, L
<1>7. PICK f \in Nat, m \in Nat : f = Charge(F) /\ m = Charge(M)
  <2>1. F[s] <= F[s] + 0 /\ M[s] <= M[s] + 0
    BY <1>5
  <2> QED BY <1>5, <2>1, ChargeGrows
<1>8. ASSUME NEW k \in Nat, G[s] <= F[s] + k
      PROVE  Charge(G) \in Nat /\ Charge(G) <= f + k * Collateral[s]
  BY <1>5, <1>7, <1>8, ChargeGrows
<1>9. Charge(L) \in Nat /\ Charge(L) <= m
  <2>1. L[s] <= M[s] + 0
    BY <1>1, <1>5 DEF AskTurn
  <2>2. Charge(L) \in Nat /\ Charge(L) <= m + 0 * Collateral[s]
    BY <1>5, <1>7, <2>1, ChargeGrows
  <2>3. 0 * Collateral[s] = 0
    BY Quantities
  <2> QED BY <2>2, <2>3
<1>10. PICK n \in Nat, i \in Nat, e \in Nat, v \in Nat :
         n = fills /\ i = mishaps /\ e = committed /\ v = committed'
  BY <1>1 DEF Structure, WriterTyped, AskTurn
<1>11. /\ m <= LiftSlack(n) /\ f <= MaxCollateral + AskSlack(n, i)
       /\ f <= e + AskSlack(n, i)
  BY <1>2, <1>6, <1>7, <1>10 DEF AskExposure
<1>12. PICK k \in Nat, t \in Nat :
         k = AskSlack(n, i) /\ t = Times(AskQty, TopStrike) /\ AskSlack(n, i + 1) = k + 2 * t
  <2>1. /\ AskSlack(n, i) \in Nat /\ Times(AskQty, TopStrike) \in Nat
        /\ AskSlack(n, i + 1) = AskSlack(n, i) + 2 * Times(AskQty, TopStrike)
    BY AskSlackGrows
  <2> QED BY <2>1, Zenon
<1>13. (NoMishap => mishaps' = i) /\ (Mishap => mishaps' = i + 1)
  BY <1>10, Zenon DEF NoMishap, Mishap
<1>14. PICK w \in Nat : w = AskSlack(n, mishaps') /\ k <= w
  <2>1. mishaps' = i \/ mishaps' = i + 1
    BY <1>1, <1>13 DEF AskTurn
  <2> QED BY <1>12, <2>1
<1>15. PICK a \in Nat, c \in Nat : a = AskQty /\ c = Collateral[s] /\ a * c <= t
  <2>1. PICK a \in Nat, c \in Nat, u \in Nat :
          a = AskQty /\ c = Collateral[s] /\ u = TopStrike /\ c <= u
    BY Quantities, TopStrikeIs
  <2>2. a * c <= a * u
    BY <2>1, TimesGrows
  <2> QED BY <1>12, <2>1, <2>2 DEF Times
<1>16. PICK r \in Nat : r = a * c /\ r <= t
  BY <1>15
<1>17. Charge(G) \in Nat /\ Charge(G) <= MaxCollateral + w /\ Charge(G) <= v + w
  <2>1. ASSUME Full(asks'[s], AskQty) <= Full(asks[s], AskQty), committed' = committed
        PROVE  Charge(G) \in Nat /\ Charge(G) <= MaxCollateral + w /\ Charge(G) <= v + w
    <3>1. G[s] <= F[s] + 0
      BY <1>5, <2>1
    <3>2. Charge(G) \in Nat /\ Charge(G) <= f + 0 * Collateral[s]
      BY <1>8, <3>1
    <3>3. 0 * Collateral[s] = 0
      BY Quantities
    <3> QED BY <1>10, <1>11, <1>12, <1>14, <2>1, <3>2, <3>3, Quantities
  <2>2. ASSUME Full(asks'[s], AskQty) <= Full(asks[s], AskQty) + 2 * AskQty,
               Mishap, committed <= committed'
        PROVE  Charge(G) \in Nat /\ Charge(G) <= MaxCollateral + w /\ Charge(G) <= v + w
    <3>1. G[s] <= F[s] + 2 * a
      BY <1>5, <1>15, <2>2
    <3>2. Charge(G) \in Nat /\ Charge(G) <= f + (2 * a) * c
      BY <1>8, <1>15, <3>1
    <3>3. (2 * a) * c = 2 * r
      BY <1>16
    <3>4. w = k + 2 * t
      BY <1>12, <1>13, <1>14, <2>2
    <3> QED BY <1>10, <1>11, <1>12, <1>16, <2>2, <3>2, <3>3, <3>4, Quantities
  <2>3. ASSUME Full(asks'[s], AskQty) = Full(asks[s], AskQty) + AskQty,
               committed' = committed + AskQty * Collateral[s],
               committed' <= MaxCollateral
        PROVE  Charge(G) \in Nat /\ Charge(G) <= MaxCollateral + w /\ Charge(G) <= v + w
    <3>1. G[s] <= F[s] + a
      BY <1>4, <1>5, <1>15, <2>3
    <3>2. Charge(G) \in Nat /\ Charge(G) <= f + a * c
      BY <1>8, <1>15, <3>1
    <3>3. v = e + r /\ v <= MaxCollateral
      BY <1>10, <1>15, <1>16, <2>3
    <3> QED BY <1>11, <1>12, <1>14, <1>16, <3>2, <3>3, Quantities
  <2> QED BY <1>1, <2>1, <2>2, <2>3 DEF AskTurn
<1>18. m <= LiftSlack(n) /\ LiftSlack(n) \in Nat
  BY <1>11, AskSlackGrows
<1>19. Charge(L) <= LiftSlack(n)
  BY <1>9, <1>18
<1> QED BY <1>2, <1>6, <1>10, <1>14, <1>17, <1>19 DEF AskExposure

LEMMA FillAskAsks ==
    ASSUME Structure, AskExposure, NEW s \in Series, FillAsk(s)
    PROVE  AskExposure'
<1>1. PICK o \in asks[s] :
        /\ asks'[s] = Lifted(asks[s], o) /\ Side(asks[s], AskQty)
        /\ \A x \in Series \ {s} : asks'[x] = asks[x]
  BY FillAskLifts
<1>2. /\ fills' = fills + 1
      /\ UNCHANGED <<phase, committed, mishaps>>
  BY DEF FillAsk, Outsiders, locals
<1>3. /\ Full(asks'[s], AskQty) <= Full(asks[s], AskQty)
      /\ Missing(asks'[s], AskQty) <= Missing(asks[s], AskQty) + 1
  BY <1>1, Quantities, LiftedSide
<1> DEFINE F == [x \in Series |-> Full(asks[x], AskQty)]
           G == [x \in Series |-> Full(asks'[x], AskQty)]
           M == [x \in Series |-> Missing(asks[x], AskQty)]
           L == [x \in Series |-> Missing(asks'[x], AskQty)]
<1>4. \A x \in Series : /\ Full(asks[x], AskQty) \in Nat /\ Missing(asks[x], AskQty) \in Nat
                        /\ Full(asks'[x], AskQty) \in Nat /\ Missing(asks'[x], AskQty) \in Nat
  <2>1. Structure'
    BY FillAskStructure
  <2>2. \A x \in Series : Side(asks[x], AskQty) /\ Side(asks'[x], AskQty)
    BY <2>1 DEF Structure, Sides
  <2> QED BY <2>2, Quantities, CountsNat
<1>5. /\ F \in [Series -> Nat] /\ G \in [Series -> Nat] /\ M \in [Series -> Nat]
      /\ L \in [Series -> Nat]
      /\ \A x \in Series \ {s} : G[x] = F[x] /\ L[x] = M[x]
      /\ F[s] = Full(asks[s], AskQty) /\ G[s] = Full(asks'[s], AskQty)
      /\ M[s] = Missing(asks[s], AskQty) /\ L[s] = Missing(asks'[s], AskQty)
  BY <1>1, <1>4
<1>6. /\ FullCollateral = Charge(F) /\ FullCollateral' = Charge(G)
      /\ MissingCollateral = Charge(M) /\ MissingCollateral' = Charge(L)
  BY DEF FullCollateral, MissingCollateral, Charge
<1> HIDE DEF F, G, M, L
<1>7. PICK c \in Nat : c = Collateral[s] /\ c <= TopStrike
  BY Quantities, TopStrikeIs
<1>8. /\ Charge(F) \in Nat /\ Charge(G) \in Nat /\ Charge(G) <= Charge(F)
  <2>1. G[s] <= F[s] + 0
    BY <1>3, <1>4, <1>5
  <2>2. /\ Charge(F) \in Nat /\ Charge(G) \in Nat
        /\ Charge(G) <= Charge(F) + 0 * Collateral[s]
    BY <1>5, <2>1, ChargeGrows
  <2>3. 0 * Collateral[s] = 0
    BY Quantities
  <2> QED BY <2>2, <2>3
<1>9. /\ Charge(M) \in Nat /\ Charge(L) \in Nat /\ Charge(L) <= Charge(M) + c
  <2>1. L[s] <= M[s] + 1
    BY <1>3, <1>5
  <2>2. /\ Charge(M) \in Nat /\ Charge(L) \in Nat
        /\ Charge(L) <= Charge(M) + 1 * Collateral[s]
    BY <1>5, <2>1, ChargeGrows
  <2>3. 1 * Collateral[s] = c
    BY <1>7
  <2> QED BY <2>2, <2>3
<1>10. PICK n \in Nat, i \in Nat : n = fills /\ i = mishaps
  BY DEF Structure, WriterTyped
<1>11. PICK k \in Nat, p \in Nat, u \in Nat :
         /\ k = AskSlack(n, i) /\ p = LiftSlack(n) /\ u = TopStrike
         /\ LiftSlack(n + 1) = p + u /\ AskSlack(n + 1, i) = k + u
  <2>1. /\ AskSlack(n, i) \in Nat /\ LiftSlack(n) \in Nat
        /\ LiftSlack(n + 1) = LiftSlack(n) + TopStrike
        /\ AskSlack(n + 1, i) = AskSlack(n, i) + TopStrike
    BY AskSlackGrows
  <2> QED BY <2>1, TopStrikeIs, Zenon
<1>12. Charge(L) <= LiftSlack(n + 1)
  <2>1. Charge(M) <= p
    BY <1>6, <1>10, <1>11 DEF AskExposure
  <2> QED BY <1>7, <1>9, <1>11, <2>1
<1>13. Charge(G) <= MaxCollateral + AskSlack(n + 1, i)
  <2>1. Charge(F) <= MaxCollateral + k
    BY <1>6, <1>10, <1>11 DEF AskExposure
  <2> QED BY <1>8, <1>11, <2>1, Quantities
<1>14. phase = "asks" => Charge(G) <= committed + AskSlack(n + 1, i)
  <2>1. ASSUME phase = "asks" PROVE Charge(G) <= committed + AskSlack(n + 1, i)
    <3>1. Charge(F) <= committed + k /\ committed \in Nat
      BY <1>6, <1>10, <1>11, <2>1 DEF AskExposure, Structure, WriterTyped
    <3> QED BY <1>8, <1>11, <3>1
  <2> QED BY <2>1
<1> QED BY <1>2, <1>6, <1>10, <1>12, <1>13, <1>14 DEF AskExposure

LEMMA AskExposureKept ==
    ASSUME Structure, AskExposure, [WNext]_wvars
    PROVE  AskExposure'
<1>1. ASSUME EndAsks \/ Enumerate PROVE AskExposure'
  <2>1. UNCHANGED <<asks, fills>> /\ phase' # "asks" /\ NoMishap
    BY <1>1 DEF EndAsks, Enumerate, chain, env, NoMishap
  <2> QED BY <2>1, AsksAlone
<1>2. ASSUME Forget, NoMishap \/ Mishap PROVE AskExposure'
  <2>1. UNCHANGED <<asks, fills>> /\ phase' # "asks"
    BY <1>2 DEF Forget, chain, env
  <2> QED BY <1>2, <2>1, AsksAlone
<1>3. ASSUME NEW s \in Series, BidVisits(s) PROVE AskExposure'
  <2>1. BidTurn(s) /\ Visiting("quote", s) /\ asks' = asks
    BY <1>3, BidTurns
  <2>2. UNCHANGED <<asks, fills>> /\ phase' # "asks" /\ (NoMishap \/ Mishap)
    BY <2>1 DEF BidTurn, Visiting, env
  <2> QED BY <2>2, AsksAlone
<1>4. ASSUME UNCHANGED <<asks, phase, committed, mishaps>>, fills' = fills
      PROVE  AskExposure'
  BY <1>4 DEF AskExposure, FullCollateral, MissingCollateral
<1>5. ASSUME NEW s \in Series, FillBid(s) PROVE AskExposure'
  <2>1. /\ UNCHANGED <<asks, phase, committed, mishaps>> /\ fills' = fills + 1
    BY <1>5 DEF FillBid, Outsiders, locals
  <2>2. PICK n \in Nat, i \in Nat, e \in Nat :
          n = fills /\ i = mishaps /\ e = committed
    BY DEF Structure, WriterTyped
  <2>3. PICK k \in Nat, p \in Nat, u \in Nat :
          /\ k = AskSlack(n, i) /\ p = LiftSlack(n) /\ u = TopStrike
          /\ LiftSlack(n + 1) = p + u /\ AskSlack(n + 1, i) = k + u
    <3>1. /\ AskSlack(n, i) \in Nat /\ LiftSlack(n) \in Nat
          /\ LiftSlack(n + 1) = LiftSlack(n) + TopStrike
          /\ AskSlack(n + 1, i) = AskSlack(n, i) + TopStrike
      BY AskSlackGrows
    <3> QED BY <3>1, TopStrikeIs, Zenon
  <2>4. FullCollateral' = FullCollateral /\ MissingCollateral' = MissingCollateral
    BY <2>1 DEF FullCollateral, MissingCollateral
  <2>5. FullCollateral \in Nat /\ MissingCollateral \in Nat
    BY CollateralSplit DEF Structure
  <2>6. MissingCollateral <= p /\ FullCollateral <= MaxCollateral + k
    BY <2>2, <2>3 DEF AskExposure
  <2>7. MissingCollateral <= LiftSlack(n + 1)
        /\ FullCollateral <= MaxCollateral + AskSlack(n + 1, i)
    BY <2>3, <2>5, <2>6, Quantities
  <2>8. ASSUME phase = "asks" PROVE FullCollateral <= e + AskSlack(n + 1, i)
    <3>1. FullCollateral <= e + k
      BY <2>2, <2>3, <2>8 DEF AskExposure
    <3> QED BY <2>3, <2>5, <3>1
  <2> QED BY <2>1, <2>2, <2>4, <2>7, <2>8 DEF AskExposure
<1>6. ASSUME NEW s \in Series, NEW m, Move(s, m) PROVE AskExposure'
  BY <1>4, <1>6 DEF Move, Outsiders, locals
<1>7. ASSUME UNCHANGED wvars PROVE AskExposure'
  BY <1>4, <1>7 DEF wvars, chain, locals, env
<1> QED BY <1>1, <1>2, <1>3, <1>5, <1>6, <1>7, StepCases, BeginAsks, AskAsks, FillAskAsks

LEMMA AskExposureInit == WInit => AskExposure
<1> SUFFICES ASSUME WInit PROVE AskExposure
  OBVIOUS
<1>1. phase = "idle" /\ fills = 0 /\ mishaps = 0 /\ \A s \in Series : asks[s] = {}
  BY DEF WInit, Nothing
<1> DEFINE z == [s \in Series |-> 0]
<1>2. Full({}, AskQty) = 0 /\ Missing({}, AskQty) = 0
  BY Quantities, EmptySide
<1>3. /\ \A s \in Series : Full(asks[s], AskQty) * Collateral[s] = 0
      /\ \A s \in Series : Missing(asks[s], AskQty) * Collateral[s] = 0
  <2>1. \A x \in Nat : 0 * x = 0
    OBVIOUS
  <2>2. /\ \A s \in Series : Collateral[s] \in Nat
        /\ \A s \in Series : Full(asks[s], AskQty) = 0 /\ Missing(asks[s], AskQty) = 0
    BY <1>1, <1>2, Quantities
  <2> QED BY <2>1, <2>2, Zenon
<1>4. FullCollateral = SumFunction(z) /\ MissingCollateral = SumFunction(z)
  <2>1. /\ [s \in Series |-> Full(asks[s], AskQty) * Collateral[s]] = z
        /\ [s \in Series |-> Missing(asks[s], AskQty) * Collateral[s]] = z
    BY <1>3
  <2>2. /\ FullCollateral = SumFunction([s \in Series |-> Full(asks[s], AskQty) * Collateral[s]])
        /\ MissingCollateral
             = SumFunction([s \in Series |-> Missing(asks[s], AskQty) * Collateral[s]])
    BY DEF FullCollateral, MissingCollateral, Charge
  <2> QED BY <2>1, <2>2, Zenon
<1>5. SumFunction(z) = 0
  <2>1. z \in [Series -> Int] /\ \A s \in Series : z[s] = 0
    OBVIOUS
  <2> HIDE DEF z
  <2> QED BY <2>1, Quantities, TotalZero
<1>6. AskSlack(0, 0) \in Nat /\ LiftSlack(0) \in Nat
  BY AskSlackGrows
<1>7. FullCollateral <= MaxCollateral + AskSlack(fills, mishaps)
      /\ MissingCollateral <= LiftSlack(fills)
  BY <1>1, <1>4, <1>5, <1>6, Quantities
<1> QED BY <1>1, <1>7 DEF AskExposure

---------------------------------------------------------------------------
(* The notional of the bids. *)

(* The slack grows with the mishaps. *)
LEMMA BidSlackGrows ==
    ASSUME NEW i \in Nat
    PROVE  /\ BidSlack(i) \in Nat /\ Times(BidQty, TopBid) \in Nat
           /\ BidSlack(i + 1) = BidSlack(i) + 2 * Times(BidQty, TopBid)
<1>1. PICK b \in Nat, t \in Nat : b = BidQty /\ t = TopBid
  BY TopBidIs, Quantities
<1>2. PICK q \in Nat, r \in Nat : q = b * t /\ r = i * q
  <2>1. \A x \in Nat, y \in Nat : x * y \in Nat
    OBVIOUS
  <2> QED BY <2>1
<1>3. BidSlack(i) = 2 * r
  <2>1. BidSlack(i) = 2 * i * b * t
    BY <1>1 DEF BidSlack
  <2>2. 2 * i * b * t = 2 * (i * (b * t))
    OBVIOUS
  <2> QED BY <1>2, <2>1, <2>2
<1>4. BidSlack(i + 1) = 2 * r + 2 * q
  <2>1. BidSlack(i + 1) = 2 * (i + 1) * b * t
    BY <1>1 DEF BidSlack
  <2>2. 2 * (i + 1) * b * t = 2 * (i * (b * t)) + 2 * (b * t)
    OBVIOUS
  <2> QED BY <1>2, <2>1, <2>2
<1>5. Times(BidQty, TopBid) = q
  BY <1>1, <1>2 DEF Times
<1> QED BY <1>3, <1>4, <1>5

LEMMA BidSlackStays ==
    ASSUME mishaps \in Nat, NoMishap \/ Mishap
    PROVE  /\ BidSlack(mishaps') \in Nat /\ BidSlack(mishaps) \in Nat
           /\ BidSlack(mishaps) <= BidSlack(mishaps')
           /\ Times(BidQty, TopBid) \in Nat
           /\ Mishap => BidSlack(mishaps') = BidSlack(mishaps) + 2 * Times(BidQty, TopBid)
<1>1. /\ mishaps' = mishaps \/ mishaps' = mishaps + 1
      /\ Mishap => mishaps' = mishaps + 1
  BY Zenon DEF NoMishap, Mishap
<1>2. /\ BidSlack(mishaps) \in Nat /\ Times(BidQty, TopBid) \in Nat
      /\ BidSlack(mishaps + 1) = BidSlack(mishaps) + 2 * Times(BidQty, TopBid)
  BY BidSlackGrows
<1>3. /\ BidSlack(mishaps + 1) \in Nat
      /\ BidSlack(mishaps) <= BidSlack(mishaps + 1) /\ BidSlack(mishaps) <= BidSlack(mishaps)
  BY <1>2
<1> QED BY <1>1, <1>2, <1>3, Zenon

(* What is counted for a series covers what its bids pay. *)
LEMMA CountedCovers ==
    ASSUME Structure
    PROVE  /\ \A s \in Series : /\ Notional(bids[s]) \in Nat /\ Counted(s) \in Nat
                                /\ Notional(bids[s]) <= Counted(s)
           /\ NotionalOf(bids) \in Nat /\ SumFunction([s \in Series |-> Counted(s)]) \in Nat
           /\ NotionalOf(bids) <= SumFunction([s \in Series |-> Counted(s)])
<1> DEFINE v == [s \in Series |-> Notional(bids[s])]
           c == [s \in Series |-> Counted(s)]
<1>1. ASSUME NEW s \in Series
      PROVE  /\ Notional(bids[s]) \in Nat /\ Counted(s) \in Nat
             /\ Notional(bids[s]) <= Counted(s)
  <2>1. Side(bids[s], BidQty) /\ BidQty \in Nat
    BY Quantities DEF Structure, Sides
  <2>2. Notional(bids[s]) \in Nat
    BY <2>1, CountsNat
  <2>3. CASE Awaiting(s)
    <3>1. Side(snap[s], BidQty) /\ Shrunk(bids[s], snap[s])
      BY <2>3 DEF Structure, Enumerated
    <3>2. Notional(snap[s]) \in Nat /\ Notional(bids[s]) <= Notional(snap[s])
      BY <2>1, <3>1, CountsNat, ShrunkSide
    <3> QED BY <2>2, <2>3, <3>2 DEF Counted
  <2>4. CASE ~Awaiting(s)
    <3>1. Counted(s) = Notional(bids[s])
      BY <2>4 DEF Counted
    <3> QED BY <2>2, <3>1
  <2> QED BY <2>3, <2>4
<1>2. /\ v \in [Series -> Nat] /\ c \in [Series -> Nat]
      /\ v \in [Series -> Int] /\ c \in [Series -> Int]
      /\ \A s \in Series : v[s] <= c[s]
  BY <1>1
<1>3. NotionalOf(bids) = SumFunction(v)
  BY DEF NotionalOf
<1> HIDE DEF v, c
<1>4. SumFunction(v) \in Nat /\ SumFunction(c) \in Nat /\ SumFunction(v) <= SumFunction(c)
  BY <1>2, Quantities, TotalNat, TotalMonotone
<1> QED BY <1>1, <1>3, <1>4 DEF c

(* Steps that leave the bids alone. *)
LEMMA BidsAlone ==
    ASSUME Structure, BidExposure, UNCHANGED bids, NoMishap \/ Mishap,
           phase' \notin {"longs", "quote"}
    PROVE  BidExposure'
<1>1. NotionalOf(bids)' = NotionalOf(bids)
  BY DEF NotionalOf
<1>2. /\ BidSlack(mishaps') \in Nat /\ BidSlack(mishaps) \in Nat
      /\ BidSlack(mishaps) <= BidSlack(mishaps')
  BY BidSlackStays DEF Structure, WriterTyped
<1>3. NotionalOf(bids) \in Nat /\ NotionalOf(bids) <= MaxBidNotional + BidSlack(mishaps)
  BY CountedCovers DEF BidExposure
<1>4. NotionalOf(bids) <= MaxBidNotional + BidSlack(mishaps')
  BY <1>2, <1>3, Quantities
<1> QED BY <1>1, <1>4 DEF BidExposure

LEMMA EnumerateBids ==
    ASSUME Structure, BidExposure, Enumerate
    PROVE  BidExposure'
<1>1. bids' = bids /\ mishaps' = mishaps
  BY DEF Enumerate, chain
<1>2. NotionalOf(bids)' = NotionalOf(bids)
  BY <1>1 DEF NotionalOf
<1>3. NotionalOf(bids) <= MaxBidNotional + BidSlack(mishaps)
  BY DEF BidExposure
<1>4. CASE phase = "bids"
  <2>1. phase' = "longs" /\ snap' = bids /\ notional' = NotionalOf(bids)
    BY <1>4 DEF Enumerate
  <2>2. \A s \in Series : Counted(s)' = Notional(bids[s])
    BY <1>1, <2>1 DEF Counted, Awaiting
  <2>3. SumFunction([s \in Series |-> Counted(s)])' = NotionalOf(bids)
    BY <2>2 DEF NotionalOf
  <2>4. NotionalOf(bids) \in Nat /\ BidSlack(mishaps) \in Nat
    BY CountedCovers, BidSlackGrows DEF Structure, WriterTyped
  <2>5. NotionalOf(bids) <= NotionalOf(bids) + BidSlack(mishaps)
    BY <2>4
  <2> QED BY <1>1, <1>2, <1>3, <2>1, <2>3, <2>5 DEF BidExposure
<1>5. CASE phase # "bids"
  <2>1. /\ phase = "longs" /\ phase' = "quote" /\ unvisited' = Series
        /\ snap' = snap /\ notional' = notional
    BY <1>5 DEF Enumerate
  <2>2. \A s \in Series : Counted(s)' = Counted(s)
    BY <1>1, <2>1 DEF Counted, Awaiting
  <2>3. SumFunction([s \in Series |-> Counted(s)])' = SumFunction([s \in Series |-> Counted(s)])
    BY <2>2
  <2> QED BY <1>1, <1>2, <1>3, <2>1, <2>3 DEF BidExposure
<1> QED BY <1>4, <1>5

(* A step of one series. *)
LEMMA BidsOfOne ==
    ASSUME Structure, Structure', NEW s \in Series,
           \A x \in Series \ {s} : bids'[x] = bids[x] /\ Counted(x)' = Counted(x)
    PROVE  /\ \A k \in Nat : Notional(bids'[s]) <= Notional(bids[s]) + k =>
                NotionalOf(bids)' <= NotionalOf(bids) + k
           /\ \A k \in Nat : Counted(s)' <= Counted(s) + k =>
                SumFunction([x \in Series |-> Counted(x)])'
                  <= SumFunction([x \in Series |-> Counted(x)]) + k
           /\ NotionalOf(bids)' \in Nat
           /\ SumFunction([x \in Series |-> Counted(x)])' \in Nat
           /\ NotionalOf(bids)' <= SumFunction([x \in Series |-> Counted(x)])'
<1> DEFINE v == [x \in Series |-> Notional(bids[x])]
           w == [x \in Series |-> Notional(bids'[x])]
           c == [x \in Series |-> Counted(x)]
           d == [x \in Series |-> Counted(x)']
<1>1. \A x \in Series : Notional(bids[x]) \in Nat /\ Counted(x) \in Nat
  BY CountedCovers
<1>2. ASSUME NEW x \in Series
      PROVE  /\ Notional(bids'[x]) \in Nat /\ Counted(x)' \in Nat
             /\ Notional(bids'[x]) <= Counted(x)'
  <2>1. Side(bids'[x], BidQty) /\ BidQty \in Nat
    BY Quantities DEF Structure, Sides
  <2>2. Notional(bids'[x]) \in Nat
    BY <2>1, CountsNat
  <2>3. CASE Awaiting(x)'
    <3>1. Side(snap'[x], BidQty) /\ Shrunk(bids'[x], snap'[x])
      BY <2>3 DEF Structure, Enumerated
    <3>2. Notional(snap'[x]) \in Nat /\ Notional(bids'[x]) <= Notional(snap'[x])
      BY <2>1, <3>1, CountsNat, ShrunkSide
    <3>3. Counted(x)' = Notional(snap'[x])
      BY <2>3 DEF Counted
    <3> QED BY <2>2, <3>2, <3>3
  <2>4. CASE ~Awaiting(x)'
    <3>1. Counted(x)' = Notional(bids'[x])
      BY <2>4 DEF Counted
    <3> QED BY <2>2, <3>1
  <2> QED BY <2>3, <2>4
<1>3. /\ v \in [Series -> Nat] /\ w \in [Series -> Nat]
      /\ c \in [Series -> Nat] /\ d \in [Series -> Nat]
      /\ w \in [Series -> Int] /\ d \in [Series -> Int]
      /\ \A x \in Series \ {s} : w[x] = v[x] /\ d[x] = c[x]
      /\ v[s] = Notional(bids[s]) /\ w[s] = Notional(bids'[s])
      /\ c[s] = Counted(s) /\ d[s] = Counted(s)'
      /\ \A x \in Series : w[x] <= d[x]
  BY <1>1, <1>2
<1>4. /\ NotionalOf(bids) = SumFunction(v) /\ NotionalOf(bids)' = SumFunction(w)
      /\ SumFunction([x \in Series |-> Counted(x)]) = SumFunction(c)
      /\ SumFunction([x \in Series |-> Counted(x)])' = SumFunction(d)
  BY DEF NotionalOf
<1> HIDE DEF v, w, c, d
<1>5. ASSUME NEW k \in Nat, w[s] <= v[s] + k PROVE SumFunction(w) <= SumFunction(v) + k
  BY <1>3, <1>5, TotalGrows
<1>6. ASSUME NEW k \in Nat, d[s] <= c[s] + k PROVE SumFunction(d) <= SumFunction(c) + k
  BY <1>3, <1>6, TotalGrows
<1>7. SumFunction(w) \in Nat /\ SumFunction(d) \in Nat /\ SumFunction(w) <= SumFunction(d)
  BY <1>3, Quantities, TotalNat, TotalMonotone
<1> QED BY <1>3, <1>4, <1>5, <1>6, <1>7

LEMMA BidBids ==
    ASSUME Structure, BidExposure, NEW s \in Series, BidVisits(s)
    PROVE  BidExposure'
<1>1. BidTurn(s) /\ Visiting("quote", s) /\ Structure'
  BY BidTurns, BidStructure
<1>2. /\ phase = "quote" /\ phase' = "quote" /\ snap' = snap
      /\ s \in unvisited /\ unvisited' = unvisited \ {s}
  BY <1>1 DEF Visiting
<1>3. \A x \in Series \ {s} : bids'[x] = bids[x]
  <2>1. bids' = [bids EXCEPT ![s] = bids'[s]]
    BY <1>1 DEF BidTurn
  <2> QED BY <2>1 DEF Structure, WriterTyped
<1>4. \A x \in Series \ {s} : Counted(x)' = Counted(x)
  BY <1>2, <1>3 DEF Counted, Awaiting
<1>5. Counted(s) = Notional(snap[s]) /\ Counted(s)' = Notional(bids'[s])
  BY <1>2 DEF Counted, Awaiting
<1>6. PICK N \in Nat, C \in Nat, N1 \in Nat, C1 \in Nat :
        /\ N = NotionalOf(bids) /\ C = SumFunction([x \in Series |-> Counted(x)])
        /\ N1 = NotionalOf(bids)' /\ C1 = SumFunction([x \in Series |-> Counted(x)])'
        /\ N1 <= C1
        /\ \A k \in Nat : Notional(bids'[s]) <= Notional(bids[s]) + k => N1 <= N + k
        /\ \A k \in Nat : Counted(s)' <= Counted(s) + k => C1 <= C + k
  <2>1. NotionalOf(bids) \in Nat /\ SumFunction([x \in Series |-> Counted(x)]) \in Nat
    BY CountedCovers
  <2>2. /\ \A k \in Nat : Notional(bids'[s]) <= Notional(bids[s]) + k =>
                NotionalOf(bids)' <= NotionalOf(bids) + k
        /\ \A k \in Nat : Counted(s)' <= Counted(s) + k =>
                SumFunction([x \in Series |-> Counted(x)])'
                  <= SumFunction([x \in Series |-> Counted(x)]) + k
        /\ NotionalOf(bids)' \in Nat
        /\ SumFunction([x \in Series |-> Counted(x)])' \in Nat
        /\ NotionalOf(bids)' <= SumFunction([x \in Series |-> Counted(x)])'
    BY <1>1, <1>3, <1>4, BidsOfOne
  <2> QED BY <2>1, <2>2, Zenon
<1>7. /\ (NoMishap \/ Mishap) /\ mishaps \in Nat
      /\ notional \in Nat /\ notional' \in Nat /\ notional <= notional'
  BY <1>1 DEF BidTurn, Structure, WriterTyped
<1>8. PICK k \in Nat, w \in Nat, t \in Nat :
        /\ k = BidSlack(mishaps) /\ w = BidSlack(mishaps') /\ t = Times(BidQty, TopBid)
        /\ k <= w /\ (Mishap => w = k + 2 * t)
  <2>1. NoMishap \/ Mishap
    BY <1>1 DEF BidTurn
  <2>2. /\ BidSlack(mishaps') \in Nat /\ BidSlack(mishaps) \in Nat
        /\ BidSlack(mishaps) <= BidSlack(mishaps')
        /\ Times(BidQty, TopBid) \in Nat
        /\ Mishap => BidSlack(mishaps') = BidSlack(mishaps) + 2 * Times(BidQty, TopBid)
    BY <1>7, <2>1, BidSlackStays
  <2> QED BY <2>2, Zenon
<1>9. N <= MaxBidNotional + k /\ C <= notional + k
  BY <1>2, <1>6, <1>8 DEF BidExposure
<1>10. PICK b \in Nat, b1 \in Nat, z \in Nat :
         /\ b = Notional(bids[s]) /\ b1 = Notional(bids'[s]) /\ z = Notional(snap[s])
         /\ b <= z
  <2>1. Notional(bids[s]) \in Nat /\ Counted(s) \in Nat /\ Notional(bids[s]) <= Counted(s)
    BY CountedCovers
  <2>2. Side(bids'[s], BidQty)
    BY <1>1 DEF BidTurn
  <2>3. Notional(bids'[s]) \in Nat
    BY <2>2, Quantities, CountsNat
  <2> QED BY <1>5, <2>1, <2>3
<1>11. /\ \A j \in Nat : b1 <= b + j => N1 <= N + j
       /\ \A j \in Nat : b1 <= z + j => C1 <= C + j
  BY <1>5, <1>6, <1>10
<1>12. PICK e \in Nat, e1 \in Nat : e = notional /\ e1 = notional' /\ e <= e1 /\ C <= e + k
  BY <1>7, <1>9
<1> DEFINE M == MaxBidNotional
<1>13. M \in Nat /\ N <= M + k /\ C <= e + k /\ e <= e1 /\ N1 <= C1 /\ k <= w
  BY <1>6, <1>8, <1>9, <1>12, Quantities
<1> HIDE DEF M
<1>14. N1 <= M + w /\ C1 <= e1 + w
  <2>1. ASSUME Lessened(s) PROVE N1 <= M + w /\ C1 <= e1 + w
    <3>1. b1 <= b + 0 /\ b1 <= z + 0
      BY <1>10, <2>1 DEF Lessened
    <3>2. N1 <= N + 0 /\ C1 <= C + 0
      BY <1>11, <3>1
    <3> QED BY <1>13, <3>2
  <2>2. ASSUME Excess(s) PROVE N1 <= M + w /\ C1 <= e1 + w
    <3>1. b1 <= b + 2 * t /\ b1 <= z + 2 * t /\ 2 * t \in Nat
      BY <1>8, <1>10, <2>2 DEF Excess
    <3>2. N1 <= N + 2 * t /\ C1 <= C + 2 * t
      BY <1>11, <3>1
    <3>3. w = k + 2 * t
      BY <1>8, <2>2 DEF Excess
    <3> QED BY <1>13, <3>2, <3>3
  <2>3. ASSUME Quoted(s) PROVE N1 <= M + w /\ C1 <= e1 + w
    <3>1. b1 <= z + (e1 - e) /\ e1 <= M /\ e1 - e \in Nat
      <4>1. /\ Notional(bids'[s]) <= Notional(snap[s]) + (notional' - notional)
            /\ notional' <= M
        BY <2>3 DEF Quoted, M
      <4>2. b1 <= z + (e1 - e) /\ e1 <= M
        BY <1>10, <1>12, <4>1, Zenon
      <4> QED BY <1>13, <4>2
    <3>2. C1 <= C + (e1 - e)
      BY <1>11, <3>1
    <3>3. C1 <= e1 + k
      BY <1>13, <3>2
    <3> QED BY <1>13, <3>1, <3>3
  <2> QED BY <1>1, <2>1, <2>2, <2>3 DEF BidTurn
<1> QED BY <1>6, <1>8, <1>12, <1>14, Zenon DEF BidExposure, M

LEMMA FillBidBids ==
    ASSUME Structure, BidExposure, NEW s \in Series, FillBid(s)
    PROVE  BidExposure'
<1>1. PICK o \in bids[s] :
        /\ bids'[s] = Lifted(bids[s], o) /\ Side(bids[s], BidQty)
        /\ \A x \in Series \ {s} : bids'[x] = bids[x]
  BY FillBidLifts
<1>2. UNCHANGED <<phase, unvisited, snap, notional, mishaps>>
  BY DEF FillBid, Outsiders, locals
<1>3. \A x \in Series \ {s} : Counted(x)' = Counted(x)
  BY <1>1, <1>2 DEF Counted, Awaiting
<1>4. Notional(bids[s]) \in Nat /\ Notional(bids'[s]) <= Notional(bids[s])
  BY <1>1, Quantities, CountsNat, LiftedSide
<1>5. Side(bids'[s], BidQty)
  BY <1>1, Quantities, LiftedSide
<1>6. Notional(bids'[s]) \in Nat
  BY <1>5, Quantities, CountsNat
<1>7. Counted(s)' <= Counted(s) + 0 /\ Notional(bids'[s]) <= Notional(bids[s]) + 0
  <2>1. Counted(s) \in Nat
    BY CountedCovers
  <2>2. CASE Awaiting(s)
    <3>1. Counted(s)' = Counted(s)
      BY <1>2, <2>2 DEF Counted, Awaiting
    <3> QED BY <1>4, <1>6, <2>1, <3>1
  <2>3. CASE ~Awaiting(s)
    <3>1. Counted(s)' = Notional(bids'[s]) /\ Counted(s) = Notional(bids[s])
      BY <1>2, <2>3 DEF Counted, Awaiting
    <3> QED BY <1>4, <1>6, <3>1
  <2> QED BY <2>2, <2>3
<1>8. Structure'
  BY FillBidStructure
<1>9. /\ NotionalOf(bids)' <= NotionalOf(bids) + 0
      /\ SumFunction([x \in Series |-> Counted(x)])'
           <= SumFunction([x \in Series |-> Counted(x)]) + 0
      /\ NotionalOf(bids)' \in Nat /\ SumFunction([x \in Series |-> Counted(x)])' \in Nat
  BY <1>1, <1>3, <1>7, <1>8, BidsOfOne
<1>10. PICK N \in Nat, C \in Nat, N1 \in Nat, C1 \in Nat :
        /\ N = NotionalOf(bids) /\ C = SumFunction([x \in Series |-> Counted(x)])
        /\ N1 = NotionalOf(bids)' /\ C1 = SumFunction([x \in Series |-> Counted(x)])'
        /\ N1 <= N /\ C1 <= C
  <2>1. NotionalOf(bids) \in Nat /\ SumFunction([x \in Series |-> Counted(x)]) \in Nat
    BY CountedCovers
  <2>2. \A x \in Nat, y \in Nat : x <= y + 0 => x <= y
    OBVIOUS
  <2> QED BY <1>9, <2>1, <2>2, Zenon
<1>11. PICK k \in Nat, e \in Nat : k = BidSlack(mishaps) /\ e = notional
  BY BidSlackGrows DEF Structure, WriterTyped
<1>12. N1 <= MaxBidNotional + k
  <2>1. N <= MaxBidNotional + k
    BY <1>10, <1>11 DEF BidExposure
  <2> QED BY <1>10, <1>11, <2>1, Quantities
<1>13. phase \in {"longs", "quote"} => C1 <= e + k
  <2>1. ASSUME phase \in {"longs", "quote"} PROVE C1 <= e + k
    <3>1. C <= e + k
      BY <1>10, <1>11, <2>1 DEF BidExposure
    <3> QED BY <1>10, <1>11, <3>1
  <2> QED BY <2>1
<1> QED BY <1>2, <1>10, <1>11, <1>12, <1>13 DEF BidExposure

LEMMA BidExposureKept ==
    ASSUME Structure, BidExposure, [WNext]_wvars
    PROVE  BidExposure'
<1>1. ASSUME BeginReconcile \/ EndAsks PROVE BidExposure'
  <2>1. /\ bids' = bids /\ mishaps' = mishaps /\ phase' \notin {"longs", "quote"}
    BY <1>1 DEF BeginReconcile, EndAsks, chain
  <2>2. NotionalOf(bids)' = NotionalOf(bids)
    BY <2>1 DEF NotionalOf
  <2> QED BY <2>1, <2>2 DEF BidExposure
<1>2. ASSUME Forget, NoMishap \/ Mishap PROVE BidExposure'
  <2>1. bids' = bids /\ phase' \notin {"longs", "quote"}
    BY <1>2 DEF Forget, chain
  <2> QED BY <1>2, <2>1, BidsAlone
<1>3. ASSUME NEW s \in Series, AskVisits(s) PROVE BidExposure'
  <2>1. AskTurn(s) /\ Visiting("asks", s) /\ bids' = bids
    BY <1>3, AskTurns
  <2>2. phase' \notin {"longs", "quote"} /\ (NoMishap \/ Mishap)
    BY <2>1 DEF AskTurn, Visiting
  <2> QED BY <2>1, <2>2, BidsAlone
<1>4. ASSUME UNCHANGED <<bids, phase, unvisited, snap, notional, mishaps>>
      PROVE  BidExposure'
  <2>1. \A x \in Series : Counted(x)' = Counted(x)
    BY <1>4 DEF Counted, Awaiting
  <2>2. SumFunction([x \in Series |-> Counted(x)])' = SumFunction([x \in Series |-> Counted(x)])
    BY <2>1
  <2>3. NotionalOf(bids)' = NotionalOf(bids)
    BY <1>4 DEF NotionalOf
  <2> QED BY <1>4, <2>2, <2>3 DEF BidExposure
<1>5. ASSUME NEW s \in Series, FillAsk(s) PROVE BidExposure'
  BY <1>4, <1>5 DEF FillAsk, Outsiders, locals
<1>6. ASSUME NEW s \in Series, NEW m, Move(s, m) PROVE BidExposure'
  BY <1>4, <1>6 DEF Move, Outsiders, locals
<1>7. ASSUME UNCHANGED wvars PROVE BidExposure'
  BY <1>4, <1>7 DEF wvars, chain, locals, env
<1> QED BY <1>1, <1>2, <1>3, <1>5, <1>6, <1>7, StepCases, EnumerateBids, BidBids, FillBidBids

LEMMA BidExposureInit == WInit => BidExposure
<1> SUFFICES ASSUME WInit PROVE BidExposure
  OBVIOUS
<1>1. phase = "idle" /\ mishaps = 0 /\ \A s \in Series : bids[s] = {}
  BY DEF WInit, Nothing
<1> DEFINE z == [s \in Series |-> 0]
<1>2. Notional({}) = 0
  BY Quantities, EmptySide
<1>3. NotionalOf(bids) = SumFunction(z)
  <2>1. [s \in Series |-> Notional(bids[s])] = z
    BY <1>1, <1>2
  <2> QED BY <2>1, Zenon DEF NotionalOf
<1>4. SumFunction(z) = 0
  <2>1. z \in [Series -> Int] /\ \A s \in Series : z[s] = 0
    OBVIOUS
  <2> HIDE DEF z
  <2> QED BY <2>1, Quantities, TotalZero
<1>5. BidSlack(0) \in Nat
  BY BidSlackGrows
<1>6. NotionalOf(bids) <= MaxBidNotional + BidSlack(mishaps)
  BY <1>1, <1>3, <1>4, <1>5, Quantities
<1> QED BY <1>1, <1>6 DEF BidExposure

---------------------------------------------------------------------------
(* The inventory. *)

(* What mishaps allow, in numbers. *)
LEMMA InventoryGrows ==
    ASSUME NEW i \in Nat
    PROVE  /\ MostAsked(i) \in Nat /\ MostHeld(i) \in Nat
           /\ MostAsked(i + 1) = MostAsked(i) + BidQty
           /\ MostHeld(i + 1) = MostHeld(i) + 2 * BidQty
           /\ 2 * BidQty <= MostAsked(i + 1) /\ BidQty <= MostAsked(i)
           /\ MaxLong + MostAsked(i) <= MostHeld(i) + 1
<1>1. PICK b \in Nat \ {0}, l \in Nat : b = BidQty /\ l = MaxLong
  BY Quantities
<1>2. PICK q \in Nat : q = i * b
  <2>1. \A x \in Nat, y \in Nat : x * y \in Nat
    OBVIOUS
  <2> QED BY <2>1
<1>3. /\ MostAsked(i) = b + q /\ MostAsked(i + 1) = b + q + b
      /\ MostHeld(i) = l + (b - 1) + 2 * q
      /\ MostHeld(i + 1) = l + (b - 1) + 2 * q + 2 * b
  <2>1. /\ (1 + i) * b = b + i * b /\ (1 + (i + 1)) * b = b + i * b + b
        /\ 2 * i * b = 2 * (i * b) /\ 2 * (i + 1) * b = 2 * (i * b) + 2 * b
    OBVIOUS
  <2>2. MostAsked(i) = (1 + i) * b /\ MostAsked(i + 1) = (1 + (i + 1)) * b
    BY <1>1 DEF MostAsked
  <2>3. MostHeld(i) = l + (b - 1) + 2 * i * b /\ MostHeld(i + 1) = l + (b - 1) + 2 * (i + 1) * b
    BY <1>1 DEF MostHeld
  <2> QED BY <1>2, <2>1, <2>2, <2>3
<1> QED BY <1>1, <1>3

LEMMA InventoryStays ==
    ASSUME mishaps \in Nat, NoMishap \/ Mishap
    PROVE  /\ MostAsked(mishaps') \in Nat /\ MostAsked(mishaps) \in Nat
           /\ MostHeld(mishaps') \in Nat /\ MostHeld(mishaps) \in Nat
           /\ MostAsked(mishaps) <= MostAsked(mishaps')
           /\ MostHeld(mishaps) <= MostHeld(mishaps')
           /\ BidQty <= MostAsked(mishaps)
           /\ MaxLong + MostAsked(mishaps) <= MostHeld(mishaps) + 1
           /\ Mishap => /\ MostAsked(mishaps') = MostAsked(mishaps) + BidQty
                        /\ MostHeld(mishaps') = MostHeld(mishaps) + 2 * BidQty
                        /\ 2 * BidQty <= MostAsked(mishaps')
<1>1. /\ mishaps' = mishaps \/ mishaps' = mishaps + 1
      /\ Mishap => mishaps' = mishaps + 1
  BY Zenon DEF NoMishap, Mishap
<1>2. /\ MostAsked(mishaps) \in Nat /\ MostHeld(mishaps) \in Nat
      /\ MostAsked(mishaps + 1) = MostAsked(mishaps) + BidQty
      /\ MostHeld(mishaps + 1) = MostHeld(mishaps) + 2 * BidQty
      /\ 2 * BidQty <= MostAsked(mishaps + 1) /\ BidQty <= MostAsked(mishaps)
      /\ MaxLong + MostAsked(mishaps) <= MostHeld(mishaps) + 1
  BY InventoryGrows
<1>3. /\ MostAsked(mishaps + 1) \in Nat /\ MostHeld(mishaps + 1) \in Nat
      /\ MostAsked(mishaps) <= MostAsked(mishaps + 1)
      /\ MostHeld(mishaps) <= MostHeld(mishaps + 1)
      /\ MostAsked(mishaps) <= MostAsked(mishaps)
      /\ MostHeld(mishaps) <= MostHeld(mishaps)
  BY <1>2, Quantities
<1> QED BY <1>1, <1>2, <1>3, Zenon

(* The counts of a series are numbers. *)
LEMMA InventoryNat ==
    ASSUME Structure, NEW s \in Series
    PROVE  /\ Quantity(bids[s]) \in Nat /\ Full(bids[s], BidQty) \in Nat
           /\ held[s] \in Nat /\ longs[s] \in Nat
           /\ Awaiting(s) =>
                /\ Quantity(snap[s]) \in Nat /\ Full(snap[s], BidQty) \in Nat
                /\ Quantity(snap[s]) <= Full(snap[s], BidQty)
                /\ Quantity(bids[s]) <= Quantity(snap[s])
<1>1. Side(bids[s], BidQty) /\ BidQty \in Nat /\ held[s] \in Nat /\ longs[s] \in Nat
  BY Quantities DEF Structure, Sides, WriterTyped
<1>2. Quantity(bids[s]) \in Nat /\ Full(bids[s], BidQty) \in Nat
  BY <1>1, CountsNat
<1>3. ASSUME Awaiting(s)
      PROVE  /\ Quantity(snap[s]) \in Nat /\ Full(snap[s], BidQty) \in Nat
             /\ Quantity(snap[s]) <= Full(snap[s], BidQty)
             /\ Quantity(bids[s]) <= Quantity(snap[s])
  <2>1. Side(snap[s], BidQty) /\ Shrunk(bids[s], snap[s])
    BY <1>3 DEF Structure, Enumerated
  <2>2. /\ Quantity(snap[s]) \in Nat /\ Full(snap[s], BidQty) \in Nat
        /\ Missing(snap[s], BidQty) \in Nat
        /\ Full(snap[s], BidQty) = Quantity(snap[s]) + Missing(snap[s], BidQty)
    BY <1>1, <2>1, CountsNat
  <2>3. Quantity(bids[s]) <= Quantity(snap[s])
    BY <1>1, <2>1, ShrunkSide
  <2>4. Quantity(snap[s]) <= Full(snap[s], BidQty)
    BY <2>2
  <2> QED BY <2>2, <2>3, <2>4
<1> QED BY <1>1, <1>2, <1>3

(* A series that a step leaves alone. *)
LEMMA InventoryOfRest ==
    ASSUME Structure, NEW s \in Series,
           Full(bids[s], BidQty) <= MostAsked(mishaps),
           held[s] + Quantity(bids[s]) <= MostHeld(mishaps),
           NoMishap \/ Mishap
    PROVE  /\ Full(bids[s], BidQty) <= MostAsked(mishaps')
           /\ held[s] + Quantity(bids[s]) <= MostHeld(mishaps')
           /\ Awaiting(s) /\ Full(snap[s], BidQty) <= MostAsked(mishaps) =>
                Full(snap[s], BidQty) <= MostAsked(mishaps')
<1>1. /\ MostAsked(mishaps') \in Nat /\ MostAsked(mishaps) \in Nat
      /\ MostHeld(mishaps') \in Nat /\ MostHeld(mishaps) \in Nat
      /\ MostAsked(mishaps) <= MostAsked(mishaps')
      /\ MostHeld(mishaps) <= MostHeld(mishaps')
  BY InventoryStays DEF Structure, WriterTyped
<1>2. /\ Quantity(bids[s]) \in Nat /\ Full(bids[s], BidQty) \in Nat /\ held[s] \in Nat
      /\ Awaiting(s) => Full(snap[s], BidQty) \in Nat
  BY InventoryNat
<1>3. \A x \in Nat, y \in Nat, z \in Nat : x <= y /\ y <= z => x <= z
  OBVIOUS
<1>4. held[s] + Quantity(bids[s]) \in Nat
  BY <1>2
<1> QED BY <1>1, <1>2, <1>3, <1>4, Zenon

(* Steps that leave the bids and the options alone. *)
LEMMA InventoryAlone ==
    ASSUME Structure, Inventory, UNCHANGED <<bids, held>>, NoMishap \/ Mishap,
           phase' \notin {"longs", "quote"}
    PROVE  Inventory'
<1>1. ASSUME NEW s \in Series
      PROVE  /\ Full(bids[s], BidQty) <= MostAsked(mishaps')
             /\ held[s] + Quantity(bids[s]) <= MostHeld(mishaps')
  BY InventoryOfRest DEF Inventory
<1> QED BY <1>1 DEF Inventory, Awaiting

LEMMA EnumerateInventory ==
    ASSUME Structure, Inventory, Enumerate
    PROVE  Inventory'
<1>1. UNCHANGED <<bids, held, mishaps>>
  BY DEF Enumerate, chain
<1>2. CASE phase = "bids"
  <2>1. phase' = "longs" /\ snap' = bids
    BY <1>2 DEF Enumerate
  <2> QED BY <1>1, <2>1 DEF Inventory, Awaiting
<1>3. CASE phase # "bids"
  <2>1. phase = "longs" /\ phase' = "quote" /\ snap' = snap /\ longs' = held
    BY <1>3 DEF Enumerate
  <2>2. \A s \in Series : Awaiting(s)
    BY <2>1 DEF Awaiting
  <2>3. \A s \in Series : held[s] + Quantity(bids[s]) <= held[s] + Quantity(snap[s])
    <3> TAKE s \in Series
    <3>1. /\ Quantity(bids[s]) \in Nat /\ Quantity(snap[s]) \in Nat /\ held[s] \in Nat
          /\ Quantity(bids[s]) <= Quantity(snap[s])
      BY <2>2, InventoryNat
    <3> QED BY <3>1
  <2> QED BY <1>1, <2>1, <2>2, <2>3 DEF Inventory
<1> QED BY <1>2, <1>3

LEMMA BidInventory ==
    ASSUME Structure, Inventory, NEW s \in Series, BidVisits(s)
    PROVE  Inventory'
<1>1. BidTurn(s) /\ Visiting("quote", s) /\ Structure'
  BY BidTurns, BidStructure
<1>2. /\ phase = "quote" /\ phase' = "quote" /\ snap' = snap /\ held' = held
      /\ longs' = longs /\ s \in unvisited /\ unvisited' = unvisited \ {s}
      /\ (NoMishap \/ Mishap)
  BY <1>1 DEF Visiting, BidTurn
<1>3. \A x \in Series \ {s} : bids'[x] = bids[x]
  <2>1. bids' = [bids EXCEPT ![s] = bids'[s]]
    BY <1>1 DEF BidTurn
  <2> QED BY <2>1 DEF Structure, WriterTyped
<1>4. ASSUME NEW x \in Series \ {s}
      PROVE  /\ Full(bids'[x], BidQty) <= MostAsked(mishaps')
             /\ Awaiting(x)' => Full(snap'[x], BidQty) <= MostAsked(mishaps')
             /\ held'[x] + Quantity(bids'[x]) <= MostHeld(mishaps')
             /\ phase' = "quote" /\ x \in unvisited' =>
                  held'[x] + Quantity(bids'[x]) <= longs'[x] + Quantity(snap'[x])
  <2>1. /\ Full(bids[x], BidQty) <= MostAsked(mishaps)
        /\ Awaiting(x) => Full(snap[x], BidQty) <= MostAsked(mishaps)
        /\ held[x] + Quantity(bids[x]) <= MostHeld(mishaps)
        /\ phase = "quote" /\ x \in unvisited =>
             held[x] + Quantity(bids[x]) <= longs[x] + Quantity(snap[x])
    BY DEF Inventory
  <2>2. /\ Full(bids[x], BidQty) <= MostAsked(mishaps')
        /\ held[x] + Quantity(bids[x]) <= MostHeld(mishaps')
        /\ Awaiting(x) /\ Full(snap[x], BidQty) <= MostAsked(mishaps) =>
             Full(snap[x], BidQty) <= MostAsked(mishaps')
    BY <1>2, <2>1, InventoryOfRest
  <2>3. Awaiting(x)' => Awaiting(x)
    BY <1>2 DEF Awaiting
  <2>4. bids'[x] = bids[x] /\ (x \in unvisited' => x \in unvisited)
    BY <1>2, <1>3
  <2> QED BY <1>2, <2>1, <2>2, <2>3, <2>4, Zenon
<1>5. PICK h \in Nat, l \in Nat, q \in Nat, q1 \in Nat, z \in Nat, f \in Nat, f1 \in Nat, y \in Nat :
        /\ h = held[s] /\ l = longs[s] /\ q = Quantity(bids[s]) /\ q1 = Quantity(bids'[s])
        /\ z = Quantity(snap[s]) /\ f = Full(bids[s], BidQty) /\ f1 = Full(bids'[s], BidQty)
        /\ y = Full(snap[s], BidQty) /\ z <= y
  <2>1. Awaiting(s)
    BY <1>2 DEF Awaiting
  <2>2. Side(bids'[s], BidQty)
    BY <1>1 DEF BidTurn
  <2>3. Quantity(bids'[s]) \in Nat /\ Full(bids'[s], BidQty) \in Nat
    BY <2>2, Quantities, CountsNat
  <2> QED BY <2>1, <2>3, InventoryNat
<1>6. PICK a \in Nat, a1 \in Nat, m \in Nat, m1 \in Nat, b \in Nat, L \in Nat :
        /\ a = MostAsked(mishaps) /\ a1 = MostAsked(mishaps') /\ m = MostHeld(mishaps)
        /\ m1 = MostHeld(mishaps') /\ b = BidQty /\ L = MaxLong
        /\ a <= a1 /\ m <= m1 /\ b <= a /\ L + a <= m + 1 /\ b # 0
        /\ Mishap => a1 = a + b /\ m1 = m + 2 * b /\ 2 * b <= a1
  <2>1. /\ MostAsked(mishaps') \in Nat /\ MostAsked(mishaps) \in Nat
        /\ MostHeld(mishaps') \in Nat /\ MostHeld(mishaps) \in Nat
        /\ MostAsked(mishaps) <= MostAsked(mishaps')
        /\ MostHeld(mishaps) <= MostHeld(mishaps')
        /\ BidQty <= MostAsked(mishaps)
        /\ MaxLong + MostAsked(mishaps) <= MostHeld(mishaps) + 1
        /\ Mishap => /\ MostAsked(mishaps') = MostAsked(mishaps) + BidQty
                     /\ MostHeld(mishaps') = MostHeld(mishaps) + 2 * BidQty
                     /\ 2 * BidQty <= MostAsked(mishaps')
    BY <1>2, InventoryStays DEF Structure, WriterTyped
  <2>2. BidQty \in Nat /\ MaxLong \in Nat /\ BidQty # 0
    BY Quantities
  <2> QED BY <2>1, <2>2, Zenon
<1>7. f <= a /\ y <= a /\ h + q <= m /\ h + q <= l + z
  <2>1. Awaiting(s)
    BY <1>2 DEF Awaiting
  <2>2. /\ Full(bids[s], BidQty) <= MostAsked(mishaps)
        /\ Full(snap[s], BidQty) <= MostAsked(mishaps)
        /\ held[s] + Quantity(bids[s]) <= MostHeld(mishaps)
        /\ held[s] + Quantity(bids[s]) <= longs[s] + Quantity(snap[s])
    BY <1>2, <2>1 DEF Inventory
  <2> QED BY <1>5, <1>6, <2>2, Zenon
<1>8. z <= y /\ a <= a1 /\ m <= m1 /\ b <= a /\ L + a <= m + 1 /\ b # 0
  BY <1>5, <1>6
<1>9. f1 <= a1 /\ h + q1 <= m1
  <2>1. ASSUME Lessened(s) PROVE f1 <= a1 /\ h + q1 <= m1
    <3>1. q1 <= q /\ f1 <= f
      BY <1>5, <2>1, Zenon DEF Lessened
    <3> QED BY <1>7, <1>8, <3>1
  <2>2. ASSUME Excess(s) PROVE f1 <= a1 /\ h + q1 <= m1
    <3>1. /\ Quantity(bids'[s]) <= Quantity(bids[s]) + 2 * BidQty
          /\ \/ Full(bids'[s], BidQty) <= Full(bids[s], BidQty) + BidQty
             \/ Full(bids'[s], BidQty) <= 2 * BidQty
          /\ Mishap
      BY <2>2 DEF Excess
    <3>2. q1 <= q + 2 * b /\ (f1 <= f + b \/ f1 <= 2 * b)
      BY <1>5, <1>6, <3>1, Zenon
    <3>3. a1 = a + b /\ m1 = m + 2 * b /\ 2 * b <= a1
      BY <1>6, <3>1, Zenon
    <3> QED BY <1>7, <3>2, <3>3
  <2>3. ASSUME Quoted(s) PROVE f1 <= a1 /\ h + q1 <= m1
    <3>1. /\ \/ Full(bids'[s], BidQty) <= Full(bids[s], BidQty)
             \/ Full(bids'[s], BidQty) <= BidQty
          /\ \E d \in Nat :
              /\ longs[s] + d <= MaxLong
              /\ \/ Quantity(bids'[s]) + 1 <= Quantity(bids[s]) + d
                 \/ /\ Quantity(bids'[s]) <= d /\ Quantity(snap[s]) = 0
                    /\ Quantity(bids[s]) = 0
      BY <2>3, Zenon DEF Quoted
    <3>2. f1 <= f \/ f1 <= b
      BY <1>5, <1>6, <3>1, Zenon
    <3>3. PICK d \in Nat : /\ l + d <= L
                           /\ q1 + 1 <= q + d \/ (q1 <= d /\ z = 0 /\ q = 0)
      BY <1>5, <1>6, <3>1, Zenon
    <3>4. f1 <= a1
      BY <1>7, <1>8, <3>2
    <3>5. CASE q1 + 1 <= q + d
      BY <1>7, <1>8, <3>3, <3>4, <3>5
    <3>6. CASE q1 <= d /\ z = 0 /\ q = 0
      BY <1>7, <1>8, <3>3, <3>4, <3>6
    <3> QED BY <3>3, <3>5, <3>6
  <2> QED BY <1>1, <2>1, <2>2, <2>3 DEF BidTurn
<1>10. /\ Full(bids'[s], BidQty) <= MostAsked(mishaps')
       /\ held'[s] + Quantity(bids'[s]) <= MostHeld(mishaps')
       /\ ~Awaiting(s)' /\ s \notin unvisited'
  <2>1. ~Awaiting(s)' /\ s \notin unvisited'
    BY <1>2 DEF Awaiting
  <2> QED BY <1>2, <1>5, <1>6, <1>9, <2>1, Zenon
<1> QED BY <1>4, <1>10 DEF Inventory

LEMMA FillBidInventory ==
    ASSUME Structure, Inventory, NEW s \in Series, FillBid(s)
    PROVE  Inventory'
<1>1. PICK o \in bids[s] :
        /\ bids'[s] = Lifted(bids[s], o) /\ Side(bids[s], BidQty)
        /\ \A x \in Series \ {s} : bids'[x] = bids[x]
  BY FillBidLifts
<1>2. /\ UNCHANGED <<phase, unvisited, snap, longs, mishaps>>
      /\ held'[s] = held[s] + 1 /\ \A x \in Series \ {s} : held'[x] = held[x]
  BY DEF FillBid, Outsiders, locals, Structure, WriterTyped
<1>3. /\ Side(bids'[s], BidQty)
      /\ Quantity(bids'[s]) + 1 = Quantity(bids[s])
      /\ Full(bids'[s], BidQty) <= Full(bids[s], BidQty)
  BY <1>1, Quantities, LiftedSide
<1>4. /\ Quantity(bids'[s]) \in Nat /\ Full(bids'[s], BidQty) \in Nat
      /\ Quantity(bids[s]) \in Nat /\ Full(bids[s], BidQty) \in Nat
  BY <1>1, <1>3, Quantities, CountsNat
<1>5. held[s] \in Nat /\ MostAsked(mishaps) \in Nat
  BY InventoryGrows DEF Structure, WriterTyped
<1>6. held'[s] + Quantity(bids'[s]) = held[s] + Quantity(bids[s])
  BY <1>2, <1>3, <1>4, <1>5
<1>7. Full(bids'[s], BidQty) <= MostAsked(mishaps)
  <2>1. Full(bids[s], BidQty) <= MostAsked(mishaps)
    BY DEF Inventory
  <2> QED BY <1>3, <1>4, <1>5, <2>1
<1>8. \A x \in Series : Awaiting(x)' <=> Awaiting(x)
  BY <1>2 DEF Awaiting
<1>9. \A x \in Series :
        /\ held'[x] + Quantity(bids'[x]) = held[x] + Quantity(bids[x])
        /\ Full(bids'[x], BidQty) <= MostAsked(mishaps)
  <2>1. ASSUME NEW x \in Series \ {s}
        PROVE  /\ held'[x] + Quantity(bids'[x]) = held[x] + Quantity(bids[x])
               /\ Full(bids'[x], BidQty) <= MostAsked(mishaps)
    BY <1>1, <1>2, Zenon DEF Inventory
  <2> QED BY <1>6, <1>7, <2>1, Zenon
<1> QED BY <1>2, <1>8, <1>9 DEF Inventory

LEMMA InventoryKept ==
    ASSUME Structure, Inventory, [WNext]_wvars
    PROVE  Inventory'
<1>1. ASSUME UNCHANGED <<bids, held, phase, unvisited, snap, longs, mishaps>>
      PROVE  Inventory'
  BY <1>1 DEF Inventory, Awaiting
<1>2. ASSUME BeginReconcile \/ EndAsks PROVE Inventory'
  <2>1. /\ UNCHANGED <<bids, held, mishaps>> /\ phase' \notin {"longs", "quote"}
    BY <1>2 DEF BeginReconcile, EndAsks, chain
  <2> QED BY <2>1 DEF Inventory, Awaiting
<1>3. ASSUME Forget, NoMishap \/ Mishap PROVE Inventory'
  <2>1. UNCHANGED <<bids, held>> /\ phase' \notin {"longs", "quote"}
    BY <1>3 DEF Forget, chain
  <2> QED BY <1>3, <2>1, InventoryAlone
<1>4. ASSUME NEW s \in Series, AskVisits(s) PROVE Inventory'
  <2>1. AskTurn(s) /\ Visiting("asks", s) /\ bids' = bids
    BY <1>4, AskTurns
  <2>2. UNCHANGED <<bids, held>> /\ phase' \notin {"longs", "quote"} /\ (NoMishap \/ Mishap)
    BY <2>1 DEF AskTurn, Visiting
  <2> QED BY <2>2, InventoryAlone
<1>5. ASSUME NEW s \in Series, FillAsk(s) PROVE Inventory'
  BY <1>1, <1>5 DEF FillAsk, Outsiders, locals
<1>6. ASSUME NEW s \in Series, NEW m, Move(s, m) PROVE Inventory'
  BY <1>1, <1>6 DEF Move, Outsiders, locals
<1>7. ASSUME UNCHANGED wvars PROVE Inventory'
  BY <1>1, <1>7 DEF wvars, chain, locals, env
<1> QED BY <1>2, <1>3, <1>4, <1>5, <1>6, <1>7, StepCases, EnumerateInventory, BidInventory,
        FillBidInventory

LEMMA InventoryInit == WInit => Inventory
<1> SUFFICES ASSUME WInit PROVE Inventory
  OBVIOUS
<1>1. /\ phase = "idle" /\ mishaps = 0
      /\ \A s \in Series : bids[s] = {} /\ held[s] = 0
  BY DEF WInit, Nothing
<1>2. Full({}, BidQty) = 0 /\ Quantity({}) = 0
  BY Quantities, EmptySide
<1>3. MostAsked(0) \in Nat /\ MostHeld(0) \in Nat
  BY InventoryGrows
<1>4. 0 <= MostAsked(0) /\ 0 + 0 <= MostHeld(0)
  BY <1>3
<1> QED BY <1>1, <1>2, <1>4 DEF Inventory, Awaiting

---------------------------------------------------------------------------
(* The theorems. *)

(* What the structure says holds in every state: the orders of a side have  *)
(* ids of their own and no more than the size posted, what a pass has yet   *)
(* to visit is what it enumerated or less, and an ask it recorded is within *)
(* the drift of the mark it recorded (reconcile, repriceDecision).          *)
THEOREM StructureHolds == WSpec => []Structure
<1>1. Structure /\ [WNext]_wvars => Structure'
  BY StructureKept
<1> QED BY <1>1, StructureInit, PTL DEF WSpec

(* After a tick without a failed request that met at most one order of a    *)
(* side in each series, no bid of the bot crosses its ask, for every ladder *)
(* of marks, every tier and drift as the assumptions have them, and         *)
(* whatever failed, was filled or moved before and during the tick          *)
(* (crossesAsk, decideBid, repriceDecision).                                *)
THEOREM NeverCrosses == WSpec => []NoCross
<1>1. WInit => Structure /\ CleanTick
  BY StructureInit, CleanTickInit
<1>2. (Structure /\ CleanTick) /\ [WNext]_wvars => (Structure /\ CleanTick)'
  BY StructureKept, CleanTickKept
<1>3. CleanTick => NoCross
  BY DEF CleanTick, NoCross, Apart
<1> QED BY <1>1, <1>2, <1>3, PTL DEF WSpec

(* The three exposures stay bounded by their caps and by what fills and     *)
(* mishaps explain, for any number of series, fills, moves and mishaps      *)
(* (measureCommitted, collateralGate, seedLiveBidExposure, decideBid,       *)
(* enumerateMyLongs).                                                       *)
THEOREM ExposuresBounded == WSpec => []ExposureBounded
<1> DEFINE Inv == Structure /\ AskExposure /\ BidExposure /\ Inventory
<1>1. WInit => Inv
  BY StructureInit, AskExposureInit, BidExposureInit, InventoryInit
<1>2. Inv /\ [WNext]_wvars => Inv'
  BY StructureKept, AskExposureKept, BidExposureKept, InventoryKept
<1>3. Inv => ExposureBounded
  <2> SUFFICES ASSUME Inv PROVE ExposureBounded
    OBVIOUS
  <2>1. AsksBounded
    <3>1. /\ CollateralOf(asks) \in Nat /\ FullCollateral \in Nat /\ MissingCollateral \in Nat
          /\ FullCollateral = CollateralOf(asks) + MissingCollateral
      BY CollateralSplit DEF Structure
    <3>2. FullCollateral <= MaxCollateral + AskSlack(fills, mishaps)
      BY DEF AskExposure
    <3>3. AskSlack(fills, mishaps) \in Nat
      BY AskSlackGrows DEF Structure, WriterTyped
    <3>4. CollateralOf(asks) <= MaxCollateral + AskSlack(fills, mishaps)
      BY <3>1, <3>2, <3>3, Quantities
    <3> QED BY <3>4, Zenon DEF AsksBounded, AskSlack, TopStrike
  <2>2. BidsBounded
    <3>1. NotionalOf(bids) <= MaxBidNotional + BidSlack(mishaps)
      BY DEF BidExposure
    <3>2. \A s \in Series : held[s] + Quantity(bids[s]) <= MostHeld(mishaps)
      BY DEF Inventory
    <3> QED BY <3>1, <3>2, Zenon DEF BidsBounded, BidSlack, TopBid, MostHeld
  <2> QED BY <2>1, <2>2 DEF ExposureBounded
<1> HIDE DEF Inv
<1> QED BY <1>1, <1>2, <1>3, PTL DEF WSpec
=============================================================================
