----------------------------- MODULE WriterBot -----------------------------
(***************************************************************************)
(* The treasury's writer bot (writer/src/engine.ts, reconcile): each tick  *)
(* measures the collateral its resting asks commit, walks the ladder       *)
(* posting, repricing, holding or pulling one ask per series, and then     *)
(* derives a bid from what became of each ask.  Third parties fill both.   *)
(* Per series the bot works on the newest order it enumerated; a post that *)
(* landed unnoticed leaves a second one.  Gates that can only refuse (SOL, *)
(* free USDC, cell counts, the ATM band) are a choice to decline.  A       *)
(* mishap is a request that fails, an answer that is lost, or a crash.     *)
(* Prices are hundredths of a mark; spreads and drifts are percentages.    *)
(***************************************************************************)
EXTENDS Naturals, FiniteSets, FiniteSetsExt, Functions

CONSTANTS
    Series, Marks,
    AskSpread,       \* percent over the mark
    Drift,           \* percent that forces a reprice
    AskQty, BidQty,
    Collateral,      \* per contract: the strike
    MaxCollateral, MaxBidNotional, MaxLong,
    MaxFills, MaxMoves, MaxMishaps

ASSUME WriterAssumption ==
    /\ IsFiniteSet(Series) /\ Series # {} /\ IsFiniteSet(Marks) /\ Marks # {}
    /\ Marks \subseteq Nat \ {0} /\ AskSpread \in Nat /\ Drift \in Nat
    /\ AskQty \in Nat \ {0} /\ BidQty \in Nat \ {0}
    /\ Collateral \in [Series -> Nat \ {0}]
    /\ MaxCollateral \in Nat /\ MaxBidNotional \in Nat /\ MaxLong \in Nat
    /\ MaxFills \in Nat /\ MaxMoves \in Nat /\ MaxMishaps \in Nat

VARIABLES
    market,      \* per series: the mark, or 0 when it has no fresh oracle
    asks, bids,  \* per series: the bot's resting orders
    held,        \* per series: options bought
    phase, unvisited,
    snap,        \* the orders enumerated for the pass under way
    committed,   \* the collateral measured, and posted since
    outcome,     \* per series visited: mark and price of the resting ask
    longs,       \* options held, as enumerated
    notional,    \* the bid exposure measured, and posted since
    fills, moves, mishaps,
    clean        \* the tick began with no order posted twice, and had no mishap

chain  == <<market, asks, bids, held>>
locals == <<unvisited, snap, committed, outcome, longs, notional>>
env    == <<fills, moves>>
wvars  == <<chain, phase, locals, env, mishaps, clean>>

Nothing == [s \in Series |-> {}]

WInit ==
    /\ market \in [Series -> Marks]
    /\ asks = Nothing /\ bids = Nothing
    /\ held = [s \in Series |-> 0]
    /\ phase = "idle" /\ unvisited = {} /\ snap = Nothing
    /\ committed = 0 /\ notional = 0
    /\ outcome = [s \in {} |-> 0]
    /\ longs = held
    /\ fills = 0 /\ moves = 0 /\ mishaps = 0 /\ clean = TRUE

Mishap      == mishaps < MaxMishaps /\ mishaps' = mishaps + 1 /\ clean' = FALSE
NoMishap    == UNCHANGED <<mishaps, clean>>
MishapIf(b) == IF b THEN Mishap ELSE NoMishap

---------------------------------------------------------------------------
(* Prices. *)

Larger(x, y) == IF x >= y THEN x ELSE y
Gap(x, y)    == IF x >= y THEN x - y ELSE y - x

AskPrice(m)  == (100 + AskSpread) * m
BidSpread    == Larger((3 * AskSpread) \div 2, AskSpread + 2)
BidPrice(m)  == (100 - BidSpread) * m

(* Off by more than the drift; by enough for the age of a quote to matter.  *)
Drifted(new, old) == Gap(new, old) * 100 > Drift * old
Moved(new, old)   == Gap(new, old) * 100 >= old

(* CROSS_GUARD_BPS.                                                         *)
Crosses(bid, ask) == bid * 100 > ask * 98

(* The tiers of tierFor are 4 to 10 percent and the drift is 3: a bid has a *)
(* price, and one within the drift of it keeps its distance from an ask     *)
(* within the drift of its own.                                             *)
ASSUME SpreadAssumption ==
    /\ BidSpread <= 100 /\ Drift < 100
    /\ (100 - BidSpread) * (100 + Drift) * 100 <= (100 + AskSpread) * (100 - Drift) * 98

---------------------------------------------------------------------------
(* Orders. *)

Newest(orders)    == {o \in orders : \A x \in orders : x.id <= o.id}
NextId(orders)    == 1 + Max({o.id : o \in orders} \cup {0})
Live(o, orders)   == \E x \in orders : x.id = o.id
Without(orders, gone) == {x \in orders : ~Live(x, gone)}

(* What n landings of one post leave.                                       *)
Posted(orders, n, price, qty) ==
    orders \cup {[id |-> NextId(orders) + i, price |-> price, qty |-> qty] : i \in 0..(n - 1)}

Quantity(orders)   == SumFunction([o \in orders |-> o.qty])
Notional(orders)   == SumFunction([o \in orders |-> o.qty * o.price])
CollateralOf(side) == SumFunction([s \in Series |-> Quantity(side[s]) * Collateral[s]])
NotionalOf(side)   == SumFunction([s \in Series |-> Notional(side[s])])

(* A post retried under the next nonce when its order is not found: it      *)
(* lands so many times and is reported so.                                  *)
PostEnds(n, reported) == MishapIf(~(n = 1 /\ reported))

---------------------------------------------------------------------------
(* The ask loop. *)

BeginReconcile ==
    /\ phase = "idle"
    /\ phase' = "asks"
    /\ unvisited' = Series
    /\ snap' = asks
    /\ committed' = CollateralOf(asks)
    /\ outcome' = [s \in {} |-> 0]
    /\ clean' = \A s \in Series : Cardinality(asks[s]) <= 1 /\ Cardinality(bids[s]) <= 1
    /\ UNCHANGED <<chain, longs, notional, env, mishaps>>

Visiting(pass, s) ==
    /\ phase = pass /\ s \in unvisited
    /\ unvisited' = unvisited \ {s}
    /\ UNCHANGED <<market, held, phase, snap, longs, env>>

Outcome(s, m, ask) ==
    outcome' = [x \in DOMAIN outcome \cup {s} |->
                   IF x = s THEN [mark |-> m, ask |-> ask] ELSE outcome[x]]

(* A market without a fresh oracle, or a series off the ladder: every order *)
(* of the snapshot is cancelled, and the bid pass will not know the series. *)
PullStale(s) ==
    /\ Visiting("asks", s)
    /\ market[s] = 0
    /\ \E stranded \in SUBSET snap[s] :
        /\ MishapIf(stranded # {})
        /\ asks' = [asks EXCEPT ![s] = Without(@, snap[s] \ stranded)]
    /\ UNCHANGED <<bids, committed, outcome, notional>>

(* No quote, or the session is closed.                                      *)
PullUnquoted(s) ==
    /\ Visiting("asks", s)
    /\ market[s] # 0 /\ Mishap
    /\ \E pulled \in {{}, Newest(snap[s])} :
        asks' = [asks EXCEPT ![s] = Without(@, pulled)]
    /\ Outcome(s, 0, 0)
    /\ UNCHANGED <<bids, committed, notional>>

HoldAsk(s) ==
    /\ Visiting("asks", s)
    /\ market[s] # 0
    /\ \E o \in Newest(snap[s]) :
        /\ ~Drifted(AskPrice(market[s]), o.price)
        /\ Outcome(s, market[s], o.price)
    /\ UNCHANGED <<asks, bids, committed, notional, mishaps, clean>>

(* Cancel and repost in full, past every cap; an ask that is gone by now is *)
(* not reposted.                                                            *)
RepriceAsk(s) ==
    /\ Visiting("asks", s)
    /\ market[s] # 0
    /\ LET price == AskPrice(market[s]) IN
       \E o \in Newest(snap[s]) :
        /\ Moved(price, o.price) \/ Drifted(price, o.price)
        /\ \/ /\ Live(o, asks[s])
              /\ \E n \in 0..1, reported \in BOOLEAN :
                  /\ reported => n = 1
                  /\ MishapIf(~reported)
                  /\ asks' = [asks EXCEPT ![s] = Posted(Without(@, {o}), n, price, AskQty)]
                  /\ Outcome(s, market[s], IF reported THEN price ELSE 0)
           \/ /\ MishapIf(Live(o, asks[s]))
              /\ UNCHANGED asks
              /\ Outcome(s, market[s], 0)
    /\ UNCHANGED <<bids, committed, notional>>

(* The collateral gate, on what was measured plus this post.                *)
WithinCollateral(s) == committed + AskQty * Collateral[s] <= MaxCollateral

PostAsk(s) ==
    /\ Visiting("asks", s)
    /\ market[s] # 0 /\ snap[s] = {}
    /\ \/ /\ WithinCollateral(s)
          /\ \E n \in 0..2, reported \in BOOLEAN :
              /\ reported => n > 0
              /\ PostEnds(n, reported)
              /\ asks' = [asks EXCEPT ![s] = Posted(@, n, AskPrice(market[s]), AskQty)]
              /\ committed' = IF reported THEN committed + AskQty * Collateral[s] ELSE committed
              /\ Outcome(s, market[s], IF reported THEN AskPrice(market[s]) ELSE 0)
       \/ NoMishap /\ UNCHANGED <<asks, committed>> /\ Outcome(s, market[s], 0)
    /\ UNCHANGED <<bids, notional>>

---------------------------------------------------------------------------
(* The bid pass. *)

EndAsks ==
    /\ phase = "asks" /\ unvisited = {}
    /\ phase' = "bids"
    /\ UNCHANGED <<chain, locals, env, mishaps, clean>>

(* Faulty: the exposure is counted afresh in every tick.                    *)
EnumerateUnseeded ==
    /\ \/ phase = "bids" /\ phase' = "longs"
          /\ snap' = bids /\ notional' = 0 /\ UNCHANGED <<longs, unvisited>>
       \/ phase = "longs" /\ phase' = "quote"
          /\ longs' = held /\ unvisited' = Series /\ UNCHANGED <<snap, notional>>
    /\ UNCHANGED <<chain, committed, outcome, env, mishaps, clean>>

(* The resting bids are enumerated, and then the options held.              *)
Enumerate ==
    /\ \/ phase = "bids" /\ phase' = "longs"
          /\ snap' = bids /\ notional' = NotionalOf(bids) /\ UNCHANGED <<longs, unvisited>>
       \/ phase = "longs" /\ phase' = "quote"
          /\ longs' = held /\ unvisited' = Series /\ UNCHANGED <<snap, notional>>
    /\ UNCHANGED <<chain, committed, outcome, env, mishaps, clean>>

(* A series the ask loop did not reach.                                     *)
PullOrphan(s) ==
    /\ Visiting("quote", s)
    /\ s \notin DOMAIN outcome
    /\ \E stranded \in SUBSET snap[s] :
        /\ MishapIf(stranded # {})
        /\ bids' = [bids EXCEPT ![s] = Without(@, snap[s] \ stranded)]
    /\ UNCHANGED <<asks, committed, outcome, notional>>

Price(s)    == BidPrice(outcome[s].mark)
Headroom(s) == IF longs[s] >= MaxLong THEN 0 ELSE MaxLong - longs[s]
Depth(s)    == Min({BidQty, Headroom(s)})

(* What a bid adds to what the newest one already locks.                    *)
Delta(s) ==
    LET resting == Notional(Newest(snap[s]))
        wanted  == Price(s) * Depth(s)
    IN  IF wanted > resting THEN wanted - resting ELSE 0

MayQuote(s) ==
    /\ outcome[s].ask # 0
    /\ ~Crosses(Price(s), outcome[s].ask)
    /\ Headroom(s) > 0
    /\ notional + Delta(s) <= MaxBidNotional

(* decideBid's pull: a gate refuses.                                        *)
StopBid(s) ==
    /\ Visiting("quote", s)
    /\ s \in DOMAIN outcome
    /\ \/ NoMishap /\ bids' = [bids EXCEPT ![s] = Without(@, Newest(snap[s]))]
       \/ Mishap /\ UNCHANGED bids
    /\ UNCHANGED <<asks, committed, outcome, notional>>

(* Faulty: a bid that need not be pulled is left at its old price.          *)
HoldAnyBid(s) ==
    /\ Visiting("quote", s)
    /\ s \in DOMAIN outcome /\ MayQuote(s)
    /\ Newest(snap[s]) # {}
    /\ UNCHANGED <<asks, bids, committed, outcome, notional, mishaps, clean>>

HoldBid(s) ==
    /\ Visiting("quote", s)
    /\ s \in DOMAIN outcome /\ MayQuote(s)
    /\ \E o \in Newest(snap[s]) : ~Drifted(Price(s), o.price)
    /\ UNCHANGED <<asks, bids, committed, outcome, notional, mishaps, clean>>

RepriceBid(s) ==
    /\ Visiting("quote", s)
    /\ s \in DOMAIN outcome /\ MayQuote(s)
    /\ \E o \in Newest(snap[s]) :
        \/ /\ Live(o, bids[s])
           /\ \E n \in 0..2, reported \in BOOLEAN :
               /\ reported => n > 0
               /\ PostEnds(n, reported)
               /\ bids' = [bids EXCEPT ![s] = Posted(Without(@, {o}), n, Price(s), Depth(s))]
               /\ notional' = IF reported THEN notional + Delta(s) ELSE notional
        \/ MishapIf(Live(o, bids[s])) /\ UNCHANGED <<bids, notional>>
    /\ UNCHANGED <<asks, committed, outcome>>

PostBid(s) ==
    /\ Visiting("quote", s)
    /\ s \in DOMAIN outcome /\ MayQuote(s) /\ snap[s] = {}
    /\ \E n \in 0..2, reported \in BOOLEAN :
        /\ reported => n > 0
        /\ PostEnds(n, reported)
        /\ bids' = [bids EXCEPT ![s] = Posted(@, n, Price(s), Depth(s))]
        /\ notional' = IF reported THEN notional + Delta(s) ELSE notional
    /\ UNCHANGED <<asks, committed, outcome>>

(* The tick's locals are forgotten.                                         *)
Forget ==
    /\ phase' = "idle" /\ unvisited' = {} /\ snap' = Nothing
    /\ committed' = 0 /\ notional' = 0
    /\ outcome' = [s \in {} |-> 0]
    /\ longs' = [s \in Series |-> 0]
    /\ UNCHANGED <<chain, env>>

EndReconcile == phase = "quote" /\ unvisited = {} /\ Forget /\ NoMishap
CutShort   == phase # "idle" /\ Forget /\ Mishap

---------------------------------------------------------------------------
(* Everybody else. *)

Outsiders == <<phase, locals, mishaps, clean>>

Move(s, m) ==
    /\ moves < MaxMoves /\ moves' = moves + 1
    /\ market' = [market EXCEPT ![s] = m]
    /\ UNCHANGED <<asks, bids, held, fills, Outsiders>>

Lifted(orders, o) ==
    (orders \ {o}) \cup (IF o.qty = 1 THEN {} ELSE {[o EXCEPT !.qty = @ - 1]})

FillAsk(s) ==
    /\ fills < MaxFills /\ fills' = fills + 1
    /\ \E o \in asks[s] : asks' = [asks EXCEPT ![s] = Lifted(@, o)]
    /\ UNCHANGED <<market, bids, held, moves, Outsiders>>

FillBid(s) ==
    /\ fills < MaxFills /\ fills' = fills + 1
    /\ \E o \in bids[s] : bids' = [bids EXCEPT ![s] = Lifted(@, o)]
    /\ held' = [held EXCEPT ![s] = @ + 1]
    /\ UNCHANGED <<market, asks, moves, Outsiders>>

Reconcile(s) ==
    \/ PullStale(s) \/ PullUnquoted(s) \/ HoldAsk(s) \/ RepriceAsk(s) \/ PostAsk(s)
    \/ PullOrphan(s) \/ StopBid(s) \/ HoldBid(s) \/ RepriceBid(s) \/ PostBid(s)

WNext ==
    \/ BeginReconcile \/ EndAsks \/ Enumerate \/ EndReconcile \/ CutShort
    \/ \E s \in Series :
        Reconcile(s) \/ FillAsk(s) \/ FillBid(s) \/ \E m \in Marks \cup {0} : Move(s, m)

WSpec == WInit /\ [][WNext]_wvars

---------------------------------------------------------------------------
(* Properties. *)

(* The collateral locked by resting asks exceeds the ceiling by no more     *)
(* than was filled and put back by a reprice, or posted twice or unnoticed. *)
AsksBounded ==
    LET top == Max({Collateral[s] : s \in Series})
    IN  CollateralOf(asks) <= MaxCollateral + (fills + 2 * mishaps * AskQty) * top

(* Resting bids never lock more than the notional cap, and with what is     *)
(* held never more of a series than the inventory cap, but for the portion  *)
(* filled while the same bid was repriced and for posts that landed twice   *)
(* or unnoticed.                                                            *)
BidsBounded ==
    LET top == Max({BidPrice(m) : m \in Marks}) IN
    /\ NotionalOf(bids) <= MaxBidNotional + 2 * mishaps * BidQty * top
    /\ \A s \in Series :
        held[s] + Quantity(bids[s]) <= MaxLong + (BidQty - 1) + 2 * mishaps * BidQty

(* Whatever third parties fill, requests fail or restarts interrupt, the    *)
(* bot's three exposures stay bounded by their caps and what explains the   *)
(* excess: the collateral of its asks (measureCommitted, collateralGate,    *)
(* applyPost), the notional and the inventory of its bids                   *)
(* (seedLiveBidExposure, decideBid, enumerateMyLongs).                      *)
ExposureBounded == AsksBounded /\ BidsBounded

(* After a tick in which no request failed, and that met at most one order  *)
(* of a side in each series, the bot's bid is not so close under its ask    *)
(* that a round trip through both pays, whatever failed in earlier ticks    *)
(* (crossesAsk, decideBid, repriceDecision).                                *)
NoCross ==
    phase = "idle" /\ clean =>
        \A s \in Series : \A b \in bids[s], a \in asks[s] : ~Crosses(b.price, a.price)
=============================================================================
