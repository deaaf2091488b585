---------------------------- MODULE OracleProofs ----------------------------
(***************************************************************************)
(* Theorems about the oracles: PriceFeed, for every window, band, cadence, *)
(* clock drift and number of faults, and VolOracle, for every size of its  *)
(* ring, interval and gap.                                                 *)
(*                                                                         *)
(* The first two about PriceFeed rest on one fact about every print,       *)
(* stored or under way: its stamp is the time of its observation, plus the *)
(* drift, plus at most the slips so far.  The third is about what the      *)
(* settle keeper concludes from its reads, the fourth about the time by    *)
(* which an expiry is settled.                                             *)
(*                                                                         *)
(* VolOracle implements VolWindow: read from its oldest slot, the ring is  *)
(* the window, and its running sums are those of the window recomputed.    *)
(***************************************************************************)
EXTENDS PriceFeed, VolOracle, SumLemmas, SequenceTheorems, TLAPS

Stamped == [price : Prices, seen : Int, publish : Int]
Feed  == [price : Nat, publish : Int, authority : Keys, frozen : BOOLEAN]

(* A print is stamped after it was observed, late by no more than what     *)
(* slipped.                                                                *)
Timely(time, publish) ==
    time + drift <= publish /\ publish <= time + drift + slips

Types ==
    /\ now \in Int /\ drift \in Int /\ slips \in Nat /\ seen \in Int
    /\ feed = NoFeed \/ feed \in Feed
    /\ wire \subseteq Stamped
    /\ lane.pc # "idle" => lane.seen \in Int /\ lane.price \in Prices

FeedTimely == feed # NoFeed /\ feed.price > 0 => Timely(seen, feed.publish)
WireTimely == \A tx \in wire : Timely(tx.seen, tx.publish)
LaneTimely == lane.pc = "fetched" => lane.seen <= now /\ now <= lane.seen + slips
RecordTyped == record # NoRecord => record.seen \in Int /\ record.at \in Int

FeedInvariant ==
    /\ Types /\ RecordTyped
    /\ FeedTimely /\ WireTimely /\ LaneTimely
    /\ SettledNearExpiry

---------------------------------------------------------------------------
(* Lemmas. *)

(* Whole hours grow with the time they are counted in.                     *)
LEMMA HoursGrow ==
    ASSUME NEW a \in Nat, NEW b \in Nat, a <= b, NEW h \in Nat \ {0}
    PROVE  /\ a \div h \in Nat /\ b \div h \in Nat
           /\ a \div h <= b \div h
<1> DEFINE p == a \div h
           q == b \div h
<1>1. p \in Nat /\ h * p <= a
  OBVIOUS
<1>2. q \in Nat /\ b < h * q + h
  OBVIOUS
<1> HIDE DEF p, q
<1>3. h * p < h * (q + 1)
  BY <1>1, <1>2
<1>4. p < q + 1
  BY <1>1, <1>2, <1>3
<1> QED
  BY <1>1, <1>2, <1>4 DEF p, q

(* The band of a gap is at most the band of any longer time.               *)
LEMMA BandGrows ==
    ASSUME NEW gap \in Int, NEW time \in Nat, gap <= time
    PROVE  /\ Allowed(gap) \in Int
           /\ Allowed(gap) <= LeastOf(CapBps, BaseBps + PerHourBps * (time \div Hour))
<1> DEFINE aged == IF gap > 0 THEN gap ELSE 0
           p == aged \div Hour
           q == time \div Hour
<1>1. aged \in Nat /\ aged <= time
  OBVIOUS
<1>2. p \in Nat /\ q \in Nat /\ p <= q
  BY <1>1, HoursGrow, FeedAssumption
<1>3. Allowed(gap) = LeastOf(BaseBps + PerHourBps * p, CapBps)
  BY DEF Allowed
<1> HIDE DEF p, q, aged
<1>4. PerHourBps \in Nat /\ BaseBps \in Nat /\ CapBps \in Nat
  BY FeedAssumption
<1>5. PerHourBps * p \in Nat /\ PerHourBps * q \in Nat /\ PerHourBps * p <= PerHourBps * q
  BY <1>2, <1>4
<1>6. Allowed(gap) <= LeastOf(CapBps, BaseBps + PerHourBps * q) /\ Allowed(gap) \in Int
  BY <1>3, <1>4, <1>5 DEF LeastOf
<1> QED
  BY <1>6 DEF q

(* A print that is pushed leaves a timely feed.                            *)
LEMMA RollTimely ==
    ASSUME FeedInvariant, NEW tx \in Stamped, Timely(tx.seen, tx.publish),
           feed # NoFeed, Roll(tx), UNCHANGED <<slips, drift>>
    PROVE  /\ feed' \in Feed /\ seen' \in Int
           /\ FeedTimely'
           /\ feed'.price = tx.price /\ feed'.publish = tx.publish /\ seen' = tx.seen
<1>1. feed \in Feed
  BY DEF FeedInvariant, Types
<1>2. tx.price \in Nat /\ tx.publish \in Int /\ tx.seen \in Int
  BY FeedAssumption DEF Stamped
<1>3. /\ feed' = [feed EXCEPT !.price = tx.price, !.publish = tx.publish]
      /\ seen' = tx.seen
  BY DEF Roll
<1>4. feed' \in Feed /\ feed'.price = tx.price /\ feed'.publish = tx.publish
  BY <1>1, <1>2, <1>3 DEF Feed
<1> QED
  BY <1>2, <1>3, <1>4 DEF FeedTimely, Timely

(* A settlement takes a timely print published at or after expiry.         *)
LEMMA SettleTimely ==
    ASSUME FeedInvariant, SettleExpiry, UNCHANGED <<slips, drift>>
    PROVE  RecordTyped' /\ SettledNearExpiry'
<1>1. /\ Settleable
      /\ record' = [price |-> feed.price, seen |-> seen, at |-> now]
  BY DEF SettleExpiry
<1>2. /\ feed \in Feed /\ feed.price > 0 /\ feed.publish >= Expiry
      /\ Expiry <= now /\ now - Expiry <= SettleWindow
  BY <1>1 DEF Settleable, Readable, FeedInvariant, Types
<1>3. /\ now \in Int /\ seen \in Int /\ drift \in Int /\ slips \in Nat
      /\ feed.publish \in Int /\ feed # NoFeed
      /\ Expiry \in Nat /\ SettleWindow \in Nat
  BY <1>1, <1>2, FeedAssumption DEF FeedInvariant, Types, Feed, Settleable, Readable
<1>4. feed.publish <= seen + drift + slips
  BY <1>2, <1>3 DEF FeedInvariant, FeedTimely, Timely
<1>5. record'.seen = seen /\ record'.at = now
  BY <1>1
<1>6. record'.at \in Expiry .. Expiry + SettleWindow
  BY <1>2, <1>3, <1>5
<1>7. record'.seen + drift' + slips' >= Expiry
  BY <1>2, <1>3, <1>4, <1>5
<1> QED
  BY <1>3, <1>5, <1>6, <1>7 DEF RecordTyped, SettledNearExpiry

(* A step that leaves the clock, the accounts and the messages alone keeps *)
(* the invariant if it keeps the lane in order.                            *)
LEMMA ProcessStep ==
    ASSUME FeedInvariant, UNCHANGED <<now, chain, wire, drift, slips>>,
           lane'.pc # "idle" => lane'.seen \in Int /\ lane'.price \in Prices,
           lane'.pc = "fetched" => lane'.seen <= now /\ now <= lane'.seen + slips
    PROVE  FeedInvariant'
BY DEF FeedInvariant, Types, RecordTyped, FeedTimely, WireTimely, LaneTimely,
       Timely, SettledNearExpiry, chain

(* So does one that only forgets messages as well.                         *)
LEMMA ForgetStep ==
    ASSUME FeedInvariant, UNCHANGED <<now, chain, drift, slips>>,
           wire' \subseteq wire, lane' = lane \/ lane'.pc = "idle"
    PROVE  FeedInvariant'
BY DEF FeedInvariant, Types, RecordTyped, FeedTimely, WireTimely, LaneTimely,
       Timely, SettledNearExpiry, chain

(* So does one that only touches the account, if it leaves a timely one.   *)
LEMMA AccountStep ==
    ASSUME FeedInvariant, UNCHANGED <<now, record, drift, slips>>,
           wire' \subseteq wire, lane' = lane \/ lane'.pc = "idle",
           feed' = NoFeed \/ feed' \in Feed, seen' \in Int, FeedTimely'
    PROVE  FeedInvariant'
BY DEF FeedInvariant, Types, RecordTyped, WireTimely, LaneTimely,
       Timely, SettledNearExpiry

(* The admin's steps.                                                      *)
LEMMA AdminKeeps ==
    ASSUME FeedInvariant, AdminStep
    PROVE  FeedInvariant'
<1>1. CASE InitOptaPriceFeed
  <2>1. /\ feed' \in Feed /\ feed'.price = 0 /\ seen' = 0
        /\ UNCHANGED <<now, record, wire, lane, drift, slips>>
    BY <1>1 DEF InitOptaPriceFeed, Feed
  <2> QED
    BY <2>1, AccountStep DEF FeedTimely
<1>2. CASE Ceremony
  <2>1. PICK price \in Prices :
          LET tx == [price |-> price, seen |-> now, publish |-> now + drift]
          IN  PushAccepted(tx) /\ Roll(tx)
    BY <1>2 DEF Ceremony
  <2> DEFINE tx == [price |-> price, seen |-> now, publish |-> now + drift]
  <2>2. /\ feed # NoFeed /\ UNCHANGED <<now, wire, lane, drift, slips>>
        /\ now \in Int /\ drift \in Int /\ slips \in Nat
    BY <1>2 DEF Ceremony, FeedInvariant, Types
  <2>3. tx \in Stamped /\ Timely(tx.seen, tx.publish)
    BY <2>2 DEF Stamped, Timely
  <2>4. Roll(tx) /\ UNCHANGED record
    BY <2>1 DEF Roll
  <2> HIDE DEF tx
  <2>5. feed' \in Feed /\ seen' \in Int /\ FeedTimely'
    BY <2>2, <2>3, <2>4, RollTimely
  <2> QED
    BY <2>2, <2>4, <2>5, AccountStep
<1>3. CASE SetFeedFrozen
  <2>1. /\ feed' = [feed EXCEPT !.frozen = ~@] /\ feed \in Feed
        /\ UNCHANGED <<now, seen, record, wire, lane, drift, slips>>
    BY <1>3 DEF SetFeedFrozen, FeedInvariant, Types
  <2>2. feed' \in Feed /\ feed'.price = feed.price /\ feed'.publish = feed.publish
    BY <2>1 DEF Feed
  <2>3. seen' \in Int /\ FeedTimely'
    BY <1>3, <2>1, <2>2 DEF SetFeedFrozen, FeedInvariant, Types, FeedTimely, Timely
  <2> QED
    BY <2>1, <2>2, <2>3, AccountStep
<1>4. CASE SetFeedAuthority
  <2>1. PICK key \in Keys : feed' = [feed EXCEPT !.authority = key]
    BY <1>4 DEF SetFeedAuthority
  <2>2. /\ feed \in Feed /\ feed # NoFeed
        /\ UNCHANGED <<now, seen, record, wire, lane, drift, slips>>
    BY <1>4 DEF SetFeedAuthority, FeedInvariant, Types
  <2>3. feed' \in Feed /\ feed'.price = feed.price /\ feed'.publish = feed.publish
    BY <2>1, <2>2 DEF Feed
  <2>4. seen' \in Int /\ FeedTimely'
    BY <2>2, <2>3 DEF FeedInvariant, Types, FeedTimely, Timely
  <2> QED
    BY <2>2, <2>3, <2>4, AccountStep
<1>5. CASE CloseOptaPriceFeed
  <2>1. /\ feed' = NoFeed /\ seen' = 0
        /\ UNCHANGED <<now, record, wire, lane, drift, slips>>
    BY <1>5 DEF CloseOptaPriceFeed
  <2> QED
    BY <2>1, AccountStep DEF FeedTimely
<1> QED
  BY <1>1, <1>2, <1>3, <1>4, <1>5 DEF AdminStep

(* The lane's steps, and the landing of its pushes.                        *)
LEMMA LaneKeeps ==
    ASSUME FeedInvariant, LaneStep
    PROVE  FeedInvariant'
<1>1. now \in Int /\ drift \in Int /\ slips \in Nat
  BY DEF FeedInvariant, Types
<1>2. CASE FetchVenues
  <2>1. PICK price \in Prices :
          lane' = [pc |-> "fetched", price |-> price, seen |-> now, due |-> now]
    BY <1>2 DEF FetchVenues
  <2>2. UNCHANGED <<now, chain, wire, drift, slips>>
    BY <1>2 DEF FetchVenues
  <2> QED
    BY <1>1, <2>1, <2>2, ProcessStep
<1>3. CASE SendPush
  <2>1. /\ lane.pc = "fetched"
        /\ UNCHANGED <<now, chain, drift, slips>>
    BY <1>3 DEF SendPush
  <2>2. CASE Rest /\ UNCHANGED wire
    BY <2>1, <2>2, ForgetStep DEF Rest, Idle
  <2>3. CASE /\ wire' = wire \cup {[price |-> lane.price, seen |-> lane.seen,
                                    publish |-> now + drift]}
             /\ lane' = [lane EXCEPT !.pc = "sent"]
    <3> DEFINE tx == [price |-> lane.price, seen |-> lane.seen, publish |-> now + drift]
    <3>1. /\ lane.seen \in Int /\ lane.price \in Prices
          /\ lane.seen <= now /\ now <= lane.seen + slips
      BY <2>1 DEF FeedInvariant, Types, LaneTimely
    <3>2. tx \in Stamped /\ Timely(tx.seen, tx.publish)
      BY <1>1, <3>1 DEF Stamped, Timely
    <3>3. wire' \subseteq Stamped /\ WireTimely'
      BY <2>1, <2>3, <3>2 DEF FeedInvariant, Types, WireTimely, Timely
    <3>4. lane'.pc # "fetched" /\ (lane'.pc # "idle" => lane'.seen \in Int /\ lane'.price \in Prices)
      BY <2>3, <3>1, Z3
    <3> QED
      BY <2>1, <3>3, <3>4 DEF FeedInvariant, Types, RecordTyped, FeedTimely,
         LaneTimely, Timely, SettledNearExpiry, chain
  <2> QED
    BY <1>3, <2>2, <2>3 DEF SendPush
<1>4. CASE PushOptaPrice
  <2>1. PICK tx \in wire :
          /\ wire' = wire \ {tx}
          /\ Confirm(tx)
          /\ \/ /\ PushAccepted(tx) /\ WithinBand(tx.price)
                /\ Roll(tx)
             \/ UNCHANGED chain
    BY <1>4 DEF PushOptaPrice
  <2>2. wire' \subseteq wire /\ (lane' = lane \/ lane'.pc = "idle")
        /\ UNCHANGED <<now, drift, slips>>
    BY <1>4, <2>1 DEF PushOptaPrice, Confirm, Rest, Idle
  <2>3. CASE UNCHANGED chain
    BY <2>2, <2>3, ForgetStep
  <2>4. CASE PushAccepted(tx) /\ Roll(tx)
    <3>1. tx \in Stamped /\ Timely(tx.seen, tx.publish) /\ feed # NoFeed /\ UNCHANGED record
      BY <2>4 DEF FeedInvariant, Types, WireTimely, PushAccepted, Roll
    <3>2. feed' \in Feed /\ seen' \in Int /\ FeedTimely'
      BY <2>2, <2>4, <3>1, RollTimely
    <3> QED
      BY <2>2, <3>1, <3>2, AccountStep
  <2> QED
    BY <2>1, <2>3, <2>4
<1>5. CASE DropPush
  BY <1>5, ForgetStep DEF DropPush, Confirm, Rest, Idle
<1>6. CASE AbortTick
  BY <1>6, ForgetStep DEF AbortTick, Rest, Idle
<1>7. CASE RestartLane
  BY <1>7, ForgetStep DEF RestartLane, Idle
<1> QED
  BY <1>2, <1>3, <1>4, <1>5, <1>6, <1>7 DEF LaneStep

(* A settlement keeps it, whoever sends it.                                *)
LEMMA SettleKeeps ==
    ASSUME FeedInvariant, SettleExpiry, UNCHANGED <<now, wire, lane, drift, slips>>
    PROVE  FeedInvariant'
<1>1. RecordTyped' /\ SettledNearExpiry'
  BY SettleTimely
<1>2. UNCHANGED <<feed, seen>>
  BY DEF SettleExpiry
<1> QED
  BY <1>1, <1>2 DEF FeedInvariant, Types, FeedTimely, WireTimely, LaneTimely, Timely

(* The keeper's steps.                                                     *)
LEMMA KeeperKeeps ==
    ASSUME FeedInvariant, KeeperStep
    PROVE  FeedInvariant'
<1>1. UNCHANGED <<now, wire, lane, drift, slips>>
  BY DEF KeeperStep, Discover, BeginPass, LastLook, LookForRecord, LookAtFeed,
         SendSettle, ReadBack, PassFails, RestartKeeper, KeeperOnly
<1>2. UNCHANGED chain \/ SettleExpiry
  BY DEF KeeperStep, Discover, BeginPass, LastLook, LookForRecord, LookAtFeed,
         SendSettle, ReadBack, PassFails, RestartKeeper
<1>3. CASE UNCHANGED chain
  BY <1>1, <1>3, ForgetStep
<1>4. CASE SettleExpiry
  BY <1>1, <1>4, SettleKeeps
<1> QED
  BY <1>2, <1>3, <1>4

(* Time that passes under a lane at work is a slip.                        *)
LEMMA TickKeeps ==
    ASSUME FeedInvariant, Tick
    PROVE  FeedInvariant'
<1>1. /\ now' = now + 1
      /\ wire' \subseteq wire
      /\ UNCHANGED <<chain, lane, drift>>
      /\ slips' \in {slips, slips + 1}
      /\ lane.pc # "idle" => slips' = slips + 1
  BY DEF Tick, AtWork
<1>2. now \in Int /\ slips \in Nat /\ drift \in Int
  BY DEF FeedInvariant, Types
<1>3. Types' /\ RecordTyped'
  BY <1>1, <1>2 DEF FeedInvariant, Types, RecordTyped, chain
<1>4. LaneTimely'
  BY <1>1, <1>2 DEF FeedInvariant, Types, LaneTimely
<1>5. WireTimely'
  BY <1>1, <1>2 DEF FeedInvariant, Types, WireTimely, Timely, Stamped
<1>6. FeedTimely'
  BY <1>1, <1>2 DEF FeedInvariant, Types, FeedTimely, Timely, Feed, chain
<1>7. SettledNearExpiry'
  BY <1>1, <1>2, FeedAssumption DEF FeedInvariant, RecordTyped, SettledNearExpiry, chain
<1> QED
  BY <1>3, <1>4, <1>5, <1>6, <1>7 DEF FeedInvariant

LEMMA FeedStep ==
    ASSUME FeedInvariant, [Next]_vars
    PROVE  FeedInvariant'
<1>1. CASE AdminStep
  BY <1>1, AdminKeeps
<1>2. CASE LaneStep
  BY <1>2, LaneKeeps
<1>3. CASE KeeperStep
  BY <1>3, KeeperKeeps
<1>4. CASE OthersSettle
  BY <1>4, SettleKeeps DEF OthersSettle
<1>5. CASE Tick
  BY <1>5, TickKeeps
<1>6. CASE UNCHANGED vars
  BY <1>6, ForgetStep DEF vars
<1> QED
  BY <1>1, <1>2, <1>3, <1>4, <1>5, <1>6 DEF Next

LEMMA FeedStart == Init => FeedInvariant
<1> SUFFICES ASSUME Init PROVE FeedInvariant
  OBVIOUS
<1>1. /\ now \in Int /\ drift \in Int /\ slips = 0 /\ seen = 0 /\ feed = NoFeed
      /\ wire = {} /\ record = NoRecord /\ lane.pc = "idle"
  BY FeedAssumption DEF Init, Idle
<1> QED
  BY <1>1 DEF FeedInvariant, Types, RecordTyped, FeedTimely, WireTimely, LaneTimely,
              SettledNearExpiry

---------------------------------------------------------------------------
(* Every print is timely and the record was taken from one.                *)
THEOREM PrintsTimely == Spec => []FeedInvariant
<1> QED
  BY FeedStart, FeedStep, PTL DEF Spec

(* settle_expiry records a price observed at or after expiry, but for the  *)
(* drift of the lane's clock and what slipped, and inside the window.      *)
THEOREM SettledNearExpiryAlways == Spec => []SettledNearExpiry
<1>1. FeedInvariant => SettledNearExpiry
  BY DEF FeedInvariant
<1> QED
  BY <1>1, PrintsTimely, PTL

(* A step of FeedMovesOn. *)
MovesOn ==
    feed # NoFeed /\ feed' # NoFeed /\ feed.price > 0
       /\ <<feed.price, feed.publish>>' # <<feed.price, feed.publish>> =>
       /\ seen' + slips > seen
       /\ Deviation(feed.price, feed'.price)
             <= LeastOf(CapBps, BaseBps + PerHourBps
                           * ((seen' - seen + MaxSkew + slips) \div Hour))

(* Only a push of the lane replaces a price, and its guards were passed.   *)
LEMMA OnlyPushes ==
    ASSUME FeedInvariant, [Next]_vars, feed # NoFeed, feed' # NoFeed, feed.price > 0,
           <<feed.price, feed.publish>>' # <<feed.price, feed.publish>>
    PROVE  \E tx \in wire : /\ PushAccepted(tx) /\ WithinBand(tx.price) /\ Roll(tx)
                            /\ UNCHANGED <<slips, drift>>
<1>1. feed \in Feed /\ feed' # feed
  BY DEF FeedInvariant, Types
<1>2. CASE AdminStep
  <2>1. CASE InitOptaPriceFeed \/ CloseOptaPriceFeed
    BY <2>1 DEF InitOptaPriceFeed, CloseOptaPriceFeed
  <2>2. CASE Ceremony
    BY <2>2, <1>1 DEF Ceremony, Feed
  <2>3. CASE SetFeedFrozen
    BY <2>3, <1>1 DEF SetFeedFrozen, Feed
  <2>4. CASE SetFeedAuthority
    BY <2>4, <1>1 DEF SetFeedAuthority, Feed
  <2> QED
    BY <1>2, <2>1, <2>2, <2>3, <2>4 DEF AdminStep
<1>3. CASE LaneStep
  <2>1. CASE PushOptaPrice
    BY <2>1, <1>1 DEF PushOptaPrice, chain
  <2>2. CASE FetchVenues \/ SendPush \/ DropPush \/ AbortTick \/ RestartLane
    BY <2>2, <1>1 DEF FetchVenues, SendPush, DropPush, AbortTick, RestartLane, chain
  <2> QED
    BY <1>3, <2>1, <2>2 DEF LaneStep
<1>4. CASE KeeperStep
  BY <1>4, <1>1 DEF KeeperStep, Discover, BeginPass, LastLook, LookForRecord, LookAtFeed,
         SendSettle, ReadBack, PassFails, RestartKeeper, SettleExpiry, chain
<1>5. CASE OthersSettle
  BY <1>5, <1>1 DEF OthersSettle, SettleExpiry
<1>6. CASE Tick
  BY <1>6, <1>1 DEF Tick, chain
<1>7. CASE UNCHANGED vars
  BY <1>7, <1>1 DEF vars, chain
<1> QED
  BY <1>2, <1>3, <1>4, <1>5, <1>6, <1>7 DEF Next

LEMMA MovesOnStep ==
    ASSUME FeedInvariant, [Next]_vars
    PROVE  MovesOn
<1> SUFFICES ASSUME feed # NoFeed, feed' # NoFeed, feed.price > 0,
                    <<feed.price, feed.publish>>' # <<feed.price, feed.publish>>
             PROVE  /\ seen' + slips > seen
                    /\ Deviation(feed.price, feed'.price)
                          <= LeastOf(CapBps, BaseBps + PerHourBps
                                * ((seen' - seen + MaxSkew + slips) \div Hour))
  BY DEF MovesOn
<1>1. PICK tx \in wire : /\ PushAccepted(tx) /\ WithinBand(tx.price) /\ Roll(tx)
                         /\ UNCHANGED <<slips, drift>>
  BY OnlyPushes
<1>2. tx \in Stamped /\ Timely(tx.seen, tx.publish) /\ Timely(seen, feed.publish) /\ feed \in Feed
  BY DEF FeedInvariant, Types, WireTimely, FeedTimely
<1>3. /\ now \in Int /\ drift \in Int /\ slips \in Nat /\ seen \in Int
      /\ MaxSkew \in Nat /\ MinPush \in Nat \ {0}
      /\ feed.publish \in Int /\ feed.price \in Nat
      /\ tx.seen \in Int /\ tx.publish \in Int /\ tx.price \in Nat
  BY <1>2, FeedAssumption DEF FeedInvariant, Types, Feed, Stamped
<1>4. feed'.price = tx.price /\ seen' = tx.seen
  BY <1>1, <1>2, RollTimely
<1>5. now <= tx.publish + MaxSkew /\ tx.publish >= feed.publish + MinPush
  BY <1>1, <1>3 DEF PushAccepted, AbsDiff
<1>6. seen' + slips > seen
  BY <1>2, <1>3, <1>4, <1>5 DEF Timely
<1> DEFINE time == seen' - seen + MaxSkew + slips
           gap  == now - feed.publish
<1>7. time \in Nat /\ gap \in Int /\ gap <= time
  BY <1>2, <1>3, <1>4, <1>5, <1>6 DEF Timely
<1>8. Deviation(feed.price, tx.price) <= Allowed(gap)
  BY <1>1, <1>3 DEF WithinBand
<1>9. Deviation(feed.price, tx.price) \in Int
  <2>1. AbsDiff(tx.price, feed.price) \in Nat
    BY <1>3 DEF AbsDiff
  <2>2. AbsDiff(tx.price, feed.price) * 10000 \in Nat
    BY <2>1
  <2> QED
    BY <1>3, <2>2 DEF Deviation
<1>10. /\ Allowed(gap) \in Int
       /\ Allowed(gap) <= LeastOf(CapBps, BaseBps + PerHourBps * (time \div Hour))
  BY <1>7, BandGrows
<1>11. LeastOf(CapBps, BaseBps + PerHourBps * (time \div Hour)) \in Int
  <2>1. time \div Hour \in Nat
    BY <1>7, FeedAssumption, HoursGrow
  <2>2. PerHourBps * (time \div Hour) \in Nat
    BY <2>1, FeedAssumption
  <2> QED
    BY <2>2, FeedAssumption DEF LeastOf
<1> HIDE DEF time, gap
<1>12. Deviation(feed.price, tx.price) <= LeastOf(CapBps, BaseBps + PerHourBps * (time \div Hour))
  BY <1>8, <1>9, <1>10, <1>11
<1> QED
  BY <1>4, <1>6, <1>12 DEF time

(* No price is stored that moved out of the band for the time since the    *)
(* one before it, or that is an older observation: the breaker never       *)
(* disarms after the first price, and late pushes do not undo later ones.  *)
THEOREM FeedMovesOnAlways == Spec => FeedMovesOn
<1>1. FeedInvariant /\ [Next]_vars => [MovesOn]_vars
  BY MovesOnStep
<1>2. FeedMovesOn <=> [][MovesOn]_vars
  BY PTL DEF FeedMovesOn, MovesOn
<1> QED
  BY <1>1, <1>2, PrintsTimely, PTL DEF Spec

---------------------------------------------------------------------------
(* What the keeper believes, the second half of SettledInTime.  The first,  *)
(* that an expiry is not missed in silence, is about the time the two       *)
(* processes take; it follows below from the cadence they run at.           *)

Keeper == [pc : {"idle", "last", "look", "feed", "send", "check"},
           status : {"unknown", "active", "done", "dead"}, due : Int, next : Int]

(* A pass that goes for its last look does so past the window.              *)
KeeperInvariant ==
    /\ keeper \in Keeper /\ KeeperBelieves
    /\ keeper.pc = "last" => now > Expiry + SettleWindow

(* A settlement makes a record, and never past the window.                  *)
LEMMA SettledInside ==
    ASSUME FeedInvariant, SettleExpiry
    PROVE  record' # NoRecord /\ ~(now > Expiry + SettleWindow)
<1>1. feed \in Feed /\ seen \in Int /\ now \in Int /\ Expiry \in Int /\ SettleWindow \in Int
  BY FeedAssumption DEF FeedInvariant, Types, SettleExpiry, Settleable, Readable
<1>2. record' \in [price : Nat, seen : Int, at : Int]
  BY <1>1 DEF SettleExpiry, Feed
<1>3. ~(now > Expiry + SettleWindow)
  BY <1>1 DEF SettleExpiry, Settleable
<1> QED BY <1>2, <1>3, FeedAssumption

(* A record that is there stays, so what the keeper knows stays true.       *)
LEMMA BeliefStays ==
    ASSUME FeedInvariant, KeeperInvariant, UNCHANGED keeper,
           \/ UNCHANGED record /\ now' \in {now, now + 1}
           \/ SettleExpiry /\ now' = now
    PROVE  KeeperInvariant'
<1>1. now \in Int /\ Expiry \in Int /\ SettleWindow \in Int
  BY FeedAssumption DEF FeedInvariant, Types
<1>2. CASE UNCHANGED record /\ now' \in {now, now + 1}
  BY <1>1, <1>2 DEF KeeperInvariant, KeeperBelieves
<1>3. CASE SettleExpiry /\ now' = now
  BY <1>3, SettledInside DEF KeeperInvariant, KeeperBelieves
<1> QED BY <1>2, <1>3

(* How the keeper's assignments leave it.                                  *)
LEMMA Finished ==
    ASSUME keeper \in Keeper, now \in Int, NEW status \in {"done", "dead"}, Finish(status)
    PROVE  keeper' \in Keeper /\ keeper'.status = status /\ keeper'.pc = "idle"
<1>1. NextPass \in Int
  BY DEF NextPass
<1> QED BY <1>1 DEF Keeper, Finish

LEMMA Slept ==
    ASSUME keeper \in Keeper, now \in Int, Sleep
    PROVE  keeper' \in Keeper /\ keeper'.status = keeper.status /\ keeper'.pc = "idle"
<1>1. NextPass \in Int
  BY DEF NextPass
<1> QED BY <1>1 DEF Keeper, Sleep

LEMMA Went ==
    ASSUME keeper \in Keeper, now \in Int,
           NEW pc \in {"last", "look", "feed", "send", "check"}, Goto(pc)
    PROVE  keeper' \in Keeper /\ keeper'.status = keeper.status /\ keeper'.pc = pc
BY DEF Keeper, Goto

(* The keeper makes up its mind only on what it has just read.              *)
LEMMA KeeperLearns ==
    ASSUME FeedInvariant, KeeperInvariant, KeeperStep
    PROVE  KeeperInvariant'
<1>1. now' = now /\ now \in Int /\ keeper \in Keeper
      /\ Expiry \in Int /\ SettleWindow \in Int /\ DiscoverEvery \in Int
  BY FeedAssumption DEF FeedInvariant, Types, KeeperInvariant, KeeperStep, Discover,
     BeginPass, LastLook, LookForRecord, LookAtFeed, SendSettle, ReadBack, PassFails,
     RestartKeeper, KeeperOnly
<1>2. CASE Discover
  <2>1. PICK status \in {keeper.status, "active"}, next \in Int :
           keeper' = [keeper EXCEPT !.status = status, !.due = now, !.next = next]
    <3>1. now + 1 \in Int /\ now + DiscoverEvery \in Int
      BY <1>1
    <3>2. CASE keeper' = [keeper EXCEPT !.status = IF @ = "unknown" THEN "active" ELSE @,
                                        !.due = now, !.next = now + DiscoverEvery]
      BY <3>1, <3>2, Zenon
    <3>3. CASE keeper' = [keeper EXCEPT !.due = now, !.next = now + 1]
      <4>1. keeper' = [keeper EXCEPT !.status = keeper.status, !.due = now, !.next = now + 1]
        BY <1>1, <3>3 DEF Keeper
      <4> QED BY <3>1, <4>1, Zenon
    <3> QED BY <1>2, <3>2, <3>3 DEF Discover
  <2>2. /\ keeper' \in Keeper /\ keeper'.pc = "idle" /\ record' = record
        /\ keeper'.status \in {keeper.status, "active"}
    BY <1>1, <1>2, <2>1 DEF Discover, Keeper, chain
  <2> QED BY <1>1, <2>2 DEF KeeperInvariant, KeeperBelieves
<1>3. CASE BeginPass
  <2>1. /\ keeper' \in Keeper /\ keeper'.status = keeper.status /\ record' = record
        /\ keeper'.pc = "last" => now > Expiry + SettleWindow
    <3>1. record' = record
      BY <1>3 DEF BeginPass, chain
    <3>2. Sleep \/ Goto("look") \/ (Goto("last") /\ now > Expiry + SettleWindow)
      BY <1>3 DEF BeginPass
    <3> QED BY <1>1, <3>1, <3>2, Slept, Went
  <2> QED BY <1>1, <2>1 DEF KeeperInvariant, KeeperBelieves
<1>4. ASSUME NEW status \in {"done", "dead"}, Finish(status)
      PROVE  keeper' \in Keeper /\ keeper'.status = status /\ keeper'.pc = "idle"
  BY <1>1, <1>4, Finished
<1>5. ASSUME Sleep \/ (\E pc \in {"look", "feed", "send", "check"} : Goto(pc))
      PROVE  keeper' \in Keeper /\ keeper'.status = keeper.status /\ keeper'.pc # "last"
  BY <1>1, <1>5, Slept, Went
<1>6. CASE LastLook
  BY <1>1, <1>4, <1>6 DEF LastLook, KeeperInvariant, KeeperBelieves, chain
<1>7. CASE LookForRecord \/ LookAtFeed \/ ReadBack
  <2>1. record' = record
    BY <1>7 DEF LookForRecord, LookAtFeed, ReadBack, chain
  <2>2. (Finish("done") /\ record # NoRecord) \/ Sleep
        \/ (\E pc \in {"look", "feed", "send", "check"} : Goto(pc))
    BY <1>7 DEF LookForRecord, LookAtFeed, ReadBack
  <2> QED BY <1>1, <1>4, <1>5, <2>1, <2>2 DEF KeeperInvariant, KeeperBelieves
<1>8. CASE SendSettle
  <2>1. /\ keeper' \in Keeper /\ keeper'.status = keeper.status /\ keeper'.pc # "last"
        /\ record' = record \/ SettleExpiry
    BY <1>5, <1>8 DEF SendSettle, chain
  <2> QED BY <1>1, <2>1, SettledInside DEF KeeperInvariant, KeeperBelieves
<1>9. CASE PassFails
  <2>1. Sleep /\ record' = record
    BY <1>9 DEF PassFails, chain
  <2> QED BY <1>1, <1>5, <2>1 DEF KeeperInvariant, KeeperBelieves
<1>10. CASE RestartKeeper
  <2>1. keeper' \in Keeper /\ keeper'.status = "unknown" /\ keeper'.pc = "idle"
    BY <1>1, <1>10 DEF RestartKeeper, Keeper
  <2> QED BY <2>1 DEF KeeperInvariant, KeeperBelieves
<1> QED BY <1>2, <1>3, <1>6, <1>7, <1>8, <1>9, <1>10 DEF KeeperStep

LEMMA BeliefStep ==
    ASSUME FeedInvariant, KeeperInvariant, [Next]_vars
    PROVE  KeeperInvariant'
<1>1. CASE KeeperStep
  BY <1>1, KeeperLearns
<1>2. CASE AdminStep
  <2>1. UNCHANGED <<keeper, record, now>>
    BY <1>2 DEF AdminStep, InitOptaPriceFeed, Ceremony, SetFeedFrozen, SetFeedAuthority,
       CloseOptaPriceFeed, Roll
  <2> QED BY <2>1, BeliefStays
<1>3. CASE LaneStep
  <2>1. UNCHANGED <<keeper, record, now>>
    BY <1>3 DEF LaneStep, FetchVenues, SendPush, PushOptaPrice, DropPush, AbortTick,
       RestartLane, Roll, chain
  <2> QED BY <2>1, BeliefStays
<1>4. CASE OthersSettle
  BY <1>4, BeliefStays DEF OthersSettle
<1>5. CASE Tick \/ UNCHANGED vars
  <2>1. UNCHANGED <<keeper, record>> /\ now' \in {now, now + 1}
    BY <1>5 DEF Tick, vars, chain
  <2> QED BY <2>1, BeliefStays
<1> QED BY <1>1, <1>2, <1>3, <1>4, <1>5 DEF Next

LEMMA BeliefStart == Init => KeeperInvariant
<1> SUFFICES ASSUME Init PROVE KeeperInvariant
  OBVIOUS
<1>1. now \in Int /\ DiscoverEvery \in Int
  BY FeedAssumption DEF Init
<1>2. PICK next \in now .. now + DiscoverEvery :
          keeper = [pc |-> "idle", status |-> "unknown", due |-> now, next |-> next]
  BY DEF Init
<1>3. keeper \in Keeper /\ keeper.pc = "idle" /\ keeper.status = "unknown"
  BY <1>1, <1>2 DEF Keeper
<1> QED BY <1>3 DEF KeeperInvariant, KeeperBelieves

(* The settle keeper calls an expiry done only when its record is there and *)
(* dead only when none is and none can come: the settlement may land in the *)
(* middle of its pass, be its own whose answer was lost, or somebody's, and *)
(* a pass that began in the window may end past it (OptaSettleScheduler).   *)
THEOREM KeeperGivesUpRightly == Spec => []KeeperBelieves
<1>1. FeedInvariant /\ KeeperInvariant /\ [Next]_vars => KeeperInvariant'
  BY BeliefStep
<1>2. KeeperInvariant => KeeperBelieves
  BY DEF KeeperInvariant
<1> QED BY <1>1, <1>2, BeliefStart, PrintsTimely, PTL DEF Spec

---------------------------------------------------------------------------
(* The deadline, the first half of SettledInTime.  The argument is a       *)
(* budget of time.  A push that was stamped after expiry is sent at the    *)
(* latest when the lane's clock, the rate limit and its own interval let   *)
(* it; each fault or slip costs at most one more interval and one unit of  *)
(* time; and the keeper's pass follows it by at most one unit.             *)

(* The time by which such a push is sent, after so many mishaps.           *)
By(n, d) == Expiry + Lag(d) + (PushEvery - 1) + (MinPush - 1) + n * (PushEvery + 1)
PushBy   == By(faults + slips, drift)

(* The keeper would settle from what the feed holds.                       *)
Fresh == feed # NoFeed /\ feed.publish >= Expiry

(* A settlement is still owed.                                             *)
Wanted == record = NoRecord /\ ~blocked /\ faults + slips <= Tolerated

Lane == [pc : {"idle", "fetched", "sent"}, price : Nat, seen : Int, due : Int]

ProcessesTyped ==
    /\ now \in Nat /\ faults \in Nat /\ blocked \in BOOLEAN
    /\ drift \in Drifts /\ lane \in Lane

(* The processes are never due later than one interval from now.           *)
LaneClock ==
    /\ lane.pc = "idle" => lane.due <= now + PushEvery
    /\ lane.pc # "idle" => lane.seen <= now
KeeperClock ==
    /\ keeper.pc = "idle" => keeper.due <= now + 1
    /\ keeper.pc \in {"look", "feed", "send", "check"} => now >= Expiry

(* The keeper sends only when it has seen a price that will do.            *)
SendsFresh == keeper.pc \in {"send", "check"} => blocked \/ Fresh

(* After expiry an unfit feed has been noticed.                            *)
Noticed == now >= Expiry /\ ~blocked => ~Unfit(feed)

(* No stamp is further ahead than the program's skew or the lane's clock.  *)
NotAhead ==
    /\ feed # NoFeed => feed.publish <= now + MaxSkew
    /\ \A tx \in wire : tx.publish <= now + drift

(* The lane is in time for as long as nothing fresh has been stored; a     *)
(* tick that is no longer on its first instant leaves room for the next.   *)
LaneOnTime ==
    Wanted /\ now >= Expiry /\ ~Fresh =>
        /\ now <= PushBy
        /\ lane.pc = "idle" => lane.due <= PushBy
        /\ lane.pc # "idle" /\ now > lane.seen => now + PushEvery <= PushBy

(* From then on the keeper is.                                             *)
KeeperOnTime ==
    Wanted =>
        /\ keeper.status = "unknown" => keeper.next <= PushBy + 1
        /\ now >= Expiry /\ Fresh =>
              /\ now <= PushBy + 1
              /\ keeper.pc = "idle" /\ keeper.status = "active" => keeper.due <= PushBy + 1
              /\ keeper.pc = "check" => now <= PushBy

Clocks == LaneClock /\ KeeperClock /\ SendsFresh /\ Noticed /\ NotAhead

DeadlineInvariant == ProcessesTyped /\ Clocks /\ LaneOnTime /\ KeeperOnTime

Known == FeedInvariant /\ KeeperInvariant /\ DeadlineInvariant

(* The budget in numbers.                                                  *)
LEMMA Budget ==
    ASSUME NEW n \in Nat, NEW d \in Drifts
    PROVE  /\ By(n, d) \in Int /\ Lag(d) \in Nat /\ d \in Int /\ Lag(d) >= 0 - d
           /\ By(n + 1, d) = By(n, d) + PushEvery + 1
           /\ Expiry + Lag(d) + (PushEvery - 1) + (MinPush - 1) <= By(n, d)
           /\ n <= Tolerated => By(n, d) + 1 <= Expiry + SettleWindow
<1>1. /\ d \in Int /\ PushEvery \in Nat \ {0} /\ MinPush \in Nat \ {0} /\ Expiry \in Nat
      /\ Tolerated \in Nat /\ SettleWindow \in Nat
  BY FeedAssumption
<1>2. Lag(d) \in Nat /\ Lag(d) >= 0 - d
  BY <1>1 DEF Lag
<1> DEFINE c == n * (PushEvery + 1)
           t == Tolerated * (PushEvery + 1)
<1>3. c \in Nat /\ t \in Nat
  BY <1>1
<1>4. (n + 1) * (PushEvery + 1) = c + PushEvery + 1
  BY <1>1
<1>5. n <= Tolerated => c <= t
  BY <1>1
<1>6. Lag(d) + (PushEvery - 1) + (MinPush - 1) + t + 1 <= SettleWindow
  BY CadenceAssumption
<1>7. /\ By(n, d) = Expiry + Lag(d) + (PushEvery - 1) + (MinPush - 1) + c
      /\ By(n + 1, d) = Expiry + Lag(d) + (PushEvery - 1) + (MinPush - 1) + (c + PushEvery + 1)
  BY <1>4 DEF By
<1> HIDE DEF c, t
<1> QED BY <1>1, <1>2, <1>3, <1>5, <1>6, <1>7

(* The numbers of a state.                                                 *)
LEMMA Numbers ==
    ASSUME Known
    PROVE  /\ now \in Nat /\ drift \in Int /\ slips \in Nat /\ faults \in Nat
           /\ PushEvery \in Nat /\ PushEvery >= 1 /\ MinPush \in Nat /\ MinPush >= 1
           /\ Expiry \in Nat /\ SettleWindow \in Nat /\ MaxSkew \in Nat
           /\ 0 - MaxSkew <= drift /\ drift <= MaxSkew
           /\ PushBy \in Int /\ Lag(drift) \in Nat /\ Lag(drift) >= 0 - drift
           /\ Expiry + Lag(drift) + PushEvery + MinPush <= PushBy + 2
           /\ Wanted => PushBy + 1 <= Expiry + SettleWindow
           /\ lane \in Lane /\ lane.due \in Int /\ lane.seen \in Int
           /\ keeper \in Keeper /\ keeper.due \in Int /\ keeper.next \in Int
<1>1. /\ drift \in Drifts /\ faults \in Nat /\ slips \in Nat /\ now \in Nat
      /\ lane \in Lane /\ keeper \in Keeper
  BY DEF Known, DeadlineInvariant, ProcessesTyped, FeedInvariant, Types, KeeperInvariant
<1>2. faults + slips \in Nat
  BY <1>1
<1>3. /\ PushBy \in Int /\ Lag(drift) \in Nat /\ drift \in Int /\ Lag(drift) >= 0 - drift
      /\ Expiry + Lag(drift) + (PushEvery - 1) + (MinPush - 1) <= PushBy
      /\ faults + slips <= Tolerated => PushBy + 1 <= Expiry + SettleWindow
  BY <1>1, <1>2, Budget DEF PushBy
<1>4. 0 - MaxSkew <= drift /\ drift <= MaxSkew
  BY <1>1, CadenceAssumption
<1>5. /\ PushEvery \in Nat \ {0} /\ MinPush \in Nat \ {0} /\ Expiry \in Nat
      /\ SettleWindow \in Nat /\ MaxSkew \in Nat
  BY FeedAssumption
<1>6. /\ lane.due \in Int /\ lane.seen \in Int /\ keeper.due \in Int /\ keeper.next \in Int
  BY <1>1 DEF Lane, Keeper
<1>7. Expiry + Lag(drift) + PushEvery + MinPush <= PushBy + 2
  BY <1>3, <1>5
<1> QED BY <1>1, <1>3, <1>4, <1>5, <1>6, <1>7 DEF Wanted

(* A step without a mishap leaves the budget, one with a mishap adds to it.*)
LEMMA Unspent ==
    ASSUME Known, UNCHANGED <<faults, slips, drift>>
    PROVE  PushBy' = PushBy
BY DEF PushBy, By

LEMMA OneSpent ==
    ASSUME Known, UNCHANGED drift,
           \/ faults' = faults + 1 /\ UNCHANGED slips
           \/ slips' = slips + 1 /\ UNCHANGED faults
    PROVE  PushBy' = PushBy + PushEvery + 1
<1>1. drift \in Drifts /\ faults \in Nat /\ slips \in Nat
  BY DEF Known, DeadlineInvariant, ProcessesTyped, FeedInvariant, Types
<1> DEFINE n == faults + slips
<1>2. n \in Nat /\ faults' + slips' = n + 1
  BY <1>1
<1>3. PushBy' = By(n + 1, drift)
  BY <1>2 DEF PushBy, By
<1>4. PushBy = By(n, drift)
  BY DEF PushBy
<1> HIDE DEF n
<1> QED BY <1>1, <1>2, <1>3, <1>4, Budget

(* What every step does to the budget, and to what is owed: a mishap is    *)
(* counted once, what was noticed stays so, and a record stays.            *)
LEMMA Spends ==
    ASSUME Known, [Next]_vars
    PROVE  /\ drift' = drift
           /\ \/ UNCHANGED <<faults, slips>>
              \/ faults' = faults + 1 /\ UNCHANGED slips
              \/ slips' = slips + 1 /\ UNCHANGED faults
           /\ blocked' \in BOOLEAN /\ (blocked => blocked')
           /\ record' = record \/ record' # NoRecord
<1>1. blocked \in BOOLEAN
  BY DEF Known, DeadlineInvariant, ProcessesTyped
<1>2. SettleExpiry => record' # NoRecord
  BY SettledInside DEF Known
<1>3. CASE AdminStep
  <2>1. CASE InitOptaPriceFeed
    BY <1>1, <2>1 DEF InitOptaPriceFeed, Watch
  <2>2. CASE Ceremony
    <3>1. record' = record
      BY <2>2 DEF Ceremony, Roll
    <3> QED BY <1>1, <2>2, <3>1 DEF Ceremony
  <2>3. CASE SetFeedFrozen
    BY <1>1, <2>3 DEF SetFeedFrozen, Watch, Fault
  <2>4. CASE SetFeedAuthority
    <3>1. UNCHANGED faults \/ faults' = faults + 1
      BY <2>4 DEF SetFeedAuthority, Fault
    <3> QED BY <1>1, <2>4, <3>1 DEF SetFeedAuthority, Watch
  <2>5. CASE CloseOptaPriceFeed
    BY <1>1, <2>5 DEF CloseOptaPriceFeed, Watch
  <2> QED BY <1>3, <2>1, <2>2, <2>3, <2>4, <2>5 DEF AdminStep
<1>4. CASE LaneStep
  <2>1. CASE FetchVenues \/ SendPush
    BY <1>1, <2>1 DEF FetchVenues, SendPush, chain
  <2>2. CASE PushOptaPrice
    <3>1. record' = record /\ blocked' \in {blocked, (blocked \/ now >= Expiry)}
      BY <2>2 DEF PushOptaPrice, Roll, chain
    <3> QED BY <1>1, <2>2, <3>1 DEF PushOptaPrice
  <2>3. CASE DropPush \/ AbortTick \/ RestartLane
    BY <1>1, <2>3 DEF DropPush, AbortTick, RestartLane, Fault, chain
  <2> QED BY <1>4, <2>1, <2>2, <2>3 DEF LaneStep
<1>5. CASE KeeperStep
  <2>1. UNCHANGED <<drift, slips, blocked>>
    BY <1>5 DEF KeeperStep, Discover, BeginPass, LastLook, LookForRecord, LookAtFeed,
       SendSettle, ReadBack, PassFails, RestartKeeper, KeeperOnly
  <2>2. UNCHANGED faults \/ faults' = faults + 1
    BY <1>5 DEF KeeperStep, Discover, BeginPass, LastLook, LookForRecord, LookAtFeed,
       SendSettle, ReadBack, PassFails, RestartKeeper, Fault
  <2>3. record' = record \/ record' # NoRecord
    BY <1>2, <1>5 DEF KeeperStep, Discover, BeginPass, LastLook, LookForRecord, LookAtFeed,
       SendSettle, ReadBack, PassFails, RestartKeeper, chain
  <2> QED BY <1>1, <2>1, <2>2, <2>3
<1>6. CASE OthersSettle
  BY <1>1, <1>2, <1>6 DEF OthersSettle
<1>7. CASE Tick
  BY <1>1, <1>7 DEF Tick, Watch, chain
<1>8. CASE UNCHANGED vars
  BY <1>1, <1>8 DEF vars, chain
<1> QED BY <1>3, <1>4, <1>5, <1>6, <1>7, <1>8 DEF Next

(* So what is owed after a step was owed before it, and the budget has     *)
(* not shrunk.                                                             *)
LEMMA StillWanted ==
    ASSUME Known, [Next]_vars
    PROVE  /\ Wanted' => Wanted /\ record' = NoRecord /\ record = NoRecord /\ ~blocked /\ ~blocked'
           /\ PushBy' \in {PushBy, PushBy + PushEvery + 1}
           /\ PushBy' \in Int /\ PushBy <= PushBy'
<1>1. /\ faults \in Nat /\ slips \in Nat /\ PushEvery \in Nat /\ PushBy \in Int
      /\ Tolerated \in Nat
  BY Numbers, FeedAssumption
<1>2. faults + slips <= faults' + slips'
  BY <1>1, Spends
<1>3. Wanted' => Wanted /\ record' = NoRecord /\ record = NoRecord /\ ~blocked /\ ~blocked'
  BY <1>1, <1>2, Spends DEF Wanted
<1>4. PushBy' \in {PushBy, PushBy + PushEvery + 1}
  BY Spends, Unspent, OneSpent
<1> QED BY <1>1, <1>3, <1>4

(* How a step may change the feed.                                         *)
LEMMA FeedChanges ==
    ASSUME Known, [Next]_vars
    PROVE  \/ feed' = feed
           \/ AdminStep
           \/ \E tx \in wire : PushAccepted(tx) /\ Roll(tx) /\ LaneStep
<1>1. CASE LaneStep
  <2>1. CASE FetchVenues \/ SendPush \/ DropPush \/ AbortTick \/ RestartLane
    BY <2>1 DEF FetchVenues, SendPush, DropPush, AbortTick, RestartLane, chain
  <2>2. CASE PushOptaPrice
    BY <1>1, <2>2 DEF PushOptaPrice, chain
  <2> QED BY <1>1, <2>1, <2>2 DEF LaneStep
<1>2. CASE KeeperStep
  BY <1>2 DEF KeeperStep, Discover, BeginPass, LastLook, LookForRecord, LookAtFeed,
     SendSettle, ReadBack, PassFails, RestartKeeper, SettleExpiry, chain
<1>3. CASE OthersSettle \/ Tick \/ UNCHANGED vars
  BY <1>3 DEF OthersSettle, SettleExpiry, Tick, vars, chain
<1> QED BY <1>1, <1>2, <1>3 DEF Next

(* What a push leaves in the feed.                                         *)
LEMMA Rolled ==
    ASSUME Known, NEW tx \in Stamped, PushAccepted(tx), Roll(tx)
    PROVE  /\ feed' # NoFeed /\ feed \in Feed /\ feed' \in Feed
           /\ feed'.publish = tx.publish /\ feed'.price = tx.price /\ feed'.price > 0
           /\ feed'.frozen = feed.frozen /\ feed'.authority = feed.authority
<1>1. feed \in Feed
  BY DEF Known, FeedInvariant, Types, PushAccepted
<1>2. tx.price \in Nat /\ tx.price > 0 /\ tx.publish \in Int
  <2>1. tx.price \in Prices /\ tx.publish \in Int
    BY DEF Stamped
  <2>2. tx.price \in Nat \ {0}
    BY <2>1, FeedAssumption
  <2> QED BY <2>1, <2>2
<1>3. feed' = [feed EXCEPT !.price = tx.price, !.publish = tx.publish]
  BY DEF Roll
<1>4. feed' \in Feed
  BY <1>1, <1>2, <1>3 DEF Feed
<1>5. NoFeed \notin Feed
  BY FeedAssumption DEF Feed
<1> QED BY <1>1, <1>2, <1>3, <1>4, <1>5 DEF Feed

(* After expiry an unfit feed is noticed at once.                          *)
LEMMA NoticedKept ==
    ASSUME Known, [Next]_vars
    PROVE  Noticed'
<1> SUFFICES ASSUME now' >= Expiry, ~blocked' PROVE ~Unfit(feed')
  BY DEF Noticed
<1>1. ~blocked
  BY Spends
<1>2. CASE Tick
  BY <1>2 DEF Tick, Watch, chain
<1>3. CASE ~Tick
  <2>1. now' = now
    BY <1>3 DEF Next, AdminStep, InitOptaPriceFeed, Ceremony, SetFeedFrozen,
       SetFeedAuthority, CloseOptaPriceFeed, LaneStep, FetchVenues, SendPush,
       PushOptaPrice, DropPush, AbortTick, RestartLane, KeeperStep, Discover, BeginPass,
       LastLook, LookForRecord, LookAtFeed, SendSettle, ReadBack, PassFails,
       RestartKeeper, KeeperOnly, OthersSettle, vars
  <2>2. ~Unfit(feed)
    BY <1>1, <2>1 DEF Known, DeadlineInvariant, Clocks, Noticed
  <2>3. CASE AdminStep
    <3>1. CASE InitOptaPriceFeed \/ CloseOptaPriceFeed \/ SetFeedFrozen \/ SetFeedAuthority
      BY <2>1, <3>1 DEF InitOptaPriceFeed, CloseOptaPriceFeed, SetFeedFrozen,
         SetFeedAuthority, Watch
    <3>2. ~Ceremony
      BY <2>2 DEF Ceremony, Unfit
    <3> QED BY <2>3, <3>1, <3>2 DEF AdminStep
  <2>4. ASSUME NEW tx \in wire, PushAccepted(tx), Roll(tx) PROVE ~Unfit(feed')
    <3>1. tx \in Stamped
      BY DEF Known, FeedInvariant, Types
    <3> QED BY <2>2, <2>4, <3>1, Rolled DEF Unfit, Feed
  <2> QED BY <2>2, <2>3, <2>4, FeedChanges
<1> QED BY <1>2, <1>3

(* A fresh price stays until the feed is seen to be unfit.                 *)
LEMMA FreshStays ==
    ASSUME Known, [Next]_vars, Fresh, now >= Expiry, ~blocked'
    PROVE  Fresh'
<1>1. ~Unfit(feed) /\ feed \in Feed /\ NoFeed \notin Feed
  BY Spends, FeedAssumption DEF Known, DeadlineInvariant, Clocks, Noticed, Unfit,
     FeedInvariant, Types, Feed
<1>2. CASE AdminStep
  <2>1. ~InitOptaPriceFeed /\ ~Ceremony
    BY <1>1 DEF InitOptaPriceFeed, Ceremony, Unfit
  <2>2. ~CloseOptaPriceFeed
    BY DEF CloseOptaPriceFeed, Watch, Unfit
  <2>3. CASE SetFeedFrozen
    BY <1>1, <2>3 DEF SetFeedFrozen, Fresh, Feed
  <2>4. CASE SetFeedAuthority
    <3>1. PICK key \in Keys : feed' = [feed EXCEPT !.authority = key]
      BY <2>4 DEF SetFeedAuthority
    <3>2. feed' \in Feed /\ feed'.publish = feed.publish
      BY <1>1, <3>1 DEF Feed
    <3> QED BY <1>1, <3>2 DEF Fresh
  <2> QED BY <1>2, <2>1, <2>2, <2>3, <2>4 DEF AdminStep
<1>3. ASSUME NEW tx \in wire, PushAccepted(tx), Roll(tx) PROVE Fresh'
  <2>1. tx \in Stamped
    BY DEF Known, FeedInvariant, Types
  <2>2. feed'.publish = tx.publish /\ feed' # NoFeed
    BY <1>3, <2>1, Rolled
  <2>3. tx.publish >= feed.publish
    BY <1>1, <1>3, <2>1, FeedAssumption DEF PushAccepted, Unfit, Feed, Stamped
  <2> QED BY <1>1, <2>1, <2>2, <2>3, FeedAssumption DEF Fresh, Feed, Stamped
<1> QED BY <1>2, <1>3, FeedChanges DEF Fresh

(* How a step may change the clock, the processes and the messages.        *)
LEMMA ClockChanges ==
    ASSUME Known, [Next]_vars
    PROVE  Tick \/ now' = now
BY DEF Next, AdminStep, InitOptaPriceFeed, Ceremony, SetFeedFrozen, SetFeedAuthority,
   CloseOptaPriceFeed, LaneStep, FetchVenues, SendPush, PushOptaPrice, DropPush,
   AbortTick, RestartLane, KeeperStep, Discover, BeginPass, LastLook, LookForRecord,
   LookAtFeed, SendSettle, ReadBack, PassFails, RestartKeeper, KeeperOnly, OthersSettle,
   vars

LEMMA LaneChanges ==
    ASSUME Known, [Next]_vars
    PROVE  LaneStep \/ (UNCHANGED lane /\ wire' \subseteq wire)
BY DEF Next, AdminStep, InitOptaPriceFeed, Ceremony, SetFeedFrozen, SetFeedAuthority,
   CloseOptaPriceFeed, KeeperStep, Discover, BeginPass, LastLook, LookForRecord,
   LookAtFeed, SendSettle, ReadBack, PassFails, RestartKeeper, KeeperOnly, OthersSettle,
   Tick, vars

LEMMA KeeperChanges ==
    ASSUME Known, [Next]_vars
    PROVE  KeeperStep \/ UNCHANGED keeper
BY DEF Next, AdminStep, InitOptaPriceFeed, Ceremony, SetFeedFrozen, SetFeedAuthority,
   CloseOptaPriceFeed, LaneStep, FetchVenues, SendPush, PushOptaPrice, DropPush,
   AbortTick, RestartLane, OthersSettle, Tick, vars

(* A step of the lane at a glance: it fetches, it sends, or its tick ends. *)
Rests  == lane' = Idle(now + PushEvery)
Awoken == lane' = Idle(now)

LEMMA LaneSteps ==
    ASSUME Known, LaneStep
    PROVE  /\ now' = now /\ keeper' = keeper
           /\ \/ /\ lane.pc = "idle" /\ lane.due <= now
                 /\ lane' \in Lane /\ lane'.pc = "fetched" /\ lane'.seen = now
                 /\ UNCHANGED <<feed, wire>>
              \/ /\ lane.pc = "fetched" /\ lane' \in Lane /\ lane'.pc = "sent"
                 /\ lane'.seen = lane.seen /\ UNCHANGED feed
                 /\ \A tx \in wire' : tx \in wire \/ tx.publish = now + drift
              \/ /\ Rests /\ lane.pc = "fetched" /\ feed = NoFeed
                 /\ UNCHANGED <<feed, wire>>
              \/ PushOptaPrice
              \/ /\ Rests \/ Awoken \/ UNCHANGED lane
                 /\ faults' = faults + 1 /\ UNCHANGED slips
                 /\ UNCHANGED feed /\ wire' \subseteq wire
<1>1. now \in Int /\ drift \in Int /\ lane \in Lane
  BY Numbers
<1>2. CASE FetchVenues
  <2>1. PICK price \in Prices :
          lane' = [pc |-> "fetched", price |-> price, seen |-> now, due |-> now]
    BY <1>2 DEF FetchVenues
  <2>2. price \in Nat
    BY FeedAssumption
  <2>3. lane' \in Lane /\ lane'.pc = "fetched" /\ lane'.seen = now
    BY <1>1, <2>1, <2>2 DEF Lane
  <2> QED BY <1>2, <2>3 DEF FetchVenues, chain
<1>3. CASE SendPush
  <2>1. CASE lane' = [lane EXCEPT !.pc = "sent"]
             /\ wire' = wire \cup {[price |-> lane.price, seen |-> lane.seen,
                                    publish |-> now + drift]}
    <3>1. lane' \in Lane /\ lane'.pc = "sent" /\ lane'.seen = lane.seen
      BY <1>1, <2>1 DEF Lane
    <3>2. \A tx \in wire' : tx \in wire \/ tx.publish = now + drift
      BY <2>1
    <3> QED BY <1>3, <3>1, <3>2 DEF SendPush, chain
  <2>2. CASE feed = NoFeed /\ Rest /\ UNCHANGED wire
    BY <1>3, <2>2 DEF SendPush, Rest, Rests, chain
  <2> QED BY <1>3, <2>1, <2>2 DEF SendPush
<1>4. CASE PushOptaPrice
  BY <1>4 DEF PushOptaPrice
<1>5. CASE DropPush
  BY <1>5 DEF DropPush, Confirm, Rest, Rests, Fault, chain
<1>6. CASE AbortTick
  BY <1>6 DEF AbortTick, Rest, Rests, Fault, chain
<1>7. CASE RestartLane
  BY <1>7 DEF RestartLane, Awoken, Fault, chain
<1> QED BY <1>2, <1>3, <1>4, <1>5, <1>6, <1>7 DEF LaneStep

(* A lane whose tick is over is due within an interval.                    *)
LEMMA AtRest ==
    ASSUME NEW due \in Int
    PROVE  /\ Idle(due) \in Lane
           /\ Idle(due).pc = "idle" /\ Idle(due).due = due
BY DEF Idle, Lane

(* The landing of a push at a glance.                                      *)
LEMMA Landing ==
    ASSUME Known, PushOptaPrice
    PROVE  \E tx \in wire :
              /\ tx \in Stamped
              /\ wire' \subseteq wire
              /\ IF Awaited(tx) THEN Rests ELSE UNCHANGED lane
              /\ \/ PushAccepted(tx) /\ WithinBand(tx.price) /\ Roll(tx)
                 \/ /\ PushAccepted(tx) /\ ~WithinBand(tx.price) /\ UNCHANGED feed
                    /\ blocked' = (blocked \/ now >= Expiry)
                 \/ ~PushAccepted(tx) /\ UNCHANGED feed
              /\ UNCHANGED <<now, keeper, faults, slips, drift>>
<1>1. wire \subseteq Stamped
  BY DEF Known, FeedInvariant, Types
<1> QED BY <1>1 DEF PushOptaPrice, Confirm, Rest, Rests, chain

(* The types and the clocks of the lane.                                   *)
LEMMA LaneClockKept ==
    ASSUME Known, [Next]_vars
    PROVE  ProcessesTyped' /\ LaneClock'
<1>1. /\ now \in Nat /\ PushEvery \in Nat /\ lane \in Lane /\ faults \in Nat
      /\ lane.due \in Int /\ lane.seen \in Int
  BY Numbers
<1>2. LaneClock /\ drift \in Drifts
  BY DEF Known, DeadlineInvariant, Clocks, ProcessesTyped
<1>3. now' \in Nat /\ faults' \in Nat /\ blocked' \in BOOLEAN /\ drift' \in Drifts
  <2>1. now' \in {now, now + 1}
    BY ClockChanges DEF Tick
  <2> QED BY <1>1, <1>2, <2>1, Spends
<1>4. CASE LaneStep
  <2>1. now' = now /\ (lane.pc # "idle" => lane.seen <= now)
    BY <1>2, <1>4, LaneSteps DEF LaneClock
  <2>2. ASSUME Rests PROVE lane' \in Lane /\ LaneClock'
    BY <1>1, <2>1, <2>2, AtRest DEF Rests, LaneClock
  <2>3. ASSUME Awoken PROVE lane' \in Lane /\ LaneClock'
    BY <1>1, <2>1, <2>3, AtRest DEF Awoken, LaneClock
  <2>4. ASSUME UNCHANGED lane PROVE lane' \in Lane /\ LaneClock'
    BY <1>1, <1>2, <1>4, <2>4, LaneSteps DEF LaneClock
  <2>5. ASSUME lane' \in Lane /\ lane'.pc = "fetched" /\ lane'.seen = now PROVE lane' \in Lane /\ LaneClock'
    BY <1>1, <1>4, <2>5, LaneSteps DEF LaneClock
  <2>6. ASSUME lane.pc = "fetched" /\ lane' \in Lane /\ lane'.pc = "sent" /\ lane'.seen = lane.seen PROVE lane' \in Lane /\ LaneClock'
    BY <1>1, <1>2, <1>4, <2>6, LaneSteps DEF LaneClock
  <2>7. PushOptaPrice => Rests \/ UNCHANGED lane
    BY Landing
  <2>8. lane' \in Lane /\ LaneClock'
    BY <1>4, <2>2, <2>3, <2>4, <2>5, <2>6, <2>7, LaneSteps
  <2> QED BY <1>3, <2>8 DEF ProcessesTyped
<1>5. CASE UNCHANGED lane
  <2>1. now' \in {now, now + 1}
    BY ClockChanges DEF Tick
  <2> QED BY <1>1, <1>2, <1>3, <1>5, <2>1 DEF ProcessesTyped, LaneClock
<1> QED BY <1>4, <1>5, LaneChanges

(* A step of the keeper at a glance: it discovers, goes to sleep, goes on, *)
(* makes up its mind, or is started again.                                 *)
Mishap == faults' = faults + 1

Discovers ==
    /\ keeper.pc = "idle" /\ keeper'.pc = "idle" /\ keeper'.due = now
    /\ \/ keeper'.status # "unknown"
       \/ Mishap /\ keeper'.next = now + 1

FallsAsleep ==
    /\ keeper'.pc = "idle" /\ keeper'.due = now + 1
    /\ keeper'.status = keeper.status /\ keeper'.next = keeper.next
    /\ \/ keeper.pc = "idle" /\ (keeper.status # "active" \/ now < Expiry)
       \/ keeper.pc = "feed" /\ ~Fresh
       \/ keeper.pc = "check"
       \/ Mishap

GoesOn ==
    /\ keeper'.status = keeper.status /\ keeper'.next = keeper.next
    /\ \/ keeper'.pc = "last" /\ now > Expiry + SettleWindow
       \/ keeper'.pc = "look" /\ now >= Expiry
       \/ keeper'.pc = "feed" /\ keeper.pc = "look"
       \/ keeper'.pc = "send" /\ keeper.pc = "feed" /\ Fresh
       \/ /\ keeper'.pc = "check" /\ keeper.pc = "send"
          /\ record' # NoRecord \/ ~Settleable \/ Mishap

Concludes ==
    /\ keeper'.pc = "idle" /\ keeper'.due = now + 1
    /\ keeper'.status \in {"done", "dead"}

StartsAgain ==
    /\ keeper'.pc = "idle" /\ keeper'.due = now /\ keeper'.next = now
    /\ keeper'.status = "unknown" /\ Mishap

LEMMA KeeperSteps ==
    ASSUME Known, KeeperStep
    PROVE  /\ UNCHANGED <<now, lane, feed, wire, slips>>
           /\ Discovers \/ FallsAsleep \/ GoesOn \/ Concludes \/ StartsAgain
<1>1. now \in Int /\ keeper \in Keeper /\ NextPass = now + 1
  BY Numbers DEF NextPass
<1>2. UNCHANGED <<now, lane, feed, wire, slips>>
  BY DEF KeeperStep, Discover, BeginPass, LastLook, LookForRecord, LookAtFeed,
     SendSettle, ReadBack, PassFails, RestartKeeper, KeeperOnly, SettleExpiry, chain
<1>3. ASSUME Sleep
      PROVE  /\ keeper'.pc = "idle" /\ keeper'.due = now + 1
             /\ keeper'.status = keeper.status /\ keeper'.next = keeper.next
  BY <1>1, <1>3 DEF Sleep, Keeper
<1>4. ASSUME NEW pc, Goto(pc)
      PROVE  keeper'.pc = pc /\ keeper'.status = keeper.status /\ keeper'.next = keeper.next
  BY <1>1, <1>4 DEF Goto, Keeper
<1>5. ASSUME NEW status \in {"done", "dead"}, Finish(status) PROVE Concludes
  BY <1>1, <1>5 DEF Finish, Keeper, Concludes
<1>6. CASE Discover
  <2>1. keeper.pc = "idle"
    BY <1>6 DEF Discover
  <2>2. CASE keeper' = [keeper EXCEPT !.status = IF @ = "unknown" THEN "active" ELSE @,
                                      !.due = now, !.next = now + DiscoverEvery]
    <3>1. keeper'.pc = "idle" /\ keeper'.due = now /\ keeper'.status # "unknown"
      BY <1>1, <2>1, <2>2 DEF Keeper
    <3> QED BY <1>2, <2>1, <3>1 DEF Discovers
  <2>3. CASE keeper' = [keeper EXCEPT !.due = now, !.next = now + 1] /\ Fault
    <3>1. keeper'.pc = "idle" /\ keeper'.due = now /\ keeper'.next = now + 1
      BY <1>1, <2>1, <2>3 DEF Keeper
    <3> QED BY <1>2, <2>1, <2>3, <3>1 DEF Discovers, Mishap, Fault
  <2> QED BY <1>6, <2>2, <2>3 DEF Discover
<1>7. CASE BeginPass
  <2>1. CASE keeper.status # "active" \/ now < Expiry
    <3>1. CASE Sleep
      <4>1. keeper.pc = "idle"
        BY <1>7 DEF BeginPass
      <4> QED BY <1>2, <1>3, <2>1, <3>1, <4>1 DEF FallsAsleep
    <3>2. CASE Goto("last") /\ now > Expiry + SettleWindow
      BY <1>2, <1>4, <3>2 DEF GoesOn
    <3>3. CASE Goto("look") /\ now \in Expiry .. Expiry + SettleWindow
      <4>1. now >= Expiry
        BY <1>1, <3>3, FeedAssumption
      <4> QED BY <1>2, <1>4, <3>3, <4>1 DEF GoesOn
    <3> QED BY <1>7, <3>1, <3>2, <3>3 DEF BeginPass
  <2>2. CASE keeper.status = "active" /\ ~(now < Expiry)
    <3>1. CASE Goto("last") /\ now > Expiry + SettleWindow
      BY <1>2, <1>4, <3>1 DEF GoesOn
    <3>2. CASE Goto("look")
      <4>1. now >= Expiry
        BY <1>1, <2>2, FeedAssumption
      <4> QED BY <1>2, <1>4, <3>2, <4>1 DEF GoesOn
    <3> QED BY <1>7, <2>2, <3>1, <3>2 DEF BeginPass
  <2> QED BY <2>1, <2>2
<1>8. CASE LastLook
  BY <1>2, <1>5, <1>8 DEF LastLook
<1>9. CASE LookForRecord
  BY <1>2, <1>4, <1>5, <1>9 DEF LookForRecord, GoesOn
<1>10. CASE LookAtFeed
  BY <1>2, <1>3, <1>4, <1>10 DEF LookAtFeed, GoesOn, FallsAsleep, Fresh
<1>11. CASE SendSettle
  <2>1. keeper'.pc = "check" /\ keeper'.status = keeper.status /\ keeper'.next = keeper.next
    BY <1>4, <1>11 DEF SendSettle
  <2>2. record' # NoRecord \/ ~Settleable \/ Mishap
    BY <1>11, SettledInside DEF SendSettle, Fault, Mishap, Known
  <2> QED BY <1>2, <1>11, <2>1, <2>2 DEF SendSettle, GoesOn
<1>12. CASE ReadBack
  BY <1>2, <1>3, <1>5, <1>12 DEF ReadBack, FallsAsleep
<1>13. CASE PassFails
  BY <1>2, <1>3, <1>13 DEF PassFails, Fault, Mishap, FallsAsleep
<1>14. CASE RestartKeeper
  BY <1>2, <1>14 DEF RestartKeeper, Fault, Mishap, StartsAgain
<1> QED BY <1>6, <1>7, <1>8, <1>9, <1>10, <1>11, <1>12, <1>13, <1>14 DEF KeeperStep

(* The clocks of the keeper, and what it sends on.                         *)
LEMMA KeeperClockKept ==
    ASSUME Known, [Next]_vars
    PROVE  KeeperClock' /\ SendsFresh'
<1>1. now \in Int /\ Expiry \in Nat /\ keeper \in Keeper /\ keeper.due \in Int
      /\ SettleWindow \in Nat
  BY Numbers
<1>2. KeeperClock /\ SendsFresh
  BY DEF Known, DeadlineInvariant, Clocks
<1>3. CASE KeeperStep
  <2>1. now' = now /\ (Fresh => Fresh')
    BY <1>3, KeeperSteps DEF Fresh
  <2>2. blocked => blocked'
    BY Spends
  <2>3. CASE GoesOn
    BY <1>1, <1>2, <2>1, <2>2, <2>3 DEF GoesOn, KeeperClock, SendsFresh
  <2>4. CASE Discovers \/ FallsAsleep \/ Concludes \/ StartsAgain
    <3>1. keeper'.pc = "idle" /\ keeper'.due \in {now, now + 1}
      BY <2>4 DEF Discovers, FallsAsleep, Concludes, StartsAgain
    <3> QED BY <1>1, <2>1, <3>1 DEF KeeperClock, SendsFresh
  <2> QED BY <1>3, <2>3, <2>4, KeeperSteps
<1>4. CASE UNCHANGED keeper
  <2>1. now' \in {now, now + 1}
    BY ClockChanges DEF Tick
  <2>2. KeeperClock'
    BY <1>1, <1>2, <1>4, <2>1 DEF KeeperClock
  <2>3. SendsFresh'
    <3>1. CASE keeper.pc \in {"send", "check"}
      <4>1. now >= Expiry /\ (blocked \/ Fresh)
        BY <1>2, <3>1 DEF KeeperClock, SendsFresh
      <4> QED BY <4>1, Spends, FreshStays DEF SendsFresh
    <3> QED BY <1>4, <3>1 DEF SendsFresh
  <2> QED BY <2>2, <2>3
<1> QED BY <1>3, <1>4, KeeperChanges

(* No stamp runs ahead.                                                    *)
LEMMA NotAheadKept ==
    ASSUME Known, [Next]_vars
    PROVE  NotAhead'
<1>1. /\ now \in Int /\ MaxSkew \in Nat /\ drift \in Int /\ drift' = drift
      /\ drift <= MaxSkew
  BY Numbers, Spends
<1>2. NotAhead /\ wire \subseteq Stamped /\ (feed = NoFeed \/ feed \in Feed)
  BY DEF Known, DeadlineInvariant, Clocks, FeedInvariant, Types
<1>3. now' \in {now, now + 1}
  BY ClockChanges DEF Tick
<1>4. \A tx \in wire : tx.publish \in Int /\ tx.publish <= now + drift
  BY <1>2 DEF NotAhead, Stamped
<1>5. \A tx \in wire' : tx.publish <= now' + drift'
  <2>1. \A tx \in wire' : tx \in wire \/ tx.publish = now + drift
    <3>1. CASE LaneStep
      BY <3>1, LaneSteps, Landing
    <3> QED BY <3>1, LaneChanges
  <2> QED BY <1>1, <1>3, <1>4, <2>1
<1>6. feed # NoFeed => feed.publish \in Int /\ feed.publish <= now + MaxSkew
  BY <1>2 DEF NotAhead, Feed
<1>7. CASE feed' = feed
  BY <1>1, <1>3, <1>5, <1>6, <1>7 DEF NotAhead
<1>8. CASE AdminStep
  <2>1. now' = now
    BY <1>8 DEF AdminStep, InitOptaPriceFeed, Ceremony, SetFeedFrozen, SetFeedAuthority,
       CloseOptaPriceFeed
  <2>2. CASE InitOptaPriceFeed
    <3>1. feed'.publish = 0
      BY <2>2 DEF InitOptaPriceFeed
    <3>2. now >= 0
      BY Numbers
    <3> QED BY <1>1, <1>5, <2>1, <3>1, <3>2 DEF NotAhead
  <2>3. CASE Ceremony
    <3>1. PICK price \in Prices :
            LET tx == [price |-> price, seen |-> now, publish |-> now + drift]
            IN  PushAccepted(tx) /\ Roll(tx)
      BY <2>3 DEF Ceremony
    <3> DEFINE tx == [price |-> price, seen |-> now, publish |-> now + drift]
    <3>2. tx \in Stamped /\ tx.publish = now + drift /\ PushAccepted(tx) /\ Roll(tx)
      BY <1>1, <3>1 DEF Stamped
    <3> HIDE DEF tx
    <3>3. feed'.publish = now + drift
      BY <3>2, Rolled
    <3> QED BY <1>1, <1>5, <2>1, <3>3 DEF NotAhead
  <2>4. CASE SetFeedFrozen
    <3>1. feed'.publish = feed.publish /\ feed # NoFeed
      BY <1>2, <2>4 DEF SetFeedFrozen, Feed
    <3> QED BY <1>1, <1>5, <1>6, <2>1, <3>1 DEF NotAhead
  <2>5. CASE SetFeedAuthority
    <3>1. PICK key \in Keys : feed' = [feed EXCEPT !.authority = key]
      BY <2>5 DEF SetFeedAuthority
    <3>2. feed'.publish = feed.publish /\ feed # NoFeed
      BY <1>2, <2>5, <3>1 DEF SetFeedAuthority, Feed
    <3> QED BY <1>1, <1>5, <1>6, <2>1, <3>2 DEF NotAhead
  <2>6. CASE CloseOptaPriceFeed
    BY <1>5, <2>6 DEF CloseOptaPriceFeed, NotAhead
  <2> QED BY <1>8, <2>2, <2>3, <2>4, <2>5, <2>6 DEF AdminStep
<1>9. ASSUME NEW tx \in wire, PushAccepted(tx), Roll(tx), LaneStep PROVE NotAhead'
  <2>1. tx \in Stamped /\ now' = now
    BY <1>2, <1>9, LaneSteps
  <2>2. feed'.publish = tx.publish
    BY <1>9, <2>1, Rolled
  <2> QED BY <1>1, <1>4, <1>5, <2>1, <2>2 DEF NotAhead
<1> QED BY <1>7, <1>8, <1>9, FeedChanges

(* The landing of a push the lane waits for: it is fresh afterwards, or    *)
(* the lane is at rest with a next tick that is in time.                   *)
LEMMA LandsInTime ==
    ASSUME Known, [Next]_vars, LaneStep, Wanted', now >= Expiry, ~Fresh, ~Fresh',
           NEW tx \in wire, Awaited(tx),
           \/ PushAccepted(tx) /\ WithinBand(tx.price) /\ Roll(tx)
           \/ /\ PushAccepted(tx) /\ ~WithinBand(tx.price) /\ UNCHANGED feed
              /\ blocked' = (blocked \/ now >= Expiry)
           \/ ~PushAccepted(tx) /\ UNCHANGED feed
    PROVE  now + PushEvery <= PushBy
<1>1. /\ now \in Nat /\ drift \in Int /\ Expiry \in Nat /\ PushEvery \in Nat /\ PushEvery >= 1
      /\ MinPush \in Nat /\ MinPush >= 1 /\ MaxSkew \in Nat /\ PushBy \in Int
      /\ Lag(drift) \in Nat /\ Lag(drift) >= 0 - drift
      /\ 0 - MaxSkew <= drift /\ drift <= MaxSkew
      /\ Expiry + Lag(drift) + PushEvery + MinPush <= PushBy + 2
      /\ lane.seen \in Int
  BY Numbers
<1>2. lane.pc = "sent" /\ tx.seen = lane.seen
  BY DEF Awaited
<1>3. Wanted /\ ~blocked /\ ~blocked'
  BY StillWanted
<1>4. CASE now > lane.seen
  BY <1>2, <1>3, <1>4 DEF Known, DeadlineInvariant, LaneOnTime
<1>5. CASE ~(now > lane.seen)
  <2>1. tx \in Stamped
    BY DEF Known, FeedInvariant, Types
  <2>2. tx.publish \in Int /\ tx.publish <= now + drift /\ tx.seen + drift <= tx.publish
    BY <2>1 DEF Known, FeedInvariant, WireTimely, Timely, DeadlineInvariant, Clocks,
       NotAhead, Stamped
  <2>3. lane.seen <= now
    BY <1>2 DEF Known, DeadlineInvariant, Clocks, LaneClock
  <2>4. tx.publish = now + drift
    BY <1>1, <1>2, <1>5, <2>2, <2>3
  <2>5. CASE tx.publish < Expiry
    BY <1>1, <2>4, <2>5
  <2>6. CASE tx.publish >= Expiry
    <3>1. ~PushAccepted(tx) /\ UNCHANGED feed
      <4>1. CASE PushAccepted(tx) /\ WithinBand(tx.price) /\ Roll(tx)
        <5>1. feed' # NoFeed /\ feed'.publish = tx.publish
          BY <2>1, <4>1, Rolled
        <5> QED BY <2>6, <5>1 DEF Fresh
      <4>2. CASE blocked' = (blocked \/ now >= Expiry)
        BY <1>3, <4>2
      <4> QED BY <4>1, <4>2
    <3>2. /\ feed # NoFeed /\ ~feed.frozen /\ feed.authority = LaneKey /\ feed.price # 0
      BY <1>3 DEF Known, DeadlineInvariant, Clocks, Noticed, Unfit
    <3>3. AbsDiff(tx.publish, now) <= MaxSkew
      BY <1>1, <2>4 DEF AbsDiff
    <3>4. ~(tx.publish - feed.publish >= MinPush)
      BY <3>1, <3>2, <3>3 DEF PushAccepted
    <3>5. feed.publish \in Int /\ feed.publish < Expiry
      <4>1. feed \in Feed
        BY <3>2 DEF Known, FeedInvariant, Types
      <4>2. feed.publish \in Int
        BY <4>1 DEF Feed
      <4> QED BY <1>1, <3>2, <4>2 DEF Fresh
    <3>6. now + drift < Expiry + MinPush - 1
      BY <1>1, <2>4, <3>4, <3>5
    <3> QED BY <1>1, <3>6
  <2> QED BY <1>1, <2>2, <2>5, <2>6
<1> QED BY <1>4, <1>5

(* The lane is in time after every step.                                   *)
LEMMA LaneInTime ==
    ASSUME Known, [Next]_vars
    PROVE  LaneOnTime'
<1> SUFFICES ASSUME Wanted', now' >= Expiry, ~Fresh'
             PROVE  /\ now' <= PushBy'
                    /\ lane'.pc = "idle" => lane'.due <= PushBy'
                    /\ lane'.pc # "idle" /\ now' > lane'.seen => now' + PushEvery <= PushBy'
  BY DEF LaneOnTime
<1>1. /\ now \in Nat /\ Expiry \in Nat /\ PushEvery \in Nat /\ PushEvery >= 1
      /\ MinPush \in Nat /\ MinPush >= 1 /\ PushBy \in Int /\ Lag(drift) \in Nat
      /\ Expiry + Lag(drift) + PushEvery + MinPush <= PushBy + 2
      /\ lane \in Lane /\ lane.seen \in Int /\ lane.due \in Int
  BY Numbers
<1>2. /\ Wanted /\ ~blocked /\ ~blocked'
      /\ PushBy' \in Int /\ PushBy <= PushBy'
  BY StillWanted
<1>3. LaneClock
  BY DEF Known, DeadlineInvariant, Clocks
<1>4. CASE Tick
  <2>1. /\ now' = now + 1 /\ UNCHANGED <<lane, feed, drift, faults>>
        /\ AtWork => slips' = slips + 1
    BY <1>4 DEF Tick, chain
  <2>2. AtWork => PushBy' = PushBy + PushEvery + 1
    BY <2>1, OneSpent
  <2>3. CASE now >= Expiry
    <3>1. /\ now <= PushBy
          /\ lane.pc = "idle" => lane.due <= PushBy
          /\ lane.pc # "idle" /\ now > lane.seen => now + PushEvery <= PushBy
      BY <1>2, <2>1, <2>3 DEF Known, DeadlineInvariant, LaneOnTime, Fresh
    <3>2. CASE AtWork
      BY <1>1, <2>1, <2>2, <3>1, <3>2
    <3>3. CASE ~AtWork
      <4>1. lane.pc = "idle" /\ ~(lane.due <= now)
        BY <3>3 DEF AtWork
      <4> QED BY <1>1, <1>2, <2>1, <3>1, <4>1
    <3> QED BY <3>2, <3>3
  <2>4. CASE ~(now >= Expiry)
    <3>1. now' = Expiry /\ now + 1 = Expiry
      BY <1>1, <2>1, <2>4
    <3>2. lane'.pc = "idle" => lane'.due <= PushBy'
      BY <1>1, <1>2, <1>3, <2>1, <3>1 DEF LaneClock
    <3>3. lane'.pc # "idle" => now' + PushEvery <= PushBy'
      <4>1. lane'.pc # "idle" => AtWork
        BY <2>1 DEF AtWork
      <4> QED BY <1>1, <2>2, <3>1, <4>1
    <3> QED BY <1>1, <1>2, <3>1, <3>2, <3>3
  <2> QED BY <2>3, <2>4
<1>5. CASE now' = now
  <2>1. ~Fresh
    BY <1>2, <1>5, FreshStays
  <2>2. /\ now <= PushBy
        /\ lane.pc = "idle" => lane.due <= PushBy
        /\ lane.pc # "idle" /\ now > lane.seen => now + PushEvery <= PushBy
    BY <1>2, <1>5, <2>1 DEF Known, DeadlineInvariant, LaneOnTime
  <2>3. now' <= PushBy'
    BY <1>1, <1>2, <1>5, <2>2
  <2>4. CASE UNCHANGED lane
    BY <1>1, <1>2, <1>5, <2>2, <2>4
  <2>5. ASSUME Rests, now + PushEvery <= PushBy'
        PROVE  lane'.pc = "idle" /\ lane'.due <= PushBy'
    BY <1>1, <2>5, AtRest DEF Rests
  <2>6. CASE LaneStep
    <3>1. CASE lane' \in Lane /\ lane'.pc = "fetched" /\ lane'.seen = now
      BY <1>1, <1>5, <2>3, <3>1
    <3>2. CASE lane.pc = "fetched" /\ lane'.pc = "sent" /\ lane'.seen = lane.seen
      BY <1>1, <1>2, <1>5, <2>2, <2>3, <3>2
    <3>3. feed # NoFeed
      BY <1>2, <1>5 DEF Known, DeadlineInvariant, Clocks, Noticed, Unfit
    <3>4. CASE PushOptaPrice
      <4>1. PICK tx \in wire :
              /\ IF Awaited(tx) THEN Rests ELSE UNCHANGED lane
              /\ \/ PushAccepted(tx) /\ WithinBand(tx.price) /\ Roll(tx)
                 \/ /\ PushAccepted(tx) /\ ~WithinBand(tx.price) /\ UNCHANGED feed
                    /\ blocked' = (blocked \/ now >= Expiry)
                 \/ ~PushAccepted(tx) /\ UNCHANGED feed
        BY <3>4, Landing
      <4>2. CASE Awaited(tx)
        <5>1. now + PushEvery <= PushBy
          BY <1>5, <2>1, <2>6, <4>1, <4>2, LandsInTime
        <5> QED BY <1>1, <1>2, <2>3, <2>5, <4>1, <4>2, <5>1
      <4> QED BY <2>4, <4>1, <4>2
    <3>5. CASE /\ Rests \/ Awoken \/ UNCHANGED lane
               /\ faults' = faults + 1 /\ UNCHANGED slips
      <4>1. PushBy' = PushBy + PushEvery + 1
        BY <3>5, Spends, OneSpent
      <4>2. CASE Rests
        BY <1>1, <2>2, <2>3, <2>5, <4>1, <4>2
      <4>3. CASE Awoken
        <5>1. lane'.pc = "idle" /\ lane'.due = now
          BY <1>1, <4>3, AtRest DEF Awoken
        <5> QED BY <1>1, <2>2, <2>3, <4>1, <5>1
      <4> QED BY <2>4, <3>5, <4>2, <4>3
    <3> QED BY <2>6, <3>1, <3>2, <3>3, <3>4, <3>5, LaneSteps
  <2> QED BY <2>4, <2>6, LaneChanges
<1> QED BY <1>4, <1>5, ClockChanges

(* What is fresh and owed in time can be settled.                          *)
LEMMA FreshSettles ==
    ASSUME Known, Wanted, Fresh, now >= Expiry, now <= PushBy + 1
    PROVE  Settleable
<1>1. /\ now \in Nat /\ Expiry \in Nat /\ SettleWindow \in Nat /\ MaxSkew \in Nat
      /\ PushBy \in Int /\ PushBy + 1 <= Expiry + SettleWindow
  BY Numbers
<1>2. record = NoRecord /\ ~blocked
  BY DEF Wanted
<1>3. /\ feed # NoFeed /\ ~feed.frozen /\ feed.price # 0 /\ feed \in Feed
      /\ feed.publish <= now + MaxSkew
  BY <1>2 DEF Known, DeadlineInvariant, Clocks, Noticed, Unfit, NotAhead, FeedInvariant, Types
<1>4. feed.price \in Nat /\ feed.publish \in Int /\ feed.publish >= Expiry
  BY <1>3 DEF Fresh, Feed
<1>5. Readable(SettleWindow)
  BY <1>1, <1>3, <1>4 DEF Readable
<1> QED BY <1>1, <1>2, <1>4, <1>5 DEF Settleable

(* The keeper is in time after every step.                                 *)
LEMMA KeeperInTime ==
    ASSUME Known, [Next]_vars
    PROVE  KeeperOnTime'
<1> SUFFICES ASSUME Wanted'
             PROVE  /\ keeper'.status = "unknown" => keeper'.next <= PushBy' + 1
                    /\ now' >= Expiry /\ Fresh' =>
                          /\ now' <= PushBy' + 1
                          /\ keeper'.pc = "idle" /\ keeper'.status = "active" =>
                                keeper'.due <= PushBy' + 1
                          /\ keeper'.pc = "check" => now' <= PushBy'
  BY DEF KeeperOnTime
<1>1. /\ now \in Nat /\ Expiry \in Nat /\ PushEvery \in Nat /\ PushEvery >= 1
      /\ PushBy \in Int /\ Expiry <= PushBy /\ SettleWindow \in Nat
      /\ keeper \in Keeper /\ keeper.due \in Int /\ keeper.next \in Int
  <2>1. MinPush \in Nat /\ MinPush >= 1 /\ Lag(drift) \in Nat
        /\ Expiry + Lag(drift) + PushEvery + MinPush <= PushBy + 2
    BY Numbers
  <2> QED BY <2>1, Numbers
<1>2. /\ Wanted /\ record = NoRecord /\ record' = NoRecord /\ ~blocked /\ ~blocked'
      /\ PushBy' \in Int /\ PushBy <= PushBy'
  BY StillWanted
<1>b. PICK p \in Int : p = PushBy'
  BY <1>2
<1>n. /\ PushBy <= p /\ PushBy \in Int /\ now \in Int /\ Expiry \in Int /\ Expiry <= PushBy
  BY <1>1, <1>2, <1>b
<1>3. PushBy + 1 <= Expiry + SettleWindow
  BY <1>2, Numbers
<1>4. KeeperClock /\ SendsFresh
  BY DEF Known, DeadlineInvariant, Clocks
<1>5. keeper.status = "unknown" => keeper.next <= PushBy + 1
  BY <1>2 DEF Known, DeadlineInvariant, KeeperOnTime
<1>6. ASSUME now >= Expiry, Fresh
      PROVE  /\ now <= PushBy + 1
             /\ keeper.pc = "idle" /\ keeper.status = "active" => keeper.due <= PushBy + 1
             /\ keeper.pc = "check" => now <= PushBy
  BY <1>2, <1>6 DEF Known, DeadlineInvariant, KeeperOnTime
<1>7. ASSUME now >= Expiry, ~Fresh PROVE now <= PushBy
  BY <1>2, <1>7 DEF Known, DeadlineInvariant, LaneOnTime
<1>8. now <= PushBy + 1
  BY <1>1, <1>6, <1>7
<1>9. Mishap /\ UNCHANGED slips => PushBy' = PushBy + PushEvery + 1
  BY Spends, OneSpent DEF Mishap
<1>10. keeper.status \in {"unknown", "active"}
  <2>1. keeper.status # "done" /\ keeper.status # "dead"
    BY <1>1, <1>2, <1>3, <1>8 DEF Known, KeeperInvariant, KeeperBelieves
  <2> QED BY <1>1, <2>1 DEF Keeper
<1>11. keeper'.status = "unknown" => keeper'.next <= PushBy' + 1
  <2>1. CASE UNCHANGED keeper
    BY <1>1, <1>2, <1>5, <2>1
  <2>2. CASE KeeperStep
    <3>1. UNCHANGED slips
      BY <2>2, KeeperSteps
    <3>2. CASE Discovers
      BY <1>1, <1>2, <1>8, <1>9, <3>1, <3>2 DEF Discovers
    <3>3. CASE FallsAsleep \/ GoesOn
      BY <1>1, <1>2, <1>5, <3>3 DEF FallsAsleep, GoesOn
    <3>4. CASE Concludes \/ StartsAgain
      BY <1>1, <1>2, <1>8, <3>4 DEF Concludes, StartsAgain
    <3> QED BY <2>2, <3>2, <3>3, <3>4, KeeperSteps
  <2> QED BY <2>1, <2>2, KeeperChanges
<1>12. ASSUME now' >= Expiry, Fresh'
       PROVE  /\ now' <= PushBy' + 1
              /\ keeper'.pc = "idle" /\ keeper'.status = "active" => keeper'.due <= PushBy' + 1
              /\ keeper'.pc = "check" => now' <= PushBy'
  <2>1. CASE Tick
    <3>1. /\ now' = now + 1 /\ UNCHANGED <<keeper, feed, drift, faults>>
          /\ AtWork => slips' = slips + 1
      BY <2>1 DEF Tick, chain
    <3>2. AtWork => PushBy' = PushBy + PushEvery + 1
      BY <3>1, OneSpent
    <3>3. CASE now >= Expiry
      <4>1. Fresh
        BY <1>12, <3>1 DEF Fresh
      <4>2. CASE AtWork
        BY <1>1, <1>6, <3>1, <3>2, <3>3, <4>1, <4>2
      <4>3. CASE ~AtWork
        <5>1. keeper.pc = "idle" /\ ~(keeper.due <= now) /\ ~(keeper.next <= now)
          BY <4>3 DEF AtWork
        <5>2. now + 1 <= PushBy + 1
          BY <1>1, <1>5, <1>6, <1>10, <3>3, <4>1, <5>1
        <5>3. now + 1 <= p + 1 /\ now' = now + 1
          BY <1>n, <3>1, <5>2
        <5>4. keeper.status = "active" => keeper.due <= PushBy + 1
          BY <1>6, <3>3, <4>1, <5>1
        <5>5. keeper.status = "active" => keeper.due <= p + 1
          BY <1>1, <1>n, <5>4
        <5>6. keeper.pc # "check" /\ keeper' = keeper
          BY <3>1, <5>1
        <5> QED BY <1>b, <5>3, <5>5, <5>6, Zenon
      <4> QED BY <4>2, <4>3
    <3>4. CASE ~(now >= Expiry)
      <4>1. now' = Expiry /\ now + 1 = Expiry
        BY <1>1, <1>12, <3>1, <3>4
      <4>2. keeper'.pc # "check"
        BY <1>4, <3>1, <3>4 DEF KeeperClock
      <4>3. keeper.pc = "idle" => keeper.due <= Expiry
        BY <1>4, <4>1 DEF KeeperClock
      <4>4. Expiry <= p + 1
        BY <1>n
      <4>5. keeper.pc = "idle" => keeper.due <= p + 1
        BY <1>1, <1>n, <4>3
      <4>6. now' <= p + 1 /\ keeper' = keeper
        BY <3>1, <4>1, <4>4
      <4> QED BY <1>b, <4>2, <4>5, <4>6, Zenon
    <3> QED BY <3>3, <3>4
  <2>2. CASE now' = now
    <3>1. now >= Expiry /\ now' <= PushBy' + 1
      <4>1. now >= Expiry
        BY <1>12, <2>2
      <4>2. now <= p + 1
        BY <1>n, <1>8
      <4> QED BY <1>b, <2>2, <4>1, <4>2, Zenon
    <3>2. CASE UNCHANGED keeper
      <4>1. CASE Fresh
        <5>1. /\ keeper.pc = "idle" /\ keeper.status = "active" => keeper.due <= PushBy + 1
              /\ keeper.pc = "check" => now <= PushBy
          BY <1>6, <3>1, <4>1
        <5>2. /\ keeper.pc = "idle" /\ keeper.status = "active" => keeper.due <= PushBy' + 1
              /\ keeper.pc = "check" => now <= PushBy'
          BY <1>1, <1>2, <5>1
        <5> QED BY <2>2, <3>1, <3>2, <5>2, Zenon
      <4>2. CASE ~Fresh
        <5>1. now <= PushBy /\ keeper.pc # "check"
          BY <1>2, <1>4, <1>7, <3>1, <4>2 DEF SendsFresh
        <5>2. keeper.pc = "idle" => keeper.due <= PushBy + 1
          BY <1>1, <1>4, <5>1 DEF KeeperClock
        <5> QED BY <1>1, <1>2, <3>1, <3>2, <5>1, <5>2
      <4> QED BY <4>1, <4>2
    <3>3. CASE KeeperStep
      <4>1. UNCHANGED slips /\ Fresh
        BY <1>12, <3>3, KeeperSteps DEF Fresh
      <4>2. CASE Discovers
        <5>1. keeper'.pc = "idle" /\ keeper'.due = now
          BY <4>2 DEF Discovers
        <5>2. now <= p + 1
          BY <1>n, <1>8
        <5> QED BY <1>b, <3>1, <5>1, <5>2, Zenon
      <4>3. CASE FallsAsleep
        <5>1. CASE Mishap
          BY <1>1, <1>8, <1>9, <3>1, <4>1, <4>3, <5>1 DEF FallsAsleep
        <5>2. CASE keeper.pc = "check"
          <6>1. keeper'.pc = "idle" /\ keeper'.due = now + 1
            BY <4>3 DEF FallsAsleep
          <6>2. now <= PushBy
            BY <1>6, <3>1, <4>1, <5>2
          <6>3. now + 1 <= p + 1
            BY <1>n, <6>2
          <6> QED BY <1>b, <3>1, <6>1, <6>3, Zenon
        <5>3. CASE keeper.pc = "idle" /\ (keeper.status # "active" \/ now < Expiry)
          BY <1>1, <3>1, <4>3, <5>3 DEF FallsAsleep
        <5> QED BY <4>1, <4>3, <5>1, <5>2, <5>3, <3>1 DEF FallsAsleep
      <4>4. CASE GoesOn
        <5>1. CASE keeper'.pc = "check"
          <6>1. Settleable
            BY <1>2, <1>8, <3>1, <4>1, FreshSettles
          <6>2. Mishap
            BY <1>2, <4>4, <5>1, <6>1 DEF GoesOn
          <6> QED BY <1>1, <1>8, <1>9, <2>2, <3>1, <4>1, <5>1, <6>2
        <5>2. CASE keeper'.pc # "check"
          BY <3>1, <4>4, <5>2 DEF GoesOn
        <5> QED BY <5>1, <5>2
      <4>5. CASE Concludes \/ StartsAgain
        BY <3>1, <4>5 DEF Concludes, StartsAgain
      <4> QED BY <3>3, <4>2, <4>3, <4>4, <4>5, KeeperSteps
    <3> QED BY <3>2, <3>3, KeeperChanges
  <2> QED BY <2>1, <2>2, ClockChanges
<1> QED BY <1>11, <1>12

LEMMA DeadlineStep ==
    ASSUME Known, [Next]_vars
    PROVE  DeadlineInvariant'
<1>1. ProcessesTyped' /\ LaneClock'
  BY LaneClockKept
<1>2. KeeperClock' /\ SendsFresh'
  BY KeeperClockKept
<1>3. Noticed' /\ NotAhead'
  BY NoticedKept, NotAheadKept
<1>4. LaneOnTime' /\ KeeperOnTime'
  BY LaneInTime, KeeperInTime
<1> QED BY <1>1, <1>2, <1>3, <1>4 DEF DeadlineInvariant, Clocks

(* Time begins early enough for a discovery before the expiry.             *)
LEMMA DeadlineStart == Init => DeadlineInvariant
<1> SUFFICES ASSUME Init PROVE DeadlineInvariant
  OBVIOUS
<1>1. /\ MaxSkew \in Nat /\ DiscoverEvery \in Nat /\ DiscoverEvery >= 1 /\ Expiry \in Nat
      /\ PushEvery \in Nat /\ PushEvery >= 1 /\ MinPush \in Nat /\ MinPush >= 1
      /\ MaxSkew + 1 + DiscoverEvery <= Expiry
  BY FeedAssumption, CadenceAssumption
<1>2. /\ now = MaxSkew + 1 /\ feed = NoFeed /\ wire = {} /\ drift \in Drifts
      /\ faults = 0 /\ slips = 0 /\ blocked = FALSE
  BY DEF Init
<1>3. PICK due \in now .. now + PushEvery : lane = Idle(due)
  BY DEF Init
<1>4. PICK next \in now .. now + DiscoverEvery :
          keeper = [pc |-> "idle", status |-> "unknown", due |-> now, next |-> next]
  BY DEF Init
<1>5. due \in Int /\ due <= now + PushEvery /\ next \in Int /\ next <= now + DiscoverEvery
  BY <1>1, <1>2
<1>6. lane \in Lane /\ lane.pc = "idle" /\ lane.due = due
  BY <1>3, <1>5, AtRest
<1>7. keeper.pc = "idle" /\ keeper.status = "unknown" /\ keeper.due = now /\ keeper.next = next
  BY <1>4
<1>8. ProcessesTyped /\ LaneClock /\ KeeperClock /\ SendsFresh
  <2>1. now \in Nat /\ faults \in Nat /\ blocked \in BOOLEAN
    <3>1. now \in Nat /\ faults \in Nat
      BY <1>1, <1>2
    <3> QED BY <1>2, <3>1, Zenon
  <2>2. ProcessesTyped
    BY <1>2, <1>6, <2>1 DEF ProcessesTyped
  <2>3. LaneClock
    BY <1>5, <1>6 DEF LaneClock
  <2>4. keeper.due <= now + 1
    BY <1>7, <2>1
  <2>5. KeeperClock /\ SendsFresh
    BY <1>7, <2>4 DEF KeeperClock, SendsFresh
  <2> QED BY <2>2, <2>3, <2>5
<1>9. now < Expiry
  BY <1>1, <1>2
<1>10. Noticed /\ NotAhead /\ LaneOnTime
  BY <1>1, <1>2, <1>9 DEF Noticed, NotAhead, LaneOnTime
<1>11. KeeperOnTime
  <2>1. PushBy = By(0, drift)
    BY <1>2 DEF PushBy
  <2>2. /\ By(0, drift) \in Int /\ Lag(drift) \in Nat
        /\ Expiry + Lag(drift) + (PushEvery - 1) + (MinPush - 1) <= By(0, drift)
    BY <1>2, Budget
  <2>3. Expiry <= PushBy /\ PushBy \in Int
    BY <1>1, <2>1, <2>2
  <2> QED BY <1>1, <1>2, <1>5, <1>7, <1>9, <2>3 DEF KeeperOnTime
<1> QED BY <1>8, <1>10, <1>11 DEF DeadlineInvariant, Clocks

(* Every process stays within the budget of its mishaps.                   *)
THEOREM WithinBudget == Spec => []Known
<1>1. Init => Known
  BY FeedStart, BeliefStart, DeadlineStart DEF Known
<1>2. Known /\ [Next]_vars => Known'
  <2> SUFFICES ASSUME Known, [Next]_vars PROVE Known'
    OBVIOUS
  <2>1. FeedInvariant'
    BY FeedStep DEF Known
  <2>2. KeeperInvariant'
    BY BeliefStep DEF Known
  <2>3. DeadlineInvariant'
    BY DeadlineStep
  <2> QED BY <2>1, <2>2, <2>3 DEF Known
<1> QED BY <1>1, <1>2, PTL DEF Spec

(* An expiry without a price past its window was not missed by the lane    *)
(* and the keeper: the feed was unfit or the breaker refused a push after  *)
(* expiry, or more went wrong than the cadence leaves room for; and what   *)
(* the keeper believes of it is so (fpOracleCrank, OptaSettleScheduler,    *)
(* push_opta_price, settle_expiry).                                        *)
THEOREM SettledInTimeAlways == Spec => []SettledInTime
<1>1. Known => SettledInTime
  <2> SUFFICES ASSUME Known PROVE SettledInTime
    OBVIOUS
  <2>1. KeeperBelieves
    BY DEF Known, KeeperInvariant
  <2>2. ASSUME now > Expiry + SettleWindow, record = NoRecord, ~blocked,
               ~(faults + slips > Tolerated)
        PROVE  FALSE
    <3>1. /\ now \in Nat /\ Expiry \in Nat /\ SettleWindow \in Nat /\ PushBy \in Int
          /\ faults \in Nat /\ slips \in Nat
      BY Numbers
    <3>2. Wanted
      BY <2>2, <3>1, FeedAssumption DEF Wanted
    <3>3. PushBy + 1 <= Expiry + SettleWindow
      BY <3>2, Numbers
    <3>4. now >= Expiry
      BY <2>2, <3>1
    <3>5. now <= PushBy + 1
      BY <3>1, <3>2, <3>4 DEF Known, DeadlineInvariant, LaneOnTime, KeeperOnTime
    <3> QED BY <2>2, <3>1, <3>3, <3>5
  <2> QED BY <2>1, <2>2 DEF SettledInTime
<1> QED BY <1>1, WithinBudget, PTL

----------------------------------------------------------------------------
(* The ring and its running sums.                                           *)

(* A remainder by the size of the ring, of a number below twice the size.   *)
LEMMA RingIndex ==
    ASSUME NEW x \in Nat, x < 2 * Size
    PROVE  x % Size = IF x < Size THEN x ELSE x - Size
<1>1. Size \in Nat \ {0}
  BY VolAssumption
<1>2. CASE x < Size
  BY <1>1, <1>2
<1>3. CASE x >= Size
  BY <1>1, <1>3
<1> QED BY <1>1, <1>2, <1>3

(* A function one longer has a total larger by its last value.              *)
LEMMA SumLonger ==
    ASSUME NEW n \in Nat, NEW f \in [1 .. n -> Int], NEW g \in [1 .. n + 1 -> Int],
           \A x \in 1 .. n : g[x] = f[x]
    PROVE  SumFunction(g) = SumFunction(f) + g[n + 1]
<1>1. IsFiniteSet(1 .. n) /\ IsFiniteSet(1 .. n + 1)
  BY FS_Interval
<1>2. (1 .. n + 1) \ {n + 1} = 1 .. n /\ n + 1 \in 1 .. n + 1
  OBVIOUS
<1>3. SumFunctionOnSet(g, 1 .. n + 1) = g[n + 1] + SumFunctionOnSet(g, 1 .. n)
  <2>1. \A x \in 1 .. n + 1 : g[x] \in Int
    OBVIOUS
  <2> QED BY <1>1, <1>2, <2>1, SumRemove
<1>4. SumFunctionOnSet(g, 1 .. n) = SumFunctionOnSet(f, 1 .. n)
  BY <1>1, SumSame
<1>5. SumFunctionOnSet(f, 1 .. n) \in Int /\ g[n + 1] \in Int
  <2>1. \A x \in 1 .. n : f[x] \in Int
    OBVIOUS
  <2> QED BY <1>1, <2>1, SumInt
<1> QED BY <1>3, <1>4, <1>5 DEF SumFunction

LEMMA SumOne ==
    ASSUME NEW f, NEW e, f[e] \in Int
    PROVE  SumFunctionOnSet(f, {e}) = f[e]
<1>1. PICK E : E = {e}
  OBVIOUS
<1>2. IsFiniteSet(E) /\ E # {}
  BY <1>1, FS_Singleton
<1>3. /\ Pick(E) \in E
      /\ SumFunctionOnSet(f, E) = f[Pick(E)] + SumFunctionOnSet(f, E \ {Pick(E)})
  BY <1>2, SumPick
<1>4. Pick(E) = e /\ E \ {e} = {}
  BY <1>1, <1>3
<1>5. SumFunctionOnSet(f, {}) = 0
  BY SumEmpty
<1>6. SumFunctionOnSet(f, E) = f[e] + 0
  BY <1>3, <1>4, <1>5
<1> QED BY <1>1, <1>6

(* A function that starts one later has a total smaller by the first value. *)
LEMMA SumLater ==
    ASSUME NEW n \in Nat, NEW f \in [1 .. n + 1 -> Int], NEW g \in [1 .. n -> Int],
           \A x \in 1 .. n : g[x] = f[x + 1]
    PROVE  SumFunction(f) = f[1] + SumFunction(g)
<1>1. PICK S : S = 2 .. n + 1
  OBVIOUS
<1>2. PICK T : T = 1 .. n
  OBVIOUS
<1>3. PICK R : R = 1 .. n + 1
  OBVIOUS
<1>4. IsFiniteSet(S) /\ IsFiniteSet(T) /\ IsFiniteSet(R)
  BY <1>1, <1>2, <1>3, FS_Interval
<1>5. R \ {1} = S /\ 1 \in R
  BY <1>1, <1>3
<1>6. \A x \in R : f[x] \in Int
  BY <1>3
<1>7. SumFunctionOnSet(f, R) = f[1] + SumFunctionOnSet(f, R \ {1})
  BY ONLY <1>4, <1>5, <1>6, SumRemove
<1> DEFINE owner == [x \in S |-> x - 1]
           part == [t \in T |-> SumFunctionOnSet(f, {x \in S : owner[x] = t})]
<1>8. SumFunction(part) = SumFunctionOnSet(f, S)
  <2>1. owner \in [S -> T]
    BY <1>1, <1>2
  <2>2. \A x \in S : f[x] \in Int
    BY <1>5, <1>6
  <2> HIDE DEF owner
  <2> QED BY ONLY <1>4, <2>1, <2>2, SumByOwner
<1>9. \A t \in T : part[t] = g[t]
  <2> SUFFICES ASSUME NEW t \in T PROVE part[t] = g[t]
    OBVIOUS
  <2>1. PICK e : e = t + 1
    OBVIOUS
  <2>2. {x \in S : owner[x] = t} = {e}
    BY <1>1, <1>2, <2>1
  <2>3. f[e] \in Int /\ g[t] = f[e]
    BY <1>2, <2>1
  <2>4. SumFunctionOnSet(f, {e}) = f[e]
    BY ONLY <2>3, SumOne
  <2> QED BY <2>2, <2>3, <2>4
<1>10. part = g
  BY <1>2, <1>9
<1>11. DOMAIN f = R /\ R \ {1} = S
  BY <1>3, <1>5
<1>12. SumFunction(f) = SumFunctionOnSet(f, R)
  BY <1>11 DEF SumFunction
<1> HIDE DEF part
<1> QED BY <1>7, <1>8, <1>10, <1>11, <1>12

---------------------------------------------------------------------------
(* The ring. *)

(* Where the i-th return of a full ring is, oldest first.                   *)
Slot(first, i) == IF first + i - 1 < Size THEN first + i - 1 ELSE first + i - 1 - Size

(* A push moves the oldest on by one; the slot it wrote becomes the last.   *)
LEMMA Slots ==
    ASSUME NEW h \in 0 .. Size - 1, NEW g, g = IF h + 1 < Size THEN h + 1 ELSE 0
    PROVE  /\ \A i \in 1 .. Size : Slot(h, i) \in 0 .. Size - 1
           /\ \A i \in 1 .. Size - 1 : Slot(g, i) = Slot(h, i + 1) /\ Slot(h, i + 1) # h
           /\ Slot(g, Size) = h /\ Slot(h, 1) = h
<1>1. Size \in Nat \ {0}
  BY VolAssumption
<1> QED BY <1>1 DEF Slot

(* An account whose ring, while it fills, is written from its start.        *)
Ringed(o) == o \in Oracles /\ (o.count < Size => o.head = o.count)

LEMMA AccountTyped ==
    ASSUME NEW o, Ringed(o)
    PROVE  /\ o.ring \in [0 .. Size - 1 -> Int] /\ o.head \in 0 .. Size - 1
           /\ o.count \in 0 .. Size /\ Size \in Nat \ {0} /\ o.sum \in Int
           /\ o.squares \in Int /\ o.spot \in Nat /\ o.count \in Nat
           /\ o.count < Size \/ o.count = Size
<1>1. Size \in Nat \ {0}
  BY VolAssumption
<1>2. /\ o.ring \in [0 .. Size - 1 -> Int] /\ o.head \in 0 .. Size - 1
      /\ o.count \in 0 .. Size /\ o.sum \in Int /\ o.squares \in Int /\ o.spot \in Nat
  BY DEF Ringed, Oracles
<1> QED BY <1>1, <1>2

(* A ring that is filling is read from its start.                           *)
LEMMA UnrolledPart ==
    ASSUME NEW o, Ringed(o), o.count < Size, NEW i \in 1 .. o.count
    PROVE  Unrolled(o)[i] = o.ring[i - 1] /\ i - 1 \in 0 .. Size - 1
<1>1. PICK x \in Nat : x = i - 1 /\ x < Size /\ x < 2 * Size /\ x = 0 + i - 1
  BY AccountTyped
<1>2. x % Size = x
  BY <1>1, RingIndex
<1>3. Unrolled(o)[i] = o.ring[(0 + i - 1) % Size]
  BY DEF Unrolled
<1>4. x \in 0 .. Size - 1
  BY <1>1, AccountTyped
<1>5. Unrolled(o)[i] = o.ring[x]
  BY <1>1, <1>2, <1>3
<1> QED BY <1>1, <1>4, <1>5

(* A full one from its head.                                                *)
LEMMA UnrolledFull ==
    ASSUME NEW o, Ringed(o), o.count = Size, NEW i \in 1 .. Size
    PROVE  Unrolled(o)[i] = o.ring[Slot(o.head, i)] /\ Slot(o.head, i) \in 0 .. Size - 1
<1>1. PICK h \in 0 .. Size - 1 : h = o.head
  BY AccountTyped
<1>2. PICK x \in Nat : x = h + i - 1 /\ x < 2 * Size
  BY <1>1, AccountTyped
<1>3. x % Size = Slot(h, i)
  <2>1. x \in Nat /\ x < 2 * Size
    BY <1>2
  <2>2. x % Size = IF x < Size THEN x ELSE x - Size
    BY ONLY <2>1, RingIndex
  <2>3. Slot(h, i) = IF x < Size THEN x ELSE x - Size
    BY <1>2, AccountTyped DEF Slot
  <2> QED BY <2>2, <2>3, Zenon
<1>4. Unrolled(o)[i] = o.ring[(h + i - 1) % Size]
  <2>1. ~(o.count < Size)
    BY AccountTyped
  <2> QED BY <1>1, <2>1 DEF Unrolled
<1>5. Slot(h, i) \in 0 .. Size - 1
  BY AccountTyped, Slots
<1>6. Unrolled(o)[i] = o.ring[Slot(h, i)]
  BY <1>2, <1>3, <1>4
<1> QED BY <1>1, <1>5, <1>6

(* The ring unrolled is a sequence of as many returns as were counted.      *)
LEMMA UnrolledTyped ==
    ASSUME NEW o, Ringed(o)
    PROVE  /\ Unrolled(o) \in [1 .. o.count -> Int]
           /\ Unrolled(o) \in Seq(Int) /\ Len(Unrolled(o)) = o.count
<1>1. \A i \in 1 .. o.count : Unrolled(o)[i] \in Int
  <2> TAKE i \in 1 .. o.count
  <2>1. CASE o.count < Size
    <3>1. Unrolled(o)[i] = o.ring[i - 1] /\ i - 1 \in 0 .. Size - 1
      BY <2>1, UnrolledPart
    <3> QED BY <3>1, AccountTyped
  <2>2. CASE o.count = Size
    <3>1. Unrolled(o)[i] = o.ring[Slot(o.head, i)] /\ Slot(o.head, i) \in 0 .. Size - 1
      BY <2>2, UnrolledFull
    <3> QED BY <3>1, AccountTyped
  <2> QED BY <2>1, <2>2, AccountTyped
<1>2. Unrolled(o) = [i \in 1 .. o.count |-> Unrolled(o)[i]]
  BY DEF Unrolled
<1>3. Unrolled(o) \in [1 .. o.count -> Int]
  BY <1>1, <1>2
<1>4. o.count \in Nat
  BY AccountTyped
<1> QED BY <1>3, <1>4

(* What a push makes of an account.                                         *)
Pushed(o, r, p) ==
    /\ Ringed(p) /\ p.spot = o.spot
    /\ p.ring[o.head] = r
    /\ \A x \in 0 .. Size - 1 : x # o.head => p.ring[x] = o.ring[x]
    /\ p.head = (IF o.head + 1 < Size THEN o.head + 1 ELSE 0)
    /\ p.count = (IF o.count < Size THEN o.count + 1 ELSE o.count)
    /\ o.count < Size => p.sum = o.sum + r /\ p.squares = o.squares + r * r
    /\ o.count = Size =>
          /\ p.sum = o.sum - o.ring[o.head] + r
          /\ p.squares = o.squares - o.ring[o.head] * o.ring[o.head] + r * r

(* The oldest return of a full ring is overwritten and taken off the sums.  *)
LEMMA PushKeeps ==
    ASSUME NEW o, Ringed(o), NEW r \in Int
    PROVE  Pushed(o, r, ApplyNormalPush(o, r))
<1>p. PICK p : p = ApplyNormalPush(o, r)
  OBVIOUS
<1>1. PICK h \in 0 .. Size - 1, c \in 0 .. Size, ring \in [0 .. Size - 1 -> Int] :
         h = o.head /\ c = o.count /\ ring = o.ring
  BY AccountTyped
<1>2. PICK e \in Int : e = IF c < Size THEN 0 ELSE ring[h]
  <2>1. ring[h] \in Int
    OBVIOUS
  <2> QED BY <2>1
<1>3. PICK q \in Int, u \in Int, n \in Int, m \in Int :
         q = r * r /\ u = e * e /\ n = o.sum /\ m = o.squares
  BY AccountTyped
<1>4. /\ p.spot = o.spot /\ p.ring = [ring EXCEPT ![h] = r]
      /\ p.head = (h + 1) % Size
      /\ p.count = (IF c < Size THEN c + 1 ELSE c)
      /\ p.sum = n - e + r /\ p.squares = m - u + q
  <2> DEFINE d == IF o.count < Size THEN 0 ELSE o.ring[o.head]
  <2>1. /\ p.spot = o.spot /\ p.ring = [o.ring EXCEPT ![o.head] = r]
        /\ p.head = (o.head + 1) % Size
        /\ p.count = (IF o.count < Size THEN o.count + 1 ELSE o.count)
        /\ p.sum = o.sum - d + r
        /\ p.squares = o.squares - d * d + r * r
    BY <1>p DEF ApplyNormalPush, Ringed, Oracles
  <2>2. d = e
    BY <1>1, <1>2
  <2> HIDE DEF d
  <2> QED BY <1>1, <1>3, <2>1, <2>2
<1>5. PICK g \in 0 .. Size - 1 : g = p.head /\ g = IF h + 1 < Size THEN h + 1 ELSE 0
  <2>1. PICK x \in Nat : x = h + 1 /\ x < 2 * Size
    BY AccountTyped
  <2>2. x % Size = IF x < Size THEN x ELSE x - Size
    BY <2>1, RingIndex
  <2>3. PICK y : y = p.head /\ y = x % Size
    BY <1>4, <2>1
  <2>4. Size \in Nat \ {0}
    BY VolAssumption
  <2>5. y = IF h + 1 < Size THEN h + 1 ELSE 0
    BY <2>1, <2>2, <2>3, <2>4
  <2>6. y \in 0 .. Size - 1
    BY <2>4, <2>5
  <2> QED BY <2>3, <2>5, <2>6
<1>6. Ringed(p)
  <2>1. c < Size => h = c
    BY <1>1 DEF Ringed
  <2>2. Size \in Nat \ {0} /\ o.spot \in Nat
    BY AccountTyped
  <2>3. p.ring \in [0 .. Size - 1 -> Int] /\ p.spot \in Nat /\ p.head \in 0 .. Size - 1
    BY <1>4, <1>5, <2>2
  <2>4. PICK y \in 0 .. Size : y = p.count /\ (y < Size => g = y)
    <3>1. PICK y : y = p.count /\ y = IF c < Size THEN c + 1 ELSE c
      BY <1>4
    <3>2. y \in 0 .. Size /\ (y < Size => g = y)
      BY <1>5, <2>1, <2>2, <3>1
    <3> QED BY <3>1, <3>2
  <2>5. p.sum \in Int /\ p.squares \in Int
    <3>1. n - e + r \in Int /\ m - u + q \in Int
      OBVIOUS
    <3> QED BY <1>4, <3>1
  <2>6. p = [spot |-> p.spot, ring |-> p.ring, head |-> p.head, count |-> p.count,
             sum |-> p.sum, squares |-> p.squares]
    BY <1>p DEF ApplyNormalPush, Ringed, Oracles
  <2>7. p \in Oracles
    BY <2>3, <2>4, <2>5, <2>6 DEF Oracles
  <2>8. p.count < Size => p.head = p.count
    BY <1>5, <2>4
  <2> QED BY <2>7, <2>8 DEF Ringed
<1>7. p.ring[h] = r /\ \A x \in 0 .. Size - 1 : x # h => p.ring[x] = ring[x]
  BY <1>4
<1>8. /\ o.count < Size => p.sum = o.sum + r /\ p.squares = o.squares + r * r
  <2> SUFFICES ASSUME o.count < Size
               PROVE  p.sum = o.sum + r /\ p.squares = o.squares + r * r
    OBVIOUS
  <2>1. e = 0 /\ u = 0
    BY <1>1, <1>2, <1>3
  <2> QED BY <1>3, <1>4, <2>1
<1>9. ASSUME o.count = Size
      PROVE  /\ p.sum = o.sum - o.ring[o.head] + r
             /\ p.squares = o.squares - o.ring[o.head] * o.ring[o.head] + r * r
  <2>1. e = o.ring[o.head]
    BY <1>1, <1>2, <1>9, AccountTyped
  <2> QED BY <1>3, <1>4, <2>1
<1>10. /\ p.head = (IF o.head + 1 < Size THEN o.head + 1 ELSE 0)
       /\ p.count = (IF o.count < Size THEN o.count + 1 ELSE o.count)
  BY <1>1, <1>4, <1>5
<1>11. Pushed(o, r, p)
  BY <1>1, <1>4, <1>6, <1>7, <1>8, <1>9, <1>10 DEF Pushed
<1> QED BY <1>p, <1>11

---------------------------------------------------------------------------
(* The window. *)

(* VolWindow sums as this module does.                                      *)
LEMMA WindowSum ==
    ASSUME NEW f
    PROVE  Window!SumFunction(f) = SumFunction(f)
  BY DEF Window!SumFunction, SumFunction, Window!SumFunctionOnSet, SumFunctionOnSet,
         Window!FoldFunctionOnSet, FoldFunctionOnSet, Window!MapThenFoldSet, MapThenFoldSet

Squared(w) == [i \in DOMAIN w |-> w[i] * w[i]]

(* The running sums are those of the returns in the ring.                   *)
SumsKept(o) ==
    /\ o.sum = SumFunction(Unrolled(o))
    /\ o.squares = SumFunction(Squared(Unrolled(o)))

(* A window that is not full takes one more return.                         *)
LEMMA AppendSums ==
    ASSUME NEW n \in Nat, NEW v \in [1 .. n -> Int], NEW w \in [1 .. n + 1 -> Int],
           \A x \in 1 .. n : w[x] = v[x]
    PROVE  /\ SumFunction(w) = SumFunction(v) + w[n + 1]
           /\ SumFunction(Squared(w)) = SumFunction(Squared(v)) + w[n + 1] * w[n + 1]
<1>1. SumFunction(w) = SumFunction(v) + w[n + 1]
  BY SumLonger
<1> DEFINE f == Squared(v)
           g == Squared(w)
<1>2. f \in [1 .. n -> Int] /\ g \in [1 .. n + 1 -> Int]
  BY DEF Squared
<1>3. (\A x \in 1 .. n : g[x] = f[x]) /\ g[n + 1] = w[n + 1] * w[n + 1]
  BY DEF Squared
<1> HIDE DEF f, g
<1>4. SumFunction(g) = SumFunction(f) + g[n + 1]
  BY <1>2, <1>3, SumLonger
<1> QED BY <1>1, <1>3, <1>4 DEF f, g

(* A full one lets its first go.                                            *)
LEMMA ShiftSums ==
    ASSUME NEW n \in Nat, NEW v \in [1 .. n + 1 -> Int], NEW w \in [1 .. n + 1 -> Int],
           \A x \in 1 .. n : w[x] = v[x + 1]
    PROVE  /\ SumFunction(w) = SumFunction(v) - v[1] + w[n + 1]
           /\ SumFunction(Squared(w))
                = SumFunction(Squared(v)) - v[1] * v[1] + w[n + 1] * w[n + 1]
<1> DEFINE u == [x \in 1 .. n |-> w[x]]
<1>1. u \in [1 .. n -> Int] /\ (\A x \in 1 .. n : w[x] = u[x] /\ u[x] = v[x + 1])
  OBVIOUS
<1> HIDE DEF u
<1>2. /\ SumFunction(w) = SumFunction(u) + w[n + 1]
      /\ SumFunction(Squared(w)) = SumFunction(Squared(u)) + w[n + 1] * w[n + 1]
  BY <1>1, AppendSums
<1>3. SumFunction(v) = v[1] + SumFunction(u)
  BY <1>1, SumLater
<1>4. SumFunction(Squared(v)) = v[1] * v[1] + SumFunction(Squared(u))
  <2> DEFINE f == Squared(v)
             g == Squared(u)
  <2>1. f \in [1 .. n + 1 -> Int] /\ g \in [1 .. n -> Int]
    BY <1>1 DEF Squared
  <2>2. (\A x \in 1 .. n : g[x] = f[x + 1]) /\ f[1] = v[1] * v[1]
    BY <1>1 DEF Squared
  <2> HIDE DEF f, g
  <2>3. SumFunction(f) = f[1] + SumFunction(g)
    BY <2>1, <2>2, SumLater
  <2> QED BY <2>2, <2>3 DEF f, g
<1>5. /\ v[1] \in Int /\ w[n + 1] \in Int
      /\ v[1] * v[1] \in Int /\ w[n + 1] * w[n + 1] \in Int
  <2>1. v[1] \in Int /\ w[n + 1] \in Int
    OBVIOUS
  <2> QED BY <2>1
<1>6. SumFunction(u) \in Int /\ SumFunction(Squared(u)) \in Int
  <2>1. Squared(u) \in [1 .. n -> Int]
    BY <1>1 DEF Squared
  <2>2. IsFiniteSet(1 .. n)
    BY FS_Interval
  <2> QED BY <1>1, <2>1, <2>2, TotalInt
<1>7. PICK a \in Int, b \in Int, c \in Int, d \in Int, p \in Int, q \in Int :
         /\ a = v[1] /\ b = w[n + 1] /\ c = v[1] * v[1] /\ d = w[n + 1] * w[n + 1]
         /\ p = SumFunction(u) /\ q = SumFunction(Squared(u))
  BY <1>5, <1>6
<1>8. /\ SumFunction(v) = a + p /\ SumFunction(w) = p + b
      /\ SumFunction(Squared(v)) = c + q /\ SumFunction(Squared(w)) = q + d
  BY <1>2, <1>3, <1>4, <1>7
<1>9. p + b = a + p - a + b /\ q + d = c + q - c + d
  OBVIOUS
<1>10. /\ SumFunction(w) = SumFunction(v) - a + b
       /\ SumFunction(Squared(w)) = SumFunction(Squared(v)) - c + d
  BY <1>8, <1>9
<1> QED BY <1>7, <1>10

(* An empty window has no moments.                                          *)
LEMMA EmptyWindow ==
    /\ SumFunction(<<>>) = 0 /\ SumFunction(Squared(<<>>)) = 0
    /\ Window!Moments(<<>>) = [n |-> 0, sum |-> 0, squares |-> 0]
<1>1. DOMAIN <<>> = {} /\ DOMAIN Squared(<<>>) = {} /\ Len(<<>>) = 0
  <2>1. DOMAIN <<>> = {} /\ Len(<<>>) = 0
    OBVIOUS
  <2> QED BY <2>1 DEF Squared
<1>2. SumFunction(<<>>) = 0 /\ SumFunction(Squared(<<>>)) = 0
  BY <1>1, SumEmpty DEF SumFunction
<1>3. Window!Moments(<<>>)
        = [n |-> Len(<<>>), sum |-> Window!SumFunction(<<>>),
           squares |-> Window!SumFunction(Squared(<<>>))]
  BY DEF Window!Moments, Squared
<1> QED BY <1>1, <1>2, <1>3, WindowSum

(* What an account shows of its sums are the moments of its returns.        *)
LEMMA MomentsShown ==
    ASSUME NEW o, Ringed(o), SumsKept(o)
    PROVE  [n |-> o.count, sum |-> o.sum, squares |-> o.squares]
             = Window!Moments(Unrolled(o))
<1>1. Window!Moments(Unrolled(o))
        = [n |-> Len(Unrolled(o)), sum |-> Window!SumFunction(Unrolled(o)),
           squares |-> Window!SumFunction(Squared(Unrolled(o)))]
  BY DEF Window!Moments, Squared
<1>2. Len(Unrolled(o)) = o.count
  BY UnrolledTyped
<1>3. /\ Window!SumFunction(Unrolled(o)) = o.sum
      /\ Window!SumFunction(Squared(Unrolled(o))) = o.squares
  BY WindowSum DEF SumsKept
<1> QED BY <1>1, <1>2, <1>3

(* An account that has nothing yet.                                         *)
LEMMA EmptyKept ==
    ASSUME NEW spot \in Nat, NEW o, o = [Empty EXCEPT !.spot = spot]
    PROVE  Ringed(o) /\ SumsKept(o) /\ Unrolled(o) = <<>> /\ o.spot = spot
<1>1. Size \in Nat \ {0}
  BY VolAssumption
<1>2. /\ o = [spot |-> spot, ring |-> [i \in 0 .. Size - 1 |-> 0], head |-> 0,
              count |-> 0, sum |-> 0, squares |-> 0]
  BY DEF Empty
<1>3. Ringed(o)
  <2> DEFINE ring == [i \in 0 .. Size - 1 |-> 0]
  <2>1. ring \in [0 .. Size - 1 -> Int]
    OBVIOUS
  <2>2. 0 \in 0 .. Size - 1 /\ 0 \in 0 .. Size
    BY <1>1
  <2>3. o = [spot |-> spot, ring |-> ring, head |-> 0, count |-> 0, sum |-> 0, squares |-> 0]
    BY <1>2
  <2> HIDE DEF ring
  <2>4. o \in Oracles
    <3>1. spot \in Nat /\ 0 \in Int
      OBVIOUS
    <3> QED BY ONLY <2>1, <2>2, <2>3, <3>1 DEF Oracles
  <2>5. o.head = o.count
    BY <2>3
  <2> QED BY <2>4, <2>5 DEF Ringed
<1>4. Unrolled(o) = <<>>
  <2>1. Unrolled(o) \in Seq(Int) /\ Len(Unrolled(o)) = 0
    <3>1. o.count = 0
      BY <1>2
    <3>2. Unrolled(o) \in Seq(Int) /\ Len(Unrolled(o)) = o.count
      BY ONLY <1>3, UnrolledTyped
    <3> QED BY <3>1, <3>2
  <2> QED BY <2>1, EmptySeq
<1>5. SumsKept(o)
  BY <1>2, <1>4, EmptyWindow DEF SumsKept
<1> QED BY <1>2, <1>3, <1>4, <1>5

(* Only the price changes.                                                  *)
LEMMA SpotKept ==
    ASSUME NEW o, Ringed(o), NEW spot \in Nat, NEW p, p = [o EXCEPT !.spot = spot]
    PROVE  /\ Ringed(p) /\ Unrolled(p) = Unrolled(o) /\ p.spot = spot
           /\ SumsKept(o) => SumsKept(p)
<1>1. /\ p.spot = spot /\ p.ring = o.ring /\ p.head = o.head /\ p.count = o.count
      /\ p.sum = o.sum /\ p.squares = o.squares /\ p \in Oracles
  BY DEF Ringed, Oracles
<1>2. Ringed(p)
  BY <1>1 DEF Ringed
<1>3. Unrolled(p) = Unrolled(o)
  BY <1>1 DEF Unrolled
<1> QED BY <1>1, <1>2, <1>3 DEF SumsKept

(* A push that makes a return leaves the window that VolWindow promises.    *)
LEMMA PushUnrolls ==
    ASSUME NEW o, Ringed(o), SumsKept(o), NEW r \in Int, NEW p, p = ApplyNormalPush(o, r)
    PROVE  /\ Ringed(p) /\ SumsKept(p) /\ p.spot = o.spot
           /\ Unrolled(p) = Window!Latest(Append(Unrolled(o), r))
<1> DEFINE v == Unrolled(o)
           w == Unrolled(p)
<1>0. Pushed(o, r, p)
  BY PushKeeps
<1>1. /\ Ringed(p) /\ p.spot = o.spot
      /\ p.ring[o.head] = r
      /\ \A x \in 0 .. Size - 1 : x # o.head => p.ring[x] = o.ring[x]
      /\ p.head = (IF o.head + 1 < Size THEN o.head + 1 ELSE 0)
      /\ p.count = (IF o.count < Size THEN o.count + 1 ELSE o.count)
      /\ o.count < Size => p.sum = o.sum + r /\ p.squares = o.squares + r * r
      /\ o.count = Size =>
            /\ p.sum = o.sum - o.ring[o.head] + r
            /\ p.squares = o.squares - o.ring[o.head] * o.ring[o.head] + r * r
  BY <1>0 DEF Pushed
<1>2. PICK n \in Nat, h \in 0 .. Size - 1 : n = o.count /\ h = o.head
  BY AccountTyped
<1>3. /\ v \in [1 .. n -> Int] /\ v \in Seq(Int) /\ Len(v) = n
      /\ w \in [1 .. p.count -> Int] /\ w \in Seq(Int) /\ Len(w) = p.count
  BY <1>1, <1>2, UnrolledTyped
<1>4. Size \in Nat \ {0} /\ n <= Size
  BY <1>2, AccountTyped
<1>5. CASE n < Size
  <2>1. p.count = n + 1 /\ h = n
    BY <1>1, <1>2, <1>5 DEF Ringed
  <2>2. \A i \in 1 .. n + 1 : w[i] = p.ring[i - 1]
    <3> TAKE i \in 1 .. n + 1
    <3>1. CASE n + 1 < Size
      BY <1>1, <2>1, <3>1, UnrolledPart
    <3>2. CASE n + 1 = Size
      <4>1. p.head = 0
        BY <1>1, <1>2, <1>4, <2>1, <3>2
      <4>2. i \in 1 .. Size /\ Slot(0, i) = i - 1
        BY <1>4, <3>2 DEF Slot
      <4>3. w[i] = p.ring[Slot(p.head, i)]
        BY <1>1, <2>1, <3>2, <4>2, UnrolledFull
      <4> QED BY <4>1, <4>2, <4>3
    <3> QED BY <1>4, <1>5, <3>1, <3>2
  <2>3. \A i \in 1 .. n : v[i] = o.ring[i - 1]
    BY <1>2, <1>5, UnrolledPart
  <2> HIDE DEF v, w
  <2>4. \A i \in 1 .. n : w[i] = v[i]
    <3> TAKE i \in 1 .. n
    <3>1. i - 1 \in 0 .. Size - 1 /\ i - 1 # h /\ i \in 1 .. n + 1
      BY <1>4, <1>5, <2>1
    <3>2. p.ring[i - 1] = o.ring[i - 1]
      BY <1>1, <1>2, <3>1
    <3> QED BY <2>2, <2>3, <3>1, <3>2
  <2>5. w[n + 1] = r
    <3>1. n + 1 \in 1 .. n + 1 /\ n + 1 - 1 = h
      BY <2>1
    <3>2. w[n + 1] = p.ring[h]
      BY <2>2, <3>1
    <3> QED BY <1>1, <1>2, <3>2
  <2>6. w = Window!Latest(Append(v, r))
    <3>1. Append(v, r) \in Seq(Int) /\ Len(Append(v, r)) = n + 1
      BY <1>3
    <3>2. \A i \in 1 .. n + 1 : Append(v, r)[i] = w[i]
      BY <1>3, <2>4, <2>5
    <3>3. Len(w) = n + 1
      BY <1>3, <2>1
    <3>4. Append(v, r) = w
      BY <1>3, <3>1, <3>2, <3>3, SeqEqual
    <3>5. ~(n + 1 > Size)
      BY <1>4, <1>5
    <3> QED BY <3>1, <3>4, <3>5 DEF Window!Latest
  <2>7. /\ SumFunction(w) = SumFunction(v) + r
        /\ SumFunction(Squared(w)) = SumFunction(Squared(v)) + r * r
    <3>1. w \in [1 .. n + 1 -> Int]
      BY <1>3, <2>1
    <3> QED BY <1>3, <2>4, <2>5, <3>1, AppendSums
  <2>8. p.sum = o.sum + r /\ p.squares = o.squares + r * r
    BY <1>1, <1>2, <1>5
  <2>9. o.sum = SumFunction(v) /\ o.squares = SumFunction(Squared(v))
    BY DEF SumsKept, v
  <2>10. p.sum = SumFunction(w) /\ p.squares = SumFunction(Squared(w))
    BY <2>7, <2>8, <2>9
  <2> QED BY <1>1, <2>6, <2>10 DEF SumsKept, v, w
<1>6. CASE n = Size
  <2>1. p.count = Size
    BY <1>1, <1>2, <1>4, <1>6
  <2>2. \A i \in 1 .. Size : w[i] = p.ring[Slot(p.head, i)]
    BY <1>1, <2>1, UnrolledFull
  <2>3. \A i \in 1 .. Size : v[i] = o.ring[Slot(h, i)]
    BY <1>2, <1>6, UnrolledFull
  <2>4. /\ \A i \in 1 .. Size : Slot(h, i) \in 0 .. Size - 1
        /\ \A i \in 1 .. Size - 1 : Slot(p.head, i) = Slot(h, i + 1) /\ Slot(h, i + 1) # h
        /\ Slot(p.head, Size) = h /\ Slot(h, 1) = h
    BY <1>1, <1>2, Slots
  <2> HIDE DEF v, w
  <2>5. \A i \in 1 .. Size - 1 : w[i] = v[i + 1]
    <3> TAKE i \in 1 .. Size - 1
    <3>1. i \in 1 .. Size /\ i + 1 \in 1 .. Size
      BY <1>4
    <3>2. PICK x \in 0 .. Size - 1 : x = Slot(h, i + 1) /\ x # h /\ x = Slot(p.head, i)
      BY <2>4, <3>1
    <3>3. w[i] = p.ring[x] /\ v[i + 1] = o.ring[x]
      BY <2>2, <2>3, <3>1, <3>2
    <3> QED BY <1>1, <1>2, <3>2, <3>3
  <2>6. Size \in 1 .. Size /\ 1 \in 1 .. Size
    BY <1>4
  <2>7. w[Size] = r /\ v[1] = o.ring[o.head]
    BY <1>1, <1>2, <2>2, <2>3, <2>4, <2>6
  <2>8. w = Window!Latest(Append(v, r))
    <3>1. PICK a : a = Append(v, r)
      OBVIOUS
    <3>2. a \in Seq(Int) /\ Len(a) = Size + 1 /\ a # <<>>
      <4>1. v \in Seq(Int) /\ Len(v) = Size /\ r \in Int
        BY <1>3, <1>6
      <4>2. a \in Seq(Int) /\ Len(a) = Len(v) + 1
        BY ONLY <3>1, <4>1, AppendProperties
      <4>3. a \in Seq(Int) /\ Len(a) = Size + 1
        BY <4>1, <4>2
      <4>4. Len(<<>>) = 0 /\ Size + 1 # 0
        BY <1>4
      <4> QED BY <4>3, <4>4
    <3>3. (\A i \in 1 .. Size : a[i] = v[i]) /\ a[Size + 1] = r
      BY <1>3, <1>6, <3>1
    <3>4. Tail(a) \in Seq(Int) /\ Len(Tail(a)) = Size
      BY <1>4, <3>2
    <3>5. \A i \in 1 .. Size : Tail(a)[i] = a[i + 1]
      BY <1>4, <3>2
    <3>6. \A i \in 1 .. Size : Tail(a)[i] = w[i]
      <4> TAKE i \in 1 .. Size
      <4>1. CASE i = Size
        BY <2>7, <3>3, <3>5, <4>1
      <4>2. CASE i # Size
        <5>1. i \in 1 .. Size - 1 /\ i + 1 \in 1 .. Size
          BY <1>4, <4>2
        <5> QED BY <2>5, <3>3, <3>5, <5>1
      <4> QED BY <4>1, <4>2
    <3>7. Len(w) = Size
      BY <1>3, <2>1
    <3>8. Tail(a) = w
      BY <1>3, <3>4, <3>6, <3>7, SeqEqual
    <3>9. Size + 1 > Size
      BY <1>4
    <3> QED BY <3>1, <3>2, <3>8, <3>9 DEF Window!Latest
  <2>9. PICK m \in Nat : m + 1 = Size /\ m = Size - 1
    BY <1>4
  <2>10. /\ SumFunction(w) = SumFunction(v) - v[1] + r
         /\ SumFunction(Squared(w)) = SumFunction(Squared(v)) - v[1] * v[1] + r * r
    <3>1. /\ v \in [1 .. m + 1 -> Int] /\ w \in [1 .. m + 1 -> Int]
          /\ \A x \in 1 .. m : w[x] = v[x + 1]
      BY <1>3, <1>6, <2>1, <2>5, <2>9
    <3>2. /\ SumFunction(w) = SumFunction(v) - v[1] + w[m + 1]
          /\ SumFunction(Squared(w))
               = SumFunction(Squared(v)) - v[1] * v[1] + w[m + 1] * w[m + 1]
      BY <3>1, ShiftSums
    <3>3. w[m + 1] = r
      BY <2>7, <2>9
    <3> QED BY <3>2, <3>3
  <2>11. p.sum = o.sum - v[1] + r /\ p.squares = o.squares - v[1] * v[1] + r * r
    BY <1>1, <1>2, <1>6, <2>7
  <2>12. o.sum = SumFunction(v) /\ o.squares = SumFunction(Squared(v))
    BY DEF SumsKept, v
  <2>13. p.sum = SumFunction(w) /\ p.squares = SumFunction(Squared(w))
    BY <2>10, <2>11, <2>12
  <2> QED BY <1>1, <2>8, <2>13 DEF SumsKept, v, w
<1> QED BY <1>4, <1>5, <1>6

----------------------------------------------------------------------------
(* The oracle implements VolWindow.                                         *)

(* An account, if there is one, has the sums of what its ring holds.        *)
KeptAccount(o) == o # NoOracle => Ringed(o) /\ SumsKept(o)

WindowInvariant ==
    /\ age \in Nat /\ market \in Spots
    /\ KeptAccount(oracle)

(* What VolWindow's variables are made of, of an account or of none.        *)
AccountOf(o) == IF o = NoOracle THEN Empty ELSE o

SamplesOf(o) == IF o = NoOracle THEN <<>> ELSE Unrolled(o)

MomentsOf(o) == [n |-> AccountOf(o).count, sum |-> AccountOf(o).sum,
                 squares |-> AccountOf(o).squares]

LEMMA MappedTo ==
    /\ Account = AccountOf(oracle) /\ Account' = AccountOf(oracle')
    /\ Samples = SamplesOf(oracle) /\ Samples' = SamplesOf(oracle')
BY DEF Account, Samples, AccountOf, SamplesOf

LEMMA MomentsOfWindow ==
    ASSUME NEW o, KeptAccount(o)
    PROVE  MomentsOf(o) = Window!Moments(SamplesOf(o))
<1>1. CASE o = NoOracle
  <2>1. AccountOf(o) = Empty /\ SamplesOf(o) = <<>>
    BY <1>1 DEF AccountOf, SamplesOf
  <2>2. Empty.count = 0 /\ Empty.sum = 0 /\ Empty.squares = 0
    BY DEF Empty
  <2>3. MomentsOf(o) = [n |-> 0, sum |-> 0, squares |-> 0]
    BY <2>1, <2>2 DEF MomentsOf
  <2> QED BY <2>1, <2>3, EmptyWindow
<1>2. CASE o # NoOracle
  <2>1. Ringed(o) /\ SumsKept(o)
    BY <1>2 DEF KeptAccount
  <2>2. AccountOf(o) = o /\ SamplesOf(o) = Unrolled(o)
    BY <1>2 DEF AccountOf, SamplesOf
  <2>3. [n |-> o.count, sum |-> o.sum, squares |-> o.squares]
          = Window!Moments(Unrolled(o))
    BY <2>1, MomentsShown
  <2> QED BY <2>2, <2>3 DEF MomentsOf
<1> QED BY <1>1, <1>2

(* A push that is accepted is a sample of the window, or its new base.      *)
LEMMA PushRefines ==
    ASSUME WindowInvariant, PushVolSample, market' = market
    PROVE  /\ oracle' # NoOracle /\ Ringed(oracle') /\ SumsKept(oracle') /\ age' = 0
           /\ Window!Next
<1>1. /\ oracle # NoOracle /\ Ringed(oracle) /\ SumsKept(oracle)
      /\ market \in Nat \ {0} /\ oracle.spot \in Nat /\ age \in Nat
  <2>1. oracle # NoOracle
    BY DEF PushVolSample, SampleAccepted
  <2>2. Ringed(oracle) /\ SumsKept(oracle)
    BY <2>1 DEF WindowInvariant, KeptAccount
  <2>3. market \in Nat \ {0} /\ age \in Nat
    BY VolAssumption DEF WindowInvariant
  <2>4. oracle.spot \in Nat
    BY <2>2, AccountTyped
  <2> QED BY <2>1, <2>2, <2>3, <2>4
<1>2. AccountOf(oracle) = oracle /\ SamplesOf(oracle) = Unrolled(oracle)
  BY <1>1 DEF AccountOf, SamplesOf
<1>3. ASSUME NEW o, Ringed(o), SumsKept(o), oracle' = [o EXCEPT !.spot = market]
      PROVE  /\ oracle' # NoOracle /\ Ringed(oracle') /\ SumsKept(oracle')
             /\ AccountOf(oracle').spot = market /\ SamplesOf(oracle') = Unrolled(o)
             /\ MomentsOf(oracle') = Window!Moments(Unrolled(o))
  <2>1. PICK p : p = [o EXCEPT !.spot = market]
    OBVIOUS
  <2>2. /\ Ringed(p) /\ Unrolled(p) = Unrolled(o) /\ p.spot = market /\ SumsKept(p)
    BY <1>1, <1>3, <2>1, SpotKept
  <2>3. p # NoOracle /\ oracle' = p
    BY <1>3, <2>1, <2>2, OracleAssumption DEF Ringed
  <2>4. AccountOf(p) = p /\ SamplesOf(p) = Unrolled(o)
    BY <2>2, <2>3 DEF AccountOf, SamplesOf
  <2>5. MomentsOf(p) = Window!Moments(Unrolled(o))
    BY <2>2, <2>4, MomentsOfWindow DEF KeptAccount
  <2> QED BY <2>2, <2>3, <2>4, <2>5
<1>4. CASE oracle.spot = 0 \/ age > MaxGap
  <2>1. oracle' = [oracle EXCEPT !.spot = market] /\ age' = 0
    BY <1>4 DEF PushVolSample, Rebase
  <2>2. /\ oracle' # NoOracle /\ Ringed(oracle') /\ SumsKept(oracle')
        /\ AccountOf(oracle').spot = market /\ SamplesOf(oracle') = Unrolled(oracle)
        /\ MomentsOf(oracle') = Window!Moments(Unrolled(oracle))
    BY <1>1, <1>3, <2>1
  <2>3. Window!TakeBase
    BY <2>1, <2>2, MappedTo DEF Window!TakeBase
  <2>4. Window!Remember(Samples)
    BY <1>2, <2>2, MappedTo DEF Window!Remember, MomentsOf
  <2>5. Window!Rebase
    BY <1>2, <1>4, <2>3, <2>4, MappedTo DEF Window!Rebase
  <2> QED BY <2>1, <2>2, <2>5 DEF Window!Next
<1>5. CASE oracle.spot # 0 /\ ~(age > MaxGap)
  <2>1. PICK o : o = ApplyNormalPush(oracle, market - oracle.spot)
    OBVIOUS
  <2>2. oracle' = [o EXCEPT !.spot = market] /\ age' = 0 /\ age >= MinInterval
    BY <1>5, <2>1 DEF PushVolSample, SampleAccepted
  <2>3. /\ Ringed(o) /\ SumsKept(o)
        /\ Unrolled(o) = Window!Latest(Append(Unrolled(oracle), market - oracle.spot))
    BY <1>1, <2>1, PushUnrolls
  <2>4. /\ oracle' # NoOracle /\ Ringed(oracle') /\ SumsKept(oracle')
        /\ AccountOf(oracle').spot = market /\ SamplesOf(oracle') = Unrolled(o)
        /\ MomentsOf(oracle') = Window!Moments(Unrolled(o))
    BY <1>3, <2>2, <2>3
  <2>5. Window!TakeBase
    BY <2>2, <2>4, MappedTo DEF Window!TakeBase
  <2>6. Window!Remember(Window!Latest(Append(Samples, market - Account.spot)))
    BY <1>2, <2>3, <2>4, MappedTo DEF Window!Remember, MomentsOf
  <2>7. age \in MinInterval .. MaxGap
    <3>1. MinInterval \in Nat /\ MaxGap \in Nat
      BY VolAssumption
    <3> QED BY <1>1, <1>5, <2>2, <3>1
  <2>8. Window!Sample
    BY <1>2, <1>5, <2>5, <2>6, <2>7, MappedTo DEF Window!Sample
  <2> QED BY <2>2, <2>4, <2>8 DEF Window!Next
<1> QED BY <1>4, <1>5

(* An account is born of no sample, with a price.                           *)
LEMMA BirthRefines ==
    ASSUME WindowInvariant, InitializeVolOracle
    PROVE  /\ KeptAccount(oracle') /\ age' = 0 /\ market' = market
           /\ Window!Next
<1>1. /\ oracle = NoOracle /\ oracle' = [Empty EXCEPT !.spot = market]
      /\ age' = 0 /\ market' = market
  BY DEF InitializeVolOracle
<1>2. market \in Nat
  BY VolAssumption DEF WindowInvariant
<1>3. PICK p : p = [Empty EXCEPT !.spot = market]
  OBVIOUS
<1>4. Ringed(p) /\ SumsKept(p) /\ Unrolled(p) = <<>> /\ p.spot = market
  BY <1>2, <1>3, EmptyKept
<1>5. oracle' = p /\ p # NoOracle
  BY <1>1, <1>3, <1>4, OracleAssumption DEF Ringed
<1>6. KeptAccount(p) /\ AccountOf(p) = p /\ SamplesOf(p) = <<>>
  BY <1>4, <1>5 DEF KeptAccount, AccountOf, SamplesOf
<1>7. MomentsOf(p) = Window!Moments(<<>>)
  BY <1>6, MomentsOfWindow
<1>8. AccountOf(oracle).spot = 0 /\ SamplesOf(oracle) = <<>>
  BY <1>1 DEF AccountOf, SamplesOf, Empty
<1>9. Window!TakeBase
  BY <1>1, <1>4, <1>5, <1>6, MappedTo DEF Window!TakeBase
<1>10. Window!Remember(Samples)
  BY <1>5, <1>6, <1>7, <1>8, MappedTo DEF Window!Remember, MomentsOf
<1>11. Window!Rebase
  BY <1>8, <1>9, <1>10, MappedTo DEF Window!Rebase
<1> QED BY <1>1, <1>5, <1>6, <1>11 DEF Window!Next

(* A reset clears the window.                                               *)
LEMMA ResetRefines ==
    ASSUME WindowInvariant, ResetVolOracle
    PROVE  /\ KeptAccount(oracle') /\ age' = LongAgo /\ market' = market
           /\ Window!Next
<1>1. oracle' = Empty /\ age' = LongAgo /\ market' = market
  BY DEF ResetVolOracle
<1>2. Empty = [Empty EXCEPT !.spot = 0] /\ Empty.spot = 0
  <2>1. PICK ring : ring = [i \in 0 .. Size - 1 |-> 0]
    OBVIOUS
  <2>2. Empty = [spot |-> 0, ring |-> ring, head |-> 0, count |-> 0, sum |-> 0,
                 squares |-> 0]
    BY <2>1 DEF Empty
  <2> QED BY ONLY <2>2
<1>3. Ringed(Empty) /\ SumsKept(Empty) /\ Unrolled(Empty) = <<>>
  BY <1>2, EmptyKept
<1>4. KeptAccount(Empty) /\ AccountOf(Empty) = Empty /\ SamplesOf(Empty) = <<>>
  BY <1>3 DEF KeptAccount, AccountOf, SamplesOf
<1>5. MomentsOf(Empty) = Window!Moments(<<>>)
  BY <1>4, MomentsOfWindow
<1>6. Window!Remember(<<>>)
  BY <1>1, <1>4, <1>5, MappedTo DEF Window!Remember, MomentsOf
<1>7. Window!Clear
  BY <1>1, <1>2, <1>4, <1>6, MappedTo DEF Window!Clear
<1> QED BY <1>1, <1>4, <1>7 DEF Window!Next

(* Every step keeps the sums, and is one of the window's or none of it.     *)
LEMMA WindowStep ==
    WindowInvariant /\ [VolNext]_volVars =>
        WindowInvariant' /\ (Window!Next \/ UNCHANGED <<oracle, age, market>>)
<1> SUFFICES ASSUME WindowInvariant, [VolNext]_volVars
             PROVE  WindowInvariant' /\ (Window!Next \/ UNCHANGED <<oracle, age, market>>)
  OBVIOUS
<1>1. age \in Nat /\ market \in Spots /\ KeptAccount(oracle) /\ LongAgo \in Nat
  <2>1. Staleness \in Nat
    BY VolAssumption
  <2> QED BY <2>1 DEF WindowInvariant, LongAgo
<1>2. CASE UNCHANGED <<oracle, age, market>>
  BY <1>1, <1>2 DEF WindowInvariant
<1>3. CASE PushVolSample /\ UNCHANGED market
  BY <1>1, <1>3, PushRefines DEF WindowInvariant, KeptAccount
<1>4. CASE InitializeVolOracle
  BY <1>1, <1>4, BirthRefines DEF WindowInvariant
<1>5. CASE ResetVolOracle
  BY <1>1, <1>5, ResetRefines DEF WindowInvariant
<1>6. CASE TimePasses
  <2>1. /\ age' = (IF age = LongAgo THEN age ELSE age + 1)
        /\ market' \in Spots /\ oracle' = oracle
    BY <1>6 DEF TimePasses
  <2>2. age' \in Nat
    BY <1>1, <2>1
  <2>3. Window!Pass
    BY <2>1, MappedTo DEF Window!Pass, AccountOf, SamplesOf
  <2> QED BY <1>1, <2>1, <2>2, <2>3 DEF WindowInvariant, Window!Next
<1>7. CASE OthersPush
  BY <1>3, <1>7 DEF OthersPush
<1>8. CASE Look \/ ReadFails \/ Stop \/ Start
  BY <1>2, <1>8 DEF Look, ReadFails, Stop, Start
<1>9. CASE SendSample
  BY <1>2, <1>3, <1>9 DEF SendSample
<1>10. CASE FeedFails \/ FeedReturns
  BY <1>2, <1>10 DEF FeedFails, FeedReturns
<1>11. CASE UNCHANGED volVars
  BY <1>2, <1>11 DEF volVars
<1> QED BY <1>4, <1>5, <1>6, <1>7, <1>8, <1>9, <1>10, <1>11 DEF VolNext

LEMMA WindowStart == VolInit => WindowInvariant /\ Window!Init
<1> SUFFICES ASSUME VolInit PROVE WindowInvariant /\ Window!Init
  OBVIOUS
<1>1. oracle = NoOracle /\ age = LongAgo /\ market \in Spots
  BY DEF VolInit
<1>2. LongAgo \in Nat
  BY VolAssumption DEF LongAgo
<1>3. KeptAccount(oracle)
  BY <1>1 DEF KeptAccount
<1>4. AccountOf(oracle).spot = 0 /\ SamplesOf(oracle) = <<>>
  BY <1>1 DEF AccountOf, SamplesOf, Empty
<1>5. MomentsOf(oracle) = Window!Moments(<<>>)
  BY <1>3, <1>4, MomentsOfWindow
<1> QED BY <1>1, <1>2, <1>3, <1>4, <1>5, MappedTo
        DEF WindowInvariant, Window!Init, MomentsOf

(* The ring and its running sums are well formed in every state, and the    *)
(* sums are those of the returns the ring still holds.                      *)
THEOREM RunningSums == VolSpec => []WindowInvariant
<1>1. VolInit => WindowInvariant
  BY WindowStart
<1>2. WindowInvariant /\ [VolNext]_volVars => WindowInvariant'
  BY WindowStep
<1> QED BY <1>1, <1>2, PTL DEF VolSpec

(* The running sums are those of the last Size returns, recomputed, however *)
(* pushes are missed, refused, raced or start afresh: the oracle and its    *)
(* lane implement VolWindow.                                                *)
THEOREM WindowImplemented == VolSpec => WindowKept
<1>1. VolInit => Window!Init
  BY WindowStart
<1>2. WindowInvariant /\ [VolNext]_volVars
        => [Window!Next]_<<market, Account.spot, age, Samples,
              [n |-> Account.count, sum |-> Account.sum, squares |-> Account.squares]>>
  <2> SUFFICES ASSUME WindowInvariant, [VolNext]_volVars, UNCHANGED <<oracle, age, market>>
               PROVE  UNCHANGED <<market, Account.spot, age, Samples,
                        [n |-> Account.count, sum |-> Account.sum,
                         squares |-> Account.squares]>>
    BY WindowStep
  <2>1. Account' = Account /\ Samples' = Samples
    BY MappedTo
  <2> QED BY <2>1
<1> QED BY <1>1, <1>2, RunningSums, PTL DEF VolSpec, WindowKept, Window!Spec
============================================================================
