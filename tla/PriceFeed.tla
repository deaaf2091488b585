----------------------------- MODULE PriceFeed -----------------------------
(***************************************************************************)
(* The first-party price feed (oracle source 2) and the settlement price   *)
(* taken from it.  Four parties act on it, each at its own pace:           *)
(*   the program's instructions on the OptaPriceFeed account;              *)
(*   the push lane (crank/fpOracleCrank.ts), one process that every        *)
(*   PushEvery fetches the venues, stamps the median with its own clock    *)
(*   and sends it; a push it stops waiting for may still land;             *)
(*   the settle keeper (crank/optaSettleCrank.ts), which wakes at expiry   *)
(*   and must record a price inside the settlement window, or nobody ever  *)
(*   can;                                                                  *)
(*   the admin, who freezes, re-keys, closes and re-creates the feed.      *)
(* Time is real: it passes while no process has anything due.  It passes   *)
(* under a process that is in the middle of something only as a slip.      *)
(* Faults, slips and incidents are bounded together by MaxFaults.          *)
(* A confidence too wide is left out: the lane sends half a spread that it *)
(* has checked against the same limit.                                     *)
(***************************************************************************)
EXTENDS Integers

CONSTANTS
    Prices,        \* venue medians
    Keys, LaneKey, \* authorities an admin may install; the lane signs with one
    MinPush,       \* OPTA_FEED_MIN_PUSH_INTERVAL_SECS
    MaxSkew,       \* OPTA_FEED_PUSH_MAX_SKEW_SECS
    Hour,          \* the breaker's hour
    BaseBps, PerHourBps, CapBps,
    SettleWindow,  \* SB_SETTLE_WINDOW_SECS
    PushEvery,     \* OPTA_FP_INTERVAL_MS
    DiscoverEvery, \* DISCOVERY_INTERVAL_SECS
    Expiry,        \* of the one (asset, expiry) followed
    Drifts,        \* what the lane's clock may be ahead of the cluster's
    MaxTime,       \* the clock stops here
    MaxFaults,     \* faults, slips and incidents in a behaviour
    Tolerated,     \* how many of them the keeper must stand
    NoFeed, NoRecord

ASSUME FeedAssumption ==
    /\ Prices \subseteq Nat \ {0}
    /\ LaneKey \in Keys
    /\ {MinPush, Hour, PushEvery, DiscoverEvery} \subseteq Nat \ {0}
    /\ {MaxSkew, BaseBps, PerHourBps, CapBps, SettleWindow} \subseteq Nat
    /\ {Expiry, MaxTime, MaxFaults, Tolerated} \subseteq Nat
    /\ Drifts \subseteq Int
    /\ NoFeed \notin [price : Nat, publish : Int, authority : Keys, frozen : BOOLEAN]
    /\ NoRecord \notin [price : Nat, seen : Int, at : Int]

(* What a clock is behind the cluster's.                                   *)
Lag(d) == IF d < 0 THEN 0 - d ELSE 0

(* The cadence the two processes are run at: the lane's clock is within    *)
(* the skew the program accepts, a discovery comes before the expiry, and  *)
(* the window has room for a push, as late as its clock and the push       *)
(* before it can make it, for one more push per fault that must be stood,  *)
(* and for the keeper's next pass.                                         *)
ASSUME CadenceAssumption ==
    /\ \A d \in Drifts :
          /\ 0 - MaxSkew <= d /\ d <= MaxSkew
          /\ Lag(d) + (PushEvery - 1) + (MinPush - 1) + Tolerated * (PushEvery + 1) + 1
                <= SettleWindow
    /\ MaxSkew + 1 + DiscoverEvery <= Expiry

VARIABLES
    now,      \* the cluster's clock
    feed,     \* the OptaPriceFeed account, or NoFeed
    seen,     \* history: when the venues showed the feed's price
    record,   \* the SettlementRecord, or NoRecord
    wire,     \* pushes sent and not yet landed or dropped
    lane,     \* the push lane
    keeper,   \* the settle keeper
    drift,    \* what the lane's clock is ahead of now
    faults,   \* faults and incidents so far
    slips,    \* units of time that passed under a process at work
    blocked   \* history: since expiry the feed was once unable to settle

chain == <<feed, seen, record>>
vars  == <<now, chain, wire, lane, keeper, drift, faults, slips, blocked>>

Idle(due) == [pc |-> "idle", price |-> 0, seen |-> 0, due |-> due]

(* The vault of this expiry was created after a discovery the keeper has   *)
(* made, and at least one discovery before expiry.                         *)
Init ==
    /\ now = MaxSkew + 1
    /\ feed = NoFeed /\ seen = 0
    /\ record = NoRecord
    /\ wire = {}
    /\ drift \in Drifts
    /\ \E due \in now .. now + PushEvery : lane = Idle(due)
    /\ \E next \in now .. now + DiscoverEvery :
          keeper = [pc |-> "idle", status |-> "unknown", due |-> now, next |-> next]
    /\ faults = 0 /\ slips = 0
    /\ blocked = FALSE

----------------------------------------------------------------------------
(* The program.                                                            *)

LeastOf(a, b) == IF a < b THEN a ELSE b
AbsDiff(a, b) == IF a > b THEN a - b ELSE b - a

Deviation(old, new) == (AbsDiff(new, old) * 10000) \div old

(* Faulty: the breaker is off once the last push is more than a quarter of *)
(* an hour old.                                                            *)
AllowedUntilReseed(gap) ==
    IF 4 * gap > Hour THEN 10000
    ELSE LeastOf(BaseBps + PerHourBps * (gap \div Hour), CapBps)

(* The breaker's band, wider the older the last push is, never gone.       *)
Allowed(gap) ==
    LET aged == IF gap > 0 THEN gap ELSE 0
    IN  LeastOf(BaseBps + PerHourBps * (aged \div Hour), CapBps)

WithinBand(price) ==
    feed.price > 0 => Deviation(feed.price, price) <= Allowed(now - feed.publish)

(* Every guard of a push but the breaker.                                  *)
PushAccepted(tx) ==
    /\ feed # NoFeed /\ ~feed.frozen
    /\ feed.authority = LaneKey
    /\ AbsDiff(tx.publish, now) <= MaxSkew
    /\ feed.price # 0 => tx.publish - feed.publish >= MinPush

Roll(tx) ==
    /\ feed' = [feed EXCEPT !.price = tx.price, !.publish = tx.publish]
    /\ seen' = tx.seen
    /\ UNCHANGED record

Readable(maxAge) ==
    /\ feed # NoFeed /\ ~feed.frozen /\ feed.price > 0
    /\ now - feed.publish <= maxAge
    /\ feed.publish - now <= MaxSkew

(* Faulty: a price published before the expiry may settle it.              *)
SettleableByAge ==
    /\ record = NoRecord
    /\ Expiry <= now /\ now - Expiry <= SettleWindow
    /\ Readable(SettleWindow)

Settleable ==
    /\ record = NoRecord
    /\ Expiry <= now /\ now - Expiry <= SettleWindow
    /\ Readable(SettleWindow)
    /\ feed.publish >= Expiry

SettleExpiry ==
    /\ Settleable
    /\ record' = [price |-> feed.price, seen |-> seen, at |-> now]
    /\ UNCHANGED <<feed, seen>>

----------------------------------------------------------------------------
(* Faults, and what is remembered about the feed after expiry.             *)

Fault == faults + slips < MaxFaults /\ faults' = faults + 1

Unfit(f) == f = NoFeed \/ f.frozen \/ f.authority # LaneKey \/ f.price = 0

Watch(time, f) == blocked' = (blocked \/ (time >= Expiry /\ Unfit(f)))

(* The admin.  Freezing and re-keying are incidents, what repairs them is  *)
(* not.  The first price of a feed is pushed by hand, from the lane's host, *)
(* where its key is.                                                       *)

InitOptaPriceFeed ==
    /\ feed = NoFeed
    /\ \E key \in Keys :
          feed' = [price |-> 0, publish |-> 0, authority |-> key, frozen |-> FALSE]
    /\ seen' = 0
    /\ Watch(now, feed')
    /\ UNCHANGED <<now, record, wire, lane, keeper, drift, faults, slips>>

Ceremony ==
    /\ feed # NoFeed /\ feed.price = 0
    /\ \E price \in Prices :
          LET tx == [price |-> price, seen |-> now, publish |-> now + drift]
          IN  PushAccepted(tx) /\ Roll(tx)
    /\ UNCHANGED <<now, wire, lane, keeper, drift, faults, slips, blocked>>

SetFeedFrozen ==
    /\ feed # NoFeed
    /\ feed' = [feed EXCEPT !.frozen = ~@]
    /\ IF feed.frozen THEN UNCHANGED faults ELSE Fault
    /\ Watch(now, feed')
    /\ UNCHANGED <<now, seen, record, wire, lane, keeper, drift, slips>>

SetFeedAuthority ==
    /\ feed # NoFeed
    /\ \E key \in Keys \ {feed.authority} :
          /\ feed' = [feed EXCEPT !.authority = key]
          /\ IF key = LaneKey THEN UNCHANGED faults ELSE Fault
    /\ Watch(now, feed')
    /\ UNCHANGED <<now, seen, record, wire, lane, keeper, drift, slips>>

CloseOptaPriceFeed ==
    /\ feed # NoFeed /\ feed.frozen
    /\ feed' = NoFeed /\ seen' = 0
    /\ Watch(now, feed')
    /\ UNCHANGED <<now, record, wire, lane, keeper, drift, faults, slips>>

----------------------------------------------------------------------------
(* The push lane.                                                          *)

Rest == lane' = Idle(now + PushEvery)

(* Both sides are fetched before anything else.                            *)
FetchVenues ==
    /\ lane.pc = "idle" /\ lane.due <= now
    /\ \E price \in Prices :
          lane' = [pc |-> "fetched", price |-> price, seen |-> now, due |-> now]
    /\ UNCHANGED <<now, chain, wire, keeper, drift, faults, slips, blocked>>

(* The account is read; only then is the price stamped, with the lane's    *)
(* clock, and sent.  Without an account the tick ends.                     *)
SendPush ==
    /\ lane.pc = "fetched"
    /\ \/ /\ feed = NoFeed /\ Rest
          /\ UNCHANGED wire
       \/ /\ feed # NoFeed
          /\ wire' = wire \cup {[price |-> lane.price, seen |-> lane.seen,
                                 publish |-> now + drift]}
          /\ lane' = [lane EXCEPT !.pc = "sent"]
    /\ UNCHANGED <<now, chain, keeper, drift, faults, slips, blocked>>

Awaited(tx) == lane.pc = "sent" /\ tx.price = lane.price /\ tx.seen = lane.seen

Confirm(tx) == IF Awaited(tx) THEN Rest ELSE UNCHANGED lane

(* push_opta_price runs: the breaker is the last of its guards.            *)
PushOptaPrice ==
    /\ \E tx \in wire :
          /\ wire' = wire \ {tx}
          /\ Confirm(tx)
          /\ \/ /\ PushAccepted(tx) /\ WithinBand(tx.price)
                /\ Roll(tx)
                /\ UNCHANGED blocked
             \/ /\ PushAccepted(tx) /\ ~WithinBand(tx.price)
                /\ blocked' = (blocked \/ now >= Expiry)
                /\ UNCHANGED chain
             \/ /\ ~PushAccepted(tx)
                /\ UNCHANGED <<chain, blocked>>
    /\ UNCHANGED <<now, keeper, drift, faults, slips>>

(* A push that never lands.                                                *)
DropPush ==
    /\ \E tx \in wire : wire' = wire \ {tx} /\ Confirm(tx)
    /\ Fault
    /\ UNCHANGED <<now, chain, keeper, drift, slips, blocked>>

(* Too few venues, or too far apart, a read that fails, a confirmation     *)
(* that does not come: the tick is over, a push it sent may still land.    *)
AbortTick ==
    /\ \/ lane.pc = "idle" /\ lane.due <= now
       \/ lane.pc \in {"fetched", "sent"}
    /\ Rest /\ Fault
    /\ UNCHANGED <<now, chain, wire, keeper, drift, slips, blocked>>

(* The process dies and is started again: its first tick is at once.       *)
RestartLane ==
    /\ lane.pc # "idle"
    /\ lane' = Idle(now) /\ Fault
    /\ UNCHANGED <<now, chain, wire, keeper, drift, slips, blocked>>

----------------------------------------------------------------------------
(* The settle keeper.                                                      *)

(* Faulty: settled from the main tick, which comes round less often.       *)
NextPassByTick == now + SettleWindow + 1

(* When the next pass is due at the latest.                                *)
NextPass == now + 1

Sleep == keeper' = [keeper EXCEPT !.pc = "idle", !.due = NextPass]

Goto(pc) == keeper' = [keeper EXCEPT !.pc = pc, !.due = now]

Finish(status) ==
    keeper' = [keeper EXCEPT !.pc = "idle", !.due = NextPass, !.status = status]

KeeperOnly == UNCHANGED <<now, wire, lane, drift, slips, blocked>>

Discover ==
    /\ keeper.pc = "idle" /\ keeper.next <= now
    /\ \/ /\ keeper' = [keeper EXCEPT
                 !.status = IF @ = "unknown" THEN "active" ELSE @,
                 !.due = now, !.next = now + DiscoverEvery]
          /\ UNCHANGED faults
       \/ /\ keeper' = [keeper EXCEPT !.due = now, !.next = now + 1]
          /\ Fault
    /\ KeeperOnly /\ UNCHANGED chain

(* It sleeps until it is due, in the window for less; the pass then reads  *)
(* the cluster's time once.                                                *)
BeginPass ==
    /\ keeper.pc = "idle" /\ keeper.next > now
    /\ \/ /\ keeper.due <= now
          /\ keeper.status # "active" \/ now < Expiry
          /\ Sleep
       \/ /\ keeper.due <= now
          /\ keeper.status = "active" /\ now > Expiry + SettleWindow
          /\ Goto("last")
       \/ /\ keeper.status = "active" /\ now \in Expiry .. Expiry + SettleWindow
          /\ Goto("look")
    /\ KeeperOnly /\ UNCHANGED <<chain, faults>>

(* Past the window: written by somebody, or dead for good.                 *)
LastLook ==
    /\ keeper.pc = "last"
    /\ IF record # NoRecord THEN Finish("done") ELSE Finish("dead")
    /\ KeeperOnly /\ UNCHANGED <<chain, faults>>

LookForRecord ==
    /\ keeper.pc = "look"
    /\ IF record # NoRecord THEN Finish("done") ELSE Goto("feed")
    /\ KeeperOnly /\ UNCHANGED <<chain, faults>>

LookAtFeed ==
    /\ keeper.pc = "feed"
    /\ IF feed # NoFeed /\ feed.publish >= Expiry THEN Goto("send") ELSE Sleep
    /\ KeeperOnly /\ UNCHANGED <<chain, faults>>

(* The instruction lands, or reverts, or is lost; the answer may be lost   *)
(* too.  The record is read back whatever the answer was.                  *)
SendSettle ==
    /\ keeper.pc = "send"
    /\ Goto("check")
    /\ \/ SettleExpiry /\ UNCHANGED faults
       \/ ~Settleable /\ UNCHANGED <<chain, faults>>
       \/ Fault /\ UNCHANGED chain
    /\ KeeperOnly

ReadBack ==
    /\ keeper.pc = "check"
    /\ IF record # NoRecord THEN Finish("done") ELSE Sleep
    /\ KeeperOnly /\ UNCHANGED <<chain, faults>>

(* A read fails and the pass is over.                                      *)
PassFails ==
    /\ keeper.pc \in {"last", "look", "feed"} \/ (keeper.pc = "idle" /\ keeper.due <= now)
    /\ Sleep /\ Fault
    /\ KeeperOnly /\ UNCHANGED chain

RestartKeeper ==
    /\ keeper' = [pc |-> "idle", status |-> "unknown", due |-> now, next |-> now]
    /\ Fault
    /\ KeeperOnly /\ UNCHANGED chain

(* settle_expiry is permissionless.                                        *)
OthersSettle ==
    /\ SettleExpiry
    /\ UNCHANGED <<now, wire, lane, keeper, drift, faults, slips, blocked>>

----------------------------------------------------------------------------

(* A push nobody waits for is forgotten once it is too old to be accepted. *)
AtWork ==
    \/ lane.pc # "idle" \/ lane.due <= now
    \/ keeper.pc # "idle" \/ keeper.due <= now \/ keeper.next <= now

Tick ==
    /\ now < MaxTime
    /\ now' = now + 1
    /\ IF AtWork
       THEN faults + slips < MaxFaults /\ slips' = slips + 1
       ELSE UNCHANGED slips
    /\ wire' = {tx \in wire : Awaited(tx) \/ AbsDiff(tx.publish, now') <= MaxSkew}
    /\ Watch(now', feed)
    /\ UNCHANGED <<chain, lane, keeper, drift, faults>>

AdminStep ==
    \/ InitOptaPriceFeed \/ Ceremony \/ SetFeedFrozen \/ SetFeedAuthority
    \/ CloseOptaPriceFeed

LaneStep ==
    \/ FetchVenues \/ SendPush \/ PushOptaPrice \/ DropPush \/ AbortTick
    \/ RestartLane

KeeperStep ==
    \/ Discover \/ BeginPass \/ LastLook \/ LookForRecord \/ LookAtFeed
    \/ SendSettle \/ ReadBack \/ PassFails \/ RestartKeeper

Next == AdminStep \/ LaneStep \/ KeeperStep \/ OthersSettle \/ Tick

Spec == Init /\ [][Next]_vars

----------------------------------------------------------------------------
(* Properties.                                                             *)

(* A settlement price is one the venues showed no earlier than expiry, but *)
(* for what the lane's clock was ahead and for the time that passed        *)
(* between its fetch and its stamp; and it was recorded inside the window. *)
SettledNearExpiry ==
    record # NoRecord =>
        /\ record.seen + drift + slips >= Expiry
        /\ record.at \in Expiry .. Expiry + SettleWindow

(* The keeper gives an expiry up, or thinks it done, only when that is so,  *)
(* whoever wrote the record and whatever answer was lost.                   *)
KeeperBelieves ==
    /\ keeper.status = "done" => record # NoRecord
    /\ keeper.status = "dead" => record = NoRecord /\ now > Expiry + SettleWindow

(* Once the window has passed an expiry without a price was not missed by  *)
(* the two processes: the feed was unfit or the breaker refused a push     *)
(* after expiry, or more went wrong than they are made for.  And the       *)
(* keeper is right about it.                                               *)
SettledInTime ==
    /\ now > Expiry + SettleWindow /\ record = NoRecord =>
          blocked \/ faults + slips > Tolerated
    /\ KeeperBelieves

(* Between two prices of one feed, whatever pushes were late, lost or      *)
(* overtaken, frozen out or re-keyed between them, the later is a later    *)
(* observation, but for slips, and the move is within the band for the     *)
(* time between the two.                                                   *)
FeedMovesOn ==
    [][feed # NoFeed /\ feed' # NoFeed /\ feed.price > 0
          /\ <<feed.price, feed.publish>>' # <<feed.price, feed.publish>> =>
          /\ seen' + slips > seen
          /\ Deviation(feed.price, feed'.price)
                <= LeastOf(CapBps, BaseBps + PerHourBps
                              * ((seen' - seen + MaxSkew + slips) \div Hour))]_vars
============================================================================
