----------------------------- MODULE VolOracle -----------------------------
(***************************************************************************)
(* The realized-volatility oracle of a first-party feed and the hourly     *)
(* lane that samples it (crank/optaVolCrank.ts).  Anyone may push a sample *)
(* too.  The oracle keeps a ring of log returns with running sums; a push  *)
(* too early is refused, one too late starts afresh without a sample.      *)
(* Prices are on a log scale: a return is a difference.  The time since    *)
(* the last sample is kept up to where it no longer matters, so time has   *)
(* no end here.  It passes while the lane has nothing due, or as a failure.*)
(* The volatility an unwarmed oracle is seeded with is left out.           *)
(***************************************************************************)
EXTENDS Integers, Sequences

CONSTANTS
    Spots,        \* market prices, on a log scale
    Size,         \* VOL_ORACLE_RING_SIZE
    Warmup,       \* VOL_ORACLE_WARMUP_SAMPLES
    MinInterval,  \* VOL_ORACLE_MIN_PUSH_INTERVAL_SECS
    Period,       \* an hour
    MaxGap,       \* VOL_ORACLE_MAX_SAMPLE_GAP_SECS
    Staleness,    \* VOL_ORACLE_STALENESS_SECS
    MaxFailures,
    NoOracle

ASSUME VolAssumption ==
    /\ Spots \subseteq Nat \ {0}
    /\ {Size, Warmup, MinInterval, Period, MaxGap, Staleness} \subseteq Nat \ {0}
    /\ Warmup <= Size /\ MinInterval <= MaxGap /\ MaxGap <= Staleness
    /\ MaxFailures \in Nat

VARIABLES
    oracle,   \* the VolOracle account, or NoOracle
    age,      \* now - last_sample_ts, LongAgo for that or more
    market,
    up,       \* the price feed is fresh and not frozen
    phase,    \* time since the hour struck
    sampler,  \* the lane: what it does, and how long it still sleeps
    failures

volVars == <<oracle, age, market, up, phase, sampler, failures>>

LongAgo == Staleness + 1

Oracles == [spot : Nat, ring : [0 .. Size - 1 -> Int], head : 0 .. Size - 1,
            count : 0 .. Size, sum : Int, squares : Int]

(* An account that is not there is none that is.                           *)
ASSUME OracleAssumption == NoOracle \notin Oracles

Empty == [spot |-> 0, ring |-> [i \in 0 .. Size - 1 |-> 0], head |-> 0,
          count |-> 0, sum |-> 0, squares |-> 0]

VolInit ==
    /\ oracle = NoOracle
    /\ age = LongAgo
    /\ market \in Spots
    /\ up = TRUE
    /\ phase \in 0 .. Period - 1
    /\ sampler = [pc |-> "idle", wait |-> 0]
    /\ failures = 0

Failure == failures < MaxFailures /\ failures' = failures + 1

----------------------------------------------------------------------------
(* The program.                                                            *)

(* Faulty: the slot is overwritten before what it evicts is taken off.     *)
ApplyThenEvict(o, return) ==
    [o EXCEPT
        !.ring[o.head] = return,
        !.sum     = IF o.count < Size THEN @ + return ELSE @,
        !.squares = IF o.count < Size THEN @ + return * return ELSE @,
        !.head    = (@ + 1) % Size,
        !.count   = IF @ < Size THEN @ + 1 ELSE @]

ApplyNormalPush(o, return) ==
    LET evicted == IF o.count < Size THEN 0 ELSE o.ring[o.head]
    IN  [o EXCEPT
            !.ring[o.head] = return,
            !.sum     = @ - evicted + return,
            !.squares = @ - evicted * evicted + return * return,
            !.head    = (@ + 1) % Size,
            !.count   = IF @ < Size THEN @ + 1 ELSE @]

Rebase == oracle' = [oracle EXCEPT !.spot = market] /\ age' = 0

(* Faulty: a push is accepted in its hour only.                            *)
SampleAcceptedInCadence ==
    up /\ oracle # NoOracle /\ (oracle.spot = 0 \/ age \in MinInterval .. MaxGap)

SampleAccepted ==
    up /\ oracle # NoOracle /\ (oracle.spot = 0 \/ age > MaxGap \/ age >= MinInterval)

PushVolSample ==
    /\ SampleAccepted
    /\ IF oracle.spot = 0 \/ age > MaxGap
       THEN Rebase
       ELSE /\ oracle' = [ApplyNormalPush(oracle, market - oracle.spot)
                             EXCEPT !.spot = market]
            /\ age' = 0

(* Born with a price, so that its first push is an ordinary one.           *)
InitializeVolOracle ==
    /\ oracle = NoOracle /\ up
    /\ oracle' = [Empty EXCEPT !.spot = market]
    /\ age' = 0
    /\ UNCHANGED <<market, up, phase, sampler, failures>>

ResetVolOracle ==
    /\ oracle # NoOracle
    /\ oracle' = Empty /\ age' = LongAgo
    /\ Failure
    /\ UNCHANGED <<market, up, phase, sampler>>

OthersPush == PushVolSample /\ UNCHANGED <<market, up, phase, sampler, failures>>

----------------------------------------------------------------------------
(* The lane.                                                               *)

(* To the next full hour, a whole one if it has just struck.               *)
SleepOn == sampler' = [pc |-> "idle", wait |-> Period - phase]

(* What decidePush makes of the feed and the oracle it has read.           *)
Look ==
    /\ sampler.pc = "idle" /\ sampler.wait = 0
    /\ IF up /\ oracle # NoOracle /\ age >= MinInterval
       THEN sampler' = [sampler EXCEPT !.pc = "send"]
       ELSE SleepOn
    /\ UNCHANGED <<oracle, age, market, up, phase, failures>>

(* The feed or the oracle may have changed since; a refusal is not retried *)
(* before the next hour.                                                   *)
SendSample ==
    /\ sampler.pc = "send"
    /\ SleepOn
    /\ \/ PushVolSample /\ UNCHANGED failures
       \/ ~SampleAccepted /\ UNCHANGED <<oracle, age, failures>>
       \/ Failure /\ UNCHANGED <<oracle, age>>
    /\ UNCHANGED <<market, up, phase>>

ReadFails ==
    /\ sampler.pc = "idle" /\ sampler.wait = 0
    /\ SleepOn /\ Failure
    /\ UNCHANGED <<oracle, age, market, up, phase>>

Stop ==
    /\ sampler.pc # "down"
    /\ sampler' = [pc |-> "down", wait |-> 0]
    /\ Failure
    /\ UNCHANGED <<oracle, age, market, up, phase>>

(* It ticks at once, whatever the hour.                                    *)
Start ==
    /\ sampler.pc = "down"
    /\ sampler' = [pc |-> "idle", wait |-> 0]
    /\ UNCHANGED <<oracle, age, market, up, phase, failures>>

FeedFails ==
    /\ up /\ up' = FALSE
    /\ Failure
    /\ UNCHANGED <<oracle, age, market, phase, sampler>>

FeedReturns ==
    /\ ~up /\ up' = TRUE
    /\ UNCHANGED <<oracle, age, market, phase, sampler, failures>>

TimePasses ==
    /\ IF sampler.pc = "send" \/ (sampler.pc = "idle" /\ sampler.wait = 0)
       THEN Failure
       ELSE UNCHANGED failures
    /\ age' = IF age = LongAgo THEN age ELSE age + 1
    /\ phase' = (phase + 1) % Period
    /\ sampler' = [sampler EXCEPT !.wait = IF @ = 0 THEN 0 ELSE @ - 1]
    /\ market' \in Spots
    /\ UNCHANGED <<oracle, up>>

VolNext ==
    \/ InitializeVolOracle \/ ResetVolOracle \/ OthersPush
    \/ Look \/ SendSample \/ ReadFails \/ Stop \/ Start
    \/ FeedFails \/ FeedReturns \/ TimePasses

(* The lane goes on, and so does time; a stopped lane is started again.    *)
Fairness ==
    /\ WF_volVars(Look) /\ WF_volVars(SendSample)
    /\ WF_volVars(Start) /\ WF_volVars(TimePasses)

VolSpec == VolInit /\ [][VolNext]_volVars /\ Fairness

----------------------------------------------------------------------------
(* Properties.                                                             *)

(* The ring, read from its oldest sample.                                  *)
Unrolled(o) ==
    LET first == IF o.count < Size THEN 0 ELSE o.head
    IN  [i \in 1 .. o.count |-> o.ring[(first + i - 1) % Size]]

Samples == IF oracle = NoOracle THEN <<>> ELSE Unrolled(oracle)

Account == IF oracle = NoOracle THEN Empty ELSE oracle

Window == INSTANCE VolWindow WITH
    MinSpan <- MinInterval, MaxSpan <- MaxGap, MaxAge <- LongAgo,
    base    <- Account.spot,
    window  <- Samples,
    moments <- [n |-> Account.count, sum |-> Account.sum,
                squares |-> Account.squares]

(* However pushes are missed, refused, raced by others, or start afresh    *)
(* after a gap or a reset, the running sums are those of the last Size     *)
(* hourly returns, recomputed: the oracle implements VolWindow.            *)
WindowKept == Window!Spec

Realized ==
    /\ oracle # NoOracle /\ oracle.count >= Warmup
    /\ age <= Staleness

(* Once the feed stays live the oracle becomes warm, stays warm and fresh, *)
(* and loses no return to a gap, whenever others push in between and       *)
(* whatever went wrong before.                                             *)
StaysWarm == <>[](up /\ oracle # NoOracle) => <>[](Realized /\ age <= MaxGap)
============================================================================
