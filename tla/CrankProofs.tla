---------------------------- MODULE CrankProofs ----------------------------
(***************************************************************************)
(* A theorem about Crank, for every set of vaults, every budget and number *)
(* of faults: the finalize cache never makes the crank skip a vault that   *)
(* still owes somebody.  What carries it through crashes and mid-phase     *)
(* flushes is that being done is for good, and that an empty scan stays    *)
(* true until the tick has looked at all four.                             *)
(***************************************************************************)
EXTENDS Crank, TLAPS

(* Nobody is waiting for the crank to come back to this vault.              *)
GivenBack(v) == token[v] \notin {"listing", "order"}
Done(v)      == v \notin writer /\ GivenBack(v)

CacheTyped ==
    /\ token \in [Vaults -> Places \cup {"gone"}]
    /\ mem \in [Vaults -> {"none", "fresh", "aged"}]
    /\ disk \in [Vaults -> {"none", "fresh", "aged"}]

(* What is remembered, in memory or in the file, is done.                   *)
RememberedIsDone ==
    \A v \in Vaults : mem[v] # "none" \/ disk[v] # "none" => Done(v)

(* What the tick has seen empty so far is empty.                            *)
CleanIsSeen ==
    \A v \in Vaults : v \in hand /\ clean =>
        /\ pc = "sweep" => token[v] # "listing"
        /\ pc \in {"holders", "writers"} => GivenBack(v)

CacheInvariant == CacheTyped /\ RememberedIsDone /\ CleanIsSeen

---------------------------------------------------------------------------
(* A token on the way out stays on the way out, and a writer stays out.     *)
Onward ==
    /\ writer' \subseteq writer
    /\ token' \in [Vaults -> Places \cup {"gone"}]
    /\ \A v \in Vaults : token'[v] \in {token[v], "wallet", "gone"}

LEMMA OnwardOne ==
    ASSUME CacheTyped, NEW v \in Vaults, NEW p \in {token[v], "wallet", "gone"},
           token' = [token EXCEPT ![v] = p], writer' \subseteq writer
    PROVE  Onward
BY DEF CacheTyped, Onward, Places

LEMMA OnwardNone ==
    ASSUME CacheTyped, UNCHANGED token, writer' \subseteq writer
    PROVE  Onward
BY DEF CacheTyped, Onward

LEMMA DoneStays ==
    ASSUME Onward, NEW v \in Vaults
    PROVE  /\ Done(v) => Done(v)'
           /\ GivenBack(v) => GivenBack(v)'
           /\ token[v] # "listing" => token'[v] # "listing"
BY DEF Onward, Done, GivenBack

(* A step that goes onward and leaves the cache alone keeps what is in it.  *)
LEMMA MemoryStays ==
    ASSUME CacheInvariant, Onward, UNCHANGED cache
    PROVE  CacheTyped' /\ RememberedIsDone'
BY DoneStays DEF CacheInvariant, CacheTyped, RememberedIsDone, Onward, cache

---------------------------------------------------------------------------
(* Each kind of step. *)

(* A step at which no vault is half way through its passes.                 *)
LEMMA BetweenVaults ==
    ASSUME CacheInvariant, Onward, UNCHANGED cache,
           pc' \notin {"sweep", "holders", "writers"}
    PROVE  CacheInvariant'
BY MemoryStays DEF CacheInvariant, CleanIsSeen

LEMMA CancelPassKeeps ==
    ASSUME CacheInvariant, NEW v \in Vaults, CancelPass(v)
    PROVE  CacheInvariant'
<1>1. Onward /\ UNCHANGED cache
  BY OnwardOne, OnwardNone DEF CacheInvariant, CancelPass
<1>2. CleanIsSeen'
  BY DEF CacheInvariant, CacheTyped, CleanIsSeen, CancelPass
<1> QED BY <1>1, <1>2, MemoryStays DEF CacheInvariant, CancelPass

LEMMA SweepPassKeeps ==
    ASSUME CacheInvariant, NEW v \in Vaults, SweepPass(v)
    PROVE  CacheInvariant'
<1>1. Onward /\ UNCHANGED cache
  BY OnwardOne, OnwardNone DEF CacheInvariant, SweepPass
<1>2. CleanIsSeen'
  BY <1>1, DoneStays DEF CacheInvariant, CleanIsSeen, GivenBack, SweepPass
<1> QED BY <1>1, <1>2, MemoryStays DEF CacheInvariant, SweepPass

LEMMA HolderPassKeeps ==
    ASSUME CacheInvariant, NEW v \in Vaults, HolderPass(v)
    PROVE  CacheInvariant'
<1>1. Onward /\ UNCHANGED cache
  BY OnwardOne, OnwardNone DEF CacheInvariant, HolderPass
<1>2. CleanIsSeen'
  <2>1. CASE pc' = "cancel"
    BY <2>1 DEF CleanIsSeen
  <2>2. CASE pc' = "writers"
    <3>1. hand' = hand /\ pc = "holders"
      BY <2>2 DEF HolderPass, NextVault
    <3>2. \/ clean' = (clean /\ token[v] # "wallet")
          \/ clean' = FALSE
          \/ clean' = clean
      BY Zenon DEF HolderPass, NextVault
    <3>3. clean' => clean
      BY <3>2, Zenon
    <3> QED BY <1>1, <2>2, <3>1, <3>3, DoneStays DEF CacheInvariant, CleanIsSeen
  <2> QED BY <2>1, <2>2 DEF HolderPass, NextVault
<1> QED BY <1>1, <1>2, MemoryStays DEF CacheInvariant

(* The mark is the one step that adds to the cache.                         *)
LEMMA WriterPassKeeps ==
    ASSUME CacheInvariant, NEW v \in Vaults, WriterPass(v)
    PROVE  CacheInvariant'
<1>1. Onward
  BY OnwardNone DEF CacheInvariant, WriterPass
<1>2. CleanIsSeen'
  BY DEF CacheInvariant, CleanIsSeen, WriterPass, NextVault
<1>3. CASE UNCHANGED cache
  BY <1>1, <1>2, <1>3, MemoryStays DEF CacheInvariant
<1>4. CASE /\ clean /\ v \notin writer
           /\ mem' = [mem EXCEPT ![v] = "fresh"] /\ disk' \in {disk, mem'}
  <2>1. Done(v)
    BY <1>4 DEF CacheInvariant, CleanIsSeen, Done, WriterPass
  <2>2. CacheTyped'
    BY <1>1, <1>4 DEF CacheInvariant, CacheTyped, Onward
  <2>3. RememberedIsDone'
    BY <1>1, <1>4, <2>1, DoneStays DEF CacheInvariant, CacheTyped, RememberedIsDone
  <2> QED BY <1>2, <2>2, <2>3 DEF CacheInvariant
<1> QED BY <1>3, <1>4 DEF WriterPass, MarkFinished, cache

(* Pruning, ageing and restarting only forget.                              *)
LEMMA FlushKeeps ==
    ASSUME CacheInvariant, Flush \/ EntriesAge \/ Crash
    PROVE  CacheInvariant'
<1>1. Onward
  BY OnwardNone DEF CacheInvariant, Flush, EntriesAge, Crash, chain
<1>2. /\ CacheTyped'
      /\ \A v \in Vaults : mem'[v] # "none" \/ disk'[v] # "none"
            => mem[v] # "none" \/ disk[v] # "none"
  BY <1>1 DEF CacheInvariant, CacheTyped, Onward, Flush, EntriesAge, Crash
<1>3. RememberedIsDone'
  BY <1>1, <1>2, DoneStays DEF CacheInvariant, RememberedIsDone
<1>4. CleanIsSeen'
  BY <1>1, DoneStays
     DEF CacheInvariant, CleanIsSeen, Flush, EntriesAge, Crash, tick, chain, GivenBack
<1> QED BY <1>2, <1>3, <1>4 DEF CacheInvariant

(* The phases before and after the passes.                                  *)
LEMMA OtherPhasesKeep ==
    ASSUME CacheInvariant,
           \/ Start \/ Plan \/ SendBatch \/ Refetch \/ EndTick
           \/ \E v \in Vaults : Isolate(v) \/ ReclaimVault(v) \/ PayReclaim(v)
    PROVE  CacheInvariant'
<1>1. /\ UNCHANGED <<token, cache>> /\ writer' \subseteq writer
      /\ pc' \notin {"sweep", "holders", "writers"}
  BY DEF Start, Plan, SendBatch, Refetch, EndTick, Isolate, ReclaimVault, PayReclaim, chain
<1>2. Onward
  BY <1>1, OnwardNone DEF CacheInvariant
<1> QED BY <1>1, <1>2, BetweenVaults

(* Everybody else only moves tokens and writers on.                         *)
LEMMA OthersKeep ==
    ASSUME CacheInvariant, OthersStep
    PROVE  CacheInvariant'
<1>1. Onward
  <2>1. CASE UNCHANGED token /\ writer' \subseteq writer
    BY <2>1, OnwardNone DEF CacheInvariant
  <2>2. ASSUME NEW v \in Busy, SellerCancels(v) \/ HolderExercises(v)
        PROVE  Onward
    <3>1. v \in Vaults
      BY CrankAssumption
    <3> QED BY <2>2, <3>1, OnwardOne DEF CacheInvariant, SellerCancels, HolderExercises
  <2> QED
    BY <2>1, <2>2
       DEF OthersStep, TimePasses, PostRecord, OthersSettle, OthersVoid, WriterLeaves
<1>2. UNCHANGED <<cache, pc, hand, clean>>
  BY DEF OthersStep, tick
<1>3. CleanIsSeen'
  BY <1>1, <1>2, DoneStays DEF CacheInvariant, CleanIsSeen
<1> QED BY <1>1, <1>2, <1>3, MemoryStays DEF CacheInvariant

LEMMA StepKeeps == CacheInvariant /\ [Next]_vars => CacheInvariant'
<1> SUFFICES ASSUME CacheInvariant, [Next]_vars PROVE CacheInvariant'
  OBVIOUS
<1>1. CASE CrankStep
  BY <1>1, OtherPhasesKeep, FlushKeeps, CancelPassKeeps, SweepPassKeeps, HolderPassKeeps,
     WriterPassKeeps DEF CrankStep
<1>2. CASE OthersStep
  BY <1>2, OthersKeep
<1>3. CASE Crash \/ EntriesAge
  BY <1>3, FlushKeeps
<1>4. CASE UNCHANGED vars
  BY <1>4 DEF vars, chain, tick, cache, CacheInvariant, CacheTyped, RememberedIsDone,
     CleanIsSeen, Done, GivenBack
<1> QED BY <1>1, <1>2, <1>3, <1>4 DEF Next

---------------------------------------------------------------------------
(* The theorem. *)

(* entryMaySuppressScan never withholds a scan from a vault whose writer is *)
(* still in, or whose option a listing or an order still holds, whatever    *)
(* crashes, failed scans and old files the crank went through.              *)
THEOREM SuppressedIsDoneAlways == Spec => []SuppressedIsDone
<1>1. Init => CacheInvariant
  BY CrankAssumption DEF Init, CacheInvariant, CacheTyped, RememberedIsDone, CleanIsSeen
<1>2. CacheInvariant /\ [Next]_vars => CacheInvariant'
  BY StepKeeps
<1>3. CacheInvariant => SuppressedIsDone
  BY DEF CacheInvariant, RememberedIsDone, SuppressedIsDone, MaySuppress, Done, GivenBack
<1> QED BY <1>1, <1>2, <1>3, PTL DEF Spec
=============================================================================
