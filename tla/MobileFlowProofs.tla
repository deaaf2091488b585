------------------------- MODULE MobileFlowProofs -------------------------
(***************************************************************************)
(* A theorem about MobileFlow, for every number of calls, signatures,      *)
(* blocks and faults: what is done once is done once.                      *)
(*   A signature is spent once it can no longer land to anybody's surprise *)
(* : it was rejected, its last block is over, nobody is left to send it,   *)
(* or it landed after a check that called it expired.  The user is only    *)
(* let sign when all earlier signatures are spent.  Three facts see to     *)
(* that: only the call in charge is past its first awaits, and the screen  *)
(* says how far it is; a signature that may still land is the one on the   *)
(* screen, and on disk while the app is away; and once the user was told   *)
(* of a success, no review is left open.                                   *)
(***************************************************************************)
EXTENDS MobileFlow, TLAPS

States  == {"signed", "sent", "landed", "rejected"}
Phases  == {"idle", "review", "simulating", "awaitingWallet"} \union Stored
Receipt == [phase : Stored, tx : Nat \ {0}]
Early   == {"none", "build", "blockhash"}
Unsent  == {"store", "send"}
Placed  == Unsent \union {"confirm", "status", "height"}
Places  == Early \union {"wallet"} \union Placed

Call    == [at : Places, tx : Nat, last : Nat]
Tx      == [state : States, last : Nat]

Last == Len(txs)

FlowTyped ==
    /\ txs \in Seq(Tx) /\ height \in Nat
    /\ phase \in Phases /\ submitted \in 0..Last
    /\ task \in [Runs -> Call]
    /\ \A r \in Runs : task[r].at \in Placed => task[r].tx \in 1..Last
    /\ unsaved \in Seq(Receipt)
    /\ \A i \in 1..Len(unsaved) : unsaved[i].tx \in 1..Last
    /\ disk # NoReceipt => disk \in Receipt /\ disk.tx \in 1..Last

(* How far the call in charge is, as the screen shows it.                   *)
Shows(r) ==
    /\ task[r].at \in {"build", "blockhash"} => phase = "simulating"
    /\ task[r].at = "wallet" => phase = "awaitingWallet"
    /\ task[r].at \in Unsent => phase = "sending"
    /\ task[r].at = "confirm" => phase = "confirming"
    /\ task[r].at \in {"status", "height"} => phase \in {"confirming", "checking"}
    /\ task[r].at \in Placed => submitted = task[r].tx

(* Calls past their first awaits cannot be superseded.                      *)
InCharge ==
    /\ \A r \in Runs : run = r => Shows(r)
    /\ \A r \in Runs : task[r].at \notin Early => run = r
    /\ dismissed => phase = "unknown"
    /\ ~hydrated => /\ phase = "idle" /\ unsaved = <<>>
                    /\ \A r \in Runs : task[r].at = "none"

(* Nothing about this signature can happen any more.                        *)
AwaitsSend(n) == \E r \in Runs : task[r].at \in Unsent /\ task[r].tx = n
Spent(n) ==
    \/ txs[n].state = "rejected"
    \/ txs[n].state = "signed" /\ ~AwaitsSend(n)
    \/ txs[n].state = "sent" /\ Expired(n)
    \/ txs[n].state = "landed" /\ n \in misread

EarlierSpent == \A n \in 1..(Last - 1) : Spent(n)

ToldRightly ==
    \A n \in told : n \in 1..Last /\ (Spent(n) \/ txs[n].state = "landed")

Sending ==
    \A r \in Runs : task[r].at \in Unsent =>
        task[r].tx = Last /\ txs[Last].state = "signed"

(* A record of n whose fate is open.                                        *)
Open(receipt, n) == receipt.phase \in Unresolved /\ receipt.tx = n
QueueOpen(n) == \A i \in 1..Len(unsaved) : Open(unsaved[i], n)
DiskOpen(n)  == disk # NoReceipt /\ Open(disk, n)

(* Out on the chain with nobody told.                                       *)
AtLarge(n) == txs[n].state \in {"sent", "landed"} /\ ~Spent(n) /\ n \notin told

Authoritative ==
    /\ \A r \in Runs : task[r].at \in Unsent => QueueOpen(Last)
    /\ \A r \in Runs : task[r].at = "send" => DiskOpen(Last)
    /\ Last > 0 /\ AtLarge(Last) =>
        /\ QueueOpen(Last) /\ DiskOpen(Last)
        /\ hydrated => submitted = Last /\ phase \in Unresolved

(* After a success the user has nothing left to approve.                    *)
Quiet ==
    Last > 0 /\ txs[Last].state = "landed" /\ Last \in told /\ Last \notin misread =>
        phase \notin {"review", "simulating", "awaitingWallet"}

FlowInvariant ==
    /\ FlowTyped /\ InCharge /\ EarlierSpent /\ ToldRightly
    /\ Sending /\ Authoritative /\ Quiet

---------------------------------------------------------------------------
(* The screen and its queue. *)

(* What is queued is what was, and what is shown now.                       *)
QueueGrows ==
    /\ unsaved' \in Seq(Receipt)
    /\ \A i \in 1..Len(unsaved') :
          \/ i \in 1..Len(unsaved) /\ unsaved'[i] = unsaved[i]
          \/ /\ submitted' # 0 /\ phase' \in Stored
             /\ unsaved'[i] = [phase |-> phase', tx |-> submitted']

(* Showing a phase queues it, if it has a signature. *)
LEMMA ShowEffect ==
    ASSUME unsaved \in Seq(Receipt), NEW ph \in Phases, NEW n \in Nat, Show(ph, n)
    PROVE  phase' = ph /\ submitted' = n /\ QueueGrows
  <1>1. phase' = ph /\ submitted' = n
    BY DEF Show
  <1>2. CASE n # 0 /\ ph \in Stored
    <2> DEFINE new == [phase |-> ph, tx |-> n]
    <2>1. new \in Receipt
      BY <1>2 DEF Receipt
    <2>2. unsaved' = Append(unsaved, new)
      BY <1>2 DEF Show
    <2> HIDE DEF new
    <2>3. /\ unsaved' \in Seq(Receipt) /\ Len(unsaved) \in Nat
          /\ Len(unsaved') = Len(unsaved) + 1
      BY <2>1, <2>2
    <2>4. ASSUME NEW i \in 1..Len(unsaved')
          PROVE  (i \in 1..Len(unsaved) /\ unsaved'[i] = unsaved[i]) \/ unsaved'[i] = new
      BY <2>1, <2>2, <2>3
    <2>. QED
      BY <1>1, <1>2, <2>3, <2>4 DEF new, QueueGrows
  <1>3. CASE ~(n # 0 /\ ph \in Stored)
    <2>1. unsaved' = unsaved
      BY <1>3 DEF Show
    <2>. QED
      BY <1>1, <2>1 DEF QueueGrows
  <1>. QED
    BY <1>1, <1>2, <1>3

LEMMA SameScreen ==
    ASSUME unsaved \in Seq(Receipt), UNCHANGED screen
    PROVE  phase' = phase /\ submitted' = submitted /\ unsaved' = unsaved /\ QueueGrows
    BY DEF screen, QueueGrows

(* A queue of open records of n stays one, when n is what is shown.         *)
LEMMA QueueStays ==
    ASSUME NEW n, QueueOpen(n), QueueGrows, phase' \in Unresolved, submitted' = n
    PROVE  \A i \in 1..Len(unsaved') : Open(unsaved'[i], n)
    BY DEF QueueGrows, QueueOpen, Open

---------------------------------------------------------------------------
(* Where a call is. *)

LEMMA GoToEffect ==
    ASSUME task \in [Runs -> Call], NEW r \in Runs, NEW where \in Places, GoTo(r, where)
    PROVE  /\ task' \in [Runs -> Call]
           /\ task'[r].at = where /\ task'[r].tx = task[r].tx
           /\ \A q \in Runs \ {r} : task'[q] = task[q]
  <1>1. task' = [task EXCEPT ![r] = [task[r] EXCEPT !.at = where]]
    BY DEF GoTo
  <1>2. task[r] \in Call
    OBVIOUS
  <1>3. [task[r] EXCEPT !.at = where] \in Call
    BY <1>2 DEF Call
  <1>. QED
    BY <1>1, <1>2, <1>3 DEF Call

LEMMA ReturnEffect ==
    ASSUME task \in [Runs -> Call], NEW r \in Runs, Return(r)
    PROVE  /\ task' \in [Runs -> Call]
           /\ task'[r].at = "none"
           /\ \A q \in Runs \ {r} : task'[q] = task[q]
  <1>1. Idle \in Call /\ Idle.at = "none"
    BY DEF Idle, Call, Places, Early
  <1>2. task' = [task EXCEPT ![r] = Idle]
    BY DEF Return
  <1>. QED
    BY <1>1, <1>2

---------------------------------------------------------------------------
(* What a step that leaves the chain alone does to the signatures on it.    *)

LEMMA SpentKept ==
    ASSUME NEW n, txs'[n] = txs[n], height' = height, misread \subseteq misread',
           AwaitsSend(n)' => AwaitsSend(n), Spent(n)
    PROVE  Spent(n)'
    BY DEF Spent, Expired

(* None of the calls that are left waits to send anything else.             *)
NoNewSends ==
    \A q \in Runs : task'[q].at \in Unsent =>
        task[q].at \in Unsent /\ task'[q].tx = task[q].tx

LEMMA ChainKeeps ==
    ASSUME FlowInvariant, UNCHANGED chain, misread \subseteq misread', NoNewSends,
           \A n \in told' \ told : n \in 1..Last /\ (Spent(n)' \/ txs[n].state = "landed")
    PROVE  /\ EarlierSpent' /\ ToldRightly' /\ Sending'
           /\ Last' = Last
           /\ \A n \in 1..Last : Spent(n) => Spent(n)'
  <1>1. txs' = txs /\ height' = height /\ Last' = Last
    BY DEF chain, Last
  <1>2. Last \in Nat
    BY DEF FlowInvariant, FlowTyped, Last
  <1>3. ASSUME NEW n \in 1..Last, Spent(n)
        PROVE  Spent(n)'
    <2>1. AwaitsSend(n)' => AwaitsSend(n)
      BY DEF AwaitsSend, NoNewSends
    <2>. QED
      BY <1>1, <1>3, <2>1, SpentKept
  <1>4. EarlierSpent'
    <2>1. ASSUME NEW n \in 1..(Last - 1)
          PROVE  Spent(n)'
      <3>1. n \in 1..Last /\ Spent(n)
        BY <1>2 DEF FlowInvariant, EarlierSpent
      <3>. QED
        BY <1>3, <3>1
    <2>. QED
      BY <1>1, <2>1 DEF EarlierSpent
  <1>5. ToldRightly'
    <2>1. ASSUME NEW n \in told'
          PROVE  n \in 1..Last /\ (Spent(n)' \/ txs[n].state = "landed")
      BY <1>3 DEF FlowInvariant, ToldRightly
    <2>. QED
      BY <1>1, <2>1 DEF ToldRightly
  <1>6. Sending'
    BY <1>1 DEF FlowInvariant, Sending, NoNewSends
  <1>. QED
    BY <1>1, <1>3, <1>4, <1>5, <1>6

---------------------------------------------------------------------------
(* The steps of a call that leave the chain alone. *)

(* A call under way: what the screen says of it, while it is in charge.     *)
LEMMA UnderWay ==
    ASSUME FlowInvariant, NEW r \in Runs, task[r].at # "none"
    PROVE  /\ hydrated
           /\ task[r].at \notin Early => run = r
           /\ run = r => Shows(r) /\ ~dismissed
  <1>1. hydrated /\ (task[r].at \notin Early => run = r)
    BY DEF FlowInvariant, InCharge
  <1>2. ASSUME run = r PROVE Shows(r) /\ ~dismissed
    <2>1. Shows(r) /\ task[r].at \in Places /\ (dismissed => phase = "unknown")
      BY <1>2 DEF FlowInvariant, InCharge, FlowTyped, Call
    <2>2. phase # "unknown"
      BY <2>1 DEF Shows, Places, Early, Unsent, Placed
    <2>. QED
      BY <2>1, <2>2
  <1>. QED
    BY <1>1, <1>2

(* What a step of call r must see to, when nobody else moves.               *)
CallFrame(r) ==
    /\ UNCHANGED <<run, flags>>
    /\ task' \in [Runs -> Call]
    /\ \A q \in Runs \ {r} : task'[q] = task[q]
    /\ task'[r].at \notin Early => run = r
    /\ QueueGrows /\ phase' \in Phases /\ submitted' \in 0..Last'
    /\ run = r => Shows(r)'
    /\ run # r => UNCHANGED screen

LEMMA CallInCharge ==
    ASSUME FlowInvariant, NEW r \in Runs, task[r].at # "none", CallFrame(r)
    PROVE  InCharge'
  <1>1. /\ run' = run /\ dismissed' = dismissed /\ hydrated' = hydrated /\ hydrated
        /\ run # r => phase' = phase /\ submitted' = submitted
        /\ \A q \in Runs : run = q => Shows(q)
        /\ \A q \in Runs : task[q].at \notin Early => run = q
        /\ dismissed => phase = "unknown"
        /\ run = r => ~dismissed
    BY UnderWay DEF CallFrame, flags, screen, FlowInvariant, InCharge
  <1>2. ASSUME NEW q \in Runs, run = q
        PROVE  Shows(q)'
    <2>1. CASE q = r
      BY <1>2, <2>1 DEF CallFrame
    <2>2. CASE q # r
      BY <1>1, <1>2, <2>2 DEF CallFrame, Shows
    <2>. QED
      BY <2>1, <2>2
  <1>3. ASSUME NEW q \in Runs, task'[q].at \notin Early
        PROVE  run = q
    BY <1>1, <1>3 DEF CallFrame
  <1>. QED
    BY <1>1, <1>2, <1>3 DEF InCharge

(* Such a step keeps the invariant when it sends nothing, leaves an open    *)
(* record of an open fate, and lets nobody approve after a success.         *)
LEMMA CallKeeps ==
    ASSUME FlowInvariant, NEW r \in Runs, task[r].at # "none", CallFrame(r),
           UNCHANGED chain, misread \subseteq misread', told \subseteq told',
           task'[r].at \in Unsent =>
               task[r].at \in Unsent /\ task'[r].tx = task[r].tx,
           task'[r].at \in Placed => task'[r].tx \in 1..Last,
           disk' # NoReceipt => disk' \in Receipt /\ disk'.tx \in 1..Last,
           \A n \in told' \ told : n \in 1..Last /\ (Spent(n)' \/ txs[n].state = "landed"),
           DiskOpen(Last) => DiskOpen(Last)',
           task'[r].at = "send" => DiskOpen(Last)',
           Last > 0 /\ AtLarge(Last) /\ Last \notin told' =>
               submitted' = Last /\ phase' \in Unresolved,
           phase' \in {"review", "simulating", "awaitingWallet"} =>
               told' = told /\ phase \in {"review", "simulating", "awaitingWallet"}
    PROVE  FlowInvariant'
  <1>1. NoNewSends
    BY DEF NoNewSends, CallFrame
  <1>2. /\ EarlierSpent' /\ ToldRightly' /\ Sending'
        /\ Last' = Last /\ Last \in Nat
        /\ \A n \in 1..Last : Spent(n) => Spent(n)'
    BY <1>1, ChainKeeps DEF FlowInvariant, FlowTyped, Last
  <1>3. txs' = txs /\ height' = height /\ run' = run
    BY DEF chain, CallFrame
  <1>4. FlowTyped'
    <2>1. /\ txs \in Seq(Tx) /\ height \in Nat
          /\ \A q \in Runs : task[q].at \in Placed => task[q].tx \in 1..Last
          /\ \A i \in 1..Len(unsaved) : unsaved[i].tx \in 1..Last
      BY DEF FlowInvariant, FlowTyped
    <2>2. \A q \in Runs : task'[q].at \in Placed => task'[q].tx \in 1..Last
      BY <2>1 DEF CallFrame
    <2>3. \A i \in 1..Len(unsaved') : unsaved'[i].tx \in 1..Last
      BY <1>2, <2>1 DEF CallFrame, QueueGrows
    <2>. QED
      BY <1>2, <1>3, <2>1, <2>2, <2>3 DEF FlowTyped, CallFrame, QueueGrows
  <1>5. InCharge'
    BY CallInCharge
  <1>6. Last > 0 /\ AtLarge(Last)' => AtLarge(Last)
    BY <1>2, <1>3 DEF AtLarge
  <1>7. Authoritative'
    <2>1. ASSUME NEW q \in Runs, task'[q].at \in Unsent
          PROVE  QueueOpen(Last)'
      <3>1. task[q].at \in Unsent /\ QueueOpen(Last) /\ task'[q].tx = Last
        BY <1>1, <2>1 DEF NoNewSends, FlowInvariant, Authoritative, Sending
      <3>2. run = q
        BY <3>1, UnderWay DEF Early, Unsent
      <3>3. CASE q = r
        <4>1. Shows(r)' /\ QueueGrows
          BY <3>2, <3>3 DEF CallFrame
        <4>2. phase' = "sending" /\ submitted' = Last
          BY <2>1, <3>1, <3>3, <4>1 DEF Shows, Unsent, Placed
        <4>. QED
          BY <1>2, <3>1, <4>1, <4>2, QueueStays DEF Unresolved, QueueOpen, Open
      <3>4. CASE q # r
        <4>1. unsaved' = unsaved
          BY <3>2, <3>4 DEF CallFrame, screen
        <4>. QED
          BY <1>2, <3>1, <4>1 DEF QueueOpen, Open
      <3>. QED
        BY <3>3, <3>4
    <2>2. ASSUME NEW q \in Runs, task'[q].at = "send"
          PROVE  DiskOpen(Last)'
      <3>1. CASE q = r
        BY <2>2, <3>1
      <3>2. CASE q # r
        BY <2>2, <3>2 DEF CallFrame, FlowInvariant, Authoritative
      <3>. QED
        BY <3>1, <3>2
    <2>3. ASSUME Last > 0, AtLarge(Last)'
          PROVE  /\ QueueOpen(Last)' /\ DiskOpen(Last)'
                 /\ submitted' = Last /\ phase' \in Unresolved
      <3>1. /\ AtLarge(Last) /\ QueueOpen(Last) /\ DiskOpen(Last)
            /\ Last \notin told'
        BY <1>2, <1>6, <2>3 DEF FlowInvariant, Authoritative, AtLarge
      <3>2. submitted' = Last /\ phase' \in Unresolved
        BY <2>3, <3>1
      <3>. QED
        BY <1>2, <3>1, <3>2, QueueStays DEF CallFrame, QueueOpen, Open
    <2>. QED
      BY <1>2, <2>1, <2>2, <2>3 DEF Authoritative
  <1>8. Quiet'
    BY <1>2, <1>3 DEF FlowInvariant, Quiet
  <1>. QED
    BY <1>2, <1>4, <1>5, <1>7, <1>8 DEF FlowInvariant

LEMMA Typed ==
    ASSUME FlowInvariant
    PROVE  /\ task \in [Runs -> Call] /\ unsaved \in Seq(Receipt)
           /\ Last \in Nat /\ submitted \in Nat /\ submitted \in 0..Last
           /\ phase \in Phases
           /\ disk # NoReceipt => disk \in Receipt /\ disk.tx \in 1..Last
           /\ \A r \in Runs : /\ task[r].at \in Places
                              /\ task[r].at \in Placed => task[r].tx \in 1..Last
  <1>1. Last \in Nat
    BY DEF FlowInvariant, FlowTyped, Last
  <1>. QED
    BY <1>1 DEF FlowInvariant, FlowTyped, Call

(* A call that was superseded early on returns. *)
LEMMA DropKeeps ==
    ASSUME FlowInvariant, NEW r \in Runs, task[r].at # "none", Drop(r)
    PROVE  FlowInvariant'
  <1>1. /\ run # r /\ Return(r)
        /\ UNCHANGED <<chain, screen, run, flags, disk, history>>
    BY DEF Drop, Superseded
  <1>2. /\ task' \in [Runs -> Call] /\ task'[r].at = "none"
        /\ \A q \in Runs \ {r} : task'[q] = task[q]
    BY <1>1, Typed, ReturnEffect
  <1>3. phase' = phase /\ submitted' = submitted /\ QueueGrows
    BY <1>1, Typed, SameScreen
  <1>4. disk' = disk /\ told' = told /\ misread' = misread /\ Last' = Last
    BY <1>1 DEF chain, history, Last
  <1>5. CallFrame(r)
    BY <1>1, <1>2, <1>3, <1>4, Typed DEF CallFrame, Early
  <1>6. Last > 0 /\ AtLarge(Last) => submitted' = Last /\ phase' \in Unresolved
    BY <1>3, UnderWay DEF FlowInvariant, Authoritative
  <1>7. task'[r].at \notin Unsent /\ task'[r].at \notin Placed /\ task'[r].at # "send"
    BY <1>2 DEF Unsent, Placed
  <1>8. DiskOpen(Last) => DiskOpen(Last)'
    BY <1>4 DEF DiskOpen, Open
  <1>. QED
    BY <1>1, <1>3, <1>4, <1>5, <1>6, <1>7, <1>8, Typed, CallKeeps

(* Before the first signature, or with all fates settled, the screen is     *)
(* free.                                                                    *)
LEMMA NothingAtLarge ==
    ASSUME FlowInvariant, hydrated, phase \notin Unresolved
    PROVE  ~(Last > 0 /\ AtLarge(Last))
    BY DEF FlowInvariant, Authoritative

(* The steps of a call until the wallet has signed. *)
LEMMA EarlyKeeps ==
    ASSUME FlowInvariant, NEW r \in Runs, run = r,
           task[r].at \in {"build", "blockhash", "wallet"},
           UNCHANGED <<chain, run, flags, disk, history>>,
           task' \in [Runs -> Call],
           \A q \in Runs \ {r} : task'[q] = task[q],
           task'[r].at \in {"none", "blockhash", "wallet"},
           QueueGrows, phase' \in Phases, submitted' \in 0..Last, Shows(r)'
    PROVE  FlowInvariant'
  <1>1. Shows(r) /\ hydrated
    BY UnderWay
  <1>2. phase \in {"simulating", "awaitingWallet"}
    BY <1>1 DEF Shows
  <1>3. ~(Last > 0 /\ AtLarge(Last))
    BY <1>1, <1>2, NothingAtLarge DEF Unresolved
  <1>4. disk' = disk /\ told' = told /\ misread' = misread /\ Last' = Last
    BY DEF chain, history, Last
  <1>5. CallFrame(r)
    BY <1>4, Typed DEF CallFrame
  <1>6. task'[r].at \notin Unsent /\ task'[r].at \notin Placed /\ task'[r].at # "send"
    BY DEF Unsent, Placed
  <1>7. DiskOpen(Last) => DiskOpen(Last)'
    BY <1>4 DEF DiskOpen, Open
  <1>. QED
    BY <1>2, <1>3, <1>4, <1>5, <1>6, <1>7, Typed, CallKeeps

(* A failure is shown, and the call returns. *)
LEMMA FailsEffect ==
    ASSUME FlowInvariant, NEW r \in Runs, Fails(r)
    PROVE  /\ task' \in [Runs -> Call] /\ task'[r].at = "none"
           /\ \A q \in Runs \ {r} : task'[q] = task[q]
           /\ phase' = "failed" /\ submitted' = submitted /\ QueueGrows
    BY Typed, ShowEffect, ReturnEffect DEF Fails, Phases, Stored

LEMMA BuildKeeps ==
    ASSUME FlowInvariant, NEW r \in Runs, Build(r)
    PROVE  FlowInvariant'
  <1>1. /\ task[r].at = "build" /\ run = r
        /\ UNCHANGED <<chain, run, flags, disk, history>>
    BY DEF Build, At, Superseded
  <1>2. CASE GoTo(r, "blockhash") /\ UNCHANGED screen
    <2>1. /\ task' \in [Runs -> Call] /\ task'[r].at = "blockhash"
          /\ \A q \in Runs \ {r} : task'[q] = task[q]
      BY <1>2, Typed, GoToEffect DEF Places, Early
    <2>2. phase' = phase /\ submitted' = submitted /\ QueueGrows
      BY <1>2, Typed, SameScreen
    <2>3. phase = "simulating"
      BY <1>1, UnderWay DEF Shows
    <2>4. Shows(r)'
      BY <2>1, <2>2, <2>3 DEF Shows, Unsent, Placed
    <2>. QED
      BY <1>1, <2>1, <2>2, <2>4, Typed, EarlyKeeps
  <1>3. CASE Fails(r)
    <2>1. /\ task' \in [Runs -> Call] /\ task'[r].at = "none"
          /\ \A q \in Runs \ {r} : task'[q] = task[q]
          /\ phase' = "failed" /\ submitted' = submitted /\ QueueGrows
      BY <1>3, FailsEffect
    <2>2. Shows(r)' /\ phase' \in Phases
      BY <2>1 DEF Shows, Unsent, Placed, Phases, Stored
    <2>. QED
      BY <1>1, <2>1, <2>2, Typed, EarlyKeeps
  <1>. QED
    BY <1>2, <1>3 DEF Build

LEMMA BlockhashKeeps ==
    ASSUME FlowInvariant, NEW r \in Runs, Blockhash(r)
    PROVE  FlowInvariant'
  <1>1. /\ task[r].at = "blockhash" /\ run = r
        /\ UNCHANGED <<chain, run, flags, disk, history>>
    BY DEF Blockhash, At, Superseded
  <1>2. CASE /\ task' = [task EXCEPT ![r].at = "wallet", ![r].last = height + Lifetime]
             /\ Show("awaitingWallet", submitted)
    <2>1. height + Lifetime \in Nat
      BY MobileAssumption DEF FlowInvariant, FlowTyped
    <2>2. task[r] \in Call
      BY Typed
    <2> DEFINE c == [task[r] EXCEPT !.at = "wallet", !.last = height + Lifetime]
    <2>3. c \in Call /\ c.at = "wallet"
      BY <2>1, <2>2 DEF Call, Places
    <2>4. task' = [task EXCEPT ![r] = c]
      BY <1>2, <2>2, Typed DEF Call
    <2> HIDE DEF c
    <2>5. /\ task' \in [Runs -> Call] /\ task'[r].at = "wallet"
          /\ \A q \in Runs \ {r} : task'[q] = task[q]
      BY <2>3, <2>4, Typed
    <2>6. phase' = "awaitingWallet" /\ submitted' = submitted /\ QueueGrows
      BY <1>2, Typed, ShowEffect DEF Phases
    <2>7. Shows(r)' /\ phase' \in Phases
      BY <2>5, <2>6 DEF Shows, Unsent, Placed, Phases
    <2>. QED
      BY <1>1, <2>5, <2>6, <2>7, Typed, EarlyKeeps
  <1>3. CASE Fails(r)
    <2>1. /\ task' \in [Runs -> Call] /\ task'[r].at = "none"
          /\ \A q \in Runs \ {r} : task'[q] = task[q]
          /\ phase' = "failed" /\ submitted' = submitted /\ QueueGrows
      BY <1>3, FailsEffect
    <2>2. Shows(r)' /\ phase' \in Phases
      BY <2>1 DEF Shows, Unsent, Placed, Phases, Stored
    <2>. QED
      BY <1>1, <2>1, <2>2, Typed, EarlyKeeps
  <1>. QED
    BY <1>2, <1>3 DEF Blockhash

---------------------------------------------------------------------------
(* Signing and sending. *)

(* While something is put to the user to approve, all is spent that was     *)
(* signed before.                                                           *)
LEMMA AllSpent ==
    ASSUME FlowInvariant, hydrated, phase = "awaitingWallet",
           NEW n \in 1..Last
    PROVE  Spent(n) /\ ~AwaitsSend(n)
  <1>1. /\ txs \in Seq(Tx) /\ Last \in Nat /\ Len(txs) = Last
        /\ \A q \in Runs : task[q].at \notin Unsent
    <2>1. ASSUME NEW q \in Runs, task[q].at \in Unsent
          PROVE  FALSE
      <3>1. Shows(q)
        BY <2>1, UnderWay DEF Early, Unsent
      <3>. QED
        BY <2>1, <3>1 DEF Shows
    <2>. QED
      BY <2>1 DEF FlowInvariant, FlowTyped, Last
  <1>2. ~AwaitsSend(n)
    BY <1>1 DEF AwaitsSend
  <1>3. CASE n = Last
    <2>1. txs[n].state \in States
      <3>1. txs[n] \in Tx
        BY <1>1
      <3>. QED
        BY <3>1 DEF Tx
    <2>2. ~AtLarge(n)
      BY <1>3, NothingAtLarge DEF Unresolved
    <2>3. n \in told => Spent(n) \/ txs[n].state = "landed"
      BY DEF FlowInvariant, ToldRightly
    <2>4. ~(txs[n].state = "landed" /\ n \in told /\ n \notin misread)
      BY <1>1, <1>3 DEF FlowInvariant, Quiet
    <2>. QED
      BY <1>2, <2>1, <2>2, <2>3, <2>4 DEF AtLarge, Spent, States
  <1>4. CASE n # Last
    BY <1>1, <1>2, <1>4 DEF FlowInvariant, EarlierSpent
  <1>. QED
    BY <1>3, <1>4

(* The user signs. *)
LEMMA SignKeeps ==
    ASSUME FlowInvariant, NEW r \in Runs, task[r].at = "wallet", run = r, unsaved = <<>>,
           txs' = Append(txs, [state |-> "signed", last |-> task[r].last]),
           task' = [task EXCEPT ![r].at = "store", ![r].tx = Len(txs) + 1],
           Show("sending", Len(txs) + 1),
           UNCHANGED <<height, run, flags, disk, history>>
    PROVE  FlowInvariant'
  <1>1. /\ txs \in Seq(Tx) /\ height \in Nat /\ Last \in Nat /\ Len(txs) = Last
        /\ task[r] \in Call /\ task[r].last \in Nat
        /\ hydrated /\ phase = "awaitingWallet"
        /\ disk' = disk /\ told' = told /\ misread' = misread /\ height' = height
    BY Typed, UnderWay DEF FlowInvariant, FlowTyped, Last, Call, Shows, history
  <1> DEFINE new == [state |-> "signed", last |-> task[r].last]
  <1>2. new \in Tx /\ new.state = "signed"
    BY <1>1 DEF Tx, States
  <1>3. txs' = Append(txs, new)
    OBVIOUS
  <1> HIDE DEF new
  <1>4. /\ txs' \in Seq(Tx) /\ Last' = Last + 1
        /\ txs'[Last + 1].state = "signed"
        /\ \A n \in 1..Last : txs'[n] = txs[n]
    BY <1>1, <1>2, <1>3 DEF Last
  <1> DEFINE c == [task[r] EXCEPT !.at = "store", !.tx = Last + 1]
  <1>5. c \in Call /\ c.at = "store" /\ c.tx = Last + 1
    <2>1. Last + 1 \in Nat /\ "store" \in Places
      BY <1>1 DEF Places, Placed, Unsent
    <2>. QED
      BY <1>1, <2>1 DEF Call
  <1>6. task' = [task EXCEPT ![r] = c]
    BY <1>1, Typed DEF Call
  <1> HIDE DEF c
  <1>7. /\ task' \in [Runs -> Call] /\ task'[r].at = "store" /\ task'[r].tx = Last + 1
        /\ \A q \in Runs \ {r} : task'[q] = task[q]
    BY <1>5, <1>6, Typed
  <1>8. Last + 1 \in Nat /\ Last + 1 # 0
    BY <1>1
  <1>9. phase' = "sending" /\ submitted' = Last + 1 /\ QueueGrows
    BY <1>1, <1>8, Typed, ShowEffect DEF Phases, Stored, Unresolved
  <1>10. Shows(r)'
    BY <1>7, <1>9 DEF Shows, Unsent, Placed
  <1>11. CallFrame(r)
    BY <1>1, <1>4, <1>7, <1>8, <1>9, <1>10 DEF CallFrame, Phases, Stored, Unresolved
  <1>12. \A i \in 1..Len(unsaved') : unsaved'[i] = [phase |-> "sending", tx |-> Last + 1]
    <2>1. 1..Len(unsaved) = {}
      OBVIOUS
    <2>. QED
      BY <1>9, <2>1 DEF QueueGrows
  <1>13. \A q \in Runs : task'[q].at \in Unsent => q = r
    <2> SUFFICES ASSUME NEW q \in Runs \ {r}, task'[q].at \in Unsent PROVE FALSE
      OBVIOUS
    <2>1. task[q].at \in Unsent
      BY <1>7
    <2>. QED
      BY <2>1, UnderWay DEF Early, Unsent
  <1>14. FlowTyped'
    <2>1. \A q \in Runs : task'[q].at \in Placed => task'[q].tx \in 1..Last'
      BY <1>1, <1>4, <1>7, Typed
    <2>2. \A i \in 1..Len(unsaved') : unsaved'[i].tx \in 1..Last'
      BY <1>1, <1>4, <1>12
    <2>3. disk' # NoReceipt => disk' \in Receipt /\ disk'.tx \in 1..Last'
      BY <1>1, <1>4, Typed
    <2>. QED
      BY <1>1, <1>4, <1>7, <1>11, <2>1, <2>2, <2>3 DEF FlowTyped, CallFrame, QueueGrows
  <1>15. InCharge'
    BY <1>11, CallInCharge
  <1>16. ASSUME NEW n \in 1..Last
         PROVE  Spent(n)'
    <2>1. Spent(n) /\ ~AwaitsSend(n)
      BY <1>1, AllSpent
    <2>2. ~AwaitsSend(n)'
      BY <1>1, <1>7, <1>13 DEF AwaitsSend
    <2>. QED
      BY <1>1, <1>4, <2>1, <2>2 DEF Spent, Expired
  <1>17. EarlierSpent'
    BY <1>1, <1>4, <1>16 DEF EarlierSpent
  <1>18. ToldRightly'
    <2>1. \A n \in told : n \in 1..Last
      BY DEF FlowInvariant, ToldRightly
    <2>. QED
      BY <1>1, <1>4, <1>16, <2>1 DEF ToldRightly
  <1>19. Sending'
    BY <1>4, <1>7, <1>13 DEF Sending
  <1>20. Authoritative'
    <2>1. QueueOpen(Last)'
      BY <1>4, <1>12 DEF QueueOpen, Open, Unresolved
    <2>2. ~AtLarge(Last)'
      BY <1>4 DEF AtLarge
    <2>3. \A q \in Runs : task'[q].at # "send"
      BY <1>7, <1>13 DEF Unsent
    <2>. QED
      BY <2>1, <2>2, <2>3 DEF Authoritative
  <1>21. Quiet'
    BY <1>4 DEF Quiet
  <1>. QED
    BY <1>14, <1>15, <1>17, <1>18, <1>19, <1>20, <1>21 DEF FlowInvariant

LEMMA WalletKeeps ==
    ASSUME FlowInvariant, NEW r \in Runs, Wallet(r)
    PROVE  FlowInvariant'
  <1>1. /\ task[r].at = "wallet" /\ run = r /\ unsaved = <<>>
        /\ UNCHANGED <<height, run, flags, disk, history>>
    BY DEF Wallet, At, Superseded
  <1>2. CASE Show("review", 0) /\ Return(r) /\ UNCHANGED txs
    <2>1. phase' = "review" /\ submitted' = 0 /\ QueueGrows
      BY <1>2, Typed, ShowEffect DEF Phases
    <2>2. /\ task' \in [Runs -> Call] /\ task'[r].at = "none"
          /\ \A q \in Runs \ {r} : task'[q] = task[q]
      BY <1>2, Typed, ReturnEffect
    <2>3. Shows(r)' /\ phase' \in Phases /\ UNCHANGED chain /\ 0 \in 0..Last
      BY <1>1, <1>2, <2>1, <2>2, Typed DEF Shows, Unsent, Placed, Phases, chain
    <2>. QED
      BY <1>1, <2>1, <2>2, <2>3, EarlyKeeps
  <1>3. CASE Fails(r) /\ UNCHANGED txs
    <2>1. /\ task' \in [Runs -> Call] /\ task'[r].at = "none"
          /\ \A q \in Runs \ {r} : task'[q] = task[q]
          /\ phase' = "failed" /\ submitted' = submitted /\ QueueGrows
      BY <1>3, FailsEffect
    <2>2. Shows(r)' /\ phase' \in Phases /\ UNCHANGED chain
      BY <1>1, <1>3, <2>1 DEF Shows, Unsent, Placed, Phases, Stored, chain
    <2>. QED
      BY <1>1, <2>1, <2>2, Typed, EarlyKeeps
  <1>. QED
    BY <1>1, <1>2, <1>3, SignKeeps DEF Wallet

LEMMA ReceiptIsOne ==
    ASSUME NEW x \in Receipt
    PROVE  x # NoReceipt
  <1>1. x = [phase |-> x.phase, tx |-> x.tx] /\ x.phase \in Stored /\ x.tx \in Nat
    BY DEF Receipt
  <1>2. x \in [phase : Stored, tx : Nat]
    BY <1>1
  <1>. QED
    BY <1>2, MobileAssumption

(* A call that still has to send holds the last signature, and it alone.    *)
LEMMA HoldsLast ==
    ASSUME FlowInvariant, NEW r \in Runs, task[r].at \in Unsent
    PROVE  /\ run = r /\ task[r].tx = Last /\ Last \in 1..Last /\ Last \in Nat
           /\ txs[Last].state = "signed" /\ ~Spent(Last) /\ ~AtLarge(Last)
           /\ phase = "sending" /\ submitted = Last /\ hydrated
           /\ QueueOpen(Last)
           /\ \A q \in Runs : task[q].at \in Unsent => q = r
  <1>1. /\ run = r /\ Shows(r) /\ hydrated
        /\ \A q \in Runs : task[q].at \in Unsent => q = r
    BY UnderWay DEF Early, Unsent
  <1>2. task[r].tx = Last /\ txs[Last].state = "signed" /\ QueueOpen(Last)
    BY DEF FlowInvariant, Sending, Authoritative
  <1>3. Last \in 1..Last /\ Last \in Nat
    BY <1>2, Typed DEF Placed
  <1>4. ~Spent(Last) /\ ~AtLarge(Last)
    BY <1>2 DEF Spent, AtLarge, AwaitsSend
  <1>. QED
    BY <1>1, <1>2, <1>3, <1>4 DEF Shows, Placed

LEMMA StoreKeeps ==
    ASSUME FlowInvariant, NEW r \in Runs, StoreReceipt(r)
    PROVE  FlowInvariant'
  <1>1. /\ task[r].at = "store" /\ task[r].at \in Unsent
        /\ UNCHANGED <<chain, run, flags, history>>
    BY DEF StoreReceipt, At, Unsent
  <1>2. /\ run = r /\ task[r].tx = Last /\ Last \in 1..Last /\ Last \in Nat
        /\ phase = "sending" /\ submitted = Last /\ ~AtLarge(Last)
    BY <1>1, HoldsLast
  <1>3. Last' = Last /\ told' = told /\ misread' = misread
    BY <1>1 DEF Last, chain, history
  <1>4. CASE /\ disk' = [phase |-> "sending", tx |-> task[r].tx]
             /\ GoTo(r, "send") /\ UNCHANGED screen
    <2>1. /\ task' \in [Runs -> Call] /\ task'[r].at = "send" /\ task'[r].tx = Last
          /\ \A q \in Runs \ {r} : task'[q] = task[q]
      BY <1>2, <1>4, Typed, GoToEffect DEF Places, Placed, Unsent
    <2>2. phase' = phase /\ submitted' = submitted /\ QueueGrows
      BY <1>4, Typed, SameScreen
    <2>3. Shows(r)'
      BY <1>2, <2>1, <2>2 DEF Shows, Unsent, Placed
    <2>4. CallFrame(r)
      BY <1>1, <1>2, <1>3, <2>1, <2>2, <2>3, Typed DEF CallFrame
    <2>5. disk' \in Receipt /\ disk'.tx = Last /\ disk'.phase = "sending"
      BY <1>2, <1>4 DEF Receipt, Stored, Unresolved
    <2>6. DiskOpen(Last)'
      <3>1. disk' # NoReceipt
        BY <2>5, ReceiptIsOne
      <3>. QED
        BY <1>3, <2>5, <3>1 DEF DiskOpen, Open, Unresolved
    <2>. QED
      BY <1>1, <1>2, <1>3, <2>1, <2>2, <2>4, <2>5, <2>6, CallKeeps
  <1>5. CASE Show("failed", 0) /\ Return(r) /\ UNCHANGED disk
    <2>1. phase' = "failed" /\ submitted' = 0 /\ QueueGrows
      BY <1>5, Typed, ShowEffect DEF Phases, Stored
    <2>2. /\ task' \in [Runs -> Call] /\ task'[r].at = "none"
          /\ \A q \in Runs \ {r} : task'[q] = task[q]
      BY <1>5, Typed, ReturnEffect
    <2>3. Shows(r)'
      BY <2>2 DEF Shows, Unsent, Placed
    <2>4. CallFrame(r)
      BY <1>1, <1>2, <1>3, <2>1, <2>2, <2>3 DEF CallFrame, Phases, Stored
    <2>5. task'[r].at \notin Unsent /\ task'[r].at \notin Placed /\ task'[r].at # "send"
      BY <2>2 DEF Unsent, Placed
    <2>6. DiskOpen(Last) => DiskOpen(Last)'
      BY <1>3, <1>5 DEF DiskOpen, Open
    <2>. QED
      BY <1>1, <1>2, <1>3, <1>5, <2>1, <2>4, <2>5, <2>6, Typed, CallKeeps
  <1>. QED
    BY <1>2, <1>4, <1>5 DEF StoreReceipt, Superseded

(* The transaction leaves: from here on its fate is open.                   *)
LEMMA LeavesKeeps ==
    ASSUME FlowInvariant, NEW r \in Runs, task[r].at = "send", Sent(Last),
           UNCHANGED <<height, run, flags, disk, history>>,
           task' \in [Runs -> Call],
           \A q \in Runs \ {r} : task'[q] = task[q],
           task'[r].at \in {"none", "confirm"},
           task'[r].at = "confirm" => task'[r].tx = Last,
           QueueGrows, phase' \in {"confirming", "unknown"}, submitted' = Last, Shows(r)'
    PROVE  FlowInvariant'
  <1>1. task[r].at \in Unsent
    BY DEF Unsent
  <1>2. /\ run = r /\ task[r].tx = Last /\ Last \in 1..Last /\ Last \in Nat
        /\ ~Spent(Last) /\ txs[Last].state = "signed" /\ QueueOpen(Last)
        /\ \A q \in Runs : task[q].at \in Unsent => q = r
    BY <1>1, HoldsLast
  <1>3. /\ txs \in Seq(Tx) /\ height \in Nat /\ height' = height
        /\ disk' = disk /\ told' = told /\ misread' = misread
    BY DEF FlowInvariant, FlowTyped, history
  <1>4. /\ txs' \in Seq(Tx) /\ Len(txs') = Len(txs)
        /\ txs'[Last].state = "sent"
        /\ \A n \in 1..Last : n # Last => txs'[n] = txs[n]
    <2>1. Last = Len(txs)
      BY DEF Last
    <2>2. txs[Last] \in Tx
      BY <1>2, <1>3, <2>1
    <2> DEFINE t == [txs[Last] EXCEPT !.state = "sent"]
    <2>3. t \in Tx /\ t.state = "sent"
      BY <2>2 DEF Tx, States
    <2>4. txs' = [txs EXCEPT ![Last] = t]
      BY DEF Sent
    <2> HIDE DEF t
    <2>. QED
      BY <1>2, <1>3, <2>1, <2>3, <2>4
  <1>5. Last' = Last
    BY <1>4 DEF Last
  <1>6. \A q \in Runs : task'[q].at \notin Unsent
    BY <1>2 DEF Unsent
  <1>7. CallFrame(r)
    BY <1>2, <1>5 DEF CallFrame, Phases, Stored, Unresolved
  <1>8. ASSUME NEW n \in 1..Last, n # Last, Spent(n)
        PROVE  Spent(n)'
    <2>1. ~AwaitsSend(n)' /\ txs'[n] = txs[n]
      BY <1>4, <1>6, <1>8 DEF AwaitsSend
    <2>. QED
      <3>1. misread \subseteq misread' /\ height' = height
        BY <1>3
      <3>2. AwaitsSend(n)' => AwaitsSend(n)
        BY <2>1
      <3>. QED
        BY <1>8, <2>1, <3>1, <3>2, SpentKept
  <1>9. FlowTyped'
    <2>1. \A q \in Runs : task'[q].at \in Placed => task'[q].tx \in 1..Last
      <3>1. ASSUME NEW q \in Runs, task'[q].at \in Placed
            PROVE  task'[q].tx \in 1..Last
        <4>1. CASE q = r
          BY <1>2, <3>1, <4>1 DEF Placed, Unsent
        <4>2. CASE q # r
          BY <3>1, <4>2, Typed
        <4>. QED
          BY <4>1, <4>2
      <3>. QED
        BY <3>1
    <2>2. \A i \in 1..Len(unsaved') : unsaved'[i].tx \in 1..Last
      BY <1>2 DEF QueueGrows, FlowInvariant, FlowTyped
    <2>. QED
      BY <1>2, <1>3, <1>4, <1>5, <1>7, <2>1, <2>2, Typed DEF FlowTyped, CallFrame, QueueGrows
  <1>10. InCharge'
    BY <1>7, CallInCharge
  <1>11. EarlierSpent'
    <2>1. \A n \in 1..(Last - 1) : n \in 1..Last /\ n # Last /\ Spent(n)
      BY <1>2 DEF FlowInvariant, EarlierSpent
    <2>. QED
      BY <1>5, <1>8, <2>1 DEF EarlierSpent
  <1>12. ToldRightly'
    <2>1. ASSUME NEW n \in told
          PROVE  n \in 1..Last /\ n # Last /\ (Spent(n)' \/ txs'[n].state = "landed")
      <3>1. n \in 1..Last /\ (Spent(n) \/ txs[n].state = "landed")
        BY DEF FlowInvariant, ToldRightly
      <3>2. n # Last
        BY <1>2, <3>1
      <3>. QED
        BY <1>4, <1>8, <3>1, <3>2
    <2>. QED
      BY <1>3, <1>5, <2>1 DEF ToldRightly
  <1>13. Sending'
    BY <1>6 DEF Sending
  <1>14. Authoritative'
    <2>1. QueueOpen(Last)'
      BY <1>2, <1>5, QueueStays DEF QueueOpen, Open, Unresolved
    <2>2. DiskOpen(Last)'
      BY <1>3, <1>5 DEF FlowInvariant, Authoritative, DiskOpen, Open
    <2>3. \A q \in Runs : task'[q].at # "send"
      BY <1>6 DEF Unsent
    <2>. QED
      BY <1>5, <1>6, <2>1, <2>2, <2>3 DEF Authoritative, Unresolved
  <1>15. Quiet'
    BY <1>4, <1>5 DEF Quiet
  <1>. QED
    BY <1>9, <1>10, <1>11, <1>12, <1>13, <1>14, <1>15 DEF FlowInvariant

LEMMA SendKeeps ==
    ASSUME FlowInvariant, NEW r \in Runs, Send(r)
    PROVE  FlowInvariant'
  <1>1. /\ task[r].at = "send" /\ task[r].at \in Unsent
        /\ UNCHANGED <<height, run, flags, disk, history>>
    BY DEF Send, At, Unsent
  <1>2. /\ run = r /\ task[r].tx = Last /\ Last \in 1..Last /\ Last \in Nat
        /\ ~AtLarge(Last)
    BY <1>1, HoldsLast
  <1>3. CASE Sent(Last) /\ GoTo(r, "confirm") /\ Show("confirming", Last)
    <2>1. /\ task' \in [Runs -> Call] /\ task'[r].at = "confirm" /\ task'[r].tx = Last
          /\ \A q \in Runs \ {r} : task'[q] = task[q]
      BY <1>2, <1>3, Typed, GoToEffect DEF Places, Placed
    <2>2. phase' = "confirming" /\ submitted' = Last /\ QueueGrows
      BY <1>2, <1>3, Typed, ShowEffect DEF Phases, Stored, Unresolved
    <2>3. Shows(r)'
      BY <2>1, <2>2 DEF Shows, Unsent, Placed
    <2>. QED
      BY <1>1, <1>3, <2>1, <2>2, <2>3, LeavesKeeps
  <1>4. ASSUME Return(r), Show("unknown", Last), txs' = txs \/ Sent(Last)
        PROVE  FlowInvariant'
    <2>1. /\ task' \in [Runs -> Call] /\ task'[r].at = "none"
          /\ \A q \in Runs \ {r} : task'[q] = task[q]
      BY <1>4, Typed, ReturnEffect
    <2>2. phase' = "unknown" /\ submitted' = Last /\ QueueGrows
      BY <1>2, <1>4, Typed, ShowEffect DEF Phases, Stored, Unresolved
    <2>3. Shows(r)'
      BY <2>1 DEF Shows, Unsent, Placed
    <2>4. CASE Sent(Last)
      BY <1>1, <2>1, <2>2, <2>3, <2>4, LeavesKeeps
    <2>5. CASE txs' = txs
      <3>1. UNCHANGED chain /\ Last' = Last /\ disk' = disk /\ told' = told /\ misread' = misread
        BY <1>1, <2>5 DEF chain, Last, history
      <3>2. CallFrame(r)
        BY <1>1, <1>2, <2>1, <2>2, <2>3, <3>1 DEF CallFrame, Phases, Stored, Unresolved
      <3>3. task'[r].at \notin Unsent /\ task'[r].at \notin Placed /\ task'[r].at # "send"
        BY <2>1 DEF Unsent, Placed
      <3>4. DiskOpen(Last) => DiskOpen(Last)'
        BY <3>1 DEF DiskOpen, Open
      <3>. QED
        BY <1>1, <1>2, <2>1, <2>2, <3>1, <3>2, <3>3, <3>4, Typed, CallKeeps
    <2>. QED
      BY <1>4, <2>4, <2>5
  <1>. QED
    BY <1>2, <1>3, <1>4 DEF Send, Superseded

---------------------------------------------------------------------------
(* Confirming and checking. *)

(* A call that asks for a fate is about the signature on the screen.        *)
LEMMA AsksForShown ==
    ASSUME FlowInvariant, NEW r \in Runs, task[r].at \in {"confirm", "status", "height"}
    PROVE  /\ run = r /\ hydrated /\ task[r].tx = submitted
           /\ task[r].tx \in 1..Last /\ Last \in Nat
           /\ phase \in {"confirming", "checking"}
           /\ txs[task[r].tx].state \in States
           /\ ~AwaitsSend(task[r].tx)
           /\ Last > 0 /\ AtLarge(Last) => task[r].tx = Last
  <1>1. run = r /\ Shows(r) /\ hydrated
    BY UnderWay DEF Early
  <1>2. task[r].at \in Placed
    BY DEF Placed
  <1>3. task[r].tx \in 1..Last /\ Last \in Nat
    BY <1>2, Typed
  <1>4. txs[task[r].tx] \in Tx
    BY <1>3 DEF FlowInvariant, FlowTyped, Last
  <1>5. ~AwaitsSend(task[r].tx)
    <2> SUFFICES ASSUME NEW q \in Runs, task[q].at \in Unsent PROVE FALSE
      BY DEF AwaitsSend
    <2>1. q = r
      BY <1>1, HoldsLast
    <2>. QED
      BY <2>1 DEF Unsent
  <1>6. task[r].tx = submitted /\ phase \in {"confirming", "checking"}
    BY <1>1, <1>2 DEF Shows
  <1>7. Last > 0 /\ AtLarge(Last) => submitted = Last
    BY <1>1 DEF FlowInvariant, Authoritative
  <1>. QED
    BY <1>1, <1>3, <1>4, <1>5, <1>6, <1>7 DEF Tx

(* It asks on. *)
LEMMA LookKeeps ==
    ASSUME FlowInvariant, NEW r \in Runs, NEW where \in {"status", "height"},
           task[r].at \in {"confirm", "status"}, GoTo(r, where),
           UNCHANGED <<chain, run, flags, disk, history, screen>>
    PROVE  FlowInvariant'
  <1>1. /\ run = r /\ hydrated /\ task[r].tx = submitted
        /\ task[r].tx \in 1..Last /\ Last \in Nat
        /\ phase \in {"confirming", "checking"}
    BY AsksForShown
  <1>2. /\ task' \in [Runs -> Call] /\ task'[r].at = where /\ task'[r].tx = task[r].tx
        /\ \A q \in Runs \ {r} : task'[q] = task[q]
    BY Typed, GoToEffect DEF Places, Placed
  <1>3. phase' = phase /\ submitted' = submitted /\ QueueGrows
    BY Typed, SameScreen
  <1>4. disk' = disk /\ told' = told /\ misread' = misread /\ Last' = Last
    BY DEF chain, history, Last
  <1>5. Shows(r)'
    BY <1>1, <1>2, <1>3 DEF Shows, Unsent, Placed
  <1>6. CallFrame(r)
    BY <1>1, <1>2, <1>3, <1>4, <1>5, Typed DEF CallFrame
  <1>7. Last > 0 /\ AtLarge(Last) => submitted' = Last /\ phase' \in Unresolved
    BY <1>1, <1>3 DEF FlowInvariant, Authoritative
  <1>8. task'[r].at \notin Unsent /\ task'[r].at # "send"
    BY <1>2 DEF Unsent
  <1>9. DiskOpen(Last) => DiskOpen(Last)'
    BY <1>4 DEF DiskOpen, Open
  <1>. QED
    BY <1>1, <1>2, <1>3, <1>4, <1>6, <1>7, <1>8, <1>9, Typed, CallKeeps

(* It comes to an end: a success was seen on the chain, and what is called  *)
(* failed is spent.                                                         *)
LEMMA SettleKeeps ==
    ASSUME FlowInvariant, NEW r \in Runs, task[r].at \in {"confirm", "status", "height"},
           NEW n, n = task[r].tx,
           NEW result \in {"confirmed", "failed", "unknown"}, Settle(r, result),
           UNCHANGED <<chain, run, flags, disk>>, misread \subseteq misread',
           result = "confirmed" => txs[n].state = "landed",
           result = "failed" => Spent(n)'
    PROVE  FlowInvariant'
  <1>1. /\ run = r /\ n \in 1..Last /\ Last \in Nat /\ n \in Nat
        /\ Last > 0 /\ AtLarge(Last) => n = Last
    BY AsksForShown
  <1>2. /\ Return(r) /\ Show(result, n)
        /\ told' = IF result = "unknown" THEN told ELSE told \union {n}
    BY <1>1 DEF Settle, Superseded
  <1>3. /\ task' \in [Runs -> Call] /\ task'[r].at = "none"
        /\ \A q \in Runs \ {r} : task'[q] = task[q]
    BY <1>2, Typed, ReturnEffect
  <1>4. result \in Phases
    BY DEF Phases, Stored, Unresolved
  <1>5. phase' = result /\ submitted' = n /\ QueueGrows
    BY <1>1, <1>2, <1>4, Typed, ShowEffect
  <1>6. disk' = disk /\ Last' = Last
    BY DEF chain, Last
  <1>7. Shows(r)'
    BY <1>3 DEF Shows, Unsent, Placed
  <1>8. CallFrame(r)
    BY <1>1, <1>3, <1>4, <1>5, <1>6, <1>7 DEF CallFrame
  <1>9. \A m \in told' \ told :
           m \in 1..Last /\ (Spent(m)' \/ txs[m].state = "landed")
    <2>1. result # "unknown" => Spent(n)' \/ txs[n].state = "landed"
      OBVIOUS
    <2>. QED
      BY <1>1, <1>2, <2>1
  <1>10. Last > 0 /\ AtLarge(Last) /\ Last \notin told' =>
            submitted' = Last /\ phase' \in Unresolved
    BY <1>1, <1>2, <1>5 DEF Unresolved
  <1>11. task'[r].at \notin Unsent /\ task'[r].at \notin Placed /\ task'[r].at # "send"
    BY <1>3 DEF Unsent, Placed
  <1>12. DiskOpen(Last) => DiskOpen(Last)'
    BY <1>6 DEF DiskOpen, Open
  <1>13. told \subseteq told' /\ phase' \notin {"review", "simulating", "awaitingWallet"}
    BY <1>2, <1>5
  <1>. QED
    BY <1>6, <1>8, <1>9, <1>10, <1>11, <1>12, <1>13, Typed, CallKeeps

(* A fate read on the chain. *)
LEMMA VerdictKeeps ==
    ASSUME FlowInvariant, NEW r \in Runs, task[r].at \in {"confirm", "status"},
           OnChain(r), Settle(r, Verdict(r)),
           UNCHANGED <<chain, run, flags, disk, misread>>
    PROVE  FlowInvariant'
  <1>1. PICK n : n = task[r].tx
    OBVIOUS
  <1>2. CASE txs[n].state = "landed"
    <2>1. Verdict(r) = "confirmed" /\ misread \subseteq misread'
      BY <1>1, <1>2 DEF Verdict, State
    <2>. QED
      BY <1>1, <1>2, <2>1, SettleKeeps
  <1>3. CASE txs[n].state = "rejected"
    <2>1. Verdict(r) = "failed" /\ misread \subseteq misread'
      BY <1>1, <1>3 DEF Verdict, State
    <2>2. Spent(n)'
      BY <1>3 DEF Spent, chain
    <2>. QED
      BY <1>1, <2>1, <2>2, SettleKeeps
  <1>. QED
    BY <1>1, <1>2, <1>3 DEF OnChain, State

LEMMA ConfirmKeeps ==
    ASSUME FlowInvariant, NEW r \in Runs, Confirm(r)
    PROVE  FlowInvariant'
  <1>1. task[r].at = "confirm" /\ UNCHANGED <<chain, run, flags, disk, misread>>
    BY DEF Confirm, At
  <1>2. CASE OnChain(r) /\ Settle(r, Verdict(r))
    BY <1>1, <1>2, VerdictKeeps
  <1>3. CASE GoTo(r, "status") /\ UNCHANGED <<screen, told>>
    BY <1>1, <1>3, LookKeeps DEF history
  <1>. QED
    BY <1>2, <1>3 DEF Confirm

LEMMA ReadStatusKeeps ==
    ASSUME FlowInvariant, NEW r \in Runs, ReadStatus(r)
    PROVE  FlowInvariant'
  <1>1. /\ task[r].at = "status" /\ UNCHANGED <<chain, run, flags, disk, misread>>
        /\ misread \subseteq misread'
    BY DEF ReadStatus, At
  <1>2. CASE OnChain(r) /\ Settle(r, Verdict(r))
    BY <1>1, <1>2, VerdictKeeps
  <1>3. CASE GoTo(r, "height") /\ UNCHANGED <<screen, told>>
    BY <1>1, <1>3, LookKeeps DEF history
  <1>4. CASE Settle(r, "unknown")
    BY <1>1, <1>4, SettleKeeps
  <1>. QED
    BY <1>2, <1>3, <1>4 DEF ReadStatus

(* Past its last block, and absent a moment before: whatever it is by now,  *)
(* it is spent, a misreading included.                                      *)
LEMMA ReadHeightKeeps ==
    ASSUME FlowInvariant, NEW r \in Runs, ReadHeight(r)
    PROVE  FlowInvariant'
  <1>1. PICK n : n = task[r].tx
    OBVIOUS
  <1>2. /\ task[r].at = "height" /\ UNCHANGED <<chain, run, flags, disk>>
        /\ misread' = IF n \in told' /\ txs[n].state = "landed"
                      THEN misread \union {n} ELSE misread
    BY <1>1 DEF ReadHeight, At, State
  <1>3. misread \subseteq misread'
    BY <1>2
  <1>4. CASE Settle(r, "unknown")
    BY <1>1, <1>2, <1>3, <1>4, SettleKeeps
  <1>5. CASE Expired(n) /\ Settle(r, "failed")
    <2>1. txs[n].state \in States /\ ~AwaitsSend(n) /\ run = r
      BY <1>1, <1>2, AsksForShown
    <2>2. n \in told'
      BY <1>1, <1>5, <2>1 DEF Settle, Superseded
    <2>3. txs[n].state = "landed" => n \in misread'
      BY <1>2, <2>2
    <2>4. ~AwaitsSend(n)'
      <3>1. /\ task' \in [Runs -> Call] /\ task'[r].at = "none"
            /\ \A q \in Runs \ {r} : task'[q] = task[q]
        BY <1>5, Typed, ReturnEffect DEF Settle
      <3>2. ASSUME NEW q \in Runs, task'[q].at \in Unsent, task'[q].tx = n
            PROVE  FALSE
        <4>1. q # r
          BY <3>1, <3>2 DEF Unsent
        <4>. QED
          BY <2>1, <3>1, <3>2, <4>1 DEF AwaitsSend
      <3>. QED
        BY <3>2 DEF AwaitsSend
    <2>5. txs' = txs /\ height' = height
      BY <1>2 DEF chain
    <2>6. Spent(n)'
      BY <1>5, <2>1, <2>3, <2>4, <2>5 DEF Spent, Expired, States
    <2>. QED
      BY <1>1, <1>2, <1>3, <1>5, <2>6, SettleKeeps
  <1>. QED
    BY <1>1, <1>4, <1>5 DEF ReadHeight

---------------------------------------------------------------------------
(* The user. *)

(* The user acts on screens no call is at work behind, past its start.      *)
LEMMA NoneAtWork ==
    ASSUME FlowInvariant,
           phase \notin {"awaitingWallet", "sending", "confirming", "checking"}
    PROVE  \A q \in Runs : task[q].at \in Early
  <1> SUFFICES ASSUME NEW q \in Runs, task[q].at \notin Early PROVE FALSE
    OBVIOUS
  <1>1. Shows(q) /\ task[q].at \in Places
    BY UnderWay, Typed DEF Early
  <1>. QED
    BY <1>1 DEF Shows, Places, Placed, Unsent

(* A step of the user keeps the invariant when it leaves an open fate on    *)
(* the screen and on disk, and opens no review after a success.             *)
LEMMA UserKeeps ==
    ASSUME FlowInvariant, UNCHANGED <<chain, history>>, hydrated',
           task' \in [Runs -> Call],
           \A q \in Runs : task'[q].at \in Placed => task'[q].tx \in 1..Last,
           \A q \in Runs : task'[q].at \notin Unsent,
           QueueGrows, phase' \in Phases, submitted' \in 0..Last,
           disk' = disk \/ disk' = NoReceipt,
           \A q \in Runs : run' = q => Shows(q)',
           \A q \in Runs : task'[q].at \notin Early => run' = q,
           dismissed' => phase' = "unknown",
           Last > 0 /\ AtLarge(Last) =>
               submitted' = Last /\ phase' \in Unresolved /\ disk' = disk,
           phase' \in {"review", "simulating", "awaitingWallet"} =>
               phase \in {"review", "simulating", "awaitingWallet"} \/ ~Satisfied
    PROVE  FlowInvariant'
  <1>1. /\ txs' = txs /\ height' = height /\ told' = told /\ misread' = misread
        /\ Last' = Last /\ UNCHANGED chain /\ misread \subseteq misread'
    BY DEF chain, history, Last
  <1>2. NoNewSends
    BY DEF NoNewSends
  <1>3. /\ EarlierSpent' /\ ToldRightly' /\ Sending' /\ Last \in Nat
        /\ \A n \in 1..Last : Spent(n) => Spent(n)'
    BY <1>1, <1>2, ChainKeeps, Typed
  <1>4. FlowTyped'
    <2>1. txs \in Seq(Tx) /\ height \in Nat
      BY DEF FlowInvariant, FlowTyped
    <2>2. \A i \in 1..Len(unsaved') : unsaved'[i].tx \in 1..Last
      <3>1. \A i \in 1..Len(unsaved) : unsaved[i].tx \in 1..Last
        BY DEF FlowInvariant, FlowTyped
      <3>. QED
        BY <1>3, <3>1 DEF QueueGrows
    <2>3. disk' # NoReceipt => disk' \in Receipt /\ disk'.tx \in 1..Last
      BY Typed
    <2>. QED
      BY <1>1, <2>1, <2>2, <2>3 DEF FlowTyped, QueueGrows
  <1>5. InCharge'
    BY DEF InCharge
  <1>6. Authoritative'
    <2>1. ASSUME Last > 0, AtLarge(Last)'
          PROVE  /\ QueueOpen(Last)' /\ DiskOpen(Last)'
                 /\ submitted' = Last /\ phase' \in Unresolved
      <3>1. AtLarge(Last)
        BY <1>1, <1>3, <2>1 DEF AtLarge
      <3>2. QueueOpen(Last) /\ DiskOpen(Last)
        BY <2>1, <3>1 DEF FlowInvariant, Authoritative
      <3>3. submitted' = Last /\ phase' \in Unresolved /\ disk' = disk
        BY <2>1, <3>1
      <3>4. DiskOpen(Last)'
        BY <1>1, <3>2, <3>3 DEF DiskOpen, Open
      <3>. QED
        BY <1>1, <3>2, <3>3, <3>4, QueueStays DEF QueueOpen, Open
    <2>2. \A q \in Runs : task'[q].at # "send"
      BY DEF Unsent
    <2>. QED
      BY <1>1, <2>1, <2>2 DEF Authoritative
  <1>7. Quiet'
    <2> SUFFICES ASSUME Last > 0, txs[Last].state = "landed", Last \in told,
                        Last \notin misread,
                        phase' \in {"review", "simulating", "awaitingWallet"}
                 PROVE  FALSE
      BY <1>1 DEF Quiet
    <2>1. Last \in Landed
      BY <1>3 DEF Landed, Last
    <2>2. Satisfied
      BY <2>1 DEF Satisfied
    <2>3. phase \in {"review", "simulating", "awaitingWallet"}
      BY <2>2
    <2>. QED
      BY <2>3 DEF FlowInvariant, Quiet
  <1>. QED
    BY <1>3, <1>4, <1>5, <1>6, <1>7 DEF FlowInvariant

(* A call begins. *)
LEMMA StartEffect ==
    ASSUME task \in [Runs -> Call], NEW where \in {"build", "status"}, NEW n \in Nat,
           Start(where, n)
    PROVE  /\ run' \in Runs /\ task' \in [Runs -> Call]
           /\ task'[run'].at = where /\ task'[run'].tx = n
           /\ \A q \in Runs : q # run' => task'[q] = task[q]
  <1>1. PICK r \in Runs :
          /\ run' = r
          /\ task' = [task EXCEPT ![r] = [at |-> where, tx |-> n, last |-> 0]]
    BY DEF Start
  <1>2. [at |-> where, tx |-> n, last |-> 0] \in Call
    BY DEF Call, Places, Early, Placed
  <1>. QED
    BY <1>1, <1>2

LEMMA OpenReviewKeeps ==
    ASSUME FlowInvariant, OpenReview
    PROVE  FlowInvariant'
  <1>1. /\ hydrated /\ ~Visible /\ ~Satisfied /\ ~Blocked /\ run' = NoRun
        /\ ~dismissed' /\ Show("review", 0)
        /\ UNCHANGED <<chain, task, hydrated, disk, history, faults>>
    BY DEF OpenReview
  <1>2. phase \in {"idle", "unknown"}
    BY <1>1 DEF Visible, FlowInvariant, InCharge
  <1>3. \A q \in Runs : task[q].at \in Early
    BY <1>2, NoneAtWork
  <1>4. phase' = "review" /\ submitted' = 0 /\ QueueGrows
    BY <1>1, Typed, ShowEffect DEF Phases
  <1>5. ~(Last > 0 /\ AtLarge(Last))
    BY <1>1 DEF FlowInvariant, Authoritative, Blocked
  <1>6. \A q \in Runs : task'[q].at \in Early /\ run' # q
    BY <1>1, <1>3, MobileAssumption
  <1>7. 0 \in 0..Last /\ task' \in [Runs -> Call] /\ hydrated' /\ disk' = disk
    BY <1>1, Typed
  <1>8. \A q \in Runs : task'[q].at \notin Placed /\ task'[q].at \notin Unsent
    BY <1>6 DEF Early, Placed, Unsent
  <1>. QED
    BY <1>1, <1>4, <1>5, <1>6, <1>7, <1>8, UserKeeps DEF Phases

LEMMA ReopenKeeps ==
    ASSUME FlowInvariant, ReopenPending
    PROVE  FlowInvariant'
  <1>1. /\ hydrated /\ ~Visible /\ Blocked /\ ~dismissed'
        /\ UNCHANGED <<chain, screen, run, task, hydrated, disk, history>>
    BY DEF ReopenPending
  <1>2. phase \in {"idle", "unknown"}
    BY <1>1 DEF Visible, FlowInvariant, InCharge
  <1>3. \A q \in Runs : task[q].at \in Early
    BY <1>2, NoneAtWork
  <1>4. phase' = phase /\ submitted' = submitted /\ QueueGrows
    BY <1>1, Typed, SameScreen
  <1>5. Last > 0 /\ AtLarge(Last) => submitted = Last /\ phase \in Unresolved
    BY <1>1 DEF FlowInvariant, Authoritative
  <1>6. \A q \in Runs : task'[q].at \in Early
    BY <1>1, <1>3
  <1>7. \A q \in Runs : run' = q => Shows(q)'
    BY <1>1, <1>4 DEF FlowInvariant, InCharge, Shows
  <1>8. \A q \in Runs : task'[q].at \notin Placed /\ task'[q].at \notin Unsent
    BY <1>6 DEF Early, Placed, Unsent
  <1>9. task' \in [Runs -> Call] /\ hydrated' /\ disk' = disk
    BY <1>1, Typed
  <1>. QED
    BY <1>1, <1>2, <1>4, <1>5, <1>6, <1>7, <1>8, <1>9, Typed, UserKeeps

LEMMA SubmitKeeps ==
    ASSUME FlowInvariant, Submit
    PROVE  FlowInvariant'
  <1>1. /\ hydrated /\ ~dismissed /\ phase \in {"review", "failed"}
        /\ phase = "review" \/ ~Satisfied
        /\ Start("build", 0) /\ Show("simulating", submitted)
        /\ UNCHANGED <<chain, flags, disk, history>>
    BY DEF Submit, Visible
  <1>2. \A q \in Runs : task[q].at \in Early
    BY <1>1, NoneAtWork
  <1>3. /\ run' \in Runs /\ task' \in [Runs -> Call]
        /\ task'[run'].at = "build" /\ task'[run'].tx = 0
        /\ \A q \in Runs : q # run' => task'[q] = task[q]
    BY <1>1, Typed, StartEffect
  <1>4. phase' = "simulating" /\ submitted' = submitted /\ QueueGrows
    BY <1>1, Typed, ShowEffect DEF Phases
  <1>5. ~(Last > 0 /\ AtLarge(Last))
    BY <1>1, NothingAtLarge DEF Unresolved
  <1>6. \A q \in Runs : task'[q].at \in Early
    BY <1>2, <1>3 DEF Early
  <1>7. \A q \in Runs : task'[q].at \notin Placed /\ task'[q].at \notin Unsent
    BY <1>6 DEF Early, Placed, Unsent
  <1>8. \A q \in Runs : run' = q => Shows(q)'
    BY <1>3, <1>4 DEF Shows, Unsent, Placed
  <1>9. hydrated' /\ ~dismissed' /\ disk' = disk
    BY <1>1 DEF flags
  <1>. QED
    BY <1>1, <1>3, <1>4, <1>5, <1>6, <1>7, <1>8, <1>9, Typed, UserKeeps DEF Phases

LEMMA CancelKeeps ==
    ASSUME FlowInvariant, Cancel
    PROVE  FlowInvariant'
  <1>1. /\ hydrated /\ ~dismissed /\ phase \in {"review", "simulating"}
        /\ run' = NoRun /\ Show("idle", 0)
        /\ UNCHANGED <<chain, task, flags, disk, history>>
    BY DEF Cancel, Visible
  <1>2. \A q \in Runs : task[q].at \in Early
    BY <1>1, NoneAtWork
  <1>3. phase' = "idle" /\ submitted' = 0 /\ QueueGrows
    BY <1>1, Typed, ShowEffect DEF Phases
  <1>4. ~(Last > 0 /\ AtLarge(Last))
    BY <1>1, NothingAtLarge DEF Unresolved
  <1>5. \A q \in Runs : task'[q].at \in Early /\ run' # q
    BY <1>1, <1>2, MobileAssumption
  <1>6. \A q \in Runs : task'[q].at \notin Placed /\ task'[q].at \notin Unsent
    BY <1>5 DEF Early, Placed, Unsent
  <1>7. 0 \in 0..Last /\ task' \in [Runs -> Call] /\ hydrated' /\ ~dismissed' /\ disk' = disk
    BY <1>1, Typed DEF flags
  <1>. QED
    BY <1>1, <1>3, <1>4, <1>5, <1>6, <1>7, UserKeeps DEF Phases

LEMMA CloseKeeps ==
    ASSUME FlowInvariant, Close
    PROVE  FlowInvariant'
  <1>1. /\ hydrated /\ hydrated' /\ ~dismissed
        /\ phase \in {"unknown", "confirmed", "failed"}
        /\ UNCHANGED <<chain, task, history>>
    BY DEF Close, Visible
  <1>2. \A q \in Runs : task'[q].at \in Early /\ task[q].at \in Early
    BY <1>1, NoneAtWork
  <1>3. \A q \in Runs : task'[q].at \notin Placed /\ task'[q].at \notin Unsent
    BY <1>2 DEF Early, Placed, Unsent
  <1>4. task' \in [Runs -> Call] /\ 0 \in 0..Last
    BY <1>1, Typed
  <1>5. CASE phase = "unknown" /\ UNCHANGED <<screen, run, disk>>
    <2>1. phase' = phase /\ submitted' = submitted /\ QueueGrows
      BY <1>5, Typed, SameScreen
    <2>2. Last > 0 /\ AtLarge(Last) => submitted = Last /\ phase \in Unresolved
      BY <1>1 DEF FlowInvariant, Authoritative
    <2>3. \A q \in Runs : run' = q => Shows(q)'
      BY <1>1, <1>5, <2>1 DEF FlowInvariant, InCharge, Shows
    <2>. QED
      BY <1>1, <1>2, <1>3, <1>4, <1>5, <2>1, <2>2, <2>3, Typed, UserKeeps
  <1>6. CASE /\ phase \in {"confirmed", "failed"} /\ run' = NoRun /\ Show("idle", 0)
             /\ disk' = NoReceipt \/ UNCHANGED disk
             /\ UNCHANGED dismissed
    <2>1. phase' = "idle" /\ submitted' = 0 /\ QueueGrows
      BY <1>6, Typed, ShowEffect DEF Phases
    <2>2. ~(Last > 0 /\ AtLarge(Last))
      BY <1>1, <1>6, NothingAtLarge DEF Unresolved
    <2>3. \A q \in Runs : run' # q
      BY <1>6, MobileAssumption
    <2>. QED
      BY <1>1, <1>2, <1>3, <1>4, <1>6, <2>1, <2>2, <2>3, UserKeeps DEF Phases
  <1>. QED
    BY <1>5, <1>6 DEF Close

LEMMA CheckKeeps ==
    ASSUME FlowInvariant, CheckStatus
    PROVE  FlowInvariant'
  <1>1. /\ hydrated /\ ~dismissed /\ phase = "unknown" /\ submitted # 0
        /\ Start("status", submitted) /\ Show("checking", submitted)
        /\ UNCHANGED <<chain, flags, disk, history>>
    BY DEF CheckStatus, Visible
  <1>2. \A q \in Runs : task[q].at \in Early
    BY <1>1, NoneAtWork
  <1>3. /\ run' \in Runs /\ task' \in [Runs -> Call]
        /\ task'[run'].at = "status" /\ task'[run'].tx = submitted
        /\ \A q \in Runs : q # run' => task'[q] = task[q]
    BY <1>1, Typed, StartEffect
  <1>4. phase' = "checking" /\ submitted' = submitted /\ QueueGrows
    BY <1>1, Typed, ShowEffect DEF Phases, Stored, Unresolved
  <1>5. Last > 0 /\ AtLarge(Last) => submitted = Last
    BY <1>1 DEF FlowInvariant, Authoritative
  <1>6. \A q \in Runs : task'[q].at \notin Early => run' = q
    BY <1>2, <1>3
  <1>7. \A q \in Runs : task'[q].at \notin Unsent
    BY <1>2, <1>3 DEF Early, Unsent
  <1>8. \A q \in Runs : task'[q].at \in Placed => task'[q].tx \in 1..Last
    <2>1. submitted \in 1..Last
      BY <1>1, Typed
    <2>2. \A q \in Runs : task'[q].at \in Placed => q = run'
      BY <1>2, <1>3 DEF Early, Placed, Unsent
    <2>. QED
      BY <1>3, <2>1, <2>2
  <1>9. \A q \in Runs : run' = q => Shows(q)'
    BY <1>3, <1>4 DEF Shows, Unsent
  <1>10. hydrated' /\ ~dismissed' /\ disk' = disk
    BY <1>1 DEF flags
  <1>. QED
    BY <1>1, <1>3, <1>4, <1>5, <1>6, <1>7, <1>8, <1>9, <1>10, Typed, UserKeeps
       DEF Phases, Stored, Unresolved

---------------------------------------------------------------------------
(* Storage and restarts. *)

LEMMA WriteBackKeeps ==
    ASSUME FlowInvariant, WriteBack
    PROVE  FlowInvariant'
  <1>1. /\ unsaved # <<>> /\ unsaved' = Tail(unsaved)
        /\ disk' = Head(unsaved) \/ disk' = disk
        /\ UNCHANGED <<chain, phase, submitted, run, task, flags, history>>
    BY DEF WriteBack
  <1>2. /\ txs' = txs /\ height' = height /\ Last' = Last /\ UNCHANGED chain
        /\ told' = told /\ misread' = misread /\ misread \subseteq misread'
        /\ hydrated' = hydrated /\ dismissed' = dismissed
    BY <1>1 DEF chain, history, flags, Last
  <1>3. /\ unsaved \in Seq(Receipt) /\ Last \in Nat
        /\ \A i \in 1..Len(unsaved) : unsaved[i].tx \in 1..Last
    BY Typed DEF FlowInvariant, FlowTyped
  <1>4. /\ unsaved' \in Seq(Receipt)
        /\ 1 \in 1..Len(unsaved) /\ Head(unsaved) = unsaved[1]
        /\ \A i \in 1..Len(unsaved') :
              i + 1 \in 1..Len(unsaved) /\ unsaved'[i] = unsaved[i + 1]
    BY <1>1, <1>3
  <1>5. Head(unsaved) \in Receipt /\ Head(unsaved) # NoReceipt
    BY <1>3, <1>4, ReceiptIsOne
  <1>6. ASSUME NEW n, QueueOpen(n)
        PROVE  /\ \A i \in 1..Len(unsaved') : Open(unsaved'[i], n)
               /\ Open(Head(unsaved), n)
    BY <1>4, <1>6 DEF QueueOpen
  <1>7. /\ EarlierSpent' /\ ToldRightly' /\ Sending'
        /\ \A n \in 1..Last : Spent(n) => Spent(n)'
    <2>1. NoNewSends
      BY <1>1 DEF NoNewSends
    <2>. QED
      BY <1>2, <2>1, ChainKeeps
  <1>8. FlowTyped'
    <2>1. \A i \in 1..Len(unsaved') : unsaved'[i].tx \in 1..Last
      BY <1>3, <1>4
    <2>2. disk' # NoReceipt => disk' \in Receipt /\ disk'.tx \in 1..Last
      BY <1>1, <1>3, <1>4, <1>5, Typed
    <2>. QED
      BY <1>1, <1>2, <1>4, <2>1, <2>2 DEF FlowInvariant, FlowTyped
  <1>9. InCharge'
    <2>1. hydrated
      BY <1>1 DEF FlowInvariant, InCharge
    <2>2. \A r \in Runs : run' = r => Shows(r)'
      BY <1>1 DEF FlowInvariant, InCharge, Shows
    <2>. QED
      BY <1>1, <1>2, <2>1, <2>2 DEF FlowInvariant, InCharge
  <1>10. Authoritative'
    <2>1. ASSUME QueueOpen(Last)
          PROVE  QueueOpen(Last)'
      BY <1>2, <1>6, <2>1 DEF QueueOpen, Open
    <2>2. ASSUME QueueOpen(Last), DiskOpen(Last)
          PROVE  DiskOpen(Last)'
      BY <1>1, <1>2, <1>5, <1>6, <2>2 DEF DiskOpen, Open
    <2>3. ASSUME NEW q \in Runs, task'[q].at \in Unsent
          PROVE  QueueOpen(Last)' /\ (task'[q].at = "send" => DiskOpen(Last)')
      BY <1>1, <2>1, <2>2, <2>3 DEF FlowInvariant, Authoritative
    <2>4. ASSUME Last > 0, AtLarge(Last)'
          PROVE  /\ QueueOpen(Last)' /\ DiskOpen(Last)'
                 /\ hydrated' => submitted' = Last /\ phase' \in Unresolved
      <3>1. AtLarge(Last)
        BY <1>2, <1>3, <1>7, <2>4 DEF AtLarge
      <3>2. /\ QueueOpen(Last) /\ DiskOpen(Last)
            /\ hydrated => submitted = Last /\ phase \in Unresolved
        BY <2>4, <3>1 DEF FlowInvariant, Authoritative
      <3>. QED
        BY <1>1, <1>2, <2>1, <2>2, <3>2
    <2>5. \A q \in Runs : task'[q].at = "send" => task'[q].at \in Unsent
      BY DEF Unsent
    <2>. QED
      BY <1>2, <2>3, <2>4, <2>5 DEF Authoritative
  <1>11. Quiet'
    BY <1>1, <1>2 DEF FlowInvariant, Quiet
  <1>. QED
    BY <1>7, <1>8, <1>9, <1>10, <1>11 DEF FlowInvariant

LEMMA HydrateKeeps ==
    ASSUME FlowInvariant, HydrateReceipt
    PROVE  FlowInvariant'
  <1>1. /\ ~hydrated /\ hydrated' /\ UNCHANGED <<chain, run, task, disk, history>>
    BY DEF HydrateReceipt
  <1>2. /\ phase = "idle" /\ \A q \in Runs : task'[q].at = "none"
        /\ dismissed => phase = "unknown"
    BY <1>1 DEF FlowInvariant, InCharge
  <1>3. /\ \A q \in Runs : task'[q].at \notin Placed /\ task'[q].at \notin Unsent
        /\ \A q \in Runs : task'[q].at \in Early
        /\ \A q \in Runs : Shows(q)'
    BY <1>2 DEF Early, Placed, Unsent, Shows
  <1>4. Last > 0 /\ AtLarge(Last) => disk # NoReceipt /\ Open(disk, Last)
    BY DEF FlowInvariant, Authoritative, DiskOpen
  <1>5. task' \in [Runs -> Call] /\ disk' = disk
    BY <1>1, Typed
  <1>6. CASE disk = NoReceipt /\ UNCHANGED <<screen, restored, dismissed>>
    <2>1. phase' = phase /\ submitted' = submitted /\ QueueGrows
      BY <1>6, Typed, SameScreen
    <2>. QED
      BY <1>1, <1>2, <1>3, <1>4, <1>5, <1>6, <2>1, Typed, UserKeeps
  <1>7. CASE /\ disk # NoReceipt /\ ~dismissed'
             /\ Show(IF disk.phase \in Unresolved THEN "unknown" ELSE disk.phase, disk.tx)
    <2>1. disk \in Receipt /\ disk.phase \in Stored /\ disk.tx \in 1..Last /\ disk.tx \in Nat
      BY <1>7, Typed DEF Receipt
    <2> DEFINE ph == IF disk.phase \in Unresolved THEN "unknown" ELSE disk.phase
    <2>2. ph \in Stored /\ ph \in Phases
      BY <2>1 DEF Stored, Unresolved, Phases
    <2>3. disk.phase \in Unresolved => ph \in Unresolved
      BY DEF Unresolved
    <2>4. Show(ph, disk.tx)
      BY <1>7
    <2> HIDE DEF ph
    <2>5. phase' = ph /\ submitted' = disk.tx /\ QueueGrows
      BY <2>1, <2>2, <2>4, Typed, ShowEffect
    <2>6. Last > 0 /\ AtLarge(Last) => submitted' = Last /\ phase' \in Unresolved
      BY <1>4, <2>3, <2>5 DEF Open
    <2>7. phase' \notin {"review", "simulating", "awaitingWallet"}
      BY <2>2, <2>5 DEF Stored, Unresolved
    <2>8. submitted' \in 0..Last /\ phase' \in Phases
      BY <2>1, <2>2, <2>5, Typed
    <2>. QED
      BY <1>1, <1>3, <1>5, <1>7, <2>5, <2>6, <2>7, <2>8, UserKeeps
  <1>. QED
    BY <1>6, <1>7 DEF HydrateReceipt

LEMMA CrashKeeps ==
    ASSUME FlowInvariant, Crash
    PROVE  FlowInvariant'
  <1>1. /\ phase' = "idle" /\ submitted' = 0 /\ unsaved' = <<>>
        /\ task' = [r \in Runs |-> Idle]
        /\ run' = NoRun /\ ~hydrated' /\ ~dismissed'
        /\ UNCHANGED <<chain, disk, history>>
    BY DEF Crash
  <1>2. /\ txs' = txs /\ height' = height /\ Last' = Last /\ UNCHANGED chain
        /\ told' = told /\ misread' = misread /\ misread \subseteq misread' /\ disk' = disk
    BY <1>1 DEF chain, history, Last
  <1>3. /\ task' \in [Runs -> Call]
        /\ \A q \in Runs : task'[q].at = "none"
    BY <1>1 DEF Idle, Call, Places, Early
  <1>4. \A q \in Runs : /\ task'[q].at \in Early /\ task'[q].at # "send"
                        /\ task'[q].at \notin Placed /\ task'[q].at \notin Unsent
    BY <1>3 DEF Early, Placed, Unsent
  <1>5. /\ EarlierSpent' /\ ToldRightly' /\ Sending' /\ Last \in Nat
        /\ \A n \in 1..Last : Spent(n) => Spent(n)'
    <2>1. NoNewSends
      BY <1>4 DEF NoNewSends
    <2>. QED
      BY <1>2, <2>1, ChainKeeps, Typed
  <1>6. Len(unsaved') = 0 /\ unsaved' \in Seq(Receipt) /\ 1..Len(unsaved') = {}
    BY <1>1
  <1>7. FlowTyped'
    BY <1>1, <1>2, <1>3, <1>4, <1>5, <1>6 DEF FlowInvariant, FlowTyped, Phases
  <1>8. InCharge'
    BY <1>1, <1>3, <1>4, MobileAssumption DEF InCharge
  <1>9. Authoritative'
    <2>1. ASSUME Last > 0, AtLarge(Last)'
          PROVE  DiskOpen(Last)'
      <3>1. AtLarge(Last)
        BY <1>2, <1>5, <2>1 DEF AtLarge
      <3>. QED
        BY <1>2, <2>1, <3>1 DEF FlowInvariant, Authoritative, DiskOpen, Open
    <2>2. QueueOpen(Last)'
      BY <1>6 DEF QueueOpen
    <2>. QED
      BY <1>1, <1>2, <1>4, <2>1, <2>2 DEF Authoritative
  <1>10. Quiet'
    BY <1>1 DEF Quiet
  <1>. QED
    BY <1>5, <1>7, <1>8, <1>9, <1>10 DEF FlowInvariant

---------------------------------------------------------------------------
(* The chain. *)

LEMMA ChainMoves ==
    ASSUME FlowInvariant, UNCHANGED <<screen, run, task, flags, disk, history>>,
           txs' \in Seq(Tx), Last' = Last, height' \in Nat,
           \A n \in 1..Last : Spent(n) => Spent(n)',
           \A n \in 1..Last : txs[n].state = "signed" => txs'[n].state = "signed",
           \A n \in told : txs[n].state = "landed" => txs'[n].state = "landed",
           \A n \in told : Spent(n) \/ txs'[n].state = "landed" => txs[n].state = txs'[n].state,
           Last > 0 /\ AtLarge(Last)' => AtLarge(Last)
    PROVE  FlowInvariant'
  <1>1. /\ phase' = phase /\ submitted' = submitted /\ unsaved' = unsaved
        /\ run' = run /\ task' = task /\ disk' = disk /\ told' = told /\ misread' = misread
        /\ hydrated' = hydrated /\ dismissed' = dismissed
    BY DEF screen, flags, history
  <1>2. Last \in Nat
    BY Typed
  <1>3. FlowTyped'
    BY <1>1 DEF FlowInvariant, FlowTyped
  <1>4. InCharge'
    BY <1>1 DEF FlowInvariant, InCharge, Shows
  <1>5. EarlierSpent'
    BY <1>2 DEF FlowInvariant, EarlierSpent
  <1>6. ToldRightly'
    BY <1>1 DEF FlowInvariant, ToldRightly
  <1>7. Sending'
    <2>1. ASSUME NEW q \in Runs, task[q].at \in Unsent
          PROVE  task[q].tx = Last /\ txs'[Last].state = "signed"
      BY <2>1, HoldsLast
    <2>. QED
      BY <1>1, <2>1 DEF Sending
  <1>8. Authoritative'
    BY <1>1 DEF FlowInvariant, Authoritative, QueueOpen, DiskOpen, Open
  <1>9. Quiet'
    <2> SUFFICES ASSUME Last > 0, txs'[Last].state = "landed", Last \in told,
                        Last \notin misread
                 PROVE  phase \notin {"review", "simulating", "awaitingWallet"}
      BY <1>1 DEF Quiet
    <2>1. txs[Last].state = "landed"
      OBVIOUS
    <2>. QED
      BY <2>1 DEF FlowInvariant, Quiet
  <1>. QED
    BY <1>3, <1>4, <1>5, <1>6, <1>7, <1>8, <1>9 DEF FlowInvariant

LEMMA LandKeeps ==
    ASSUME FlowInvariant, Land
    PROVE  FlowInvariant'
  <1>1. PICK n \in 1..Len(txs), fate \in {"landed", "rejected"} :
          /\ txs[n].state = "sent" /\ height <= txs[n].last
          /\ txs' = [txs EXCEPT ![n].state = fate]
    BY DEF Land
  <1>2. /\ txs \in Seq(Tx) /\ height \in Nat /\ height' = height
        /\ UNCHANGED <<screen, run, task, flags, disk, history>>
        /\ task' = task /\ told' = told /\ misread' = misread
        /\ n \in 1..Last /\ Last \in Nat
    BY <1>1, Typed DEF Land, FlowInvariant, FlowTyped, Last, history
  <1>3. /\ txs' \in Seq(Tx) /\ Len(txs') = Len(txs) /\ txs'[n].state = fate
        /\ \A m \in 1..Last : m # n => txs'[m] = txs[m]
        /\ txs[n].last \in Nat
    <2>1. txs[n] \in Tx
      BY <1>1, <1>2
    <2> DEFINE t == [txs[n] EXCEPT !.state = fate]
    <2>2. t \in Tx /\ t.state = fate /\ txs[n].last \in Nat
      BY <2>1 DEF Tx, States
    <2>3. txs' = [txs EXCEPT ![n] = t]
      BY <1>1
    <2> HIDE DEF t
    <2>. QED
      BY <1>1, <1>2, <2>2, <2>3 DEF Last
  <1>4. Last' = Last
    BY <1>3 DEF Last
  <1>5. ~Spent(n)
    BY <1>1, <1>2, <1>3 DEF Spent, Expired
  <1>6. n \notin told
    BY <1>1, <1>5 DEF FlowInvariant, ToldRightly
  <1>7. ASSUME NEW m \in 1..Last, m # n
        PROVE  (Spent(m) => Spent(m)') /\ (Spent(m)' => Spent(m))
    BY <1>2, <1>3, <1>7 DEF Spent, Expired, AwaitsSend
  <1>8. \A m \in 1..Last : Spent(m) => Spent(m)'
    BY <1>5, <1>7
  <1>9. Last > 0 /\ AtLarge(Last)' => AtLarge(Last)
    <2>1. CASE Last = n
      BY <1>1, <1>5, <1>6, <2>1 DEF AtLarge
    <2>2. CASE Last # n /\ Last > 0
      <3>1. Last \in 1..Last
        BY <1>2, <2>2
      <3>. QED
        BY <1>2, <1>3, <1>4, <1>8, <2>2, <3>1 DEF AtLarge
    <2>. QED
      BY <2>1, <2>2
  <1>10. \A m \in told : m \in 1..Last /\ m # n
    BY <1>6 DEF FlowInvariant, ToldRightly
  <1>. QED
    BY <1>1, <1>2, <1>3, <1>4, <1>8, <1>9, <1>10, ChainMoves

LEMMA BlockKeeps ==
    ASSUME FlowInvariant, NewBlock
    PROVE  FlowInvariant'
  <1>1. /\ height' = height + 1 /\ txs' = txs /\ Last' = Last
        /\ UNCHANGED <<screen, run, task, flags, disk, history>>
        /\ task' = task /\ told' = told /\ misread' = misread
        /\ txs \in Seq(Tx) /\ height \in Nat /\ Last \in Nat
    BY Typed DEF NewBlock, Last, history, FlowInvariant, FlowTyped
  <1>2. ASSUME NEW n \in 1..Last
        PROVE  Spent(n) => Spent(n)'
    <2>1. txs[n] \in Tx
      BY <1>1 DEF Last
    <2>2. txs[n].last \in Nat
      BY <2>1 DEF Tx
    <2>. QED
      BY <1>1, <2>2 DEF Spent, Expired, AwaitsSend
  <1>3. Last > 0 /\ AtLarge(Last)' => AtLarge(Last)
    BY <1>1, <1>2 DEF AtLarge
  <1>. QED
    BY <1>1, <1>2, <1>3, ChainMoves

LEMMA StutterKeeps ==
    ASSUME FlowInvariant, UNCHANGED vars
    PROVE  FlowInvariant'
  <1>1. /\ txs' = txs /\ height' = height /\ Last' = Last /\ task' = task
        /\ misread' = misread /\ told' = told
        /\ UNCHANGED <<screen, run, task, flags, disk, history>>
        /\ txs \in Seq(Tx) /\ height \in Nat /\ Last \in Nat
    BY Typed DEF vars, chain, history, Last, FlowInvariant, FlowTyped
  <1>2. ASSUME NEW n \in 1..Last
        PROVE  Spent(n) => Spent(n)'
    BY <1>1 DEF Spent, Expired, AwaitsSend
  <1>3. Last > 0 /\ AtLarge(Last)' => AtLarge(Last)
    BY <1>1, <1>2 DEF AtLarge
  <1>. QED
    BY <1>1, <1>2, <1>3, ChainMoves

---------------------------------------------------------------------------

LEMMA InitFlow == Init => FlowInvariant
  <1> SUFFICES ASSUME Init PROVE FlowInvariant
    OBVIOUS
  <1>1. /\ Len(txs) = 0 /\ Last = 0 /\ txs \in Seq(Tx) /\ Len(unsaved) = 0
        /\ unsaved \in Seq(Receipt) /\ 1..0 = {} /\ 1..(0 - 1) = {}
    BY DEF Init, Last
  <1>2. /\ task \in [Runs -> Call] /\ \A q \in Runs : task[q].at = "none"
    BY DEF Init, Idle, Call, Places, Early
  <1>3. FlowTyped
    BY <1>1, <1>2 DEF Init, FlowTyped, Phases, Placed, Unsent
  <1>4. InCharge
    BY <1>2, MobileAssumption DEF Init, InCharge, Early
  <1>5. EarlierSpent /\ ToldRightly /\ Quiet
    BY <1>1 DEF Init, EarlierSpent, ToldRightly, Quiet
  <1>6. Sending /\ Authoritative
    BY <1>1, <1>2 DEF Sending, Authoritative, Unsent
  <1>. QED
    BY <1>3, <1>4, <1>5, <1>6 DEF FlowInvariant

LEMMA NextFlow == FlowInvariant /\ [Next]_vars => FlowInvariant'
  <1> SUFFICES ASSUME FlowInvariant, [Next]_vars PROVE FlowInvariant'
    OBVIOUS
  <1>1. CASE UserStep
    BY <1>1, OpenReviewKeeps, ReopenKeeps, SubmitKeeps, CancelKeeps, CloseKeeps, CheckKeeps
    DEF UserStep
  <1>2. ASSUME NEW r \in Runs, CallStep(r) PROVE FlowInvariant'
    <2>1. CASE (At(r, "build") \/ At(r, "blockhash") \/ At(r, "wallet")) /\ Drop(r)
      <3>1. task[r].at # "none"
        BY <2>1 DEF At
      <3>. QED
        BY <2>1, <3>1, DropKeeps
    <2>. QED
      BY <1>2, <2>1, BuildKeeps, BlockhashKeeps, WalletKeeps, StoreKeeps, SendKeeps,
         ConfirmKeeps, ReadStatusKeeps, ReadHeightKeeps
      DEF CallStep
  <1>3. CASE WriteBack \/ HydrateReceipt \/ Crash
    BY <1>3, WriteBackKeeps, HydrateKeeps, CrashKeeps
  <1>4. CASE Land \/ NewBlock
    BY <1>4, LandKeeps, BlockKeeps
  <1>5. CASE UNCHANGED vars
    BY <1>5, StutterKeeps
  <1>. QED
    BY <1>1, <1>2, <1>3, <1>4, <1>5 DEF Next

(* What the user is shown, what is stored and what the calls hold always    *)
(* agree on the one signature that may still land.                          *)
THEOREM FlowInvariantKept == Spec => []FlowInvariant
  <1>. QED
    BY InitFlow, NextFlow, PTL DEF Spec

(* What the user wants once is done once, whatever fails, is lost or        *)
(* interrupted: of two signatures that landed the earlier was misread as    *)
(* expired.                                                                 *)
THEOREM NothingLandsTwice == Spec => []NeverTwice
  <1>1. FlowInvariant => NeverTwice
    <2> SUFFICES ASSUME FlowInvariant, NEW m \in Landed, NEW n \in Landed, m < n
                 PROVE  m \in misread
      BY DEF NeverTwice
    <2>1. m \in 1..(Last - 1) /\ txs[m].state = "landed"
      BY Typed DEF Landed, Last
    <2>2. Spent(m)
      BY <2>1 DEF FlowInvariant, EarlierSpent
    <2>. QED
      BY <2>1, <2>2 DEF Spent
  <1>. QED
    BY <1>1, FlowInvariantKept, PTL
=============================================================================
