----------------------------- MODULE MobileFlow -----------------------------
(***************************************************************************)
(* How the phone app sends a transaction                                   *)
(* (mobile/src/state/useTransactionFlow.ts and                             *)
(* mobile/src/solana/transactionStatus.ts): review, build, sign in the     *)
(* wallet, store a receipt, send, confirm, and check again what could not  *)
(* be confirmed.  A signature is a place in `txs`; the chain takes a       *)
(* transaction at most until the last block its blockhash is good for.     *)
(* The user wants one thing done, tries until the app says that it is, and *)
(* may leave or lose the app at any time.  What the app remembers then is  *)
(* the receipt in storage.  A fault is a request or a write that fails, an *)
(* answer that is lost, or the end of the process.                         *)
(***************************************************************************)
EXTENDS Integers, Sequences

CONSTANTS
    Runs,          \* calls of submit and checkStatus under way at once
    MaxTx,         \* signatures the user gives
    Lifetime,      \* blocks a blockhash is good for
    MaxHeight,
    MaxFaults,
    NoRun, NoReceipt

(* Where the fate of a signature is open; what is written to storage.       *)
Unresolved == {"sending", "confirming", "unknown", "checking"}
Stored     == Unresolved \union {"confirmed", "failed"}

ASSUME MobileAssumption ==
    /\ NoRun \notin Runs
    /\ NoReceipt \notin [phase : Stored, tx : Nat]
    /\ MaxTx \in Nat /\ Lifetime \in Nat /\ MaxHeight \in Nat /\ MaxFaults \in Nat

VARIABLES
    txs, height,                     \* the chain
    phase, submitted,                \* state.phase, state.submitted (0 is null)
    run,                             \* the call that runId belongs to
    task,                            \* where each call is, and what it holds
    restored, hydrated, dismissed,
    unsaved,                         \* persistQueue
    disk,                            \* TX_RECEIPT_STORAGE_KEY
    told,                            \* shown as confirmed or failed
    misread,                         \* shown as failed although it had landed
    faults

chain   == <<txs, height>>
screen  == <<phase, submitted, unsaved>>
flags   == <<restored, hydrated, dismissed>>
history == <<told, misread>>
vars == <<chain, screen, run, task, flags, disk, history, faults>>

Idle       == [at |-> "none", tx |-> 0, last |-> 0]

Init ==
    /\ txs = <<>> /\ height = 0
    /\ phase = "idle" /\ submitted = 0
    /\ run = NoRun /\ task = [r \in Runs |-> Idle]
    /\ restored = FALSE /\ hydrated = FALSE /\ dismissed = FALSE
    /\ unsaved = <<>> /\ disk = NoReceipt
    /\ told = {} /\ misread = {}
    /\ faults = 0

Fault   == faults < MaxFaults /\ faults' = faults + 1
NoFault == UNCHANGED faults

(* Every state with a signature is queued to be written, in order.          *)
Show(ph, n) ==
    /\ phase' = ph
    /\ submitted' = n
    /\ unsaved' = IF n # 0 /\ ph \in Stored
                  THEN Append(unsaved, [phase |-> ph, tx |-> n]) ELSE unsaved

At(r, where)   == task[r].at = where
GoTo(r, where) == task' = [task EXCEPT ![r].at = where]
Return(r)      == task' = [task EXCEPT ![r] = Idle]

(* currentRun !== runId.current: whatever changed hands since, it returns.  *)
Superseded(r) == run # r

Drop(r) ==
    /\ Superseded(r)
    /\ Return(r)
    /\ UNCHANGED <<chain, screen, run, flags, disk, history, faults>>

---------------------------------------------------------------------------
(* The user. *)

Landed    == {n \in 1..Len(txs) : txs[n].state = "landed"}
Satisfied == \E n \in Landed \ misread : n \in told
Visible   == phase # "idle" /\ ~dismissed /\ hydrated

(* The unresolved signature stays authoritative.                            *)
Blocked == submitted # 0 /\ phase \in Unresolved

OpenReview ==
    /\ hydrated /\ ~Visible /\ ~Satisfied
    /\ ~Blocked
    /\ run' = NoRun
    /\ restored' = FALSE /\ dismissed' = FALSE
    /\ Show("review", 0)
    /\ UNCHANGED <<chain, task, hydrated, disk, history, faults>>

ReopenPending ==
    /\ hydrated /\ ~Visible
    /\ Blocked
    /\ dismissed' = FALSE
    /\ UNCHANGED <<chain, screen, run, task, restored, hydrated, disk, history, faults>>

Start(where, n) ==
    \E r \in Runs :
        /\ At(r, "none")
        /\ run' = r
        /\ task' = [task EXCEPT ![r] = [at |-> where, tx |-> n, last |-> 0]]

(* Approve, or retry: a restored receipt cannot be sent again.              *)
Submit ==
    /\ Visible
    /\ phase = "review" \/ (phase = "failed" /\ ~restored /\ ~Satisfied)
    /\ Len(txs) < MaxTx
    /\ Start("build", 0)
    /\ Show("simulating", submitted)
    /\ UNCHANGED <<chain, flags, disk, history, faults>>

Cancel ==
    /\ Visible
    /\ phase \in {"review", "simulating"}
    /\ run' = NoRun
    /\ Show("idle", 0)
    /\ UNCHANGED <<chain, task, flags, disk, history, faults>>

(* What is final is forgotten, unless the removal fails; what is not is     *)
(* only put out of sight.                                                   *)
Close ==
    /\ Visible
    /\ \/ /\ phase = "unknown"
          /\ dismissed' = TRUE
          /\ UNCHANGED <<screen, run, disk, faults>>
       \/ /\ phase \in {"confirmed", "failed"}
          /\ run' = NoRun
          /\ Show("idle", 0)
          /\ \/ disk' = NoReceipt /\ NoFault
             \/ UNCHANGED disk /\ Fault
          /\ UNCHANGED dismissed
    /\ UNCHANGED <<chain, task, restored, hydrated, history>>

(* The queue is empty by then: a write is faster than a person.             *)
CheckStatus ==
    /\ Visible
    /\ phase = "unknown" /\ submitted # 0
    /\ unsaved = <<>>
    /\ Start("status", submitted)
    /\ Show("checking", submitted)
    /\ UNCHANGED <<chain, flags, disk, history, faults>>

---------------------------------------------------------------------------
(* submit: each await is a step. *)

Fails(r) ==
    /\ Show("failed", submitted)
    /\ Return(r)

(* intent.build() and its simulation.                                       *)
Build(r) ==
    /\ At(r, "build") /\ ~Superseded(r)
    /\ \/ GoTo(r, "blockhash") /\ NoFault /\ UNCHANGED screen
       \/ Fails(r) /\ Fault
    /\ UNCHANGED <<chain, run, flags, disk, history>>

Blockhash(r) ==
    /\ At(r, "blockhash") /\ ~Superseded(r)
    /\ \/ /\ height + Lifetime < MaxHeight
          /\ task' = [task EXCEPT ![r].at = "wallet", ![r].last = height + Lifetime]
          /\ Show("awaitingWallet", submitted)
          /\ NoFault
       \/ Fails(r) /\ Fault
    /\ UNCHANGED <<chain, run, flags, disk, history>>

(* The user signs, declines, or the wallet fails.                           *)
Wallet(r) ==
    /\ At(r, "wallet") /\ ~Superseded(r)
    /\ unsaved = <<>>
    /\ \/ /\ Len(txs) < MaxTx
          /\ txs' = Append(txs, [state |-> "signed", last |-> task[r].last])
          /\ task' = [task EXCEPT ![r].at = "store", ![r].tx = Len(txs) + 1]
          /\ Show("sending", Len(txs) + 1)
          /\ NoFault
       \/ Show("review", 0) /\ Return(r) /\ NoFault /\ UNCHANGED txs
       \/ Fails(r) /\ Fault /\ UNCHANGED txs
    /\ UNCHANGED <<height, run, flags, disk, history>>

(* Faulty: sends first and leaves the receipt to the queue.                 *)
StoreLater(r) ==
    /\ At(r, "store")
    /\ GoTo(r, "send")
    /\ UNCHANGED <<chain, screen, run, flags, disk, history, faults>>

(* The receipt is on disk before anything is sent, or nothing is.           *)
StoreReceipt(r) ==
    /\ At(r, "store")
    /\ \/ /\ disk' = [phase |-> "sending", tx |-> task[r].tx]
          /\ IF Superseded(r) THEN Return(r) ELSE GoTo(r, "send")
          /\ NoFault
          /\ UNCHANGED screen
       \/ /\ Show("failed", 0) /\ Return(r)
          /\ Fault
          /\ UNCHANGED disk
    /\ UNCHANGED <<chain, run, flags, history>>

Sent(n) == txs' = [txs EXCEPT ![n].state = "sent"]

(* sendRawTransaction: taken, refused by the node, or an answer that is     *)
(* lost, on either side of the wire.                                        *)
Send(r) ==
    /\ At(r, "send")
    /\ \/ /\ Sent(task[r].tx)
          /\ GoTo(r, "confirm")
          /\ Show("confirming", task[r].tx)
          /\ NoFault
       \/ /\ Return(r)
          /\ IF Superseded(r) THEN UNCHANGED screen ELSE Show("unknown", task[r].tx)
          /\ \/ UNCHANGED <<txs, faults>>
             \/ Sent(task[r].tx) /\ Fault
    /\ UNCHANGED <<height, run, flags, disk, history>>

---------------------------------------------------------------------------
(* confirmSubmittedTransaction, checkSubmittedTransactionStatus and         *)
(* settleResult. *)

Settle(r, result) ==
    /\ Return(r)
    /\ IF Superseded(r) THEN UNCHANGED <<screen, told>>
       ELSE /\ Show(result, task[r].tx)
            /\ told' = IF result = "unknown" THEN told ELSE told \union {task[r].tx}

State(r)   == txs[task[r].tx].state
OnChain(r) == State(r) \in {"landed", "rejected"}
Verdict(r) == IF State(r) = "landed" THEN "confirmed" ELSE "failed"

(* confirmTransaction resolves, or throws when it can be no longer or the   *)
(* request fails; then the status is read.                                  *)
Confirm(r) ==
    /\ At(r, "confirm")
    /\ \/ OnChain(r) /\ Settle(r, Verdict(r)) /\ NoFault
       \/ /\ GoTo(r, "status")
          /\ UNCHANGED <<screen, told>>
          /\ \/ height > txs[task[r].tx].last /\ NoFault
             \/ Fault
    /\ UNCHANGED <<chain, run, flags, disk, misread>>

ReadStatus(r) ==
    /\ At(r, "status")
    /\ \/ OnChain(r) /\ Settle(r, Verdict(r)) /\ NoFault
       \/ ~OnChain(r) /\ GoTo(r, "height") /\ NoFault /\ UNCHANGED <<screen, told>>
       \/ Settle(r, "unknown") /\ Fault
    /\ UNCHANGED <<chain, run, flags, disk, misread>>

(* Faulty: an absent signature is unknown for ever.                         *)
AbsentIsUnknown(n) == FALSE

Expired(n) == height > txs[n].last

(* Absent a moment ago, and its last block is over now.                     *)
ReadHeight(r) ==
    LET n == task[r].tx IN
    /\ At(r, "height")
    /\ \/ Expired(n) /\ Settle(r, "failed") /\ NoFault
       \/ ~Expired(n) /\ Settle(r, "unknown") /\ NoFault
       \/ Settle(r, "unknown") /\ Fault
    /\ misread' = IF n \in told' /\ State(r) = "landed" THEN misread \union {n} ELSE misread
    /\ UNCHANGED <<chain, run, flags, disk>>

---------------------------------------------------------------------------
(* Storage and restarts. *)

(* The head of the queue is written, or its write fails and is let go.      *)
WriteBack ==
    /\ unsaved # <<>>
    /\ \/ disk' = Head(unsaved) /\ NoFault
       \/ UNCHANGED disk /\ Fault
    /\ unsaved' = Tail(unsaved)
    /\ UNCHANGED <<chain, phase, submitted, run, task, flags, history>>

(* A restored receipt whose fate was open is unknown.                       *)
HydrateReceipt ==
    /\ ~hydrated
    /\ hydrated' = TRUE
    /\ IF disk = NoReceipt THEN UNCHANGED <<screen, restored, dismissed>>
       ELSE /\ restored' = TRUE
            /\ dismissed' = FALSE
            /\ Show(IF disk.phase \in Unresolved THEN "unknown" ELSE disk.phase, disk.tx)
    /\ UNCHANGED <<chain, run, task, disk, history, faults>>

Crash ==
    /\ Fault
    /\ phase' = "idle" /\ submitted' = 0 /\ unsaved' = <<>>
    /\ run' = NoRun /\ task' = [r \in Runs |-> Idle]
    /\ restored' = FALSE /\ hydrated' = FALSE /\ dismissed' = FALSE
    /\ UNCHANGED <<chain, disk, history>>

---------------------------------------------------------------------------
(* The chain. *)

Land ==
    /\ \E n \in 1..Len(txs) :
        /\ txs[n].state = "sent" /\ height <= txs[n].last
        /\ \E fate \in {"landed", "rejected"} :
            txs' = [txs EXCEPT ![n].state = fate]
    /\ UNCHANGED <<height, screen, run, task, flags, disk, history, faults>>

NewBlock ==
    /\ height < MaxHeight
    /\ height' = height + 1
    /\ UNCHANGED <<txs, screen, run, task, flags, disk, history, faults>>

CallStep(r) ==
    \/ (At(r, "build") \/ At(r, "blockhash") \/ At(r, "wallet")) /\ Drop(r)
    \/ Build(r) \/ Blockhash(r) \/ Wallet(r) \/ StoreReceipt(r) \/ Send(r)
    \/ Confirm(r) \/ ReadStatus(r) \/ ReadHeight(r)

UserStep == OpenReview \/ ReopenPending \/ Submit \/ Cancel \/ Close \/ CheckStatus

Next ==
    \/ UserStep
    \/ \E r \in Runs : CallStep(r)
    \/ WriteBack \/ HydrateReceipt \/ Crash
    \/ Land \/ NewBlock

Spec == Init /\ [][Next]_vars

(* Requests return, blocks go on, and a user who was told nothing looks     *)
(* again, through whatever it opens and closes in between.                  *)
FairSpec ==
    /\ Spec
    /\ \A r \in Runs : WF_vars(CallStep(r))
    /\ WF_vars(WriteBack) /\ WF_vars(HydrateReceipt) /\ WF_vars(NewBlock)
    /\ WF_vars(ReopenPending) /\ SF_vars(CheckStatus)

---------------------------------------------------------------------------
(* Properties. *)

(* What the user wants once is done once: "an unknown write cannot          *)
(* duplicate collateral" (transactionStatus.ts).  Of two that landed, the   *)
(* first was called expired by a check that read its status before it       *)
(* landed and the block height after its last block.                        *)
NeverTwice == \A m, n \in Landed : m < n => m \in misread

(* Whatever is lost on the way, and whenever the app ends, the fate of      *)
(* what was sent is shown in the end.                                       *)
FateShown ==
    \A n \in 1..MaxTx :
        (n <= Len(txs) /\ txs[n].state # "signed") ~> n \in told
=============================================================================
