--------------------------- MODULE SharedVault ---------------------------
(***************************************************************************)
(* One SharedVault of programs/opta: a pool of USDC collateral             *)
(* that several writers deposit into, the options they write against it,   *)
(* the premium buyers pay them, and the two ways the vault ends: settled   *)
(* at the price of its SettlementRecord, or voided when no price was       *)
(* recorded in time.  Every instruction is one atomic transaction, so one  *)
(* action; the actions interleave freely, as the transactions of           *)
(* different signers do.                                                   *)
(*                                                                         *)
(* Spec is the European vault, which has neither writer-ask pot nor early  *)
(* exercise: post_order and exercise_american reject it.  AmericanVault    *)
(* extends this module with both, so the gates American vaults add to the  *)
(* pool's instructions are already here.  A token of any mint_from_vault   *)
(* mint is worth the same, so a holder's balance is summed over them.      *)
(* Wallets hold what a transaction needs; their balances are not tracked,  *)
(* nor are the counters no instruction reads (net_premium_collected).      *)
(***************************************************************************)
EXTENDS VaultMath, FiniteSets, Functions

CONSTANTS
    Writers,        \* wallets that may deposit
    Holders,        \* wallets that may buy; a writer may be one of them
    MintIds,        \* the (writer, created_at) pairs mint_from_vault may use
    NoWriter,       \* the writer of a mint that does not exist yet
    NoPrice,        \* a SettlementRecord that does not exist yet
    Strike, OptionType, ExerciseStyle, VaultType, Creator,
    FeeBps,         \* protocol_state.fee_bps
    Scale,          \* the premium accumulator's fixed-point unit (1e12)
    Expiry, ExerciseWindow, GraceWindow

CONSTANTS           \* inputs and bounds
    Amounts,        \* deposit and withdrawal sizes
    Quantities,     \* contracts per mint, purchase or exercise
    Premiums,       \* premium per contract
    Prices,         \* settlement prices the oracle may record
    MaxTime,        \* the clock stops here
    MaxCollateral,  \* deposits stop here
    MaxRebases      \* deposits and withdrawals of one behaviour

ASSUME SetsAssumption ==
    /\ NoWriter \notin Writers
    /\ NoPrice \notin Nat
    /\ Creator \in Writers

(* Only so many wallets ever touch one vault, and only so many mints. *)
ASSUME FiniteAssumption ==
    /\ IsFiniteSet(Writers)
    /\ IsFiniteSet(Holders)
    /\ IsFiniteSet(MintIds)

ASSUME ParametersAssumption ==
    /\ Strike \in Nat \ {0}
    /\ OptionType \in {"Call", "Put"}
    /\ ExerciseStyle \in {"European", "American"}
    /\ VaultType \in {"Epoch", "Custom"}
    /\ FeeBps \in 0..10000
    /\ Scale \in Nat \ {0}
    /\ Expiry \in Nat \ {0}
    /\ ExerciseWindow \in Nat
    /\ GraceWindow \in Nat

ASSUME InputsAssumption ==
    /\ Amounts \subseteq Nat \ {0}
    /\ Quantities \subseteq Nat \ {0}
    /\ Premiums \subseteq Nat
    /\ Prices \subseteq Nat
    /\ MaxTime \in Nat
    /\ MaxCollateral \in Nat
    /\ MaxRebases \in Nat

VARIABLES
    now,            \* Clock::unix_timestamp
    record,         \* the SettlementRecord's price, or NoPrice
    vault,          \* the SharedVault account
    usdc,           \* balance of the vault's USDC token account
    usdcOpen,       \* FALSE once that account is closed
    position,       \* the WriterPosition accounts
    opened,         \* the writers whose WriterPosition exists
    mint,           \* the VaultMint records, each with its purchase escrow
    tokens,         \* option tokens each holder has
    rebases         \* history: how many times a premium_debt was set

vars == <<now, record, vault, usdc, usdcOpen, position, opened, mint, tokens,
          rebases>>

Vault ==
    [total_collateral : Nat, total_shares : Nat,
     total_options_minted : Nat, total_options_sold : Nat,
     premium_per_share : Nat,
     exercised_options : Nat, early_exercise_payout : Nat,
     is_settled : BOOLEAN, settlement_price : Nat, voided : BOOLEAN,
     collateral_remaining : Nat,
     writer_ask_swept : Nat, writer_ask_equiv_shares : Nat]

Position ==
    [shares : Nat, deposited : Nat, claimed : Nat, debt : Nat,
     options_minted : Nat, options_sold : Nat]

Mint ==
    [writer : Writers \cup {NoWriter}, premium : Nat,
     quantity_minted : Nat, quantity_sold : Nat, escrow : Nat]

EmptyVault ==
    [total_collateral |-> 0, total_shares |-> 0,
     total_options_minted |-> 0, total_options_sold |-> 0,
     premium_per_share |-> 0,
     exercised_options |-> 0, early_exercise_payout |-> 0,
     is_settled |-> FALSE, settlement_price |-> 0, voided |-> FALSE,
     collateral_remaining |-> 0,
     writer_ask_swept |-> 0, writer_ask_equiv_shares |-> 0]

EmptyPosition ==
    [shares |-> 0, deposited |-> 0, claimed |-> 0, debt |-> 0,
     options_minted |-> 0, options_sold |-> 0]

NoMint ==
    [writer |-> NoWriter, premium |-> 0,
     quantity_minted |-> 0, quantity_sold |-> 0, escrow |-> 0]

Init ==
    /\ now = 0
    /\ record = NoPrice
    /\ vault = EmptyVault
    /\ usdc = 0
    /\ usdcOpen = TRUE
    /\ position = [w \in Writers |-> EmptyPosition]
    /\ opened = {}
    /\ mint = [m \in MintIds |-> NoMint]
    /\ tokens = [h \in Holders |-> 0]
    /\ rebases = 0

---------------------------------------------------------------------------
(* Conditions and amounts the instructions share. *)

Live == ~vault.is_settled /\ ~vault.voided

UnclaimedPremium(w) ==
    Unclaimed(position[w].shares, vault.premium_per_share, Scale,
              position[w].debt, position[w].claimed)

(* A live writer's share of the pooled collateral. *)
WriterCollateral(w) ==
    ShareValue(position[w].shares, vault.total_collateral, vault.total_shares)

(* Faulty: options still in escrow are not counted. *)
CommittedWhenSold(w) ==
    position[w].options_sold * CollateralPerContract(Strike)

Committed(w) == position[w].options_minted * CollateralPerContract(Strike)

(* Faulty: what early exercises took is counted as free. *)
HasFreeIgnoringPayouts(needed) ==
    /\ vault.total_options_minted >= vault.exercised_options
    /\ (vault.total_options_minted - vault.exercised_options)
          * CollateralPerContract(Strike)
         + needed <= vault.total_collateral

(* vault_free_collateral >= needed: what early exercises left of the pool   *)
(* backs every option not yet exercised, and `needed` more.  An American    *)
(* vault's gate; each of its three checked_subs fails the instruction.      *)
HasFree(needed) ==
    /\ vault.total_collateral >= vault.early_exercise_payout
    /\ vault.total_options_minted >= vault.exercised_options
    /\ vault.early_exercise_payout
         + (vault.total_options_minted - vault.exercised_options)
             * CollateralPerContract(Strike)
         + needed <= vault.total_collateral

AmericanGate(needed) == ExerciseStyle = "American" => HasFree(needed)

(* A concluded writer's share of what is left of it. *)
WriterRemaining(w) ==
    IF vault.total_shares = 0 \/ position[w].shares = 0
    THEN 0
    ELSE ShareValue(position[w].shares, vault.collateral_remaining,
                    vault.total_shares)

Payoff == CappedIntrinsic(OptionType, vault.settlement_price, Strike,
                          CollateralPerContract(Strike))

(* Faulty: only the holders who bought from a writer ask are waited for. *)
WindowForAskHoldersOnly ==
    vault.writer_ask_swept > 0 => now >= Expiry + ExerciseWindow

(* Writers wait for the holders' window, unless there are no holders. *)
ExerciseWindowOver ==
    vault.total_options_sold > 0 \/ vault.writer_ask_swept > 0 =>
        now >= Expiry + ExerciseWindow

---------------------------------------------------------------------------
(* Before expiry: writers fund the vault, write options and sell them. *)

Deposit(w, amount) ==
    LET shares == SharesFor(amount, vault.total_shares, vault.total_collateral)
        fresh  == position[w].shares = 0 /\ position[w].deposited = 0
        old    == IF fresh THEN EmptyPosition ELSE position[w]
    IN
    /\ usdcOpen
    /\ ~vault.is_settled
    /\ now < Expiry
    /\ VaultType = "Custom" /\ vault.total_shares > 0 => w = Creator
    /\ vault.total_shares > 0 => vault.total_collateral > 0
    /\ shares > 0
    /\ vault.total_collateral + amount <= MaxCollateral
    /\ rebases < MaxRebases
    /\ usdc' = usdc + amount
    /\ position' = [position EXCEPT ![w] =
                      [old EXCEPT !.debt = @ + Earned(shares, vault.premium_per_share, Scale),
                                  !.shares = @ + shares,
                                  !.deposited = @ + amount]]
    /\ opened' = opened \cup {w}
    /\ vault' = [vault EXCEPT !.total_collateral = @ + amount,
                              !.total_shares = @ + shares]
    /\ rebases' = rebases + 1
    /\ UNCHANGED <<now, record, usdcOpen, mint, tokens>>

(* `premium` is the one the record keeps: the writer's own, which must be   *)
(* positive, or in an American vault the on-chain quote, which may be zero. *)
MintFromVault(w, m, quantity, premium) ==
    /\ w \in opened
    /\ ExerciseStyle = "European" => premium > 0
    /\ ~vault.is_settled
    /\ now < Expiry
    /\ mint[m].writer = NoWriter
    /\ vault.total_shares > 0
    /\ WriterCollateral(w) >= Committed(w)
    /\ quantity * CollateralPerContract(Strike) <= WriterCollateral(w) - Committed(w)
    /\ AmericanGate(quantity * CollateralPerContract(Strike))
    /\ mint' = [mint EXCEPT ![m] = [writer |-> w, premium |-> premium,
                                    quantity_minted |-> quantity,
                                    quantity_sold |-> 0, escrow |-> quantity]]
    /\ position' = [position EXCEPT ![w].options_minted = @ + quantity]
    /\ vault' = [vault EXCEPT !.total_options_minted = @ + quantity]
    /\ UNCHANGED <<now, record, usdc, usdcOpen, opened, tokens, rebases>>

(* The writer's share of the premium stays in the vault and is credited to  *)
(* every share; the fee goes to the treasury.                               *)
PurchaseFromVault(h, m, quantity) ==
    LET writer  == mint[m].writer
        total   == quantity * mint[m].premium
        share   == total - Fee(total, FeeBps)
    IN
    /\ usdcOpen
    /\ now < Expiry
    /\ ~vault.is_settled
    /\ writer \in opened
    /\ h # writer
    /\ mint[m].premium > 0
    /\ quantity <= mint[m].escrow
    /\ usdc' = usdc + share
    /\ tokens' = [tokens EXCEPT ![h] = @ + quantity]
    /\ mint' = [mint EXCEPT ![m].quantity_sold = @ + quantity,
                            ![m].escrow = @ - quantity]
    /\ position' = [position EXCEPT ![writer].options_sold = @ + quantity]
    /\ vault' = [vault EXCEPT
                   !.total_options_sold = @ + quantity,
                   !.premium_per_share =
                      IF vault.total_shares > 0
                      THEN @ + MulDiv(share, Scale, vault.total_shares)
                      ELSE @]
    /\ UNCHANGED <<now, record, usdcOpen, opened, rebases>>

(* No guard on the vault's phase: unsold tokens may be burned at any time   *)
(* while the writer's position exists.                                      *)
BurnUnsold(w, m) ==
    LET unsold == mint[m].escrow
    IN
    /\ w \in opened
    /\ mint[m].writer = w
    /\ unsold > 0
    /\ unsold <= mint[m].quantity_minted
    /\ unsold <= position[w].options_minted
    /\ unsold <= vault.total_options_minted
    /\ mint' = [mint EXCEPT ![m].escrow = 0, ![m].quantity_minted = @ - unsold]
    /\ position' = [position EXCEPT ![w].options_minted = @ - unsold]
    /\ vault' = [vault EXCEPT !.total_options_minted = @ - unsold]
    /\ UNCHANGED <<now, record, usdc, usdcOpen, opened, tokens, rebases>>

(* Allowed after expiry too, until the vault is settled or voided. *)
WithdrawFromVault(w, shares) ==
    LET amount == ShareValue(shares, vault.total_collateral, vault.total_shares)
        left   == position[w].shares - shares
        after  == [position[w] EXCEPT
                     !.shares = left,
                     !.deposited = SaturatingSub(@, amount),
                     !.debt = Earned(left, vault.premium_per_share, Scale),
                     !.claimed = 0]
    IN
    /\ usdcOpen
    /\ w \in opened
    /\ shares <= position[w].shares
    /\ Live
    /\ UnclaimedPremium(w) = 0
    /\ WriterCollateral(w) >= Committed(w)
    /\ amount <= WriterCollateral(w) - Committed(w)
    /\ AmericanGate(amount)
    /\ amount <= usdc
    /\ amount <= vault.total_collateral
    /\ shares <= vault.total_shares
    /\ rebases < MaxRebases
    /\ usdc' = usdc - amount
    /\ position' = [position EXCEPT ![w] = after]
    /\ vault' = [vault EXCEPT !.total_collateral = @ - amount,
                              !.total_shares = @ - shares]
    /\ rebases' = rebases + 1
    /\ UNCHANGED <<now, record, usdcOpen, opened, mint, tokens>>

ClaimPremium(w) ==
    LET claimable == UnclaimedPremium(w)
    IN
    /\ usdcOpen
    /\ w \in opened
    /\ claimable > 0
    /\ claimable <= usdc
    /\ usdc' = usdc - claimable
    /\ position' = [position EXCEPT ![w].claimed = @ + claimable]
    /\ UNCHANGED <<now, record, vault, usdcOpen, opened, mint, tokens, rebases>>

---------------------------------------------------------------------------
(* Settlement: one price per (asset, expiry), then the vault, then its      *)
(* holders, then its writers.                                               *)

Tick ==
    /\ now < MaxTime
    /\ now' = now + 1
    /\ UNCHANGED <<record, vault, usdc, usdcOpen, position, opened, mint,
                   tokens, rebases>>

(* settle_expiry: the record is created once; nothing stops it from being   *)
(* created after a vault was voided.                                        *)
SettleExpiry(price) ==
    /\ now >= Expiry
    /\ record = NoPrice
    /\ record' = price
    /\ UNCHANGED <<now, vault, usdc, usdcOpen, position, opened, mint, tokens,
                   rebases>>

(* Shares that stand for the collateral swept from the writer-ask pot. *)
EquivShares(swept) ==
    IF swept = 0 THEN 0
    ELSE IF vault.total_collateral = 0 THEN swept
    ELSE MulDiv(swept, vault.total_shares, vault.total_collateral)

(* Faulty: early exercises are not deducted. *)
JoinPotUndeducted(swept) ==
    [vault EXCEPT
       !.collateral_remaining = vault.total_collateral + swept,
       !.writer_ask_swept = swept,
       !.writer_ask_equiv_shares = EquivShares(swept),
       !.total_shares = @ + EquivShares(swept)]

(* Faulty: the backers' shares are missing from the denominator. *)
JoinPotUnshared(swept) ==
    [vault EXCEPT
       !.collateral_remaining =
           SaturatingSub(vault.total_collateral + swept, vault.early_exercise_payout),
       !.writer_ask_swept = swept,
       !.writer_ask_equiv_shares = EquivShares(swept)]

(* The pot's `swept` units join the pool, less what early exercises took    *)
(* out of it; the writers of swept collateral get equivalent shares.        *)
JoinPot(swept) ==
    [vault EXCEPT
       !.collateral_remaining =
           SaturatingSub(vault.total_collateral + swept, vault.early_exercise_payout),
       !.writer_ask_swept = swept,
       !.writer_ask_equiv_shares = EquivShares(swept),
       !.total_shares = @ + EquivShares(swept)]

SettleWith(swept) ==
    /\ usdcOpen
    /\ Live
    /\ now >= Expiry
    /\ record # NoPrice
    /\ vault' = [JoinPot(swept) EXCEPT !.is_settled = TRUE,
                                       !.settlement_price = record]
    /\ usdc' = usdc + swept
    /\ UNCHANGED <<now, record, usdcOpen, position, opened, mint, tokens,
                   rebases>>

SettleVault == SettleWith(0)

(* Burn `quantity` of a holder's tokens and pay what they are worth, as far *)
(* as the remaining collateral goes.                                        *)
PayHolder(h, quantity) ==
    LET payout == Smaller(quantity * Payoff, vault.collateral_remaining)
    IN
    /\ payout <= usdc
    /\ tokens' = [tokens EXCEPT ![h] = @ - quantity]
    /\ usdc' = usdc - payout
    /\ vault' = [vault EXCEPT !.collateral_remaining = @ - payout]
    /\ UNCHANGED <<now, record, usdcOpen, position, opened, mint, rebases>>

ExerciseFromVault(h, quantity) ==
    /\ usdcOpen
    /\ ~vault.voided
    /\ vault.is_settled
    /\ quantity <= tokens[h]
    /\ Payoff > 0
    /\ PayHolder(h, quantity)

(* Faulty: the vault's phase is not checked. *)
AutoFinalizeAnyPhase(h) ==
    /\ usdcOpen
    /\ tokens[h] > 0
    /\ PayHolder(h, tokens[h])

(* The crank burns a holder's whole balance, in or out of the money.  A     *)
(* longer batch is a run of such steps.                                     *)
AutoFinalizeHolder(h) ==
    /\ usdcOpen
    /\ ~vault.voided
    /\ vault.is_settled
    /\ tokens[h] > 0
    /\ PayHolder(h, tokens[h])

(* The same instruction on a purchase escrow: that account and the treasury *)
(* have one owner, protocol_state, so anybody may name the two as a pair.   *)
(* Unsold options are burned, and the pool pays the treasury for them.      *)
AutoFinalizeEscrow(m) ==
    LET payout == Smaller(mint[m].escrow * Payoff, vault.collateral_remaining)
    IN
    /\ usdcOpen
    /\ ~vault.voided
    /\ vault.is_settled
    /\ mint[m].escrow > 0
    /\ payout <= usdc
    /\ mint' = [mint EXCEPT ![m].escrow = 0]
    /\ usdc' = usdc - payout
    /\ vault' = [vault EXCEPT !.collateral_remaining = @ - payout]
    /\ UNCHANGED <<now, record, usdcOpen, position, opened, tokens, rebases>>

(* Faulty: the last share never leaves. *)
ExitCoveredStrictly(w) ==
    /\ WriterRemaining(w) <= vault.collateral_remaining
    /\ position[w].shares < vault.total_shares
    /\ WriterRemaining(w) <= vault.total_collateral
    /\ UnclaimedPremium(w) + WriterRemaining(w) <= usdc

(* Every checked_sub of an exit holds, and the account can pay it. *)
ExitCovered(w) ==
    /\ WriterRemaining(w) <= vault.collateral_remaining
    /\ position[w].shares <= vault.total_shares
    /\ WriterRemaining(w) <= vault.total_collateral
    /\ UnclaimedPremium(w) + WriterRemaining(w) <= usdc

(* Faulty: the leaver's shares stay in the denominator. *)
AfterExitShareKept(w) ==
    [vault EXCEPT !.collateral_remaining = @ - WriterRemaining(w),
                  !.total_collateral = @ - WriterRemaining(w)]

(* Faulty: what the leaver took is still there to be shared. *)
AfterExitStillThere(w) ==
    [vault EXCEPT !.total_shares = @ - position[w].shares,
                  !.total_collateral = @ - WriterRemaining(w)]

AfterExit(w) ==
    [vault EXCEPT !.collateral_remaining = @ - WriterRemaining(w),
                  !.total_shares = @ - position[w].shares,
                  !.total_collateral = @ - WriterRemaining(w)]

(* Take w's share of the remaining collateral, and its premium, out. *)
ReleaseShare(w) ==
    /\ ExitCovered(w)
    /\ vault' = AfterExit(w)

(* The last writer out empties and closes the vault's USDC account. *)
SweepIfDrained(balance) ==
    /\ usdcOpen' = (vault'.total_shares > 0)
    /\ usdc' = IF vault'.total_shares > 0 THEN balance ELSE 0

WithdrawPostSettlement(w) ==
    /\ usdcOpen
    /\ vault.is_settled
    /\ w \in opened
    /\ position[w].shares > 0
    /\ ExerciseWindowOver
    /\ ReleaseShare(w)
    /\ SweepIfDrained(usdc - UnclaimedPremium(w) - WriterRemaining(w))
    /\ opened' = opened \ {w}
    /\ position' = [position EXCEPT ![w] = EmptyPosition]
    /\ UNCHANGED <<now, record, mint, tokens, rebases>>

(* The crank pays and closes a batch of positions, then sweeps the account  *)
(* if no shares are left.  `batch` names one position that still holds      *)
(* shares, or none, and any number of share-less ones; a longer batch is a  *)
(* run of these, the share-less positions last.                             *)
AutoFinalizeWriters(batch) ==
    LET funded == {w \in batch : position[w].shares > 0}
    IN
    /\ usdcOpen
    /\ vault.is_settled
    /\ ExerciseWindowOver
    /\ batch \subseteq opened
    /\ batch # {} \/ vault.total_shares = 0
    /\ opened' = opened \ batch
    /\ position' = [w \in Writers |->
                      IF w \in batch THEN EmptyPosition ELSE position[w]]
    /\ \/ /\ funded = {}
          /\ vault' = vault
          /\ SweepIfDrained(usdc)
       \/ \E w \in funded :
             /\ funded = {w}
             /\ ReleaseShare(w)
             /\ SweepIfDrained(usdc - UnclaimedPremium(w) - WriterRemaining(w))
    /\ UNCHANGED <<now, record, mint, tokens, rebases>>

---------------------------------------------------------------------------
(* The other ending: no price within the grace window. *)

VoidWith(swept) ==
    /\ usdcOpen
    /\ ~vault.voided
    /\ record = NoPrice
    /\ now >= Expiry + GraceWindow
    /\ vault.total_collateral + swept >= vault.early_exercise_payout
    /\ vault' = [JoinPot(swept) EXCEPT !.voided = TRUE]
    /\ usdc' = usdc + swept
    /\ UNCHANGED <<now, record, usdcOpen, position, opened, mint, tokens,
                   rebases>>

(* Faulty: a vault nobody deposited into cannot be voided. *)
VoidIfFunded == vault.total_collateral > 0 /\ VoidWith(0)

InitializeVoid == VoidWith(0)

(* The position stays open with no shares, so it cannot reclaim twice. *)
ReclaimUnsettled(w) ==
    LET after == [position[w] EXCEPT !.claimed = @ + UnclaimedPremium(w), !.shares = 0]
    IN
    /\ usdcOpen
    /\ vault.voided
    /\ w \in opened
    /\ position[w].shares > 0
    /\ ReleaseShare(w)
    /\ usdc' = usdc - UnclaimedPremium(w) - WriterRemaining(w)
    /\ position' = [position EXCEPT ![w] = after]
    /\ UNCHANGED <<now, record, usdcOpen, opened, mint, tokens, rebases>>

(* An ended vault with no shares left gives its dust to the treasury: one   *)
(* that was voided, or that held swept writer-ask collateral.               *)
CloseDrainedVault ==
    /\ usdcOpen
    /\ vault.voided \/ (vault.is_settled /\ vault.writer_ask_swept > 0)
    /\ vault.total_shares = 0
    /\ usdcOpen' = FALSE
    /\ usdc' = 0
    /\ UNCHANGED <<now, record, vault, position, opened, mint, tokens, rebases>>

---------------------------------------------------------------------------
WriterStep ==
    \E w \in Writers :
        \/ \E amount \in Amounts : Deposit(w, amount)
        \/ \E m \in MintIds, quantity \in Quantities, premium \in Premiums :
              MintFromVault(w, m, quantity, premium)
        \/ \E m \in MintIds : BurnUnsold(w, m)
        \/ \E shares \in Amounts : WithdrawFromVault(w, shares)
        \/ ClaimPremium(w)
        \/ WithdrawPostSettlement(w)

HolderStep ==
    \E h \in Holders, quantity \in Quantities :
        \/ \E m \in MintIds : PurchaseFromVault(h, m, quantity)
        \/ ExerciseFromVault(h, quantity)

OracleStep == \E price \in Prices : SettleExpiry(price)

(* What anyone may call; the project's crank makes these calls itself, but  *)
(* for the finalization of a purchase escrow.                               *)
CrankStep ==
    \/ SettleVault
    \/ \E h \in Holders : AutoFinalizeHolder(h)
    \/ \E m \in MintIds : AutoFinalizeEscrow(m)
    \/ \E batch \in SUBSET Writers : AutoFinalizeWriters(batch)
    \/ InitializeVoid
    \/ \E w \in Writers : ReclaimUnsettled(w)
    \/ CloseDrainedVault

Next == WriterStep \/ HolderStep \/ OracleStep \/ CrankStep \/ Tick

Spec == Init /\ [][Next]_vars

(* Time passes, and on every tick the crank settles and finalizes whatever  *)
(* it can (settleVaultFanout, autoFinalize).  Voiding is open to anybody    *)
(* too, but the sweep that does it for the project is off by default        *)
(* (reclaimUnsettled): its fairness says that somebody does.  That sweep    *)
(* leaves a vault alone once it is voided, so nobody is obliged to make the *)
(* writers' reclaims.  The oracle may never publish.                        *)
Fairness ==
    /\ WF_vars(Tick)
    /\ WF_vars(SettleVault)
    /\ WF_vars(InitializeVoid)
    /\ \A h \in Holders : WF_vars(AutoFinalizeHolder(h))
    /\ \A w \in Writers : WF_vars(AutoFinalizeWriters({w}))

FairSpec == Spec /\ Fairness

---------------------------------------------------------------------------
(* Properties. *)

(* The accounts have the shapes the program declares. *)
TypeOK ==
    /\ now \in Nat
    /\ record \in Prices \cup {NoPrice}
    /\ vault \in Vault
    /\ usdc \in Nat
    /\ usdcOpen \in BOOLEAN
    /\ position \in [Writers -> Position]
    /\ opened \in SUBSET Writers
    /\ mint \in [MintIds -> Mint]
    /\ tokens \in [Holders -> Nat]
    /\ rebases \in Nat

SharesOf    == SumFunction([w \in Writers |-> position[w].shares])
UnclaimedOf == SumFunction([w \in Writers |-> UnclaimedPremium(w)])
TokensHeld  == SumFunction(tokens)
Escrowed    == SumFunction([m \in MintIds |-> mint[m].escrow])

(* Until the vault ends, one share is one unit of collateral: the floors of *)
(* deposit_to_vault and withdraw_from_vault never bite, so no deposit buys  *)
(* shares at another writer's expense.                                      *)
SharesTrackCollateral ==
    Live => /\ vault.total_shares = vault.total_collateral
            /\ \A w \in Writers : position[w].deposited = position[w].shares

(* The remaining collateral never exceeds the shares that claim it, nor the *)
(* collateral counter the writers' exits are subtracted from; a voided pool *)
(* is still worth exactly its shares.                                       *)
SharesAtMostPar ==
    /\ vault.is_settled => /\ vault.collateral_remaining <= vault.total_shares
                           /\ vault.collateral_remaining <= vault.total_collateral
    /\ vault.voided => /\ vault.collateral_remaining = vault.total_shares
                       /\ vault.collateral_remaining = vault.total_collateral

(* The per-writer, per-mint and vault counters tell one story: escrow plus  *)
(* sales is what was minted, and what was sold is in holders' hands.  Only  *)
(* a settled vault may have lost unsold options no counter knows of.        *)
CountersAgree ==
    /\ \A m \in MintIds :
          /\ mint[m].quantity_minted >= mint[m].quantity_sold + mint[m].escrow
          /\ ~vault.is_settled =>
                mint[m].quantity_minted = mint[m].quantity_sold + mint[m].escrow
    /\ vault.total_options_minted >= vault.total_options_sold + Escrowed
    /\ ~vault.is_settled =>
          vault.total_options_minted = vault.total_options_sold + Escrowed
    /\ Live => /\ vault.total_options_sold = TokensHeld
               /\ vault.total_options_minted =
                     SumFunction([w \in Writers |-> position[w].options_minted])
               /\ vault.total_options_sold =
                     SumFunction([w \in Writers |-> position[w].options_sold])

(* Before the vault ends, every option in existence, sold or waiting in an  *)
(* escrow, has its strike locked: by its writer, and so by the pool.  The   *)
(* counters that the gates go by agree with what exists.                    *)
WrittenOptionsBacked ==
    /\ CountersAgree
    /\ Live => /\ \A w \in Writers : Committed(w) <= position[w].shares
               /\ (TokensHeld + Escrowed) * CollateralPerContract(Strike)
                       <= vault.total_collateral

(* While the holders' window is open, the remaining collateral pays every   *)
(* option still held in full, whatever writers and other holders do, and    *)
(* though unsold options may be paid for as well.                           *)
HoldersCovered ==
    vault.is_settled /\ now < Expiry + ExerciseWindow =>
        TokensHeld * Payoff <= vault.collateral_remaining

(* The vault's account covers the pool and all unclaimed premium, short of  *)
(* at most one base unit per premium_debt that was rounded down.            *)
PremiumSolvent ==
    usdcOpen =>
        (IF Live THEN vault.total_collateral ELSE vault.collateral_remaining)
            + UnclaimedOf <= usdc + rebases

ExitsCovered ==
    ~Live => \A w \in Writers :
                /\ WriterRemaining(w) <= vault.collateral_remaining
                /\ WriterRemaining(w) <= vault.total_collateral
                /\ position[w].shares <= vault.total_shares

(* A writer's exit never trips over its own arithmetic: none of the         *)
(* checked_subs of the three exit instructions can fail.  The share count   *)
(* is what the writers hold, so the last one out, after whom the account is *)
(* closed, really is the last.                                              *)
ExitNeverReverts ==
    /\ ExitsCovered
    /\ vault.total_shares = SharesOf

(* A vault is settled or voided, once: never both, whatever the order in    *)
(* which the price record, the settlement and the void arrive.              *)
EndsOneWay == ~(vault.is_settled /\ vault.voided)

(* An ending is final: the settlement price stays, and a voided vault never *)
(* redeems an option.                                                       *)
EndingIsFinal ==
    [][/\ vault.is_settled => /\ vault'.is_settled
                              /\ vault'.settlement_price = vault.settlement_price
       /\ vault.voided => vault'.voided /\ tokens' = tokens]_vars

(* A writer who leaves an ended vault leaves the others' shares worth no    *)
(* less: pro-rata payouts round towards the pool.                           *)
ExitsDoNotDilute ==
    [][~Live /\ vault'.total_shares < vault.total_shares =>
          vault'.collateral_remaining * vault.total_shares
             >= vault.collateral_remaining * vault'.total_shares]_vars

(* Every vault ends: at its price if one is recorded, or voided after the   *)
(* grace window.                                                            *)
VaultEnds == <>(vault.is_settled \/ vault.voided)

(* A settled vault is drained: no writer's share stays inside, unless the   *)
(* rounding of the premium accumulator left the account short of a payout.  *)
Short == \E w \in Writers : UnclaimedPremium(w) + WriterRemaining(w) > usdc

WritersPaidOut ==
    vault.is_settled ~> (\A w \in Writers : position[w].shares = 0) \/ Short

=============================================================================
