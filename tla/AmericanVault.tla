-------------------------- MODULE AmericanVault --------------------------
(***************************************************************************)
(* One American SharedVault: the pool of SharedVault plus everything an    *)
(* American series adds to it.                                             *)
(*   - The vault itself quotes: fill_vault_peg mints series tokens against *)
(*     the pool's free collateral.                                         *)
(*   - Writers rest writer asks: the collateral waits in the order's       *)
(*     escrow, moves to the series' WriterAskPot as the ask is filled, and *)
(*     each filled contract is minted to the taker.                        *)
(*   - Holders exercise before expiry, paid by the vault's account first   *)
(*     and by the pot for what the account cannot cover.                   *)
(*   - Settling or voiding sweeps the pot into the vault and gives its     *)
(*     backers equivalent shares, which they redeem as residuals.          *)
(* Tokens of the canonical series mint (series) are kept apart from those  *)
(* of mint_from_vault mints (tokens): the pot's address derives from the   *)
(* series mint, so only series tokens reach it.  A taker pays a writer ask *)
(* straight to its maker; of the order only the unfilled quantity matters  *)
(* here.                                                                   *)
(***************************************************************************)
EXTENDS SharedVault

CONSTANT MaxPot     \* bound: writer asks stop when the pot could exceed it

ASSUME MaxPotAssumption == MaxPot \in Nat

VARIABLES
    series,     \* series tokens each holder has
    ask,        \* contracts left in each writer's resting writer ask
    pot,        \* the WriterAskPot's record of its collateral
    potUsdc,    \* balance of the pot's USDC account
    backer,     \* the WriterAskPosition accounts: collateral committed
    drawn       \* history: what early exercises took out of the pot

potVars == <<series, ask, pot, potUsdc, backer, drawn>>
avars   == <<vars, potVars>>

(* post_order refuses a writer ask, exercise_american an exercise and       *)
(* fill_vault_peg a fill of any vault that is not American; a vault's style *)
(* is for good.                                                             *)
AmericanSeries == ExerciseStyle = "American"

AInit ==
    /\ AmericanSeries
    /\ Init
    /\ series = [h \in Holders |-> 0]
    /\ ask = [w \in Writers |-> 0]
    /\ pot = 0
    /\ potUsdc = 0
    /\ backer = [w \in Writers |-> 0]
    /\ drawn = 0

---------------------------------------------------------------------------
(* Before expiry. *)

(* The premium is quoted on-chain, marked up by the vault's spread. *)
FillVaultPeg(h, quantity, premium) ==
    LET total == quantity * premium
        share == total - Fee(total, FeeBps)
    IN
    /\ usdcOpen
    /\ Live
    /\ now < Expiry
    /\ HasFree(quantity * CollateralPerContract(Strike))
    /\ usdc' = usdc + share
    /\ series' = [series EXCEPT ![h] = @ + quantity]
    /\ vault' = [vault EXCEPT
                   !.total_options_minted = @ + quantity,
                   !.total_options_sold = @ + quantity,
                   !.premium_per_share =
                      IF vault.total_shares > 0
                      THEN @ + MulDiv(share, Scale, vault.total_shares)
                      ELSE @]
    /\ UNCHANGED <<now, record, usdcOpen, position, opened, mint, tokens, rebases,
                   ask, pot, potUsdc, backer, drawn>>

(* A writer's second ask would differ in price only: one rests at a time. *)
PostWriterAsk(w, quantity) ==
    /\ ~vault.is_settled
    /\ now < Expiry
    /\ ask[w] = 0
    /\ (SumFunction(ask) + quantity) * CollateralPerContract(Strike)
         + SumFunction(backer) <= MaxPot
    /\ ask' = [ask EXCEPT ![w] = quantity]
    /\ UNCHANGED <<vars, series, pot, potUsdc, backer, drawn>>

(* cancel_order, or sweep_expired_orders after expiry: escrow back to w. *)
CancelWriterAsk(w) ==
    /\ ask[w] > 0
    /\ ask' = [ask EXCEPT ![w] = 0]
    /\ UNCHANGED <<vars, series, pot, potUsdc, backer, drawn>>

(* The vault's own counters do not see writer asks. *)
FillWriterAsk(h, w, quantity) ==
    LET moved == quantity * CollateralPerContract(Strike)
    IN
    /\ Live
    /\ now < Expiry
    /\ h # w
    /\ quantity <= ask[w]
    /\ ask' = [ask EXCEPT ![w] = @ - quantity]
    /\ series' = [series EXCEPT ![h] = @ + quantity]
    /\ pot' = pot + moved
    /\ potUsdc' = potUsdc + moved
    /\ backer' = [backer EXCEPT ![w] = @ + moved]
    /\ UNCHANGED <<vars, drawn>>

(* american_exercise_core at spot price `spot`: the vault's account pays    *)
(* what it can, whatever that balance is owed for, and `pot` the shortfall. *)
Pay(quantity, spot, shortfall) ==
    LET cap       == CollateralPerContract(Strike)
        intrinsic == CappedIntrinsic(OptionType, spot, Strike, cap)
        fromVault == Smaller(quantity * intrinsic, usdc)
    IN
    /\ usdcOpen
    /\ now < Expiry
    /\ intrinsic > 0
    /\ shortfall = quantity * intrinsic - fromVault
    /\ usdc' = usdc - fromVault
    /\ vault' = [vault EXCEPT !.exercised_options = @ + quantity,
                              !.early_exercise_payout = @ + fromVault]

(* A token of a mint_from_vault mint has no pot: the vault pays it all. *)
ExerciseAmerican(h, quantity, spot) ==
    /\ quantity <= tokens[h]
    /\ Pay(quantity, spot, 0)
    /\ tokens' = [tokens EXCEPT ![h] = @ - quantity]
    /\ UNCHANGED <<now, record, usdcOpen, position, opened, mint, rebases, potVars>>

ExerciseSeries(h, quantity, spot) ==
    \E shortfall \in 0..pot :
        /\ quantity <= series[h]
        /\ Pay(quantity, spot, shortfall)
        /\ shortfall <= potUsdc
        /\ series' = [series EXCEPT ![h] = @ - quantity]
        /\ pot' = pot - shortfall
        /\ potUsdc' = potUsdc - shortfall
        /\ drawn' = drawn + shortfall
        /\ UNCHANGED <<now, record, usdcOpen, position, opened, mint, tokens,
                       rebases, ask, backer>>

---------------------------------------------------------------------------
(* After expiry. *)

(* The sweep moves what the pot's record says, not what its account holds;  *)
(* the record itself is left as it was.                                     *)
SettleAmerican ==
    /\ pot <= potUsdc
    /\ SettleWith(pot)
    /\ potUsdc' = potUsdc - pot
    /\ UNCHANGED <<series, ask, pot, backer, drawn>>

VoidAmerican ==
    /\ pot <= potUsdc
    /\ VoidWith(pot)
    /\ potUsdc' = 0
    /\ UNCHANGED <<series, ask, pot, backer, drawn>>

PaySeriesHolder(h, quantity) ==
    LET payout == Smaller(quantity * Payoff, vault.collateral_remaining)
    IN
    /\ usdcOpen
    /\ ~vault.voided
    /\ vault.is_settled
    /\ payout <= usdc
    /\ series' = [series EXCEPT ![h] = @ - quantity]
    /\ usdc' = usdc - payout
    /\ vault' = [vault EXCEPT !.collateral_remaining = @ - payout]
    /\ UNCHANGED <<now, record, usdcOpen, position, opened, mint, tokens, rebases,
                   ask, pot, potUsdc, backer, drawn>>

ExerciseSeriesFromVault(h, quantity) ==
    /\ quantity <= series[h]
    /\ Payoff > 0
    /\ PaySeriesHolder(h, quantity)

AutoFinalizeSeriesHolder(h) ==
    /\ series[h] > 0
    /\ PaySeriesHolder(h, series[h])

(* A backer's part of the equivalent shares, and what it is worth now: none *)
(* when nothing was swept.                                                  *)
BackerShares(w) ==
    IF vault.writer_ask_swept = 0
    THEN 0
    ELSE MulDiv(backer[w], vault.writer_ask_equiv_shares, vault.writer_ask_swept)

Residual(w) ==
    IF BackerShares(w) = 0 \/ vault.total_shares = 0
    THEN 0
    ELSE ShareValue(BackerShares(w), vault.collateral_remaining, vault.total_shares)

(* withdraw_writer_ask_residual when settled, reclaim_writer_ask_residual   *)
(* when voided: the same core, the first behind the holders' window.        *)
WithdrawResidual(w) ==
    /\ usdcOpen
    /\ vault.is_settled \/ vault.voided
    /\ vault.writer_ask_swept > 0
    /\ backer[w] > 0
    /\ vault.is_settled => now >= Expiry + ExerciseWindow
    /\ BackerShares(w) > 0 => vault.total_shares > 0
    /\ Residual(w) <= usdc
    /\ Residual(w) <= vault.collateral_remaining
    /\ BackerShares(w) <= vault.total_shares
    /\ usdc' = usdc - Residual(w)
    /\ backer' = [backer EXCEPT ![w] = 0]
    /\ vault' = [vault EXCEPT !.collateral_remaining = @ - Residual(w),
                              !.total_shares = @ - BackerShares(w)]
    /\ UNCHANGED <<now, record, usdcOpen, position, opened, mint, tokens, rebases,
                   series, ask, pot, potUsdc, drawn>>

---------------------------------------------------------------------------
(* The pool's own instructions, but for the two endings above. *)
PoolStep ==
    /\ \/ WriterStep
       \/ HolderStep
       \/ OracleStep
       \/ Tick
       \/ \E h \in Holders : AutoFinalizeHolder(h)
       \/ \E m \in MintIds : AutoFinalizeEscrow(m)
       \/ \E batch \in SUBSET Writers : AutoFinalizeWriters(batch)
       \/ \E w \in Writers : ReclaimUnsettled(w)
       \/ CloseDrainedVault
    /\ UNCHANGED potVars

SeriesStep ==
    \E h \in Holders :
        \/ \E quantity \in Quantities, premium \in Premiums :
              FillVaultPeg(h, quantity, premium)
        \/ \E quantity \in Quantities, w \in Writers : FillWriterAsk(h, w, quantity)
        \/ \E quantity \in Quantities, spot \in Prices :
              \/ ExerciseAmerican(h, quantity, spot)
              \/ ExerciseSeries(h, quantity, spot)
        \/ \E quantity \in Quantities : ExerciseSeriesFromVault(h, quantity)
        \/ AutoFinalizeSeriesHolder(h)

BackerStep ==
    \E w \in Writers :
        \/ \E quantity \in Quantities : PostWriterAsk(w, quantity)
        \/ CancelWriterAsk(w)
        \/ WithdrawResidual(w)

ANext == PoolStep \/ SeriesStep \/ BackerStep \/ SettleAmerican \/ VoidAmerican

ASpec == AInit /\ [][ANext]_avars

---------------------------------------------------------------------------
(* Properties. *)

Outstanding == TokensHeld + SumFunction(series) + Escrowed

(* What the pot may have lost to the rounding of premiums.  The debts of    *)
(* positions are floored, so the vault's account may be short of its pool   *)
(* and its unclaimed premium by a unit per rebase.  An early exercise that  *)
(* empties the account makes the pot pay for that, and the pool's gate,     *)
(* which knows nothing of it, lets the same collateral back new options     *)
(* after the next deposit.  A strike of no more units than there were       *)
(* rebases does not tell dust from a contract.                              *)
DrawnForDust ==
    IF rebases < CollateralPerContract(Strike)
    THEN Smaller(drawn, (rebases * rebases - rebases) \div 2)
    ELSE drawn

(* Until the vault ends, the pool net of early exercises and the pot        *)
(* together lock a strike for every option in existence, though the vault   *)
(* pays early exercises of contracts it never counted as minted: but for    *)
(* dust that was drawn from the pot.                                        *)
EveryOptionBacked ==
    Live => vault.early_exercise_payout
              + Outstanding * CollateralPerContract(Strike)
                <= vault.total_collateral + pot + DrawnForDust

(* While the holders' window is open the merged collateral pays every       *)
(* option still held, series or not, but for the same dust.                 *)
AllHoldersCovered ==
    vault.is_settled /\ now < Expiry + ExerciseWindow =>
        (TokensHeld + SumFunction(series)) * Payoff
            <= vault.collateral_remaining + DrawnForDust

(* The two USDC accounts hold the pool, the pot and the unclaimed premium,  *)
(* less what early exercises were paid, within the rounding of the premium. *)
AccountsSolvent ==
    usdcOpen =>
        IF Live
        THEN vault.total_collateral + pot + UnclaimedOf
               <= usdc + potUsdc + vault.early_exercise_payout + rebases
        ELSE vault.collateral_remaining + UnclaimedOf
               <= usdc + rebases + DrawnForDust

(* As long as no early exercise reached the pot, every exit of an ended     *)
(* vault succeeds, a writer's or a backer's, in any order, and no share     *)
(* count is left behind: what the vault still owes is its writers' shares   *)
(* and its backers' equivalent ones.                                        *)
UndrawnExitsSucceed ==
    drawn = 0 /\ ~Live =>
        /\ ExitsCovered
        /\ \A w \in Writers :
              /\ Residual(w) <= vault.collateral_remaining
              /\ BackerShares(w) <= vault.total_shares
        /\ vault.total_shares
             = SharesOf + SumFunction([w \in Writers |-> BackerShares(w)])
==========================================================================
