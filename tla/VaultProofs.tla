--------------------------- MODULE VaultProofs ---------------------------
(***************************************************************************)
(* Proofs about SharedVault and AmericanVault, for every set of writers    *)
(* and holders and every value of their parameters.  The first part is     *)
(* about SharedVault of either style.  The second, about American vaults,  *)
(* rests on the first, whose lemmas about single instructions allow for    *)
(* early exercises.                                                        *)
(***************************************************************************)
EXTENDS AmericanVault, SumLemmas, TLAPS

(* Lemmas on the arithmetic of VaultMath. *)

(* checked_div floors: the quotient is the largest whole number of parts.   *)
LEMMA DivBounds ==
    ASSUME NEW a \in Nat, NEW b \in Nat, b > 0
    PROVE  /\ a \div b \in Nat
           /\ b * (a \div b) <= a
           /\ a < b * (a \div b) + b
    OBVIOUS

(* A pro-rata amount is an amount: a division by a non-zero total is safe.  *)
LEMMA MulDivNat ==
    ASSUME NEW a \in Nat, NEW b \in Nat, NEW c \in Nat, c > 0
    PROVE  MulDiv(a, b, c) \in Nat
  <1>1. a * b \in Nat
    OBVIOUS
  <1>. QED
    BY <1>1, DivBounds DEF MulDiv

(* At par a division by the pool changes nothing. *)
LEMMA MulDivPar ==
    ASSUME NEW a \in Nat, NEW b \in Nat, b > 0
    PROVE  MulDiv(a, b, b) = a
  <1>1. (a * b) \div b = a
    OBVIOUS
  <1>. QED
    BY <1>1 DEF MulDiv

(* A saturating subtraction never goes below zero. *)
LEMMA SaturatingSubNat ==
    ASSUME NEW a \in Nat, NEW b \in Nat
    PROVE  SaturatingSub(a, b) \in Nat
    BY DEF SaturatingSub

(* The premium the accumulator credits to some shares is an amount. *)
LEMMA EarnedNat ==
    ASSUME NEW s \in Nat, NEW c \in Nat
    PROVE  Earned(s, c, Scale) \in Nat
    BY MulDivNat, ParametersAssumption DEF Earned

(* So is what is left of it after the position's debt and claims. *)
LEMMA UnclaimedNat ==
    ASSUME NEW s \in Nat, NEW c \in Nat, NEW d \in Nat, NEW p \in Nat
    PROVE  Unclaimed(s, c, Scale, d, p) \in Nat
    BY EarnedNat, SaturatingSubNat, Zenon DEF Unclaimed

(* A pro-rata payout takes no more than its share, so what stays is worth   *)
(* no less per share, and stays at most at par.                             *)
LEMMA ExitKeeps ==
    ASSUME NEW s \in Nat, NEW C \in Nat, NEW S \in Nat, S > 0, s <= S
    PROVE  /\ MulDiv(s, C, S) \in Nat
           /\ MulDiv(s, C, S) <= C
           /\ MulDiv(s, C, S) * S <= s * C
           /\ C <= S => C - MulDiv(s, C, S) <= S - s
  <1>1. s * C \in Nat
    OBVIOUS
  <1> DEFINE q == (s * C) \div S
  <1>2. q \in Nat /\ S * q <= s * C /\ s * C < S * q + S
    BY <1>1, DivBounds
  <1>3. q = MulDiv(s, C, S)
    BY DEF MulDiv
  <1> HIDE DEF q
  <1>4. s * C <= S * C
    OBVIOUS
  <1>5. q <= C
    BY <1>2, <1>4
  <1>6. ASSUME C <= S PROVE C - q <= S - s
    <2>1. S * C - s * C = (S - s) * C
      OBVIOUS
    <2>2. (S - s) * C <= (S - s) * S
      BY <1>6
    <2>3. S * (C - q) <= S * (S - s) + S - 1
      BY <1>2, <2>1, <2>2
    <2>. QED
      BY <1>2, <1>5, <2>3
  <1>. QED
    BY <1>2, <1>3, <1>5, <1>6

---------------------------------------------------------------------------
(* The records: what their fields hold, and that setting one keeps the type. *)

(* Every field of a SharedVault account has its type. *)
LEMMA VaultFields ==
    ASSUME NEW v \in Vault
    PROVE  /\ v.total_collateral \in Nat
           /\ v.total_shares \in Nat
           /\ v.total_options_minted \in Nat
           /\ v.total_options_sold \in Nat
           /\ v.premium_per_share \in Nat
           /\ v.exercised_options \in Nat
           /\ v.early_exercise_payout \in Nat
           /\ v.settlement_price \in Nat
           /\ v.collateral_remaining \in Nat
           /\ v.writer_ask_swept \in Nat
           /\ v.writer_ask_equiv_shares \in Nat
           /\ v.is_settled \in BOOLEAN
           /\ v.voided \in BOOLEAN
    BY DEF Vault

(* Setting one field of a SharedVault account leaves a SharedVault account. *)
LEMMA VaultSet ==
    ASSUME NEW v \in Vault, NEW n \in Nat, NEW b \in BOOLEAN
    PROVE  /\ [v EXCEPT !.total_collateral = n] \in Vault
           /\ [v EXCEPT !.total_shares = n] \in Vault
           /\ [v EXCEPT !.total_options_minted = n] \in Vault
           /\ [v EXCEPT !.total_options_sold = n] \in Vault
           /\ [v EXCEPT !.premium_per_share = n] \in Vault
           /\ [v EXCEPT !.exercised_options = n] \in Vault
           /\ [v EXCEPT !.early_exercise_payout = n] \in Vault
           /\ [v EXCEPT !.settlement_price = n] \in Vault
           /\ [v EXCEPT !.collateral_remaining = n] \in Vault
           /\ [v EXCEPT !.writer_ask_swept = n] \in Vault
           /\ [v EXCEPT !.writer_ask_equiv_shares = n] \in Vault
           /\ [v EXCEPT !.is_settled = b] \in Vault
           /\ [v EXCEPT !.voided = b] \in Vault
    BY DEF Vault

(* Every field of a WriterPosition is a natural number. *)
LEMMA PositionFields ==
    ASSUME NEW p \in Position
    PROVE  /\ p.shares \in Nat
           /\ p.deposited \in Nat
           /\ p.claimed \in Nat
           /\ p.debt \in Nat
           /\ p.options_minted \in Nat
           /\ p.options_sold \in Nat
    BY DEF Position

(* Setting one field of a WriterPosition leaves a WriterPosition. *)
LEMMA PositionSet ==
    ASSUME NEW p \in Position, NEW n \in Nat
    PROVE  /\ [p EXCEPT !.shares = n] \in Position
           /\ [p EXCEPT !.deposited = n] \in Position
           /\ [p EXCEPT !.claimed = n] \in Position
           /\ [p EXCEPT !.debt = n] \in Position
           /\ [p EXCEPT !.options_minted = n] \in Position
           /\ [p EXCEPT !.options_sold = n] \in Position
    BY DEF Position

(* Every field of a VaultMint has its type. *)
LEMMA MintFields ==
    ASSUME NEW r \in Mint
    PROVE  /\ r.writer \in Writers \cup {NoWriter}
           /\ r.premium \in Nat
           /\ r.quantity_minted \in Nat
           /\ r.quantity_sold \in Nat
           /\ r.escrow \in Nat
    BY DEF Mint

(* Setting one count of a VaultMint leaves a VaultMint. *)
LEMMA MintSet ==
    ASSUME NEW r \in Mint, NEW n \in Nat
    PROVE  /\ [r EXCEPT !.premium = n] \in Mint
           /\ [r EXCEPT !.quantity_minted = n] \in Mint
           /\ [r EXCEPT !.quantity_sold = n] \in Mint
           /\ [r EXCEPT !.escrow = n] \in Mint
    BY DEF Mint

---------------------------------------------------------------------------
(* The amounts the actions compute are natural numbers. *)

(* What a writer may claim is a natural number. *)
LEMMA PremiumNat ==
    ASSUME TypeOK, NEW w \in Writers
    PROVE  UnclaimedPremium(w) \in Nat
  <1>1. vault \in Vault /\ position[w] \in Position
    BY DEF TypeOK
  <1>. QED
    BY <1>1, VaultFields, PositionFields, UnclaimedNat, Zenon DEF UnclaimedPremium

(* So is what is left for a writer of an ended vault. *)
LEMMA RemainingNat ==
    ASSUME TypeOK, NEW w \in Writers
    PROVE  WriterRemaining(w) \in Nat
  <1>1. vault \in Vault /\ position[w] \in Position
    BY DEF TypeOK
  <1>2. /\ vault.total_shares \in Nat
        /\ vault.collateral_remaining \in Nat
        /\ position[w].shares \in Nat
    BY <1>1, VaultFields, PositionFields
  <1>3. ASSUME vault.total_shares # 0
        PROVE  MulDiv(position[w].shares, vault.collateral_remaining,
                      vault.total_shares) \in Nat
    <2>1. vault.total_shares > 0
      BY <1>2, <1>3
    <2>. QED
      BY <1>2, <2>1, MulDivNat, Zenon
  <1>. QED
    BY <1>3 DEF WriterRemaining, ShareValue

(* A contract pays a natural number, never more than its strike. *)
LEMMA PayoffNat ==
    ASSUME TypeOK
    PROVE  Payoff \in Nat /\ Payoff <= Strike
  <1>1. vault.settlement_price \in Nat /\ Strike \in Nat
    BY VaultFields, ParametersAssumption DEF TypeOK
  <1>2. RawIntrinsic(OptionType, vault.settlement_price, Strike) \in Nat
    BY <1>1, SaturatingSubNat, Zenon DEF RawIntrinsic
  <1>. QED
    BY <1>1, <1>2 DEF Payoff, CappedIntrinsic, Smaller, CollateralPerContract

(* The fee never exceeds the premium. *)
LEMMA FeeAtMost ==
    ASSUME NEW p \in Nat
    PROVE  Fee(p, FeeBps) \in Nat /\ Fee(p, FeeBps) <= p
  <1>1. FeeBps \in Nat /\ FeeBps <= 10000
    BY ParametersAssumption
  <1>2. MulDiv(FeeBps, p, 10000) \in Nat /\ MulDiv(FeeBps, p, 10000) <= p
    BY <1>1, ExitKeeps
  <1>3. FeeBps * p = p * FeeBps
    BY <1>1
  <1>. QED
    BY <1>2, <1>3 DEF Fee, MulDiv

---------------------------------------------------------------------------
(* Type correctness. *)

(* deposit_to_vault keeps the types. *)
LEMMA DepositTyping ==
    ASSUME TypeOK, NEW w \in Writers, NEW amount \in Amounts, Deposit(w, amount)
    PROVE  TypeOK'
  <1> DEFINE shares == SharesFor(amount, vault.total_shares, vault.total_collateral)
             fresh  == position[w].shares = 0 /\ position[w].deposited = 0
             old    == IF fresh THEN EmptyPosition ELSE position[w]
             credit == Earned(shares, vault.premium_per_share, Scale)
             joined == [old EXCEPT !.debt = @ + credit, !.shares = @ + shares,
                                   !.deposited = @ + amount]
  <1>1. /\ vault \in Vault /\ position[w] \in Position
        /\ amount \in Nat /\ usdc \in Nat /\ rebases \in Nat
    BY InputsAssumption DEF TypeOK
  <1>2. shares \in Nat
    <2>1. CASE vault.total_shares = 0
      BY <1>1, <2>1 DEF SharesFor
    <2>2. CASE vault.total_shares # 0
      <3>1. /\ vault.total_shares \in Nat /\ vault.total_collateral \in Nat
            /\ vault.total_collateral > 0
        BY <1>1, <2>2, VaultFields DEF Deposit
      <3>. QED
        BY <1>1, <2>2, <3>1, MulDivNat, Zenon DEF SharesFor
    <2>. QED
      BY <2>1, <2>2
  <1>3. credit \in Nat
    BY <1>1, <1>2, EarnedNat, VaultFields, Zenon
  <1>4. old \in Position
    BY <1>1 DEF EmptyPosition, Position
  <1>5. /\ usdc' = usdc + amount
        /\ rebases' = rebases + 1
        /\ position' = [position EXCEPT ![w] = joined]
        /\ vault' = [vault EXCEPT !.total_collateral = @ + amount,
                                  !.total_shares = @ + shares]
    BY DEF Deposit
  <1> HIDE DEF shares, credit, old
  <1>6. joined \in Position
    <2>1. /\ old.debt + credit \in Nat /\ old.shares + shares \in Nat
          /\ old.deposited + amount \in Nat
      BY <1>1, <1>2, <1>3, <1>4, PositionFields
    <2>. QED
      BY <1>4, <2>1, PositionSet, Zenon
  <1>7. vault' \in Vault
    <2>1. /\ vault.total_collateral + amount \in Nat
          /\ vault.total_shares + shares \in Nat
      BY <1>1, <1>2, VaultFields
    <2>. QED
      BY <1>1, <1>5, <2>1, VaultSet, Zenon
  <1> HIDE DEF joined
  <1>. QED
    BY <1>1, <1>5, <1>6, <1>7 DEF TypeOK, Deposit

(* mint_from_vault keeps the types. *)
LEMMA MintTyping ==
    ASSUME TypeOK, NEW w \in Writers, NEW m \in MintIds,
           NEW quantity \in Quantities, NEW premium \in Premiums,
           MintFromVault(w, m, quantity, premium)
    PROVE  TypeOK'
  <1>1. /\ quantity \in Nat /\ premium \in Nat
        /\ vault \in Vault /\ position[w] \in Position
    BY InputsAssumption DEF TypeOK
  <1>2. mint' \in [MintIds -> Mint]
    BY <1>1 DEF TypeOK, MintFromVault, Mint
  <1>3. position' \in [Writers -> Position]
    <2>1. position[w].options_minted + quantity \in Nat
      BY <1>1, PositionFields
    <2>2. [position[w] EXCEPT !.options_minted = @ + quantity] \in Position
      BY <1>1, <2>1, PositionSet, Zenon
    <2>. QED
      BY <2>2 DEF TypeOK, MintFromVault
  <1>4. vault' \in Vault
    <2>1. vault.total_options_minted + quantity \in Nat
      BY <1>1, VaultFields
    <2>. QED
      BY <1>1, <2>1, VaultSet, Zenon DEF MintFromVault
  <1>. QED
    BY <1>2, <1>3, <1>4 DEF TypeOK, MintFromVault

(* purchase_from_vault keeps the types. *)
LEMMA PurchaseTyping ==
    ASSUME TypeOK, NEW h \in Holders, NEW m \in MintIds,
           NEW quantity \in Quantities, PurchaseFromVault(h, m, quantity)
    PROVE  TypeOK'
  <1> DEFINE writer    == mint[m].writer
             total     == quantity * mint[m].premium
             share     == total - Fee(total, FeeBps)
             increment == MulDiv(share, Scale, vault.total_shares)
  <1>1. /\ quantity \in Nat /\ writer \in Writers /\ mint[m] \in Mint
        /\ vault \in Vault /\ position[writer] \in Position
        /\ quantity <= mint[m].escrow /\ usdc \in Nat
        /\ tokens \in [Holders -> Nat]
    BY InputsAssumption DEF TypeOK, PurchaseFromVault
  <1>2. /\ usdc' = usdc + share
        /\ tokens' = [tokens EXCEPT ![h] = @ + quantity]
        /\ mint' = [mint EXCEPT ![m] = [mint[m] EXCEPT
                                         !.quantity_sold = @ + quantity,
                                         !.escrow = @ - quantity]]
        /\ position' = [position EXCEPT ![writer] = [position[writer] EXCEPT
                                         !.options_sold = @ + quantity]]
        /\ vault' = [vault EXCEPT
                       !.total_options_sold = @ + quantity,
                       !.premium_per_share =
                          IF vault.total_shares > 0 THEN @ + increment ELSE @]
    BY Zenon DEF PurchaseFromVault
  <1>3. total \in Nat
    BY <1>1, MintFields
  <1>4. share \in Nat
    BY <1>3, FeeAtMost
  <1>5. ASSUME vault.total_shares > 0 PROVE increment \in Nat
    <2>1. vault.total_shares \in Nat /\ Scale \in Nat
      BY <1>1, VaultFields, ParametersAssumption
    <2>. QED
      BY <1>4, <1>5, <2>1, MulDivNat, Zenon
  <1> HIDE DEF share, increment
  <1>6. vault' \in Vault
    <2>1. /\ vault.total_options_sold + quantity \in Nat
          /\ (IF vault.total_shares > 0 THEN vault.premium_per_share + increment
                                        ELSE vault.premium_per_share) \in Nat
      BY <1>1, <1>5, VaultFields
    <2>. QED
      BY <1>1, <1>2, <2>1, VaultSet, Zenon
  <1>7. mint' \in [MintIds -> Mint]
    <2>1. mint[m].quantity_sold + quantity \in Nat /\ mint[m].escrow - quantity \in Nat
      BY <1>1, MintFields
    <2>2. [mint[m] EXCEPT !.quantity_sold = @ + quantity, !.escrow = @ - quantity] \in Mint
      BY <1>1, <2>1, MintSet, Zenon
    <2>. QED
      BY <1>2, <2>2 DEF TypeOK
  <1>8. position' \in [Writers -> Position]
    <2>1. position[writer].options_sold + quantity \in Nat
      BY <1>1, PositionFields
    <2>2. [position[writer] EXCEPT !.options_sold = @ + quantity] \in Position
      BY <1>1, <2>1, PositionSet, Zenon
    <2>. QED
      BY <1>2, <2>2, Zenon DEF TypeOK
  <1>9. usdc' \in Nat /\ tokens' \in [Holders -> Nat]
    BY <1>1, <1>2, <1>4
  <1>. QED
    BY <1>6, <1>7, <1>8, <1>9 DEF TypeOK, PurchaseFromVault

(* burn_unsold_from_vault keeps the types. *)
LEMMA BurnTyping ==
    ASSUME TypeOK, NEW w \in Writers, NEW m \in MintIds, BurnUnsold(w, m)
    PROVE  TypeOK'
  <1>1. vault \in Vault /\ position[w] \in Position /\ mint[m] \in Mint
    BY DEF TypeOK
  <1> DEFINE unsold == mint[m].escrow
  <1>2. /\ unsold <= mint[m].quantity_minted
        /\ unsold <= position[w].options_minted
        /\ unsold <= vault.total_options_minted
        /\ mint' = [mint EXCEPT ![m] = [mint[m] EXCEPT !.escrow = 0,
                                                       !.quantity_minted = @ - unsold]]
        /\ position' = [position EXCEPT ![w] = [position[w] EXCEPT
                                                  !.options_minted = @ - unsold]]
        /\ vault' = [vault EXCEPT !.total_options_minted = @ - unsold]
    BY Zenon DEF BurnUnsold
  <1>3. /\ mint[m].quantity_minted - unsold \in Nat
        /\ position[w].options_minted - unsold \in Nat
        /\ vault.total_options_minted - unsold \in Nat
    BY <1>1, <1>2, MintFields, PositionFields, VaultFields
  <1> HIDE DEF unsold
  <1>4. [mint[m] EXCEPT !.escrow = 0, !.quantity_minted = @ - unsold] \in Mint
    BY <1>1, <1>3, MintSet, Zenon
  <1>5. [position[w] EXCEPT !.options_minted = @ - unsold] \in Position
    BY <1>1, <1>3, PositionSet, Zenon
  <1>6. vault' \in Vault
    BY <1>1, <1>2, <1>3, VaultSet, Zenon
  <1>7. mint' \in [MintIds -> Mint] /\ position' \in [Writers -> Position]
    BY <1>2, <1>4, <1>5 DEF TypeOK
  <1>. QED
    BY <1>6, <1>7 DEF TypeOK, BurnUnsold

(* withdraw_from_vault keeps the types. *)
LEMMA WithdrawTyping ==
    ASSUME TypeOK, NEW w \in Writers, NEW shares \in Amounts,
           WithdrawFromVault(w, shares)
    PROVE  TypeOK'
  <1> DEFINE amount == ShareValue(shares, vault.total_collateral, vault.total_shares)
             left   == position[w].shares - shares
             debt   == Earned(left, vault.premium_per_share, Scale)
             after  == [position[w] EXCEPT !.shares = left,
                                           !.deposited = SaturatingSub(@, amount),
                                           !.debt = debt, !.claimed = 0]
  <1>1. vault \in Vault /\ position[w] \in Position /\ usdc \in Nat /\ rebases \in Nat
    BY DEF TypeOK
  <1>2. /\ shares \in Nat /\ shares > 0 /\ shares <= vault.total_shares
        /\ shares <= position[w].shares
        /\ amount <= usdc /\ amount <= vault.total_collateral
        /\ usdc' = usdc - amount
        /\ rebases' = rebases + 1
        /\ position' = [position EXCEPT ![w] = after]
        /\ vault' = [vault EXCEPT !.total_collateral = @ - amount,
                                  !.total_shares = @ - shares]
    BY InputsAssumption DEF WithdrawFromVault
  <1>3. amount \in Nat
    <2>1. /\ vault.total_shares \in Nat /\ vault.total_collateral \in Nat
          /\ vault.total_shares > 0
      BY <1>1, <1>2, VaultFields
    <2>. QED
      BY <1>2, <2>1, MulDivNat, Zenon DEF ShareValue
  <1>4. left \in Nat
    BY <1>1, <1>2, PositionFields
  <1>5. debt \in Nat
    BY <1>1, <1>4, EarnedNat, VaultFields, Zenon
  <1>6. SaturatingSub(position[w].deposited, amount) \in Nat
    BY <1>1, <1>3, SaturatingSubNat, PositionFields, Zenon
  <1> HIDE DEF amount, left, debt
  <1>7. after \in Position
    BY <1>1, <1>4, <1>5, <1>6, PositionSet, Zenon
  <1>8. vault' \in Vault
    <2>1. vault.total_collateral - amount \in Nat /\ vault.total_shares - shares \in Nat
      BY <1>1, <1>2, <1>3, VaultFields
    <2>. QED
      BY <1>1, <1>2, <2>1, VaultSet, Zenon
  <1>9. usdc' \in Nat /\ rebases' \in Nat
    BY <1>1, <1>2, <1>3
  <1> HIDE DEF after
  <1>. QED
    BY <1>2, <1>7, <1>8, <1>9 DEF TypeOK, WithdrawFromVault

(* claim_premium keeps the types. *)
LEMMA ClaimTyping ==
    ASSUME TypeOK, NEW w \in Writers, ClaimPremium(w)
    PROVE  TypeOK'
  <1>1. position[w] \in Position /\ usdc \in Nat /\ UnclaimedPremium(w) \in Nat
    BY PremiumNat DEF TypeOK
  <1>2. position[w].claimed + UnclaimedPremium(w) \in Nat
    BY <1>1, PositionFields
  <1>3. [position[w] EXCEPT !.claimed = @ + UnclaimedPremium(w)] \in Position
    BY <1>1, <1>2, PositionSet, Zenon
  <1>4. usdc' \in Nat
    BY <1>1 DEF ClaimPremium
  <1>. QED
    BY <1>3, <1>4 DEF TypeOK, ClaimPremium

(* Without a pot the settled pool is the collateral early exercises left,   *)
(* and the share count is untouched.                                        *)
LEMMA PotlessJoin ==
    ASSUME vault \in Vault
    PROVE  /\ JoinPot(0) \in Vault
           /\ JoinPot(0) = [vault EXCEPT
                !.collateral_remaining =
                    SaturatingSub(vault.total_collateral, vault.early_exercise_payout),
                !.writer_ask_swept = 0,
                !.writer_ask_equiv_shares = 0]
  <1>1. EquivShares(0) = 0
    BY DEF EquivShares
  <1>2. /\ vault.total_collateral + 0 = vault.total_collateral
        /\ vault.total_shares + 0 = vault.total_shares
    BY VaultFields
  <1>3. JoinPot(0) = [vault EXCEPT
              !.collateral_remaining =
                  SaturatingSub(vault.total_collateral, vault.early_exercise_payout),
              !.writer_ask_swept = 0,
              !.writer_ask_equiv_shares = 0,
              !.total_shares = vault.total_shares]
    BY <1>1, <1>2, Zenon DEF JoinPot
  <1> DEFINE joined == [vault EXCEPT
              !.collateral_remaining =
                  SaturatingSub(vault.total_collateral, vault.early_exercise_payout),
              !.writer_ask_swept = 0,
              !.writer_ask_equiv_shares = 0]
  <1>4. joined \in Vault /\ joined.total_shares = vault.total_shares
    <2>1. SaturatingSub(vault.total_collateral, vault.early_exercise_payout) \in Nat
      BY VaultFields, SaturatingSubNat, Zenon
    <2>2. joined \in Vault
      BY <2>1, VaultSet, Zenon
    <2>3. joined.total_shares = vault.total_shares
      BY DEF Vault
    <2>. QED
      BY <2>2, <2>3
  <1>5. [joined EXCEPT !.total_shares = joined.total_shares] = joined
    BY <1>4, Zenon DEF Vault
  <1>. QED
    BY <1>3, <1>4, <1>5

(* settle_vault keeps the types. *)
LEMMA SettleTyping ==
    ASSUME TypeOK, SettleVault
    PROVE  TypeOK'
  <1>1. vault \in Vault /\ usdc \in Nat /\ record \in Nat
    BY InputsAssumption DEF TypeOK, SettleVault, SettleWith
  <1>3. JoinPot(0) \in Vault
    BY <1>1, PotlessJoin
  <1>4. vault' = [JoinPot(0) EXCEPT !.is_settled = TRUE, !.settlement_price = record]
    BY DEF SettleVault, SettleWith
  <1>5. vault' \in Vault
    BY <1>1, <1>3, <1>4, VaultSet, Zenon
  <1>. QED
    BY <1>1, <1>5 DEF TypeOK, SettleVault, SettleWith

(* initialize_void keeps the types. *)
LEMMA VoidTyping ==
    ASSUME TypeOK, InitializeVoid
    PROVE  TypeOK'
  <1>1. vault \in Vault /\ usdc \in Nat
    BY DEF TypeOK
  <1>3. JoinPot(0) \in Vault
    BY <1>1, PotlessJoin
  <1>4. vault' = [JoinPot(0) EXCEPT !.voided = TRUE]
    BY DEF InitializeVoid, VoidWith
  <1>5. vault' \in Vault
    BY <1>1, <1>3, <1>4, VaultSet, Zenon
  <1>. QED
    BY <1>1, <1>5 DEF TypeOK, InitializeVoid, VoidWith

(* Burning and paying a holder's tokens keeps the types. *)
LEMMA PayHolderTyping ==
    ASSUME TypeOK, NEW h \in Holders, NEW quantity \in Nat, quantity <= tokens[h],
           PayHolder(h, quantity), UNCHANGED usdcOpen
    PROVE  TypeOK'
  <1> DEFINE payout == Smaller(quantity * Payoff, vault.collateral_remaining)
  <1>1. /\ vault \in Vault /\ usdc \in Nat /\ tokens[h] \in Nat
        /\ vault.collateral_remaining \in Nat
    BY VaultFields DEF TypeOK
  <1>2. payout \in Nat /\ payout <= vault.collateral_remaining
    <2>1. quantity * Payoff \in Nat
      BY PayoffNat
    <2>. QED
      BY <1>1, <2>1 DEF Smaller
  <1>3. /\ payout <= usdc
        /\ tokens' = [tokens EXCEPT ![h] = @ - quantity]
        /\ usdc' = usdc - payout
        /\ vault' = [vault EXCEPT !.collateral_remaining = @ - payout]
    BY DEF PayHolder
  <1> HIDE DEF payout
  <1>4. vault' \in Vault
    <2>1. vault.collateral_remaining - payout \in Nat
      BY <1>1, <1>2
    <2>. QED
      BY <1>1, <1>3, <2>1, VaultSet, Zenon
  <1>5. usdc' \in Nat /\ tokens' \in [Holders -> Nat]
    BY <1>1, <1>2, <1>3 DEF TypeOK
  <1>. QED
    BY <1>4, <1>5 DEF TypeOK, PayHolder

(* An escrow that is finalized is emptied, and what the pool pays for its   *)
(* options leaves the pool and the account alike; the types are kept.       *)
LEMMA EscrowEffect ==
    ASSUME TypeOK, NEW m \in MintIds, AutoFinalizeEscrow(m)
    PROVE  /\ TypeOK'
           /\ vault.is_settled /\ ~vault.voided
           /\ \E r \in Nat :
                 /\ r = Smaller(mint[m].escrow * Payoff, vault.collateral_remaining)
                 /\ r <= vault.collateral_remaining
                 /\ usdc' = usdc - r
                 /\ vault' = [vault EXCEPT !.collateral_remaining = @ - r]
           /\ mint'[m].escrow = 0
           /\ mint'[m].writer = mint[m].writer
           /\ mint'[m].quantity_minted = mint[m].quantity_minted
           /\ mint'[m].quantity_sold = mint[m].quantity_sold
           /\ \A n \in MintIds \ {m} : mint'[n] = mint[n]
           /\ UNCHANGED <<now, record, usdcOpen, position, opened, tokens, rebases>>
  <1>1. /\ vault \in Vault /\ usdc \in Nat /\ mint \in [MintIds -> Mint]
        /\ mint[m].escrow \in Nat /\ vault.collateral_remaining \in Nat
    BY VaultFields, MintFields DEF TypeOK
  <1>2. PICK r \in Nat : /\ r = Smaller(mint[m].escrow * Payoff, vault.collateral_remaining)
                         /\ r <= vault.collateral_remaining
    <2>1. mint[m].escrow * Payoff \in Nat
      BY <1>1, PayoffNat
    <2>. QED
      BY <1>1, <2>1 DEF Smaller
  <1>3. /\ vault.is_settled /\ ~vault.voided
        /\ r <= usdc
        /\ usdc' = usdc - r
        /\ vault' = [vault EXCEPT !.collateral_remaining = @ - r]
        /\ mint' = [mint EXCEPT ![m].escrow = 0]
        /\ UNCHANGED <<now, record, usdcOpen, position, opened, tokens, rebases>>
    BY <1>2, Zenon DEF AutoFinalizeEscrow
  <1>4. /\ mint'[m].escrow = 0
        /\ mint'[m].writer = mint[m].writer
        /\ mint'[m].quantity_minted = mint[m].quantity_minted
        /\ mint'[m].quantity_sold = mint[m].quantity_sold
        /\ \A n \in MintIds \ {m} : mint'[n] = mint[n]
        /\ mint' \in [MintIds -> Mint]
    BY <1>1, <1>3 DEF Mint
  <1>5. vault' \in Vault
    <2>1. vault.collateral_remaining - r \in Nat
      BY <1>1, <1>2
    <2>. QED
      BY <1>1, <1>3, <2>1, VaultSet, Zenon
  <1>6. usdc' \in Nat
    BY <1>1, <1>3
  <1>7. TypeOK'
    BY <1>3, <1>4, <1>5, <1>6 DEF TypeOK
  <1>. QED
    BY <1>2, <1>3, <1>4, <1>7

(* A share taken out leaves a SharedVault account. *)
LEMMA ReleaseTyping ==
    ASSUME TypeOK, NEW w \in Writers, ReleaseShare(w)
    PROVE  /\ vault' \in Vault
           /\ usdc - UnclaimedPremium(w) - WriterRemaining(w) \in Nat
  <1>1. /\ vault \in Vault /\ position[w] \in Position /\ usdc \in Nat
        /\ UnclaimedPremium(w) \in Nat /\ WriterRemaining(w) \in Nat
    BY PremiumNat, RemainingNat DEF TypeOK
  <1>2. /\ WriterRemaining(w) <= vault.collateral_remaining
        /\ position[w].shares <= vault.total_shares
        /\ WriterRemaining(w) <= vault.total_collateral
        /\ UnclaimedPremium(w) + WriterRemaining(w) <= usdc
        /\ vault' = [vault EXCEPT !.collateral_remaining = @ - WriterRemaining(w),
                                  !.total_shares = @ - position[w].shares,
                                  !.total_collateral = @ - WriterRemaining(w)]
    BY DEF ReleaseShare, ExitCovered, AfterExit
  <1>3. /\ vault.collateral_remaining - WriterRemaining(w) \in Nat
        /\ vault.total_shares - position[w].shares \in Nat
        /\ vault.total_collateral - WriterRemaining(w) \in Nat
    BY <1>1, <1>2, VaultFields, PositionFields
  <1>4. vault' \in Vault
    BY <1>1, <1>2, <1>3, VaultSet, Zenon
  <1>. QED
    BY <1>1, <1>2, <1>4

(* Sweeping a drained account keeps its balance a natural number. *)
LEMMA SweepTyping ==
    ASSUME NEW balance \in Nat, SweepIfDrained(balance)
    PROVE  usdc' \in Nat /\ usdcOpen' \in BOOLEAN
    BY DEF SweepIfDrained

(* An empty WriterPosition is a WriterPosition. *)
LEMMA EmptyPositionTyping == EmptyPosition \in Position
    BY DEF EmptyPosition, Position

(* withdraw_post_settlement keeps the types. *)
LEMMA ExitTyping ==
    ASSUME TypeOK, NEW w \in Writers, WithdrawPostSettlement(w)
    PROVE  TypeOK'
  <1>1. ReleaseShare(w) /\ SweepIfDrained(usdc - UnclaimedPremium(w) - WriterRemaining(w))
    BY DEF WithdrawPostSettlement
  <1>2. vault' \in Vault /\ usdc' \in Nat /\ usdcOpen' \in BOOLEAN
    BY <1>1, ReleaseTyping, SweepTyping
  <1>. QED
    BY <1>2, EmptyPositionTyping DEF TypeOK, WithdrawPostSettlement

(* auto_finalize_writers keeps the types. *)
LEMMA FinalizeTyping ==
    ASSUME TypeOK, NEW batch \in SUBSET Writers, AutoFinalizeWriters(batch)
    PROVE  TypeOK'
  <1> DEFINE funded == {w \in batch : position[w].shares > 0}
  <1>1. vault' \in Vault /\ usdc' \in Nat /\ usdcOpen' \in BOOLEAN
    <2>1. CASE vault' = vault /\ SweepIfDrained(usdc)
      BY <2>1, SweepTyping DEF TypeOK
    <2>2. ASSUME NEW w \in funded, ReleaseShare(w),
                 SweepIfDrained(usdc - UnclaimedPremium(w) - WriterRemaining(w))
          PROVE  vault' \in Vault /\ usdc' \in Nat /\ usdcOpen' \in BOOLEAN
      BY <2>2, ReleaseTyping, SweepTyping
    <2>. QED
      BY <2>1, <2>2 DEF AutoFinalizeWriters
  <1>2. position' \in [Writers -> Position]
    BY EmptyPositionTyping DEF TypeOK, AutoFinalizeWriters
  <1>. QED
    BY <1>1, <1>2 DEF TypeOK, AutoFinalizeWriters

(* reclaim_unsettled keeps the types. *)
LEMMA ReclaimTyping ==
    ASSUME TypeOK, NEW w \in Writers, ReclaimUnsettled(w)
    PROVE  TypeOK'
  <1>1. ReleaseShare(w) /\ usdc' = usdc - UnclaimedPremium(w) - WriterRemaining(w)
    BY DEF ReclaimUnsettled
  <1>2. vault' \in Vault /\ usdc' \in Nat
    BY <1>1, ReleaseTyping
  <1> DEFINE after == [position[w] EXCEPT !.claimed = @ + UnclaimedPremium(w), !.shares = 0]
  <1>3. after \in Position
    <2>1. position[w] \in Position /\ position[w].claimed + UnclaimedPremium(w) \in Nat
      BY PremiumNat, PositionFields DEF TypeOK
    <2>. QED
      BY <2>1, PositionSet, Zenon
  <1>4. position' = [position EXCEPT ![w] = after]
    BY DEF ReclaimUnsettled
  <1> HIDE DEF after
  <1>. QED
    BY <1>2, <1>3, <1>4 DEF TypeOK, ReclaimUnsettled

(* Every step keeps the types. *)
LEMMA NextTyping ==
    ASSUME TypeOK, [Next]_vars
    PROVE  TypeOK'
  <1>1. CASE WriterStep
    <2>1. PICK w \in Writers :
            \/ \E amount \in Amounts : Deposit(w, amount)
            \/ \E m \in MintIds, quantity \in Quantities, premium \in Premiums :
                  MintFromVault(w, m, quantity, premium)
            \/ \E m \in MintIds : BurnUnsold(w, m)
            \/ \E shares \in Amounts : WithdrawFromVault(w, shares)
            \/ ClaimPremium(w)
            \/ WithdrawPostSettlement(w)
      BY <1>1 DEF WriterStep
    <2>. QED
      BY <2>1, DepositTyping, MintTyping, BurnTyping, WithdrawTyping, ClaimTyping,
         ExitTyping
  <1>2. CASE HolderStep
    <2>1. ASSUME NEW h \in Holders, NEW m \in MintIds, NEW quantity \in Quantities,
                 PurchaseFromVault(h, m, quantity)
          PROVE  TypeOK'
      BY <2>1, PurchaseTyping
    <2>2. ASSUME NEW h \in Holders, NEW quantity \in Quantities,
                 ExerciseFromVault(h, quantity)
          PROVE  TypeOK'
      <3>1. /\ quantity \in Nat /\ quantity <= tokens[h]
            /\ PayHolder(h, quantity) /\ UNCHANGED usdcOpen
        BY <2>2, InputsAssumption DEF ExerciseFromVault, PayHolder
      <3>. QED
        BY <3>1, PayHolderTyping
    <2>. QED
      BY <1>2, <2>1, <2>2 DEF HolderStep
  <1>3. CASE OracleStep
    BY <1>3 DEF OracleStep, SettleExpiry, TypeOK
  <1>4. CASE CrankStep
    <2>1. ASSUME NEW h \in Holders, AutoFinalizeHolder(h) PROVE TypeOK'
      <3>1. /\ tokens[h] \in Nat /\ tokens[h] <= tokens[h]
            /\ PayHolder(h, tokens[h]) /\ UNCHANGED usdcOpen
        BY <2>1 DEF TypeOK, AutoFinalizeHolder, PayHolder
      <3>. QED
        BY <3>1, PayHolderTyping
    <2>2. CASE CloseDrainedVault
      BY <2>2, Zenon DEF CloseDrainedVault, TypeOK
    <2>3. ASSUME NEW m \in MintIds, AutoFinalizeEscrow(m) PROVE TypeOK'
      BY <2>3, EscrowEffect
    <2>. QED
      BY <1>4, <2>1, <2>2, <2>3, SettleTyping, VoidTyping, FinalizeTyping, ReclaimTyping
      DEF CrankStep
  <1>5. CASE Tick
    BY <1>5 DEF Tick, TypeOK
  <1>6. CASE UNCHANGED vars
    BY <1>6 DEF vars, TypeOK
  <1>. QED
    BY <1>1, <1>2, <1>3, <1>4, <1>5, <1>6 DEF Next

(* Every account keeps the shape the program declares for it, and no        *)
(* subtraction of the instructions goes below zero.                         *)
THEOREM Typing == Spec => []TypeOK
  <1>1. Init => TypeOK
    BY DEF Init, TypeOK, EmptyVault, Vault, EmptyPosition, Position, NoMint, Mint
  <1>2. TypeOK /\ [Next]_vars => TypeOK'
    BY NextTyping
  <1>. QED
    BY <1>1, <1>2, PTL DEF Spec

---------------------------------------------------------------------------
(* The pool at par.  SharesTrackCollateral alone is not inductive: a        *)
(* deposit could follow a void, were it not for the clock.                  *)

(* What makes an ending exclude the other one, and any later deposit. *)
Ending ==
    /\ EndsOneWay
    /\ vault.is_settled => record # NoPrice
    /\ vault.voided => now >= Expiry

(* A European vault pays nothing before it ends. *)
NothingEarly == vault.early_exercise_payout = 0

ParInvariant ==
    TypeOK /\ Ending /\ NothingEarly /\ SharesTrackCollateral /\ SharesAtMostPar

(* A step that leaves the pool, its shares and its phase alone keeps it. *)
LEMMA PoolUntouched ==
    ASSUME ParInvariant, TypeOK',
           vault'.total_collateral = vault.total_collateral,
           vault'.total_shares = vault.total_shares,
           vault'.collateral_remaining = vault.collateral_remaining,
           vault'.early_exercise_payout = vault.early_exercise_payout,
           vault'.is_settled = vault.is_settled,
           vault'.voided = vault.voided,
           record # NoPrice => record' = record,
           now' >= now,
           \A w \in Writers : /\ position'[w].shares = position[w].shares
                              /\ position'[w].deposited = position[w].deposited
    PROVE  ParInvariant'
  <1>1. now \in Nat /\ now' \in Nat /\ Expiry \in Nat
    BY ParametersAssumption DEF ParInvariant, TypeOK
  <1>. QED
    BY <1>1 DEF ParInvariant, Ending, EndsOneWay, NothingEarly, SharesTrackCollateral,
                SharesAtMostPar, Live

(* deposit_to_vault issues shares at par. *)
LEMMA DepositPar ==
    ASSUME ParInvariant, TypeOK', NEW w \in Writers, NEW amount \in Amounts,
           Deposit(w, amount)
    PROVE  ParInvariant'
  <1> DEFINE shares == SharesFor(amount, vault.total_shares, vault.total_collateral)
             fresh  == position[w].shares = 0 /\ position[w].deposited = 0
             old    == IF fresh THEN EmptyPosition ELSE position[w]
             credit == Earned(shares, vault.premium_per_share, Scale)
             joined == [old EXCEPT !.debt = @ + credit, !.shares = @ + shares,
                                   !.deposited = @ + amount]
  <1>1. /\ TypeOK /\ vault \in Vault /\ position[w] \in Position
        /\ amount \in Nat /\ now \in Nat /\ Expiry \in Nat
    BY InputsAssumption, ParametersAssumption DEF ParInvariant, TypeOK
  <1>2. /\ now < Expiry /\ ~vault.is_settled
        /\ now' = now /\ record' = record
        /\ vault.total_shares > 0 => vault.total_collateral > 0
        /\ position' = [position EXCEPT ![w] = joined]
        /\ vault' = [vault EXCEPT !.total_collateral = @ + amount,
                                  !.total_shares = @ + shares]
    BY DEF Deposit
  <1>3. Live
    BY <1>1, <1>2 DEF ParInvariant, Ending, Live
  <1>4. /\ vault.total_shares = vault.total_collateral
        /\ \A v \in Writers : position[v].deposited = position[v].shares
        /\ vault.total_shares \in Nat
    BY <1>1, <1>3, VaultFields DEF ParInvariant, SharesTrackCollateral
  <1>5. shares = amount
    <2>1. CASE vault.total_shares = 0
      BY <2>1 DEF SharesFor
    <2>2. CASE vault.total_shares # 0
      <3>1. vault.total_shares > 0
        BY <1>4, <2>2
      <3>. QED
        BY <1>1, <1>4, <2>2, <3>1, MulDivPar DEF SharesFor
    <2>. QED
      BY <2>1, <2>2
  <1>6. joined.deposited = joined.shares
    <2>1. old \in Position /\ old.deposited = old.shares
      BY <1>1, <1>4 DEF EmptyPosition, Position
    <2> HIDE DEF old, credit, shares
    <2>2. joined.deposited = old.deposited + amount /\ joined.shares = old.shares + shares
      BY <2>1 DEF Position
    <2>. QED
      BY <1>5, <2>1, <2>2
  <1> HIDE DEF joined, shares
  <1>7. \A v \in Writers : position'[v].deposited = position'[v].shares
    BY <1>1, <1>2, <1>4, <1>6 DEF TypeOK
  <1>8. /\ vault'.total_collateral = vault.total_collateral + amount
        /\ vault'.total_shares = vault.total_shares + shares
        /\ vault'.is_settled = vault.is_settled
        /\ vault'.voided = vault.voided
        /\ vault'.early_exercise_payout = vault.early_exercise_payout
    BY <1>1, <1>2 DEF Vault
  <1>. QED
    BY <1>2, <1>3, <1>4, <1>5, <1>7, <1>8
    DEF ParInvariant, Ending, EndsOneWay, NothingEarly, SharesTrackCollateral,
        SharesAtMostPar, Live

(* withdraw_from_vault burns shares at par. *)
LEMMA WithdrawPar ==
    ASSUME ParInvariant, TypeOK', NEW w \in Writers, NEW shares \in Amounts,
           WithdrawFromVault(w, shares)
    PROVE  ParInvariant'
  <1> DEFINE amount == ShareValue(shares, vault.total_collateral, vault.total_shares)
             left   == position[w].shares - shares
             debt   == Earned(left, vault.premium_per_share, Scale)
             after  == [position[w] EXCEPT !.shares = left,
                                           !.deposited = SaturatingSub(@, amount),
                                           !.debt = debt, !.claimed = 0]
  <1>1. /\ TypeOK /\ vault \in Vault /\ position[w] \in Position
    BY DEF ParInvariant, TypeOK
  <1>2. /\ shares \in Nat /\ shares > 0 /\ shares <= vault.total_shares
        /\ shares <= position[w].shares
        /\ Live
        /\ now' = now /\ record' = record
        /\ position' = [position EXCEPT ![w] = after]
        /\ vault' = [vault EXCEPT !.total_collateral = @ - amount,
                                  !.total_shares = @ - shares]
    BY InputsAssumption DEF WithdrawFromVault
  <1>3. /\ vault.total_shares = vault.total_collateral
        /\ \A v \in Writers : position[v].deposited = position[v].shares
        /\ vault.total_shares \in Nat /\ vault.total_shares > 0
        /\ position[w].shares \in Nat
    BY <1>1, <1>2, VaultFields, PositionFields DEF ParInvariant, SharesTrackCollateral
  <1>4. amount = shares
    BY <1>2, <1>3, MulDivPar DEF ShareValue
  <1>5. SaturatingSub(position[w].deposited, amount) = left
    BY <1>2, <1>3, <1>4 DEF SaturatingSub
  <1> HIDE DEF amount, left, debt
  <1>6. after.deposited = after.shares
    <2>1. /\ after.deposited = SaturatingSub(position[w].deposited, amount)
          /\ after.shares = left
      BY <1>1 DEF Position
    <2>. QED
      BY <1>5, <2>1
  <1> HIDE DEF after
  <1>7. \A v \in Writers : position'[v].deposited = position'[v].shares
    BY <1>1, <1>2, <1>3, <1>6 DEF TypeOK
  <1>8. /\ vault'.total_collateral = vault.total_collateral - amount
        /\ vault'.total_shares = vault.total_shares - shares
        /\ vault'.is_settled = vault.is_settled
        /\ vault'.voided = vault.voided
        /\ vault'.early_exercise_payout = vault.early_exercise_payout
    BY <1>1, <1>2 DEF Vault
  <1>. QED
    BY <1>2, <1>3, <1>4, <1>7, <1>8
    DEF ParInvariant, Ending, EndsOneWay, NothingEarly, SharesTrackCollateral,
        SharesAtMostPar, Live

(* mint, purchase and burn do not touch the pool. *)
LEMMA TradePar ==
    ASSUME ParInvariant, TypeOK',
           \/ \E w \in Writers, m \in MintIds, quantity \in Quantities,
                 premium \in Premiums : MintFromVault(w, m, quantity, premium)
           \/ \E h \in Holders, m \in MintIds, quantity \in Quantities :
                 PurchaseFromVault(h, m, quantity)
           \/ \E w \in Writers, m \in MintIds : BurnUnsold(w, m)
    PROVE  ParInvariant'
  <1>1. /\ TypeOK /\ vault \in Vault /\ now \in Nat
        /\ \A w \in Writers : position[w] \in Position
    BY DEF ParInvariant, TypeOK
  <1> DEFINE Untouched ==
               /\ vault'.total_collateral = vault.total_collateral
               /\ vault'.total_shares = vault.total_shares
               /\ vault'.collateral_remaining = vault.collateral_remaining
               /\ vault'.early_exercise_payout = vault.early_exercise_payout
               /\ vault'.is_settled = vault.is_settled
               /\ vault'.voided = vault.voided
               /\ record' = record
               /\ now' = now
               /\ \A w \in Writers : /\ position'[w].shares = position[w].shares
                                      /\ position'[w].deposited = position[w].deposited
  <1>2. ASSUME NEW w \in Writers, NEW m \in MintIds, NEW quantity \in Quantities,
               NEW premium \in Premiums, MintFromVault(w, m, quantity, premium)
        PROVE  Untouched
    BY <1>1, <1>2 DEF MintFromVault, TypeOK, Vault, Position
  <1>3. ASSUME NEW h \in Holders, NEW m \in MintIds, NEW quantity \in Quantities,
               PurchaseFromVault(h, m, quantity)
        PROVE  Untouched
    BY <1>1, <1>3, Zenon DEF PurchaseFromVault, TypeOK, Vault, Position
  <1>4. ASSUME NEW w \in Writers, NEW m \in MintIds, BurnUnsold(w, m)
        PROVE  Untouched
    BY <1>1, <1>4 DEF BurnUnsold, TypeOK, Vault, Position
  <1>5. Untouched
    BY <1>2, <1>3, <1>4
  <1>. QED
    BY <1>1, <1>5, PoolUntouched

(* What a share taken out does to the pool: the denominator falls at least  *)
(* as much as the pool, and at par by as much.                              *)
LEMMA ReleaseEffect ==
    ASSUME TypeOK, NEW w \in Writers, ReleaseShare(w)
    PROVE  /\ WriterRemaining(w) \in Nat
           /\ position[w].shares \in Nat
           /\ position[w].shares <= vault.total_shares
           /\ WriterRemaining(w) <= vault.collateral_remaining
           /\ WriterRemaining(w) <= vault.total_collateral
           /\ vault'.collateral_remaining = vault.collateral_remaining - WriterRemaining(w)
           /\ vault'.total_collateral = vault.total_collateral - WriterRemaining(w)
           /\ vault'.total_shares = vault.total_shares - position[w].shares
           /\ vault'.early_exercise_payout = vault.early_exercise_payout
           /\ vault'.is_settled = vault.is_settled
           /\ vault'.voided = vault.voided
           /\ vault'.settlement_price = vault.settlement_price
           /\ WriterRemaining(w) * vault.total_shares
                 <= position[w].shares * vault.collateral_remaining
           /\ vault.collateral_remaining <= vault.total_shares =>
                 vault.collateral_remaining - WriterRemaining(w)
                    <= vault.total_shares - position[w].shares
           /\ vault.collateral_remaining = vault.total_shares =>
                 WriterRemaining(w) = position[w].shares
  <1>1. /\ vault \in Vault /\ position[w] \in Position
    BY DEF TypeOK
  <1>2. /\ vault' = [vault EXCEPT !.collateral_remaining = @ - WriterRemaining(w),
                                  !.total_shares = @ - position[w].shares,
                                  !.total_collateral = @ - WriterRemaining(w)]
        /\ position[w].shares <= vault.total_shares
        /\ WriterRemaining(w) <= vault.collateral_remaining
        /\ WriterRemaining(w) <= vault.total_collateral
    BY DEF ReleaseShare, ExitCovered, AfterExit
  <1>3. /\ WriterRemaining(w) \in Nat /\ position[w].shares \in Nat
        /\ vault.total_shares \in Nat /\ vault.collateral_remaining \in Nat
    BY <1>1, RemainingNat, PositionFields, VaultFields
  <1>4. /\ vault'.collateral_remaining = vault.collateral_remaining - WriterRemaining(w)
        /\ vault'.total_collateral = vault.total_collateral - WriterRemaining(w)
        /\ vault'.total_shares = vault.total_shares - position[w].shares
        /\ vault'.early_exercise_payout = vault.early_exercise_payout
        /\ vault'.is_settled = vault.is_settled
        /\ vault'.voided = vault.voided
        /\ vault'.settlement_price = vault.settlement_price
    BY <1>1, <1>2 DEF Vault
  <1>5. /\ WriterRemaining(w) * vault.total_shares
              <= position[w].shares * vault.collateral_remaining
        /\ vault.collateral_remaining <= vault.total_shares =>
              vault.collateral_remaining - WriterRemaining(w)
                 <= vault.total_shares - position[w].shares
        /\ vault.collateral_remaining = vault.total_shares =>
              WriterRemaining(w) = position[w].shares
    <2>1. CASE position[w].shares = 0
      <3>1. WriterRemaining(w) = 0
        BY <2>1 DEF WriterRemaining
      <3>. QED
        BY <1>3, <2>1, <3>1
    <2>2. CASE position[w].shares # 0
      <3>1. vault.total_shares > 0
        BY <1>2, <1>3, <2>2
      <3>2. WriterRemaining(w) =
              MulDiv(position[w].shares, vault.collateral_remaining, vault.total_shares)
        BY <1>3, <2>2, <3>1 DEF WriterRemaining, ShareValue
      <3>3. /\ WriterRemaining(w) * vault.total_shares
                  <= position[w].shares * vault.collateral_remaining
            /\ vault.collateral_remaining <= vault.total_shares =>
                  vault.collateral_remaining - WriterRemaining(w)
                     <= vault.total_shares - position[w].shares
        BY <1>2, <1>3, <3>1, <3>2, ExitKeeps, Zenon
      <3>4. vault.collateral_remaining = vault.total_shares =>
              WriterRemaining(w) = position[w].shares
        BY <1>3, <3>1, <3>2, MulDivPar
      <3>. QED
        BY <3>3, <3>4
    <2>. QED
      BY <2>1, <2>2
  <1>. QED
    BY <1>2, <1>3, <1>4, <1>5

(* A writer's exit from an ended vault leaves the pool at most at par. *)
LEMMA ReleasePar ==
    ASSUME ParInvariant, TypeOK', ~Live, NEW w \in Writers, ReleaseShare(w),
           now' = now, record' = record
    PROVE  ParInvariant'
  <1>1. TypeOK /\ vault \in Vault
    BY DEF ParInvariant, TypeOK
  <1>2. /\ vault.collateral_remaining \in Nat
        /\ vault.total_collateral \in Nat
        /\ vault.total_shares \in Nat
    BY <1>1, VaultFields
  <1>. QED
    BY <1>1, <1>2, ReleaseEffect
    DEF ParInvariant, Ending, EndsOneWay, NothingEarly, SharesTrackCollateral,
        SharesAtMostPar, Live

(* Settling starts the remaining collateral at par. *)
LEMMA SettlePar ==
    ASSUME ParInvariant, TypeOK', SettleVault
    PROVE  ParInvariant'
  <1>1. TypeOK /\ vault \in Vault /\ record \in Prices \cup {NoPrice}
    BY DEF ParInvariant, TypeOK
  <1>2. /\ Live /\ record # NoPrice /\ now' = now /\ record' = record
        /\ position' = position
        /\ vault' = [JoinPot(0) EXCEPT !.is_settled = TRUE, !.settlement_price = record]
    BY DEF SettleVault, SettleWith
  <1>3. SaturatingSub(vault.total_collateral, vault.early_exercise_payout)
          = vault.total_collateral
    BY <1>1, VaultFields DEF SaturatingSub, ParInvariant, NothingEarly
  <1> DEFINE joined == [vault EXCEPT
                          !.collateral_remaining = vault.total_collateral,
                          !.writer_ask_swept = 0, !.writer_ask_equiv_shares = 0]
  <1>4. JoinPot(0) = joined
    BY <1>1, <1>3, PotlessJoin
  <1>5. vault' = [joined EXCEPT !.is_settled = TRUE, !.settlement_price = record]
    BY <1>2, <1>4, Zenon
  <1>6. /\ joined \in Vault
        /\ joined.total_collateral = vault.total_collateral
        /\ joined.total_shares = vault.total_shares
        /\ joined.collateral_remaining = vault.total_collateral
        /\ joined.early_exercise_payout = vault.early_exercise_payout
        /\ joined.voided = vault.voided
    <2>1. joined \in Vault
      BY <1>1, <1>4, PotlessJoin
    <2>. QED
      BY <1>1, <2>1 DEF Vault
  <1> HIDE DEF joined
  <1>7. /\ vault'.total_collateral = joined.total_collateral
        /\ vault'.total_shares = joined.total_shares
        /\ vault'.collateral_remaining = joined.collateral_remaining
        /\ vault'.early_exercise_payout = joined.early_exercise_payout
        /\ vault'.voided = joined.voided
        /\ vault'.is_settled = TRUE
    BY <1>5, <1>6 DEF Vault
  <1>8. vault.total_shares = vault.total_collateral /\ vault.total_collateral \in Nat
    BY <1>1, <1>2, VaultFields DEF ParInvariant, SharesTrackCollateral
  <1>. QED
    BY <1>2, <1>6, <1>7, <1>8
    DEF ParInvariant, Ending, EndsOneWay, NothingEarly, SharesTrackCollateral,
        SharesAtMostPar, Live

(* Voiding returns the pool exactly. *)
LEMMA VoidPar ==
    ASSUME ParInvariant, TypeOK', InitializeVoid
    PROVE  ParInvariant'
  <1>1. TypeOK /\ vault \in Vault /\ now \in Nat
    BY DEF ParInvariant, TypeOK
  <1>2. /\ ~vault.voided /\ record = NoPrice /\ now' = now /\ record' = record
        /\ now >= Expiry + GraceWindow
        /\ position' = position
        /\ vault' = [JoinPot(0) EXCEPT !.voided = TRUE]
    BY DEF InitializeVoid, VoidWith
  <1>3. Live
    BY <1>2 DEF ParInvariant, Ending, Live
  <1>4. SaturatingSub(vault.total_collateral, vault.early_exercise_payout)
          = vault.total_collateral
    BY <1>1, VaultFields DEF SaturatingSub, ParInvariant, NothingEarly
  <1> DEFINE joined == [vault EXCEPT
                          !.collateral_remaining = vault.total_collateral,
                          !.writer_ask_swept = 0, !.writer_ask_equiv_shares = 0]
  <1>5. JoinPot(0) = joined
    BY <1>1, <1>4, PotlessJoin
  <1>6. vault' = [joined EXCEPT !.voided = TRUE]
    BY <1>2, <1>5, Zenon
  <1>7. /\ joined \in Vault
        /\ joined.total_collateral = vault.total_collateral
        /\ joined.total_shares = vault.total_shares
        /\ joined.collateral_remaining = vault.total_collateral
        /\ joined.early_exercise_payout = vault.early_exercise_payout
        /\ joined.is_settled = vault.is_settled
    <2>1. joined \in Vault
      BY <1>1, <1>5, PotlessJoin
    <2>. QED
      BY <1>1, <2>1 DEF Vault
  <1> HIDE DEF joined
  <1>8. /\ vault'.total_collateral = joined.total_collateral
        /\ vault'.total_shares = joined.total_shares
        /\ vault'.collateral_remaining = joined.collateral_remaining
        /\ vault'.early_exercise_payout = joined.early_exercise_payout
        /\ vault'.is_settled = joined.is_settled
        /\ vault'.voided = TRUE
    BY <1>6, <1>7 DEF Vault
  <1>9. vault.total_shares = vault.total_collateral /\ vault.total_collateral \in Nat
    BY <1>1, <1>3, VaultFields DEF ParInvariant, SharesTrackCollateral
  <1>10. now >= Expiry
    BY <1>1, <1>2, ParametersAssumption
  <1>. QED
    BY <1>2, <1>3, <1>7, <1>8, <1>9, <1>10
    DEF ParInvariant, Ending, EndsOneWay, NothingEarly, SharesTrackCollateral,
        SharesAtMostPar, Live

(* A holder's payout only lowers the remaining collateral of a settled vault. *)
LEMMA HolderPar ==
    ASSUME ParInvariant, TypeOK', NEW h \in Holders, NEW quantity \in Nat,
           vault.is_settled, ~vault.voided, PayHolder(h, quantity)
    PROVE  ParInvariant'
  <1> DEFINE payout == Smaller(quantity * Payoff, vault.collateral_remaining)
  <1>1. TypeOK /\ vault \in Vault
    BY DEF ParInvariant, TypeOK
  <1>2. /\ now' = now /\ record' = record /\ position' = position
        /\ vault' = [vault EXCEPT !.collateral_remaining = @ - payout]
    BY DEF PayHolder
  <1>3. /\ vault.collateral_remaining \in Nat
        /\ vault.total_collateral \in Nat
        /\ vault.total_shares \in Nat
    BY <1>1, VaultFields
  <1>4. payout \in Nat
    <2>1. quantity * Payoff \in Nat
      BY <1>1, PayoffNat
    <2>. QED
      BY <1>3, <2>1 DEF Smaller
  <1> HIDE DEF payout
  <1>5. /\ vault'.collateral_remaining = vault.collateral_remaining - payout
        /\ vault'.total_collateral = vault.total_collateral
        /\ vault'.total_shares = vault.total_shares
        /\ vault'.early_exercise_payout = vault.early_exercise_payout
        /\ vault'.is_settled = vault.is_settled
        /\ vault'.voided = vault.voided
    BY <1>1, <1>2, Zenon DEF Vault
  <1>. QED
    BY <1>2, <1>3, <1>4, <1>5
    DEF ParInvariant, Ending, EndsOneWay, NothingEarly, SharesTrackCollateral,
        SharesAtMostPar, Live

(* So does what is paid for a finalized escrow. *)
LEMMA EscrowPar ==
    ASSUME ParInvariant, TypeOK', NEW m \in MintIds, AutoFinalizeEscrow(m)
    PROVE  ParInvariant'
  <1>1. TypeOK /\ vault \in Vault
    BY DEF ParInvariant, TypeOK
  <1>2. PICK r \in Nat : /\ r <= vault.collateral_remaining
                         /\ vault' = [vault EXCEPT !.collateral_remaining = @ - r]
    BY <1>1, EscrowEffect
  <1>3. /\ vault.is_settled /\ ~vault.voided
        /\ now' = now /\ record' = record /\ position' = position
    BY <1>1, EscrowEffect
  <1>4. /\ vault'.collateral_remaining = vault.collateral_remaining - r
        /\ vault'.total_collateral = vault.total_collateral
        /\ vault'.total_shares = vault.total_shares
        /\ vault'.early_exercise_payout = vault.early_exercise_payout
        /\ vault'.is_settled = vault.is_settled
        /\ vault'.voided = vault.voided
    BY <1>1, <1>2, Zenon DEF Vault
  <1>5. /\ vault.collateral_remaining \in Nat
        /\ vault.total_collateral \in Nat
        /\ vault.total_shares \in Nat
    BY <1>1, VaultFields
  <1>. QED
    BY <1>3, <1>4, <1>5
    DEF ParInvariant, Ending, EndsOneWay, NothingEarly, SharesTrackCollateral,
        SharesAtMostPar, Live

(* Every step keeps the pool at par. *)
LEMMA NextPar ==
    ASSUME ParInvariant, [Next]_vars
    PROVE  ParInvariant'
  <1>1. TypeOK /\ TypeOK' /\ vault \in Vault /\ now \in Nat
    BY NextTyping DEF ParInvariant, TypeOK
  <1>2. CASE WriterStep
    <2>1. PICK w \in Writers :
            \/ \E amount \in Amounts : Deposit(w, amount)
            \/ \E m \in MintIds, quantity \in Quantities, premium \in Premiums :
                  MintFromVault(w, m, quantity, premium)
            \/ \E m \in MintIds : BurnUnsold(w, m)
            \/ \E shares \in Amounts : WithdrawFromVault(w, shares)
            \/ ClaimPremium(w)
            \/ WithdrawPostSettlement(w)
      BY <1>2 DEF WriterStep
    <2>2. CASE ClaimPremium(w)
      <3>1. /\ vault' = vault /\ now' = now /\ record' = record
            /\ position' = [position EXCEPT ![w].claimed = @ + UnclaimedPremium(w)]
        BY <2>2 DEF ClaimPremium
      <3>2. \A v \in Writers : /\ position'[v].shares = position[v].shares
                               /\ position'[v].deposited = position[v].deposited
        BY <1>1, <3>1 DEF TypeOK, Position
      <3>. QED
        BY <1>1, <3>1, <3>2, PoolUntouched
    <2>3. CASE WithdrawPostSettlement(w)
      BY <1>1, <2>3, ReleasePar DEF WithdrawPostSettlement, Live
    <2>. QED
      BY <1>1, <2>1, <2>2, <2>3, DepositPar, TradePar, WithdrawPar
  <1>3. CASE HolderStep
    <2>1. ASSUME NEW h \in Holders, NEW quantity \in Quantities,
                 ExerciseFromVault(h, quantity)
          PROVE  ParInvariant'
      BY <1>1, <2>1, HolderPar, InputsAssumption DEF ExerciseFromVault
    <2>. QED
      BY <1>1, <1>3, <2>1, TradePar DEF HolderStep
  <1>4. CASE OracleStep
    <2>1. /\ vault' = vault /\ now' = now /\ record = NoPrice /\ position' = position
      BY <1>4 DEF OracleStep, SettleExpiry
    <2>. QED
      BY <1>1, <2>1, PoolUntouched
  <1>5. CASE CrankStep
    <2>1. ASSUME NEW h \in Holders, AutoFinalizeHolder(h) PROVE ParInvariant'
      <3>1. tokens[h] \in Nat
        BY <1>1 DEF TypeOK
      <3>. QED
        BY <1>1, <2>1, <3>1, HolderPar DEF AutoFinalizeHolder
    <2>2. ASSUME NEW batch \in SUBSET Writers, AutoFinalizeWriters(batch)
          PROVE  ParInvariant'
      <3>1. ~Live /\ now' = now /\ record' = record
        BY <2>2 DEF AutoFinalizeWriters, Live
      <3>2. CASE vault' = vault
        <4>1. vault.is_settled
          BY <2>2 DEF AutoFinalizeWriters
        <4>. QED
          BY <1>1, <3>1, <3>2, <4>1
          DEF ParInvariant, Ending, EndsOneWay, NothingEarly, SharesTrackCollateral,
              SharesAtMostPar, Live
      <3>3. ASSUME NEW w \in Writers, ReleaseShare(w) PROVE ParInvariant'
        BY <1>1, <3>1, <3>3, ReleasePar
      <3>. QED
        BY <2>2, <3>2, <3>3 DEF AutoFinalizeWriters
    <2>3. ASSUME NEW w \in Writers, ReclaimUnsettled(w) PROVE ParInvariant'
      BY <1>1, <2>3, ReleasePar DEF ReclaimUnsettled, Live
    <2>4. CASE CloseDrainedVault
      <3>1. vault' = vault /\ now' = now /\ record' = record /\ position' = position
        BY <2>4 DEF CloseDrainedVault
      <3>. QED
        BY <1>1, <3>1, PoolUntouched
    <2>5. ASSUME NEW m \in MintIds, AutoFinalizeEscrow(m) PROVE ParInvariant'
      BY <1>1, <2>5, EscrowPar
    <2>. QED
      BY <1>1, <1>5, <2>1, <2>2, <2>3, <2>4, <2>5, SettlePar, VoidPar DEF CrankStep
  <1>6. CASE Tick \/ UNCHANGED vars
    <2>1. vault' = vault /\ now' >= now /\ record' = record /\ position' = position
      BY <1>1, <1>6 DEF Tick, vars
    <2>. QED
      BY <1>1, <2>1, PoolUntouched
  <1>. QED
    BY <1>2, <1>3, <1>4, <1>5, <1>6 DEF Next

(* The pool is at par for as long as the vault is live, and no ending ever  *)
(* lifts it above par: the inductive invariant behind the four properties   *)
(* below.                                                                   *)
THEOREM PoolAtPar == Spec => []ParInvariant
  <1>1. Init => ParInvariant
    <2> SUFFICES ASSUME Init PROVE ParInvariant
      OBVIOUS
    <2>1. TypeOK
      BY DEF Init, TypeOK, EmptyVault, Vault, EmptyPosition, Position, NoMint, Mint
    <2>. QED
      BY <2>1 DEF Init, EmptyVault, EmptyPosition, ParInvariant, Ending, EndsOneWay,
                  NothingEarly, SharesTrackCollateral, SharesAtMostPar, Live
  <1>2. ParInvariant /\ [Next]_vars => ParInvariant'
    BY NextPar
  <1>. QED
    BY <1>1, <1>2, PTL DEF Spec

(* One share is one unit of collateral until the vault ends, so no deposit  *)
(* or withdrawal ever takes from another writer.                            *)
THEOREM SharesAtPar == Spec => []SharesTrackCollateral
  <1>1. ParInvariant => SharesTrackCollateral
    BY DEF ParInvariant
  <1>. QED
    BY <1>1, PoolAtPar, PTL

(* Once the vault has ended, its remaining collateral never exceeds the     *)
(* shares that claim it; a voided pool is still worth exactly its shares.   *)
THEOREM NeverAbovePar == Spec => []SharesAtMostPar
  <1>1. ParInvariant => SharesAtMostPar
    BY DEF ParInvariant
  <1>. QED
    BY <1>1, PoolAtPar, PTL

(* No order of price record, settlement and void both settles and voids.    *)
THEOREM OneEnding == Spec => []EndsOneWay
  <1>1. ParInvariant => EndsOneWay
    BY DEF ParInvariant, Ending
  <1>. QED
    BY <1>1, PoolAtPar, PTL

---------------------------------------------------------------------------
(* What a step may never do to an ended vault. *)

(* A step out of an ended vault either takes a writer's share out, or       *)
(* leaves the share count, the phase and the settlement price alone; and a  *)
(* voided vault's tokens are never touched.                                 *)
LEMMA EndedSteps ==
    ASSUME ParInvariant, [Next]_vars, ~Live
    PROVE  /\ \/ \E w \in Writers : ReleaseShare(w) /\ tokens' = tokens
              \/ /\ vault'.total_shares = vault.total_shares
                 /\ vault'.is_settled = vault.is_settled
                 /\ vault'.voided = vault.voided
                 /\ vault'.settlement_price = vault.settlement_price
           /\ vault.voided => tokens' = tokens
  <1> DEFINE Kept == /\ vault'.total_shares = vault.total_shares
                     /\ vault'.is_settled = vault.is_settled
                     /\ vault'.voided = vault.voided
                     /\ vault'.settlement_price = vault.settlement_price
             Left == \E w \in Writers : ReleaseShare(w) /\ tokens' = tokens
             Burned == vault.voided => tokens' = tokens
  <1>1. /\ TypeOK /\ vault \in Vault /\ now \in Nat /\ Expiry \in Nat
        /\ EndsOneWay
        /\ vault.is_settled => record # NoPrice
        /\ vault.voided => now >= Expiry
    BY ParametersAssumption DEF ParInvariant, Ending, TypeOK
  <1>2. CASE WriterStep
    <2>1. PICK w \in Writers :
            \/ \E amount \in Amounts : Deposit(w, amount)
            \/ \E m \in MintIds, quantity \in Quantities, premium \in Premiums :
                  MintFromVault(w, m, quantity, premium)
            \/ \E m \in MintIds : BurnUnsold(w, m)
            \/ \E shares \in Amounts : WithdrawFromVault(w, shares)
            \/ ClaimPremium(w)
            \/ WithdrawPostSettlement(w)
      BY <1>2 DEF WriterStep
    <2>2. ASSUME NEW amount \in Amounts, Deposit(w, amount) PROVE FALSE
      BY <1>1, <2>2 DEF Deposit, Live
    <2>3. ASSUME NEW m \in MintIds, NEW quantity \in Quantities,
                 NEW premium \in Premiums, MintFromVault(w, m, quantity, premium)
          PROVE  Kept /\ tokens' = tokens
      BY <1>1, <2>3 DEF MintFromVault, Vault
    <2>4. ASSUME NEW m \in MintIds, BurnUnsold(w, m)
          PROVE  Kept /\ tokens' = tokens
      BY <1>1, <2>4 DEF BurnUnsold, Vault
    <2>5. ASSUME NEW shares \in Amounts, WithdrawFromVault(w, shares) PROVE FALSE
      BY <2>5 DEF WithdrawFromVault
    <2>6. CASE ClaimPremium(w)
      BY <2>6 DEF ClaimPremium
    <2>7. CASE WithdrawPostSettlement(w)
      BY <2>7, Zenon DEF WithdrawPostSettlement
    <2>. QED
      BY <2>1, <2>2, <2>3, <2>4, <2>5, <2>6, <2>7
  <1>3. CASE HolderStep
    <2>1. ASSUME NEW h \in Holders, NEW m \in MintIds, NEW quantity \in Quantities,
                 PurchaseFromVault(h, m, quantity)
          PROVE  Kept /\ ~vault.voided
      BY <1>1, <2>1 DEF PurchaseFromVault, Vault
    <2>2. ASSUME NEW h \in Holders, NEW quantity \in Quantities,
                 ExerciseFromVault(h, quantity)
          PROVE  Kept /\ ~vault.voided
      BY <1>1, <2>2, Zenon DEF ExerciseFromVault, PayHolder, Vault
    <2>. QED
      BY <1>3, <2>1, <2>2 DEF HolderStep
  <1>4. CASE OracleStep
    BY <1>4 DEF OracleStep, SettleExpiry
  <1>5. CASE CrankStep
    <2>1. ASSUME NEW h \in Holders, AutoFinalizeHolder(h) PROVE Kept /\ ~vault.voided
      BY <1>1, <2>1, Zenon DEF AutoFinalizeHolder, PayHolder, Vault
    <2>2. ASSUME NEW batch \in SUBSET Writers, AutoFinalizeWriters(batch)
          PROVE  (Left \/ Kept) /\ tokens' = tokens
      BY <2>2, Zenon DEF AutoFinalizeWriters
    <2>3. ASSUME NEW w \in Writers, ReclaimUnsettled(w) PROVE Left
      BY <2>3 DEF ReclaimUnsettled
    <2>4. ASSUME SettleVault PROVE FALSE
      <3>1. Live
        BY <2>4 DEF SettleVault, SettleWith
      <3>. QED
        BY <3>1
    <2>5. ASSUME InitializeVoid PROVE FALSE
      BY <1>1, <2>5 DEF InitializeVoid, VoidWith, Live
    <2>6. CASE CloseDrainedVault
      BY <2>6 DEF CloseDrainedVault
    <2>7. ASSUME NEW m \in MintIds, AutoFinalizeEscrow(m)
          PROVE  Kept /\ tokens' = tokens
      <3>1. /\ tokens' = tokens
            /\ \E r \in Nat : vault' = [vault EXCEPT !.collateral_remaining = @ - r]
        BY <1>1, <2>7, EscrowEffect
      <3>. QED
        BY <1>1, <3>1, Zenon DEF Vault
    <2>. QED
      BY <1>5, <2>1, <2>2, <2>3, <2>4, <2>5, <2>6, <2>7 DEF CrankStep
  <1>6. CASE Tick \/ UNCHANGED vars
    BY <1>6 DEF Tick, vars
  <1>. QED
    BY <1>2, <1>3, <1>4, <1>5, <1>6 DEF Next

(* A writer who leaves an ended vault never makes the shares of the others  *)
(* worth less: every pro-rata payout rounds towards the pool.               *)
THEOREM NoDilution == Spec => ExitsDoNotDilute
  <1> DEFINE NotDiluted ==
        ~Live /\ vault'.total_shares < vault.total_shares =>
          vault'.collateral_remaining * vault.total_shares
             >= vault.collateral_remaining * vault'.total_shares
  <1>1. ParInvariant /\ [Next]_vars => [NotDiluted]_vars
    <2> SUFFICES ASSUME ParInvariant, [Next]_vars, ~Live,
                        vault'.total_shares < vault.total_shares
                 PROVE  vault'.collateral_remaining * vault.total_shares
                           >= vault.collateral_remaining * vault'.total_shares
      OBVIOUS
    <2>1. /\ TypeOK
          /\ vault.total_shares \in Nat /\ vault.collateral_remaining \in Nat
      BY VaultFields DEF ParInvariant, TypeOK
    <2>2. PICK w \in Writers : ReleaseShare(w)
      BY <2>1, EndedSteps
    <2> DEFINE q  == WriterRemaining(w)
               n  == position[w].shares
               S  == vault.total_shares
               CR == vault.collateral_remaining
    <2>3. /\ q \in Nat /\ n \in Nat /\ q * S <= n * CR
          /\ vault'.collateral_remaining = CR - q
          /\ vault'.total_shares = S - n
      BY <2>1, <2>2, ReleaseEffect
    <2>4. S \in Nat /\ CR \in Nat
      BY <2>1
    <2> HIDE DEF q, n, S, CR
    <2>5. (CR - q) * S >= CR * (S - n)
      <3>1. (CR - q) * S = CR * S - q * S /\ CR * (S - n) = CR * S - n * CR
        BY <2>3, <2>4
      <3>. QED
        BY <2>3, <2>4, <3>1
    <2>. QED
      BY <2>3, <2>5 DEF S, CR
  <1>. QED
    BY <1>1, PoolAtPar, PTL DEF Spec, ExitsDoNotDilute

(* Neither ending is ever undone: a settled vault keeps its price, and a    *)
(* voided vault never redeems an option.                                    *)
THEOREM FinalEnding == Spec => EndingIsFinal
  <1> DEFINE Final ==
        /\ vault.is_settled => /\ vault'.is_settled
                               /\ vault'.settlement_price = vault.settlement_price
        /\ vault.voided => vault'.voided /\ tokens' = tokens
  <1>1. ParInvariant /\ [Next]_vars => [Final]_vars
    <2> SUFFICES ASSUME ParInvariant, [Next]_vars, ~Live PROVE Final
      BY DEF Live
    <2>1. TypeOK
      BY DEF ParInvariant
    <2>2. /\ vault'.is_settled = vault.is_settled
          /\ vault'.voided = vault.voided
          /\ vault'.settlement_price = vault.settlement_price
      BY <2>1, EndedSteps, ReleaseEffect
    <2>3. vault.is_settled \in BOOLEAN /\ vault.voided \in BOOLEAN
      BY <2>1, VaultFields DEF TypeOK
    <2>4. vault.voided => tokens' = tokens
      BY EndedSteps, Zenon
    <2>. QED
      BY <2>2, <2>3, <2>4
  <1>. QED
    BY <1>1, PoolAtPar, PTL DEF Spec, EndingIsFinal

---------------------------------------------------------------------------
(* What each instruction does to the accounts, field by field, at par.      *)

PoolSame ==
    /\ vault'.total_collateral = vault.total_collateral
    /\ vault'.total_shares = vault.total_shares

CountersSame ==
    /\ vault'.total_options_minted = vault.total_options_minted
    /\ vault'.total_options_sold = vault.total_options_sold

PhaseSame ==
    /\ vault'.is_settled = vault.is_settled
    /\ vault'.voided = vault.voided
    /\ vault'.settlement_price = vault.settlement_price
    /\ vault'.collateral_remaining = vault.collateral_remaining
    /\ vault'.exercised_options = vault.exercised_options
    /\ vault'.early_exercise_payout = vault.early_exercise_payout
    /\ vault'.writer_ask_swept = vault.writer_ask_swept
    /\ vault'.writer_ask_equiv_shares = vault.writer_ask_equiv_shares

StakeSame(w) ==
    /\ position'[w].shares = position[w].shares
    /\ position'[w].deposited = position[w].deposited

PremiumSame(w) ==
    /\ position'[w].debt = position[w].debt
    /\ position'[w].claimed = position[w].claimed

OptionsSame(w) ==
    /\ position'[w].options_minted = position[w].options_minted
    /\ position'[w].options_sold = position[w].options_sold

(* deposit_to_vault adds as many shares as units of collateral; a position  *)
(* that holds nothing is started afresh.                                    *)
LEMMA DepositEffect ==
    ASSUME TypeOK, SharesTrackCollateral, Live, NEW w \in Writers,
           NEW amount \in Amounts, Deposit(w, amount)
    PROVE  LET credit == Earned(amount, vault.premium_per_share, Scale) IN
           /\ amount \in Nat /\ credit \in Nat /\ now < Expiry
           /\ vault'.total_collateral = vault.total_collateral + amount
           /\ vault'.total_shares = vault.total_shares + amount
           /\ vault'.premium_per_share = vault.premium_per_share
           /\ CountersSame /\ PhaseSame
           /\ \A v \in Writers \ {w} : position'[v] = position[v]
           /\ position'[w].shares = position[w].shares + amount
           /\ position'[w].deposited = position[w].deposited + amount
           /\ \/ /\ position[w].shares = 0
                 /\ position'[w].debt = credit
                 /\ position'[w].claimed = 0
                 /\ position'[w].options_minted = 0
                 /\ position'[w].options_sold = 0
              \/ /\ position'[w].debt = position[w].debt + credit
                 /\ position'[w].claimed = position[w].claimed
                 /\ OptionsSame(w)
           /\ usdc' = usdc + amount
           /\ rebases' = rebases + 1
           /\ UNCHANGED <<now, record, usdcOpen, mint, tokens>>
  <1> DEFINE shares == SharesFor(amount, vault.total_shares, vault.total_collateral)
             fresh  == position[w].shares = 0 /\ position[w].deposited = 0
             old    == IF fresh THEN EmptyPosition ELSE position[w]
             credit == Earned(amount, vault.premium_per_share, Scale)
             joined == [old EXCEPT !.debt = @ + credit, !.shares = @ + amount,
                                   !.deposited = @ + amount]
  <1>1. /\ vault \in Vault /\ position[w] \in Position /\ amount \in Nat
        /\ vault.total_shares \in Nat
        /\ vault.total_shares = vault.total_collateral
    BY InputsAssumption, VaultFields DEF TypeOK, SharesTrackCollateral
  <1>2. shares = amount
    <2>1. CASE vault.total_shares = 0
      BY <2>1 DEF SharesFor
    <2>2. CASE vault.total_shares > 0
      BY <1>1, <2>2, MulDivPar DEF SharesFor
    <2>. QED
      BY <1>1, <2>1, <2>2
  <1> HIDE DEF shares
  <1>3. /\ position' = [position EXCEPT ![w] = joined]
        /\ vault' = [vault EXCEPT !.total_collateral = @ + amount,
                                  !.total_shares = @ + amount]
        /\ usdc' = usdc + amount
        /\ rebases' = rebases + 1
        /\ now < Expiry
        /\ UNCHANGED <<now, record, usdcOpen, mint, tokens>>
    BY <1>2 DEF Deposit, shares
  <1>4. credit \in Nat
    BY <1>1, EarnedNat, VaultFields, Zenon
  <1>5. old \in Position
    BY <1>1, EmptyPositionTyping
  <1>6. /\ joined.shares = old.shares + amount
        /\ joined.deposited = old.deposited + amount
        /\ joined.debt = old.debt + credit
        /\ joined.claimed = old.claimed
        /\ joined.options_minted = old.options_minted
        /\ joined.options_sold = old.options_sold
    <2> HIDE DEF old, credit
    <2>. QED
      BY <1>5 DEF Position
  <1>7. CASE fresh
    <2>1. old = EmptyPosition
      BY <1>7
    <2>2. /\ old.shares = 0 /\ old.deposited = 0 /\ old.debt = 0 /\ old.claimed = 0
          /\ old.options_minted = 0 /\ old.options_sold = 0
      BY <2>1 DEF EmptyPosition
    <2> HIDE DEF old, credit, joined
    <2>. QED
      BY <1>1, <1>3, <1>4, <1>6, <1>7, <2>2
      DEF TypeOK, Vault, credit, CountersSame, PhaseSame
  <1>8. CASE ~fresh
    <2>1. old = position[w]
      BY <1>8
    <2> HIDE DEF old, credit, joined
    <2>. QED
      BY <1>1, <1>3, <1>4, <1>6, <2>1
      DEF TypeOK, Vault, credit, CountersSame, PhaseSame, OptionsSame
  <1>. QED
    BY <1>7, <1>8

(* mint_from_vault writes options its writer's collateral still backs. *)
LEMMA MintEffect ==
    ASSUME TypeOK, SharesTrackCollateral, Live, NEW w \in Writers, NEW m \in MintIds,
           NEW quantity \in Quantities, NEW premium \in Premiums,
           MintFromVault(w, m, quantity, premium)
    PROVE  /\ quantity \in Nat /\ premium \in Nat /\ now < Expiry
           /\ (position[w].options_minted + quantity) * Strike <= position[w].shares
           /\ AmericanGate(quantity * CollateralPerContract(Strike))
           /\ vault'.total_options_minted = vault.total_options_minted + quantity
           /\ vault'.total_options_sold = vault.total_options_sold
           /\ vault'.premium_per_share = vault.premium_per_share
           /\ PoolSame /\ PhaseSame
           /\ \A v \in Writers \ {w} : position'[v] = position[v]
           /\ position'[w].options_minted = position[w].options_minted + quantity
           /\ position'[w].options_sold = position[w].options_sold
           /\ StakeSame(w) /\ PremiumSame(w)
           /\ mint[m].writer = NoWriter
           /\ \A n \in MintIds \ {m} : mint'[n] = mint[n]
           /\ mint'[m].writer = w
           /\ mint'[m].quantity_minted = quantity
           /\ mint'[m].quantity_sold = 0
           /\ mint'[m].escrow = quantity
           /\ UNCHANGED <<now, record, usdc, usdcOpen, opened, tokens, rebases>>
  <1>1. /\ vault \in Vault /\ position[w] \in Position
        /\ quantity \in Nat /\ premium \in Nat
        /\ vault.total_shares \in Nat
        /\ vault.total_shares = vault.total_collateral
        /\ Strike \in Nat
    BY InputsAssumption, ParametersAssumption, VaultFields
    DEF TypeOK, SharesTrackCollateral
  <1>2. /\ vault.total_shares > 0
        /\ WriterCollateral(w) >= Committed(w)
        /\ quantity * CollateralPerContract(Strike) <= WriterCollateral(w) - Committed(w)
        /\ now < Expiry
    BY DEF MintFromVault
  <1>3. WriterCollateral(w) = position[w].shares
    BY <1>1, <1>2, MulDivPar, PositionFields DEF WriterCollateral, ShareValue
  <1>4. (position[w].options_minted + quantity) * Strike <= position[w].shares
    <2>1. /\ position[w].options_minted \in Nat /\ position[w].shares \in Nat
      BY <1>1, PositionFields
    <2>2. (position[w].options_minted + quantity) * Strike
            = position[w].options_minted * Strike + quantity * Strike
      BY <1>1, <2>1
    <2>3. position[w].options_minted * Strike \in Nat /\ quantity * Strike \in Nat
      BY <1>1, <2>1
    <2>. QED
      BY <1>2, <1>3, <2>1, <2>2, <2>3 DEF Committed, CollateralPerContract
  <1>5. vault' = [vault EXCEPT !.total_options_minted = @ + quantity]
    BY DEF MintFromVault
  <1>6. /\ vault'.total_options_minted = vault.total_options_minted + quantity
        /\ vault'.total_options_sold = vault.total_options_sold
        /\ vault'.premium_per_share = vault.premium_per_share
        /\ PoolSame /\ PhaseSame
    BY <1>1, <1>5 DEF Vault, PoolSame, PhaseSame
  <1>7. position' = [position EXCEPT ![w] =
                       [position[w] EXCEPT !.options_minted = @ + quantity]]
    BY DEF MintFromVault
  <1>8. /\ \A v \in Writers \ {w} : position'[v] = position[v]
        /\ position'[w].options_minted = position[w].options_minted + quantity
        /\ position'[w].options_sold = position[w].options_sold
        /\ StakeSame(w) /\ PremiumSame(w)
    BY <1>1, <1>7 DEF TypeOK, Position, StakeSame, PremiumSame
  <1>9. /\ mint[m].writer = NoWriter
        /\ \A n \in MintIds \ {m} : mint'[n] = mint[n]
        /\ mint'[m].writer = w
        /\ mint'[m].quantity_minted = quantity
        /\ mint'[m].quantity_sold = 0
        /\ mint'[m].escrow = quantity
    BY <1>1 DEF TypeOK, MintFromVault
  <1>. QED
    BY <1>1, <1>2, <1>4, <1>6, <1>8, <1>9 DEF MintFromVault

(* What a purchase banks, and what it credits to each share. *)
Banked(m, quantity) ==
    LET total == quantity * mint[m].premium IN total - Fee(total, FeeBps)

Credit(share) ==
    IF vault.total_shares > 0 THEN MulDiv(share, Scale, vault.total_shares) ELSE 0

(* A credit to the shares is an amount. *)
LEMMA CreditNat ==
    ASSUME TypeOK, NEW share \in Nat
    PROVE  Credit(share) \in Nat
  <1>1. vault.total_shares \in Nat /\ Scale \in Nat
    BY VaultFields, ParametersAssumption DEF TypeOK
  <1>2. CASE vault.total_shares > 0
    <2>1. MulDiv(share, Scale, vault.total_shares) \in Nat
      BY <1>1, <1>2, MulDivNat, Zenon
    <2>. QED
      BY <1>2, <2>1 DEF Credit
  <1>3. CASE ~(vault.total_shares > 0)
    BY <1>3 DEF Credit
  <1>. QED
    BY <1>2, <1>3

(* purchase_from_vault moves options from a mint's escrow to a holder, and  *)
(* credits the premium it banks to every share.                             *)
LEMMA PurchaseEffect ==
    ASSUME TypeOK, NEW h \in Holders, NEW m \in MintIds,
           NEW quantity \in Quantities, PurchaseFromVault(h, m, quantity)
    PROVE  LET w == mint[m].writer IN
           /\ quantity \in Nat /\ Banked(m, quantity) \in Nat
           /\ Credit(Banked(m, quantity)) \in Nat
           /\ now < Expiry /\ ~vault.is_settled
           /\ w \in Writers
           /\ quantity <= mint[m].escrow
           /\ vault'.total_options_sold = vault.total_options_sold + quantity
           /\ vault'.total_options_minted = vault.total_options_minted
           /\ vault'.premium_per_share
                = vault.premium_per_share + Credit(Banked(m, quantity))
           /\ PoolSame /\ PhaseSame
           /\ \A v \in Writers \ {w} : position'[v] = position[v]
           /\ position'[w].options_sold = position[w].options_sold + quantity
           /\ position'[w].options_minted = position[w].options_minted
           /\ StakeSame(w) /\ PremiumSame(w)
           /\ \A n \in MintIds \ {m} : mint'[n] = mint[n]
           /\ mint'[m].writer = w
           /\ mint'[m].quantity_minted = mint[m].quantity_minted
           /\ mint'[m].quantity_sold = mint[m].quantity_sold + quantity
           /\ mint'[m].escrow = mint[m].escrow - quantity
           /\ tokens' = [tokens EXCEPT ![h] = tokens[h] + quantity]
           /\ usdc' = usdc + Banked(m, quantity)
           /\ UNCHANGED <<now, record, usdcOpen, opened, rebases>>
  <1> DEFINE w      == mint[m].writer
             total  == quantity * mint[m].premium
             share  == Banked(m, quantity)
             credit == Credit(share)
  <1>1. /\ quantity \in Nat /\ w \in Writers /\ mint[m] \in Mint
        /\ vault \in Vault /\ position[w] \in Position
        /\ quantity <= mint[m].escrow /\ now < Expiry /\ ~vault.is_settled
    BY InputsAssumption DEF TypeOK, PurchaseFromVault
  <1>2. total \in Nat
    BY <1>1, MintFields
  <1>3. share \in Nat
    BY <1>2, FeeAtMost DEF Banked
  <1>4. /\ usdc' = usdc + share
        /\ UNCHANGED <<now, record, usdcOpen, opened, rebases>>
        /\ vault' = [vault EXCEPT
                       !.total_options_sold = @ + quantity,
                       !.premium_per_share =
                          IF vault.total_shares > 0
                          THEN @ + MulDiv(share, Scale, vault.total_shares)
                          ELSE @]
        /\ position' = [position EXCEPT ![w] =
                          [position[w] EXCEPT !.options_sold = @ + quantity]]
        /\ mint' = [mint EXCEPT ![m] =
                      [mint[m] EXCEPT !.quantity_sold = @ + quantity,
                                      !.escrow = @ - quantity]]
        /\ tokens' = [tokens EXCEPT ![h] = tokens[h] + quantity]
    BY Zenon DEF PurchaseFromVault, Banked
  <1> HIDE DEF share
  <1>6. credit \in Nat
    BY <1>3, CreditNat
  <1>7. /\ vault'.total_options_sold = vault.total_options_sold + quantity
        /\ vault'.total_options_minted = vault.total_options_minted
        /\ vault'.premium_per_share = vault.premium_per_share + credit
        /\ PoolSame /\ PhaseSame
    <2>1. /\ vault.premium_per_share + 0 = vault.premium_per_share
      BY <1>1, VaultFields
    <2>. QED
      BY <1>1, <1>4, <2>1 DEF Vault, Credit, PoolSame, PhaseSame
  <1>8. /\ \A v \in Writers \ {w} : position'[v] = position[v]
        /\ position'[w].options_sold = position[w].options_sold + quantity
        /\ position'[w].options_minted = position[w].options_minted
        /\ StakeSame(w) /\ PremiumSame(w)
    BY <1>1, <1>4 DEF TypeOK, Position, StakeSame, PremiumSame
  <1>9. /\ \A n \in MintIds \ {m} : mint'[n] = mint[n]
        /\ mint'[m].writer = w
        /\ mint'[m].quantity_minted = mint[m].quantity_minted
        /\ mint'[m].quantity_sold = mint[m].quantity_sold + quantity
        /\ mint'[m].escrow = mint[m].escrow - quantity
    BY <1>1, <1>4 DEF TypeOK, Mint
  <1> HIDE DEF credit, w
  <1>. QED
    BY <1>1, <1>3, <1>4, <1>6, <1>7, <1>8, <1>9 DEF credit, w, share

(* burn_unsold_from_vault removes a mint's escrow from every counter. *)
LEMMA BurnEffect ==
    ASSUME TypeOK, NEW w \in Writers, NEW m \in MintIds, BurnUnsold(w, m)
    PROVE  LET unsold == mint[m].escrow IN
           /\ w = mint[m].writer
           /\ unsold <= mint[m].quantity_minted
           /\ unsold <= position[w].options_minted
           /\ unsold <= vault.total_options_minted
           /\ vault'.total_options_minted = vault.total_options_minted - unsold
           /\ vault'.total_options_sold = vault.total_options_sold
           /\ vault'.premium_per_share = vault.premium_per_share
           /\ PoolSame /\ PhaseSame
           /\ \A v \in Writers \ {w} : position'[v] = position[v]
           /\ position'[w].options_minted = position[w].options_minted - unsold
           /\ position'[w].options_sold = position[w].options_sold
           /\ StakeSame(w) /\ PremiumSame(w)
           /\ \A n \in MintIds \ {m} : mint'[n] = mint[n]
           /\ mint'[m].writer = w
           /\ mint'[m].quantity_minted = mint[m].quantity_minted - unsold
           /\ mint'[m].quantity_sold = mint[m].quantity_sold
           /\ mint'[m].escrow = 0
           /\ UNCHANGED <<now, record, usdc, usdcOpen, opened, tokens, rebases>>
  <1> DEFINE unsold == mint[m].escrow
  <1>1. vault \in Vault /\ position[w] \in Position /\ mint[m] \in Mint
    BY DEF TypeOK
  <1>2. /\ w = mint[m].writer
        /\ unsold <= mint[m].quantity_minted
        /\ unsold <= position[w].options_minted
        /\ unsold <= vault.total_options_minted
        /\ vault' = [vault EXCEPT !.total_options_minted = @ - unsold]
        /\ position' = [position EXCEPT ![w] =
                          [position[w] EXCEPT !.options_minted = @ - unsold]]
        /\ mint' = [mint EXCEPT ![m] =
                      [mint[m] EXCEPT !.escrow = 0, !.quantity_minted = @ - unsold]]
        /\ UNCHANGED <<now, record, usdc, usdcOpen, opened, tokens, rebases>>
    BY Zenon DEF BurnUnsold
  <1> HIDE DEF unsold
  <1>3. /\ vault'.total_options_minted = vault.total_options_minted - unsold
        /\ vault'.total_options_sold = vault.total_options_sold
        /\ vault'.premium_per_share = vault.premium_per_share
        /\ PoolSame /\ PhaseSame
    BY <1>1, <1>2 DEF Vault, PoolSame, PhaseSame
  <1>4. /\ \A v \in Writers \ {w} : position'[v] = position[v]
        /\ position'[w].options_minted = position[w].options_minted - unsold
        /\ position'[w].options_sold = position[w].options_sold
        /\ StakeSame(w) /\ PremiumSame(w)
    BY <1>1, <1>2 DEF TypeOK, Position, StakeSame, PremiumSame
  <1>5. /\ \A n \in MintIds \ {m} : mint'[n] = mint[n]
        /\ mint'[m].writer = mint[m].writer
        /\ mint'[m].quantity_minted = mint[m].quantity_minted - unsold
        /\ mint'[m].quantity_sold = mint[m].quantity_sold
        /\ mint'[m].escrow = 0
    BY <1>1, <1>2 DEF TypeOK, Mint
  <1>. QED
    BY <1>2, <1>3, <1>4, <1>5 DEF unsold

(* withdraw_from_vault takes out as much collateral as shares, all of it    *)
(* free of the writer's options, from a position with no premium to claim.  *)
LEMMA WithdrawEffect ==
    ASSUME TypeOK, SharesTrackCollateral, NEW w \in Writers,
           NEW shares \in Amounts, WithdrawFromVault(w, shares)
    PROVE  LET left == position[w].shares - shares IN
           /\ Live
           /\ shares \in Nat /\ left \in Nat
           /\ Earned(left, vault.premium_per_share, Scale) \in Nat
           /\ shares <= vault.total_shares /\ shares <= usdc
           /\ UnclaimedPremium(w) = 0
           /\ position[w].options_minted * Strike <= left
           /\ AmericanGate(shares)
           /\ vault'.total_collateral = vault.total_collateral - shares
           /\ vault'.total_shares = vault.total_shares - shares
           /\ vault'.premium_per_share = vault.premium_per_share
           /\ CountersSame /\ PhaseSame
           /\ \A v \in Writers \ {w} : position'[v] = position[v]
           /\ position'[w].shares = left
           /\ position'[w].deposited = left
           /\ position'[w].debt = Earned(left, vault.premium_per_share, Scale)
           /\ position'[w].claimed = 0
           /\ OptionsSame(w)
           /\ usdc' = usdc - shares
           /\ rebases' = rebases + 1
           /\ UNCHANGED <<now, record, usdcOpen, opened, mint, tokens>>
  <1> DEFINE amount == ShareValue(shares, vault.total_collateral, vault.total_shares)
             left   == position[w].shares - shares
             debt   == Earned(left, vault.premium_per_share, Scale)
  <1>1. /\ vault \in Vault /\ position[w] \in Position
        /\ shares \in Nat /\ shares > 0 /\ shares <= vault.total_shares
        /\ shares <= position[w].shares
        /\ Live
        /\ Strike \in Nat
    BY InputsAssumption, ParametersAssumption DEF TypeOK, WithdrawFromVault
  <1>2. /\ vault.total_shares = vault.total_collateral
        /\ position[w].deposited = position[w].shares
        /\ vault.total_shares \in Nat /\ vault.total_shares > 0
        /\ position[w].shares \in Nat /\ position[w].options_minted \in Nat
    BY <1>1, VaultFields, PositionFields DEF SharesTrackCollateral
  <1>3. amount = shares
    BY <1>1, <1>2, MulDivPar DEF ShareValue
  <1>4. WriterCollateral(w) = position[w].shares
    BY <1>2, MulDivPar DEF WriterCollateral, ShareValue
  <1>5. SaturatingSub(position[w].deposited, amount) = left
    BY <1>1, <1>2, <1>3 DEF SaturatingSub
  <1>6. left \in Nat
    BY <1>1, <1>2
  <1>7. debt \in Nat
    BY <1>1, <1>6, EarnedNat, VaultFields, Zenon
  <1>8. /\ UnclaimedPremium(w) = 0
        /\ WriterCollateral(w) >= Committed(w)
        /\ amount <= WriterCollateral(w) - Committed(w)
        /\ AmericanGate(amount)
        /\ amount <= usdc
        /\ usdc' = usdc - amount
        /\ rebases' = rebases + 1
        /\ vault' = [vault EXCEPT !.total_collateral = vault.total_collateral - amount,
                                  !.total_shares = vault.total_shares - shares]
        /\ position' = [position EXCEPT ![w] =
                          [position[w] EXCEPT
                             !.shares = left,
                             !.deposited = SaturatingSub(position[w].deposited, amount),
                             !.debt = debt, !.claimed = 0]]
        /\ UNCHANGED <<now, record, usdcOpen, opened, mint, tokens>>
    BY DEF WithdrawFromVault
  <1> HIDE DEF amount, debt
  <1>9. position[w].options_minted * Strike <= left
    <2>1. position[w].options_minted * Strike \in Nat
      BY <1>1, <1>2
    <2>. QED
      BY <1>1, <1>2, <1>3, <1>4, <1>8, <2>1 DEF Committed, CollateralPerContract
  <1>10. /\ \A v \in Writers \ {w} : position'[v] = position[v]
         /\ position'[w].shares = left
         /\ position'[w].deposited = left
         /\ position'[w].debt = debt
         /\ position'[w].claimed = 0
         /\ OptionsSame(w)
    <2> HIDE DEF left
    <2>. QED
      BY <1>1, <1>5, <1>8 DEF TypeOK, Position, OptionsSame
  <1>11. /\ vault'.total_collateral = vault.total_collateral - shares
         /\ vault'.total_shares = vault.total_shares - shares
         /\ vault'.premium_per_share = vault.premium_per_share
         /\ CountersSame /\ PhaseSame
    BY <1>1, <1>3, <1>8 DEF Vault, CountersSame, PhaseSame
  <1>. QED
    BY <1>1, <1>3, <1>6, <1>7, <1>8, <1>9, <1>10, <1>11 DEF debt

(* claim_premium only moves what is claimable from the account. *)
LEMMA ClaimEffect ==
    ASSUME TypeOK, NEW w \in Writers, ClaimPremium(w)
    PROVE  /\ UnclaimedPremium(w) \in Nat /\ UnclaimedPremium(w) <= usdc
           /\ \A v \in Writers \ {w} : position'[v] = position[v]
           /\ position'[w].claimed = position[w].claimed + UnclaimedPremium(w)
           /\ position'[w].debt = position[w].debt
           /\ StakeSame(w) /\ OptionsSame(w)
           /\ usdc' = usdc - UnclaimedPremium(w)
           /\ UNCHANGED <<now, record, vault, usdcOpen, opened, mint, tokens, rebases>>
  <1>1. position[w] \in Position
    BY DEF TypeOK
  <1>2. /\ UnclaimedPremium(w) <= usdc
        /\ position' = [position EXCEPT ![w] =
                          [position[w] EXCEPT !.claimed = @ + UnclaimedPremium(w)]]
        /\ usdc' = usdc - UnclaimedPremium(w)
        /\ UNCHANGED <<now, record, vault, usdcOpen, opened, mint, tokens, rebases>>
    BY DEF ClaimPremium
  <1>. QED
    BY <1>1, <1>2, PremiumNat DEF TypeOK, Position, StakeSame, OptionsSame

(* A holder is paid from the remaining collateral, as far as it goes. *)
LEMMA PayEffect ==
    ASSUME TypeOK, NEW h \in Holders, NEW quantity \in Nat, quantity <= tokens[h],
           PayHolder(h, quantity)
    PROVE  LET payout == Smaller(quantity * Payoff, vault.collateral_remaining) IN
           /\ payout \in Nat /\ payout <= usdc
           /\ payout <= vault.collateral_remaining
           /\ payout <= quantity * Payoff
           /\ usdc' = usdc - payout
           /\ vault'.collateral_remaining = vault.collateral_remaining - payout
           /\ vault'.premium_per_share = vault.premium_per_share
           /\ vault'.settlement_price = vault.settlement_price
           /\ vault'.is_settled = vault.is_settled
           /\ vault'.voided = vault.voided
           /\ PoolSame /\ CountersSame
           /\ tokens[h] - quantity \in Nat
           /\ tokens' = [tokens EXCEPT ![h] = tokens[h] - quantity]
           /\ UNCHANGED <<now, record, usdcOpen, position, opened, mint, rebases>>
  <1> DEFINE payout == Smaller(quantity * Payoff, vault.collateral_remaining)
  <1>1. /\ vault \in Vault /\ vault.collateral_remaining \in Nat
        /\ tokens[h] \in Nat /\ quantity * Payoff \in Nat
    BY VaultFields, PayoffNat DEF TypeOK
  <1>2. /\ payout \in Nat /\ payout <= vault.collateral_remaining
        /\ payout <= quantity * Payoff
    BY <1>1 DEF Smaller
  <1>3. /\ payout <= usdc
        /\ tokens' = [tokens EXCEPT ![h] = tokens[h] - quantity]
        /\ usdc' = usdc - payout
        /\ vault' = [vault EXCEPT !.collateral_remaining = @ - payout]
        /\ UNCHANGED <<now, record, usdcOpen, position, opened, mint, rebases>>
    BY DEF PayHolder
  <1> HIDE DEF payout
  <1>. QED
    BY <1>1, <1>2, <1>3 DEF Vault, PoolSame, CountersSame, payout

(* What a finalized escrow is paid moves nothing but the pool's remainder.  *)
LEMMA EscrowPay ==
    ASSUME TypeOK, NEW m \in MintIds, AutoFinalizeEscrow(m)
    PROVE  /\ \E r \in Nat :
                 /\ r = Smaller(mint[m].escrow * Payoff, vault.collateral_remaining)
                 /\ usdc' = usdc - r
                 /\ vault'.collateral_remaining = vault.collateral_remaining - r
           /\ vault'.premium_per_share = vault.premium_per_share
           /\ vault'.settlement_price = vault.settlement_price
           /\ vault.is_settled /\ vault'.is_settled = vault.is_settled
           /\ vault'.is_settled
           /\ vault'.voided = vault.voided
           /\ vault'.writer_ask_swept = vault.writer_ask_swept
           /\ vault'.writer_ask_equiv_shares = vault.writer_ask_equiv_shares
           /\ vault'.exercised_options = vault.exercised_options
           /\ vault'.early_exercise_payout = vault.early_exercise_payout
           /\ PoolSame /\ CountersSame
  <1>1. vault \in Vault
    BY DEF TypeOK
  <1>2. PICK r \in Nat :
           /\ r = Smaller(mint[m].escrow * Payoff, vault.collateral_remaining)
           /\ usdc' = usdc - r
           /\ vault' = [vault EXCEPT !.collateral_remaining = @ - r]
    BY EscrowEffect
  <1>3. vault.is_settled
    BY EscrowEffect
  <1>4. /\ vault'.collateral_remaining = vault.collateral_remaining - r
        /\ vault'.premium_per_share = vault.premium_per_share
        /\ vault'.settlement_price = vault.settlement_price
        /\ vault'.is_settled = vault.is_settled
        /\ vault'.voided = vault.voided
        /\ vault'.writer_ask_swept = vault.writer_ask_swept
        /\ vault'.writer_ask_equiv_shares = vault.writer_ask_equiv_shares
        /\ vault'.exercised_options = vault.exercised_options
        /\ vault'.early_exercise_payout = vault.early_exercise_payout
        /\ PoolSame /\ CountersSame
    BY <1>1, <1>2, Zenon DEF Vault, PoolSame, CountersSame
  <1>. QED
    BY <1>2, <1>3, <1>4

---------------------------------------------------------------------------
(* What one changed account does to a total. *)

MintedOf == SumFunction([w \in Writers |-> position[w].options_minted])
SoldOf   == SumFunction([w \in Writers |-> position[w].options_sold])

(* The contracts that wait in the escrows of one writer's mints. *)
EscrowAt(w, m) == IF mint[m].writer = w THEN mint[m].escrow ELSE 0
EscrowOf(w)    == SumFunction([m \in MintIds |-> EscrowAt(w, m)])

(* The share count follows the one position that changed. *)
LEMMA SharesChange ==
    ASSUME TypeOK, TypeOK', NEW w \in Writers,
           \A v \in Writers \ {w} : position'[v].shares = position[v].shares
    PROVE  /\ SharesOf \in Nat /\ SharesOf' \in Nat
           /\ SharesOf' = SharesOf + (position'[w].shares - position[w].shares)
  <1> DEFINE f == [v \in Writers |-> position[v].shares]
             g == [v \in Writers |-> position'[v].shares]
  <1>1. f \in [Writers -> Nat] /\ g \in [Writers -> Nat]
    BY PositionFields DEF TypeOK
  <1>2. SharesOf = SumFunction(f) /\ SharesOf' = SumFunction(g)
    BY DEF SharesOf
  <1>3. /\ f[w] = position[w].shares /\ g[w] = position'[w].shares
        /\ \A v \in Writers \ {w} : g[v] = f[v]
    OBVIOUS
  <1> HIDE DEF f, g
  <1>4. f \in [Writers -> Int] /\ g \in [Writers -> Int]
    BY <1>1
  <1>5. SumFunction(g) = SumFunction(f) + (g[w] - f[w])
    BY <1>3, <1>4, TotalChange, FiniteAssumption
  <1>6. SumFunction(f) \in Nat /\ SumFunction(g) \in Nat
    BY <1>1, TotalNat, FiniteAssumption
  <1>. QED
    BY <1>2, <1>3, <1>5, <1>6

(* So do the writers' counts of minted options. *)
LEMMA MintedChange ==
    ASSUME TypeOK, TypeOK', NEW w \in Writers,
           \A v \in Writers \ {w} :
              position'[v].options_minted = position[v].options_minted
    PROVE  /\ MintedOf \in Nat /\ MintedOf' \in Nat
           /\ MintedOf' = MintedOf
                + (position'[w].options_minted - position[w].options_minted)
  <1> DEFINE f == [v \in Writers |-> position[v].options_minted]
             g == [v \in Writers |-> position'[v].options_minted]
  <1>1. f \in [Writers -> Nat] /\ g \in [Writers -> Nat]
    BY PositionFields DEF TypeOK
  <1>2. MintedOf = SumFunction(f) /\ MintedOf' = SumFunction(g)
    BY DEF MintedOf
  <1>3. /\ f[w] = position[w].options_minted /\ g[w] = position'[w].options_minted
        /\ \A v \in Writers \ {w} : g[v] = f[v]
    OBVIOUS
  <1> HIDE DEF f, g
  <1>4. f \in [Writers -> Int] /\ g \in [Writers -> Int]
    BY <1>1
  <1>5. SumFunction(g) = SumFunction(f) + (g[w] - f[w])
    BY <1>3, <1>4, TotalChange, FiniteAssumption
  <1>6. SumFunction(f) \in Nat /\ SumFunction(g) \in Nat
    BY <1>1, TotalNat, FiniteAssumption
  <1>. QED
    BY <1>2, <1>3, <1>5, <1>6

(* And their counts of sold ones. *)
LEMMA SoldChange ==
    ASSUME TypeOK, TypeOK', NEW w \in Writers,
           \A v \in Writers \ {w} : position'[v].options_sold = position[v].options_sold
    PROVE  /\ SoldOf \in Nat /\ SoldOf' \in Nat
           /\ SoldOf' = SoldOf + (position'[w].options_sold - position[w].options_sold)
  <1> DEFINE f == [v \in Writers |-> position[v].options_sold]
             g == [v \in Writers |-> position'[v].options_sold]
  <1>1. f \in [Writers -> Nat] /\ g \in [Writers -> Nat]
    BY PositionFields DEF TypeOK
  <1>2. SoldOf = SumFunction(f) /\ SoldOf' = SumFunction(g)
    BY DEF SoldOf
  <1>3. /\ f[w] = position[w].options_sold /\ g[w] = position'[w].options_sold
        /\ \A v \in Writers \ {w} : g[v] = f[v]
    OBVIOUS
  <1> HIDE DEF f, g
  <1>4. f \in [Writers -> Int] /\ g \in [Writers -> Int]
    BY <1>1
  <1>5. SumFunction(g) = SumFunction(f) + (g[w] - f[w])
    BY <1>3, <1>4, TotalChange, FiniteAssumption
  <1>6. SumFunction(f) \in Nat /\ SumFunction(g) \in Nat
    BY <1>1, TotalNat, FiniteAssumption
  <1>. QED
    BY <1>2, <1>3, <1>5, <1>6

(* What is in escrow follows the one mint that changed, in the total ...    *)
LEMMA EscrowedChange ==
    ASSUME TypeOK, TypeOK', NEW m \in MintIds,
           \A n \in MintIds \ {m} : mint'[n] = mint[n]
    PROVE  /\ Escrowed \in Nat /\ Escrowed' \in Nat
           /\ mint[m].escrow <= Escrowed
           /\ Escrowed' = Escrowed + (mint'[m].escrow - mint[m].escrow)
  <1> DEFINE f == [n \in MintIds |-> mint[n].escrow]
             g == [n \in MintIds |-> mint'[n].escrow]
  <1>1. f \in [MintIds -> Nat] /\ g \in [MintIds -> Nat]
    BY MintFields DEF TypeOK
  <1>2. Escrowed = SumFunction(f) /\ Escrowed' = SumFunction(g)
    BY DEF Escrowed
  <1>3. /\ f[m] = mint[m].escrow /\ g[m] = mint'[m].escrow
        /\ \A n \in MintIds \ {m} : g[n] = f[n]
    OBVIOUS
  <1> HIDE DEF f, g
  <1>4. f \in [MintIds -> Int] /\ g \in [MintIds -> Int]
    BY <1>1
  <1>5. SumFunction(g) = SumFunction(f) + (g[m] - f[m])
    BY <1>3, <1>4, TotalChange, FiniteAssumption
  <1>6. SumFunction(f) \in Nat /\ SumFunction(g) \in Nat /\ f[m] <= SumFunction(f)
    BY <1>1, TotalNat, FiniteAssumption
  <1>. QED
    BY <1>2, <1>3, <1>5, <1>6

(* ... and in what one writer has there. *)
LEMMA EscrowOfChange ==
    ASSUME TypeOK, TypeOK', NEW w \in Writers, NEW m \in MintIds,
           \A n \in MintIds \ {m} : mint'[n] = mint[n]
    PROVE  /\ EscrowOf(w) \in Nat /\ EscrowOf(w)' \in Nat
           /\ EscrowAt(w, m) \in Nat /\ EscrowAt(w, m)' \in Nat
           /\ EscrowAt(w, m) <= EscrowOf(w)
           /\ EscrowOf(w)' = EscrowOf(w) + (EscrowAt(w, m)' - EscrowAt(w, m))
  <1> DEFINE f == [n \in MintIds |-> EscrowAt(w, n)]
             g == [n \in MintIds |-> EscrowAt(w, n)']
  <1>1. f \in [MintIds -> Nat] /\ g \in [MintIds -> Nat]
    BY MintFields DEF TypeOK, EscrowAt
  <1>2. EscrowOf(w) = SumFunction(f) /\ EscrowOf(w)' = SumFunction(g)
    BY DEF EscrowOf
  <1>3. /\ f[m] = EscrowAt(w, m) /\ g[m] = EscrowAt(w, m)'
        /\ \A n \in MintIds \ {m} : g[n] = f[n]
    BY DEF EscrowAt
  <1> HIDE DEF f, g
  <1>4. f \in [MintIds -> Int] /\ g \in [MintIds -> Int]
    BY <1>1
  <1>5. SumFunction(g) = SumFunction(f) + (g[m] - f[m])
    BY <1>3, <1>4, TotalChange, FiniteAssumption
  <1>6. SumFunction(f) \in Nat /\ SumFunction(g) \in Nat /\ f[m] <= SumFunction(f)
    BY <1>1, TotalNat, FiniteAssumption
  <1>7. f[m] \in Nat /\ g[m] \in Nat
    BY <1>1
  <1>. QED
    BY <1>2, <1>3, <1>5, <1>6, <1>7

(* The tokens in the holders' hands follow the one balance that changed. *)
LEMMA TokensChange ==
    ASSUME tokens \in [Holders -> Nat], NEW h \in Holders, NEW n \in Nat,
           tokens' = [tokens EXCEPT ![h] = n]
    PROVE  /\ TokensHeld \in Nat /\ TokensHeld' \in Nat
           /\ tokens[h] <= TokensHeld
           /\ TokensHeld' = TokensHeld + (n - tokens[h])
  <1> DEFINE f == tokens
             g == [tokens EXCEPT ![h] = n]
  <1>1. /\ f \in [Holders -> Nat] /\ g \in [Holders -> Nat]
        /\ f \in [Holders -> Int] /\ g \in [Holders -> Int]
        /\ g[h] = n
        /\ \A x \in Holders \ {h} : g[x] = f[x]
    OBVIOUS
  <1>2. TokensHeld = SumFunction(f) /\ TokensHeld' = SumFunction(g) /\ f[h] = tokens[h]
    BY DEF TokensHeld
  <1> HIDE DEF f, g
  <1>3. SumFunction(g) = SumFunction(f) + (g[h] - f[h])
    BY <1>1, TotalChange, FiniteAssumption, Zenon
  <1>4. SumFunction(f) \in Nat /\ SumFunction(g) \in Nat /\ f[h] <= SumFunction(f)
    BY <1>1, TotalNat, FiniteAssumption, Zenon
  <1>. QED
    BY <1>1, <1>2, <1>3, <1>4

(* Every total is a natural number. *)
LEMMA TotalsNat ==
    ASSUME TypeOK
    PROVE  /\ SharesOf \in Nat /\ MintedOf \in Nat /\ SoldOf \in Nat
           /\ Escrowed \in Nat /\ TokensHeld \in Nat
           /\ \A w \in Writers : /\ EscrowOf(w) \in Nat
                                 /\ position[w].shares <= SharesOf
                                 /\ position[w].options_sold <= SoldOf
  <1> DEFINE s == [w \in Writers |-> position[w].shares]
             n == [w \in Writers |-> position[w].options_minted]
             o == [w \in Writers |-> position[w].options_sold]
             e == [m \in MintIds |-> mint[m].escrow]
             a(w) == [m \in MintIds |-> EscrowAt(w, m)]
  <1>1. s \in [Writers -> Nat] /\ n \in [Writers -> Nat] /\ o \in [Writers -> Nat]
    BY PositionFields DEF TypeOK
  <1>2. e \in [MintIds -> Nat] /\ \A w : a(w) \in [MintIds -> Nat]
    BY MintFields DEF TypeOK, EscrowAt
  <1>3. /\ \A w \in Writers : s[w] = position[w].shares /\ o[w] = position[w].options_sold
        /\ SharesOf = SumFunction(s) /\ MintedOf = SumFunction(n)
        /\ SoldOf = SumFunction(o) /\ Escrowed = SumFunction(e)
        /\ TokensHeld = SumFunction(tokens)
        /\ \A w : EscrowOf(w) = SumFunction(a(w))
    BY DEF SharesOf, MintedOf, SoldOf, Escrowed, TokensHeld, EscrowOf
  <1> HIDE DEF s, n, o, e, a
  <1>4. /\ SumFunction(s) \in Nat /\ \A w \in Writers : s[w] <= SumFunction(s)
        /\ SumFunction(o) \in Nat /\ \A w \in Writers : o[w] <= SumFunction(o)
        /\ SumFunction(n) \in Nat
    BY <1>1, TotalNat, FiniteAssumption
  <1>5. SumFunction(e) \in Nat /\ \A w : SumFunction(a(w)) \in Nat
    BY <1>2, TotalNat, FiniteAssumption
  <1>6. SumFunction(tokens) \in Nat
    BY TotalNat, FiniteAssumption DEF TypeOK
  <1>. QED
    BY <1>3, <1>4, <1>5, <1>6

---------------------------------------------------------------------------
(* The instructions that do not end the vault; an American vault has them,  *)
(* too.                                                                     *)

CommonStep ==
    \/ WriterStep
    \/ HolderStep
    \/ OracleStep
    \/ Tick
    \/ \E h \in Holders : AutoFinalizeHolder(h)
    \/ \E m \in MintIds : AutoFinalizeEscrow(m)
    \/ \E batch \in SUBSET Writers : AutoFinalizeWriters(batch)
    \/ \E w \in Writers : ReclaimUnsettled(w)
    \/ CloseDrainedVault

(* Every other step settles or voids. *)
LEMMA NextIsCommon == Next <=> CommonStep \/ SettleVault \/ InitializeVoid
    BY DEF Next, CommonStep, CrankStep

(* Before expiry a vault that is not settled is live. *)
LEMMA LiveBefore ==
    ASSUME TypeOK, Ending, now < Expiry, ~vault.is_settled
    PROVE  Live
  <1>1. now \in Nat /\ Expiry \in Nat
    BY ParametersAssumption DEF TypeOK
  <1>. QED
    BY <1>1 DEF Ending, Live

(* The share count moves with the writers' shares. *)
ShareCountMoves ==
    /\ SharesOf \in Nat /\ SharesOf' \in Nat
    /\ vault'.total_shares + SharesOf = vault.total_shares + SharesOf'

(* A step that leaves both alone keeps them together ... *)
LEMMA CountUntouched ==
    ASSUME TypeOK, vault'.total_shares = vault.total_shares,
           \A v \in Writers : position'[v].shares = position[v].shares
    PROVE  ShareCountMoves
  <1>1. SharesOf' = SharesOf
    <2>1. [v \in Writers |-> position'[v].shares] = [v \in Writers |-> position[v].shares]
      OBVIOUS
    <2>. QED
      BY <2>1 DEF SharesOf
  <1>. QED
    BY <1>1, TotalsNat DEF ShareCountMoves

(* ... and so does one that changes both by the same amount. *)
LEMMA CountOne ==
    ASSUME TypeOK, TypeOK', NEW w \in Writers,
           \A v \in Writers \ {w} : position'[v].shares = position[v].shares,
           vault'.total_shares - vault.total_shares
             = position'[w].shares - position[w].shares
    PROVE  ShareCountMoves
  <1>1. /\ SharesOf \in Nat /\ SharesOf' \in Nat
        /\ SharesOf' = SharesOf + (position'[w].shares - position[w].shares)
    BY SharesChange
  <1>2. vault.total_shares \in Nat /\ vault'.total_shares \in Nat
    BY VaultFields DEF TypeOK
  <1>3. position[w].shares \in Nat /\ position'[w].shares \in Nat
    BY PositionFields DEF TypeOK
  <1>. QED
    BY <1>1, <1>2, <1>3 DEF ShareCountMoves

(* A writer whose share is taken out is left with no shares.                *)
LEMMA CountRelease ==
    ASSUME TypeOK, TypeOK', NEW w \in Writers, ReleaseShare(w),
           \A v \in Writers \ {w} : position'[v].shares = position[v].shares,
           position'[w].shares = 0
    PROVE  ShareCountMoves
  <1>1. /\ position[w].shares \in Nat
        /\ vault'.total_shares = vault.total_shares - position[w].shares
    BY ReleaseEffect
  <1>2. vault.total_shares \in Nat
    BY VaultFields DEF TypeOK
  <1>. QED
    BY <1>1, <1>2, CountOne

(* What the crank's batch does to the positions. *)
LEMMA BatchEffect ==
    ASSUME TypeOK, NEW batch \in SUBSET Writers, AutoFinalizeWriters(batch)
    PROVE  /\ ~Live /\ vault.is_settled /\ usdcOpen
           /\ ExerciseWindowOver
           /\ UNCHANGED <<now, record, mint, tokens, rebases>>
           /\ \A v \in batch : position'[v] = EmptyPosition
           /\ \A v \in Writers \ batch : position'[v] = position[v]
           /\ \/ /\ \A v \in batch : position[v].shares = 0
                 /\ vault' = vault
                 /\ SweepIfDrained(usdc)
              \/ \E w \in batch :
                    /\ ReleaseShare(w)
                    /\ SweepIfDrained(usdc - UnclaimedPremium(w) - WriterRemaining(w))
                    /\ \A v \in batch \ {w} : position[v].shares = 0
  <1> DEFINE funded == {w \in batch : position[w].shares > 0}
  <1>1. \A v \in batch : position[v].shares \in Nat
    BY PositionFields DEF TypeOK
  <1>2. \A v \in batch \ funded : position[v].shares = 0
    BY <1>1
  <1>3. \/ funded = {} /\ vault' = vault /\ SweepIfDrained(usdc)
        \/ \E w \in funded :
              /\ funded = {w}
              /\ ReleaseShare(w)
              /\ SweepIfDrained(usdc - UnclaimedPremium(w) - WriterRemaining(w))
    BY DEF AutoFinalizeWriters
  <1>4. /\ ~Live /\ vault.is_settled /\ usdcOpen /\ ExerciseWindowOver
        /\ UNCHANGED <<now, record, mint, tokens, rebases>>
        /\ \A v \in batch : position'[v] = EmptyPosition
        /\ \A v \in Writers \ batch : position'[v] = position[v]
    BY DEF AutoFinalizeWriters, Live
  <1>. QED
    BY <1>2, <1>3, <1>4

(* No instruction lets the count and the shares drift apart. *)
LEMMA CommonCount ==
    ASSUME TypeOK, TypeOK', Ending, SharesTrackCollateral, CommonStep
    PROVE  ShareCountMoves
  <1>1. /\ vault \in Vault /\ \A w \in Writers : position[w] \in Position
        /\ \A w \in Writers : position[w].shares \in Nat
        /\ vault.total_shares \in Nat
    BY VaultFields, PositionFields DEF TypeOK
  <1>2. ASSUME NEW w \in Writers, NEW amount \in Amounts, Deposit(w, amount)
        PROVE  ShareCountMoves
    <2>1. now < Expiry /\ ~vault.is_settled
      BY <1>2 DEF Deposit
    <2>2. Live
      BY <2>1, LiveBefore
    <2>3. /\ amount \in Nat
          /\ vault'.total_shares = vault.total_shares + amount
          /\ \A v \in Writers \ {w} : position'[v] = position[v]
          /\ position'[w].shares = position[w].shares + amount
      BY <1>2, <2>2, DepositEffect
    <2>. QED
      BY <1>1, <2>3, CountOne
  <1>3. ASSUME NEW w \in Writers, NEW m \in MintIds, NEW quantity \in Quantities,
               NEW premium \in Premiums, MintFromVault(w, m, quantity, premium)
        PROVE  ShareCountMoves
    <2>1. /\ vault'.total_shares = vault.total_shares
          /\ \A v \in Writers : position'[v].shares = position[v].shares
      BY <1>1, <1>3 DEF MintFromVault, TypeOK, Vault, Position
    <2>. QED
      BY <2>1, CountUntouched
  <1>4. ASSUME NEW w \in Writers, NEW m \in MintIds, BurnUnsold(w, m)
        PROVE  ShareCountMoves
    <2>1. /\ vault'.total_shares = vault.total_shares
          /\ \A v \in Writers : position'[v].shares = position[v].shares
      BY <1>1, <1>4 DEF BurnUnsold, TypeOK, Vault, Position
    <2>. QED
      BY <2>1, CountUntouched
  <1>5. ASSUME NEW w \in Writers, NEW shares \in Amounts, WithdrawFromVault(w, shares)
        PROVE  ShareCountMoves
    <2>1. /\ shares \in Nat
          /\ vault'.total_shares = vault.total_shares - shares
          /\ \A v \in Writers \ {w} : position'[v] = position[v]
          /\ position'[w].shares = position[w].shares - shares
      BY <1>5, WithdrawEffect
    <2>. QED
      BY <1>1, <2>1, CountOne
  <1>6. ASSUME NEW w \in Writers, ClaimPremium(w)
        PROVE  ShareCountMoves
    <2>1. /\ vault'.total_shares = vault.total_shares
          /\ \A v \in Writers : position'[v].shares = position[v].shares
      BY <1>1, <1>6 DEF ClaimPremium, TypeOK, Position
    <2>. QED
      BY <2>1, CountUntouched
  <1>7. ASSUME NEW w \in Writers, WithdrawPostSettlement(w)
        PROVE  ShareCountMoves
    <2>1. /\ ReleaseShare(w)
          /\ \A v \in Writers \ {w} : position'[v] = position[v]
          /\ position'[w].shares = 0
      BY <1>1, <1>7 DEF WithdrawPostSettlement, TypeOK, EmptyPosition
    <2>. QED
      BY <2>1, CountRelease
  <1>8. ASSUME NEW w \in Writers, ReclaimUnsettled(w)
        PROVE  ShareCountMoves
    <2>1. /\ ReleaseShare(w)
          /\ \A v \in Writers \ {w} : position'[v] = position[v]
          /\ position'[w].shares = 0
      BY <1>1, <1>8 DEF ReclaimUnsettled, TypeOK, Position
    <2>. QED
      BY <2>1, CountRelease
  <1>9. ASSUME NEW batch \in SUBSET Writers, AutoFinalizeWriters(batch)
        PROVE  ShareCountMoves
    <2>0. EmptyPosition.shares = 0
      BY DEF EmptyPosition
    <2>1. CASE vault' = vault /\ \A v \in batch : position[v].shares = 0
      <3>1. \A v \in Writers : position'[v].shares = position[v].shares
        BY <1>9, <2>0, <2>1, BatchEffect
      <3>. QED
        BY <2>1, <3>1, CountUntouched
    <2>2. ASSUME NEW w \in batch, ReleaseShare(w),
                 \A v \in batch \ {w} : position[v].shares = 0
          PROVE  ShareCountMoves
      <3>1. /\ \A v \in Writers \ {w} : position'[v].shares = position[v].shares
            /\ position'[w].shares = 0
        BY <1>9, <2>0, <2>2, BatchEffect
      <3>. QED
        BY <2>2, <3>1, CountRelease
    <2>. QED
      BY <1>9, <2>1, <2>2, BatchEffect
  <1>10. ASSUME NEW h \in Holders, NEW m \in MintIds, NEW quantity \in Quantities,
                PurchaseFromVault(h, m, quantity)
         PROVE  ShareCountMoves
    <2>1. /\ vault'.total_shares = vault.total_shares
          /\ \A v \in Writers : position'[v].shares = position[v].shares
      BY <1>1, <1>10 DEF PurchaseFromVault, TypeOK, Vault, Position
    <2>. QED
      BY <2>1, CountUntouched
  <1>11. ASSUME NEW h \in Holders, NEW quantity \in Nat, PayHolder(h, quantity)
         PROVE  ShareCountMoves
    <2>1. /\ vault'.total_shares = vault.total_shares
          /\ \A v \in Writers : position'[v].shares = position[v].shares
      BY <1>1, <1>11 DEF PayHolder, Vault
    <2>. QED
      BY <2>1, CountUntouched
  <1>12. CASE OracleStep \/ Tick \/ CloseDrainedVault
    <2>1. vault' = vault /\ position' = position
      BY <1>12 DEF OracleStep, SettleExpiry, Tick, CloseDrainedVault
    <2>. QED
      BY <2>1, CountUntouched
  <1>13. CASE WriterStep
    BY <1>2, <1>3, <1>4, <1>5, <1>6, <1>7, <1>13 DEF WriterStep
  <1>14. CASE HolderStep
    BY <1>10, <1>11, <1>14, InputsAssumption DEF HolderStep, ExerciseFromVault
  <1>15. ASSUME NEW h \in Holders, AutoFinalizeHolder(h) PROVE ShareCountMoves
    BY <1>11, <1>15 DEF AutoFinalizeHolder, TypeOK
  <1>16. ASSUME NEW m \in MintIds, AutoFinalizeEscrow(m) PROVE ShareCountMoves
    BY <1>16, EscrowEffect, EscrowPay, CountUntouched DEF PoolSame
  <1>. QED
    BY <1>8, <1>9, <1>12, <1>13, <1>14, <1>15, <1>16 DEF CommonStep

(* The vault's share count is what its writers hold. *)
SharesCounted == vault.total_shares = SharesOf

(* Every step of a European vault keeps it that. *)
LEMMA NextCounted ==
    ASSUME ParInvariant, SharesCounted, [Next]_vars
    PROVE  SharesCounted'
  <1>1. TypeOK /\ TypeOK' /\ Ending /\ SharesTrackCollateral /\ vault \in Vault
    BY NextTyping DEF ParInvariant, TypeOK
  <1>2. ShareCountMoves
    <2>1. CASE CommonStep
      BY <1>1, <2>1, CommonCount
    <2>2. CASE SettleVault
      <3>1. vault'.total_shares = vault.total_shares /\ position' = position
        BY <1>1, <2>2, PotlessJoin, Zenon DEF SettleVault, SettleWith, Vault
      <3>. QED
        BY <1>1, <3>1, CountUntouched
    <2>3. CASE InitializeVoid
      <3>1. vault'.total_shares = vault.total_shares /\ position' = position
        BY <1>1, <2>3, PotlessJoin, Zenon DEF InitializeVoid, VoidWith, Vault
      <3>. QED
        BY <1>1, <3>1, CountUntouched
    <2>4. CASE UNCHANGED vars
      BY <1>1, <2>4, CountUntouched DEF vars
    <2>. QED
      BY <2>1, <2>2, <2>3, <2>4, NextIsCommon
  <1>3. vault.total_shares \in Nat /\ vault'.total_shares \in Nat
        /\ SharesOf \in Nat /\ SharesOf' \in Nat
    BY <1>1, <1>2, VaultFields DEF TypeOK, ShareCountMoves
  <1>. QED
    BY <1>2, <1>3 DEF ShareCountMoves, SharesCounted

(* No share of what remains is larger than what remains. *)
LEMMA RemainingAtMost ==
    ASSUME TypeOK, NEW w \in Writers, position[w].shares <= vault.total_shares
    PROVE  /\ WriterRemaining(w) \in Nat
           /\ WriterRemaining(w) <= vault.collateral_remaining
  <1>1. /\ vault.total_shares \in Nat /\ vault.collateral_remaining \in Nat
        /\ position[w].shares \in Nat
    BY VaultFields, PositionFields DEF TypeOK
  <1>2. CASE vault.total_shares = 0 \/ position[w].shares = 0
    BY <1>1, <1>2 DEF WriterRemaining
  <1>3. CASE vault.total_shares > 0 /\ position[w].shares # 0
    <2>1. WriterRemaining(w) = MulDiv(position[w].shares, vault.collateral_remaining,
                                      vault.total_shares)
      BY <1>1, <1>3 DEF WriterRemaining, ShareValue
    <2>2. /\ MulDiv(position[w].shares, vault.collateral_remaining,
                    vault.total_shares) \in Nat
          /\ MulDiv(position[w].shares, vault.collateral_remaining,
                    vault.total_shares) <= vault.collateral_remaining
      BY <1>1, <1>3, ExitKeeps, Zenon
    <2>. QED
      BY <2>1, <2>2
  <1>. QED
    BY <1>1, <1>2, <1>3

(* At the start nobody holds a share. *)
LEMMA InitCounted ==
    ASSUME Init
    PROVE  SharesCounted
  <1> DEFINE f == [w \in Writers |-> position[w].shares]
  <1>1. f \in [Writers -> Int] /\ \A w \in Writers : f[w] = 0
    BY DEF Init, EmptyPosition
  <1>2. SharesOf = SumFunction(f)
    BY DEF SharesOf
  <1> HIDE DEF f
  <1>3. SumFunction(f) = 0
    BY <1>1, TotalZero, FiniteAssumption
  <1>. QED
    BY <1>2, <1>3 DEF SharesCounted, Init, EmptyVault

(* The share count is the writers' shares, always. *)
THEOREM ShareCount == Spec => [](ParInvariant /\ SharesCounted)
  <1>1. Init => SharesCounted
    BY InitCounted
  <1>2. ParInvariant /\ SharesCounted /\ [Next]_vars => SharesCounted'
    BY NextCounted
  <1>. QED
    BY <1>1, <1>2, PoolAtPar, PTL DEF Spec

(* Whatever the order in which writers leave an ended vault, no exit trips  *)
(* over a checked_sub, and the one that leaves no share behind is the last. *)
THEOREM NoExitReverts == Spec => []ExitNeverReverts
  <1>1. ParInvariant /\ SharesCounted => ExitNeverReverts
    <2> SUFFICES ASSUME ParInvariant, SharesCounted PROVE ExitNeverReverts
      OBVIOUS
    <2>1. /\ TypeOK /\ SharesAtMostPar
          /\ vault.is_settled \in BOOLEAN /\ vault.voided \in BOOLEAN
          /\ vault.total_collateral \in Nat /\ vault.collateral_remaining \in Nat
      BY VaultFields DEF ParInvariant, TypeOK
    <2>2. ASSUME ~Live, NEW w \in Writers
          PROVE  /\ WriterRemaining(w) <= vault.collateral_remaining
                 /\ WriterRemaining(w) <= vault.total_collateral
                 /\ position[w].shares <= vault.total_shares
      <3>1. position[w].shares <= vault.total_shares
        BY <2>1, TotalsNat DEF SharesCounted
      <3>2. /\ WriterRemaining(w) \in Nat
            /\ WriterRemaining(w) <= vault.collateral_remaining
        BY <2>1, <3>1, RemainingAtMost
      <3>3. vault.collateral_remaining <= vault.total_collateral
        BY <2>1, <2>2 DEF Live, SharesAtMostPar
      <3>. QED
        BY <2>1, <3>1, <3>2, <3>3
    <2>. QED
      BY <2>2 DEF ExitNeverReverts, ExitsCovered, SharesCounted
  <1>. QED
    BY <1>1, ShareCount, PTL

---------------------------------------------------------------------------
(* The counters.  That burn_unsold_from_vault and a fresh deposit leave     *)
(* them in agreement needs the books of each single writer: what it minted  *)
(* is what it sold and what its own escrows hold, so that a position with   *)
(* no shares left, which the next deposit starts afresh, has no options.    *)

MintBooks(m) ==
    /\ mint[m].quantity_minted >= mint[m].quantity_sold + mint[m].escrow
    /\ ~vault.is_settled =>
          mint[m].quantity_minted = mint[m].quantity_sold + mint[m].escrow
    /\ mint[m].writer = NoWriter => mint[m].escrow = 0

WriterBooks ==
    /\ \A m \in MintIds : MintBooks(m)
    /\ Live => \A w \in Writers :
                  /\ Committed(w) <= position[w].shares
                  /\ position[w].options_minted
                        = position[w].options_sold + EscrowOf(w)

(* A step that leaves the mints alone, and of a live vault the options too, *)
(* keeps the books.                                                         *)
LEMMA BooksUntouched ==
    ASSUME WriterBooks, mint' = mint, vault.is_settled => vault'.is_settled,
           Live' => /\ Live
                    /\ \A w \in Writers :
                          /\ position'[w].options_minted = position[w].options_minted
                          /\ position'[w].options_sold = position[w].options_sold
                          /\ Committed(w) <= position'[w].shares
    PROVE  WriterBooks'
  <1>1. \A w : EscrowOf(w)' = EscrowOf(w)
    BY DEF EscrowOf, EscrowAt
  <1>2. ASSUME Live', NEW w \in Writers
        PROVE  /\ Committed(w)' <= position'[w].shares
               /\ position'[w].options_minted
                     = position'[w].options_sold + EscrowOf(w)'
    BY <1>1, <1>2 DEF WriterBooks, Committed
  <1>3. \A m \in MintIds : MintBooks(m)'
    BY DEF WriterBooks, MintBooks
  <1>. QED
    BY <1>2, <1>3 DEF WriterBooks

(* A live position without shares has no options. *)
LEMMA BarePosition ==
    ASSUME TypeOK, WriterBooks, Live, NEW w \in Writers, position[w].shares = 0
    PROVE  position[w].options_minted = 0 /\ position[w].options_sold = 0
  <1>1. /\ position[w].options_minted \in Nat /\ position[w].options_sold \in Nat
        /\ EscrowOf(w) \in Nat /\ Strike \in Nat /\ Strike > 0
    BY PositionFields, TotalsNat, ParametersAssumption DEF TypeOK
  <1>2. position[w].options_minted * Strike <= 0
    BY DEF WriterBooks, Committed, CollateralPerContract
  <1>3. position[w].options_minted = 0
    BY <1>1, <1>2
  <1>4. position[w].options_minted = position[w].options_sold + EscrowOf(w)
    BY DEF WriterBooks
  <1>. QED
    BY <1>1, <1>3, <1>4

(* deposit_to_vault keeps every position's options. *)
LEMMA DepositOptions ==
    ASSUME TypeOK, SharesTrackCollateral, WriterBooks, Live, NEW w \in Writers,
           NEW amount \in Amounts, Deposit(w, amount)
    PROVE  /\ \A v \in Writers :
                 /\ position'[v].options_minted = position[v].options_minted
                 /\ position'[v].options_sold = position[v].options_sold
                 /\ position[v].shares <= position'[v].shares
           /\ mint' = mint
  <1>1. /\ amount \in Nat
        /\ \A v \in Writers \ {w} : position'[v] = position[v]
        /\ position'[w].shares = position[w].shares + amount
        /\ mint' = mint
    BY DepositEffect
  <1>2. \A v \in Writers : position[v].shares \in Nat
    BY PositionFields DEF TypeOK
  <1>3. \/ /\ position[w].shares = 0
           /\ position'[w].options_minted = 0 /\ position'[w].options_sold = 0
        \/ /\ position'[w].options_minted = position[w].options_minted
           /\ position'[w].options_sold = position[w].options_sold
    BY DepositEffect DEF OptionsSame
  <1>4. /\ position'[w].options_minted = position[w].options_minted
        /\ position'[w].options_sold = position[w].options_sold
    BY <1>3, BarePosition
  <1>. QED
    BY <1>1, <1>2, <1>4

(* What a mint, a purchase or a burn does to the escrow of every writer. *)
LEMMA EscrowMoves ==
    ASSUME TypeOK, TypeOK', NEW w \in Writers, NEW m \in MintIds,
           \A n \in MintIds \ {m} : mint'[n] = mint[n],
           mint[m].writer = w \/ (mint[m].writer = NoWriter /\ mint[m].escrow = 0),
           mint'[m].writer = w
    PROVE  /\ EscrowOf(w) \in Nat /\ mint[m].escrow \in Nat /\ mint'[m].escrow \in Nat
           /\ EscrowOf(w)' = EscrowOf(w) + (mint'[m].escrow - mint[m].escrow)
           /\ \A v \in Writers \ {w} : EscrowOf(v)' = EscrowOf(v)
  <1>1. mint[m].escrow \in Nat /\ mint'[m].escrow \in Nat
    BY MintFields DEF TypeOK
  <1>2. EscrowAt(w, m) = mint[m].escrow /\ EscrowAt(w, m)' = mint'[m].escrow
    BY SetsAssumption DEF EscrowAt
  <1>3. /\ EscrowOf(w) \in Nat
        /\ EscrowOf(w)' = EscrowOf(w) + (EscrowAt(w, m)' - EscrowAt(w, m))
    BY EscrowOfChange
  <1>4. ASSUME NEW v \in Writers \ {w} PROVE EscrowOf(v)' = EscrowOf(v)
    <2>1. EscrowAt(v, m) = 0 /\ EscrowAt(v, m)' = 0
      BY SetsAssumption DEF EscrowAt
    <2>2. /\ EscrowOf(v) \in Nat
          /\ EscrowOf(v)' = EscrowOf(v) + (EscrowAt(v, m)' - EscrowAt(v, m))
      BY EscrowOfChange
    <2>. QED
      BY <2>1, <2>2
  <1>. QED
    BY <1>1, <1>2, <1>3, <1>4

(* mint_from_vault keeps the books. *)
LEMMA WriteBooks ==
    ASSUME TypeOK, TypeOK', SharesTrackCollateral, WriterBooks, Live,
           NEW w \in Writers, NEW m \in MintIds, NEW quantity \in Quantities,
           NEW premium \in Premiums, MintFromVault(w, m, quantity, premium)
    PROVE  WriterBooks'
  <1>1. /\ quantity \in Nat
        /\ (position[w].options_minted + quantity) * Strike <= position[w].shares
        /\ \A v \in Writers \ {w} : position'[v] = position[v]
        /\ position'[w].options_minted = position[w].options_minted + quantity
        /\ position'[w].options_sold = position[w].options_sold
        /\ StakeSame(w)
        /\ mint[m].writer = NoWriter
        /\ \A n \in MintIds \ {m} : mint'[n] = mint[n]
    BY MintEffect
  <1>2. position[w].options_minted \in Nat /\ position[w].options_sold \in Nat
    BY PositionFields DEF TypeOK
  <1>3. /\ mint'[m].writer = w /\ mint'[m].quantity_minted = quantity
        /\ mint'[m].quantity_sold = 0 /\ mint'[m].escrow = quantity
    BY MintEffect
  <1>4. mint[m].escrow = 0
    BY <1>1 DEF WriterBooks, MintBooks
  <1>5. /\ EscrowOf(w) \in Nat /\ EscrowOf(w)' = EscrowOf(w) + quantity
        /\ \A v \in Writers \ {w} : EscrowOf(v)' = EscrowOf(v)
    BY <1>1, <1>3, <1>4, EscrowMoves
  <1>7. ASSUME NEW v \in Writers
        PROVE  /\ Committed(v)' <= position'[v].shares
               /\ position'[v].options_minted
                     = position'[v].options_sold + EscrowOf(v)'
    <2>1. CASE v = w
      <3>1. Committed(w)' <= position'[w].shares
        BY <1>1 DEF Committed, CollateralPerContract, StakeSame
      <3>2. position[w].options_minted = position[w].options_sold + EscrowOf(w)
        BY DEF WriterBooks
      <3>3. position'[w].options_minted = position'[w].options_sold + EscrowOf(w)'
        BY <1>1, <1>2, <1>5, <3>2
      <3>. QED
        BY <2>1, <3>1, <3>3
    <2>2. CASE v # w
      BY <1>1, <1>5, <2>2 DEF WriterBooks, Committed
    <2>. QED
      BY <2>1, <2>2
  <1>8. ASSUME NEW n \in MintIds PROVE MintBooks(n)'
    <2>1. CASE n = m
      BY <1>1, <1>3, <2>1, SetsAssumption DEF MintBooks
    <2>2. CASE n # m
      BY <1>1, <2>2 DEF WriterBooks, MintBooks, Live
    <2>. QED
      BY <2>1, <2>2
  <1>. QED
    BY <1>7, <1>8 DEF WriterBooks

(* purchase_from_vault keeps the books. *)
LEMMA PurchaseBooks ==
    ASSUME TypeOK, TypeOK', WriterBooks, Live, NEW h \in Holders, NEW m \in MintIds,
           NEW quantity \in Quantities, PurchaseFromVault(h, m, quantity)
    PROVE  WriterBooks'
  <1>0. PICK w \in Writers : w = mint[m].writer
    BY PurchaseEffect
  <1>1. /\ quantity \in Nat
        /\ quantity <= mint[m].escrow
        /\ \A v \in Writers \ {w} : position'[v] = position[v]
        /\ position'[w].options_sold = position[w].options_sold + quantity
        /\ position'[w].options_minted = position[w].options_minted
        /\ StakeSame(w)
        /\ \A n \in MintIds \ {m} : mint'[n] = mint[n]
    BY <1>0, PurchaseEffect
  <1>2. /\ position[w].options_minted \in Nat /\ position[w].options_sold \in Nat
        /\ mint[m].quantity_sold \in Nat /\ mint[m].escrow \in Nat
    BY <1>1, PositionFields, MintFields DEF TypeOK
  <1>3. /\ mint'[m].writer = w /\ mint'[m].quantity_minted = mint[m].quantity_minted
        /\ mint'[m].quantity_sold = mint[m].quantity_sold + quantity
        /\ mint'[m].escrow = mint[m].escrow - quantity
    BY <1>0, PurchaseEffect
  <1>5. /\ EscrowOf(w) \in Nat
        /\ EscrowOf(w)' = EscrowOf(w) + (mint'[m].escrow - mint[m].escrow)
        /\ \A v \in Writers \ {w} : EscrowOf(v)' = EscrowOf(v)
    BY <1>0, <1>1, <1>3, EscrowMoves
  <1>6. position'[w].shares = position[w].shares
    BY <1>1 DEF StakeSame
  <1>7. ASSUME NEW v \in Writers
        PROVE  /\ Committed(v)' <= position'[v].shares
               /\ position'[v].options_minted
                     = position'[v].options_sold + EscrowOf(v)'
    <2>1. CASE v = w
      <3>1. position[w].options_minted = position[w].options_sold + EscrowOf(w)
        BY DEF WriterBooks
      <3>2. EscrowOf(w)' = EscrowOf(w) - quantity
        BY <1>1, <1>2, <1>3, <1>5
      <3>3. position'[w].options_minted = position'[w].options_sold + EscrowOf(w)'
        BY <1>1, <1>2, <1>5, <3>1, <3>2
      <3>4. Committed(w)' <= position'[w].shares
        BY <1>1, <1>6 DEF WriterBooks, Committed
      <3>. QED
        BY <2>1, <3>3, <3>4
    <2>2. CASE v # w
      BY <1>1, <1>5, <2>2 DEF WriterBooks, Committed
    <2>. QED
      BY <2>1, <2>2
  <1>8. ASSUME NEW n \in MintIds PROVE MintBooks(n)'
    <2>1. CASE n = m
      <3>1. mint[m].quantity_minted = mint[m].quantity_sold + mint[m].escrow
        BY DEF WriterBooks, MintBooks, Live
      <3>2. mint'[m].writer # NoWriter
        BY <1>3, SetsAssumption
      <3>3. mint'[m].quantity_minted = mint'[m].quantity_sold + mint'[m].escrow
        BY <1>1, <1>2, <1>3, <3>1
      <3>4. /\ mint'[m].quantity_minted \in Nat
            /\ mint'[m].quantity_sold + mint'[m].escrow \in Nat
        BY MintFields DEF TypeOK
      <3>. QED
        BY <2>1, <3>2, <3>3, <3>4 DEF MintBooks
    <2>2. CASE n # m
      BY <1>1, <2>2 DEF WriterBooks, MintBooks, Live
    <2>. QED
      BY <2>1, <2>2
  <1>. QED
    BY <1>7, <1>8 DEF WriterBooks

(* burn_unsold_from_vault keeps the books, of an ended vault too. *)
LEMMA BurnBooks ==
    ASSUME TypeOK, TypeOK', WriterBooks, NEW w \in Writers, NEW m \in MintIds,
           BurnUnsold(w, m)
    PROVE  WriterBooks'
  <1> DEFINE unsold == mint[m].escrow
  <1>1. /\ w = mint[m].writer
        /\ unsold <= mint[m].quantity_minted
        /\ unsold <= position[w].options_minted
        /\ PhaseSame
        /\ \A v \in Writers \ {w} : position'[v] = position[v]
        /\ position'[w].options_minted = position[w].options_minted - unsold
        /\ position'[w].options_sold = position[w].options_sold
        /\ StakeSame(w)
        /\ \A n \in MintIds \ {m} : mint'[n] = mint[n]
    BY BurnEffect
  <1>2. /\ position[w].options_minted \in Nat /\ position[w].options_sold \in Nat
        /\ position[w].shares \in Nat
        /\ mint[m].quantity_sold \in Nat /\ mint[m].escrow \in Nat
        /\ mint[m].quantity_minted \in Nat /\ Strike \in Nat
    BY PositionFields, MintFields, ParametersAssumption DEF TypeOK
  <1>3. /\ mint'[m].writer = w /\ mint'[m].escrow = 0
        /\ mint'[m].quantity_minted = mint[m].quantity_minted - unsold
        /\ mint'[m].quantity_sold = mint[m].quantity_sold
    BY BurnEffect
  <1>5. /\ EscrowOf(w) \in Nat
        /\ EscrowOf(w)' = EscrowOf(w) + (mint'[m].escrow - mint[m].escrow)
        /\ \A v \in Writers \ {w} : EscrowOf(v)' = EscrowOf(v)
    BY <1>1, <1>3, EscrowMoves
  <1>6. position'[w].shares = position[w].shares
    BY <1>1 DEF StakeSame
  <1>7. ASSUME Live', NEW v \in Writers
        PROVE  /\ Committed(v)' <= position'[v].shares
               /\ position'[v].options_minted
                     = position'[v].options_sold + EscrowOf(v)'
    <2>0. Live
      BY <1>1, <1>7 DEF Live, PhaseSame
    <2>1. CASE v = w
      <3>1. /\ position[w].options_minted = position[w].options_sold + EscrowOf(w)
            /\ position[w].options_minted * Strike <= position[w].shares
        BY <2>0 DEF WriterBooks, Committed, CollateralPerContract
      <3>2. (position[w].options_minted - unsold) * Strike
              <= position[w].options_minted * Strike
        BY <1>1, <1>2
      <3>3. (position[w].options_minted - unsold) * Strike <= position[w].shares
        <4>1. /\ (position[w].options_minted - unsold) * Strike \in Int
              /\ position[w].options_minted * Strike \in Int
          BY <1>2
        <4>. QED
          BY <1>2, <3>1, <3>2, <4>1
      <3>. QED
        BY <1>1, <1>2, <1>3, <1>5, <1>6, <2>1, <3>1, <3>3
        DEF Committed, CollateralPerContract
    <2>2. CASE v # w
      BY <1>1, <1>5, <2>0, <2>2 DEF WriterBooks, Committed
    <2>. QED
      BY <2>1, <2>2
  <1>8. ASSUME NEW n \in MintIds PROVE MintBooks(n)'
    <2>1. CASE n = m
      <3>1. /\ mint[m].quantity_minted >= mint[m].quantity_sold + mint[m].escrow
            /\ ~vault.is_settled =>
                  mint[m].quantity_minted = mint[m].quantity_sold + mint[m].escrow
        BY DEF WriterBooks, MintBooks
      <3>2. vault'.is_settled = vault.is_settled
        BY <1>1 DEF PhaseSame
      <3>. QED
        BY <1>1, <1>2, <1>3, <2>1, <3>1, <3>2 DEF MintBooks
    <2>2. CASE n # m
      BY <1>1, <2>2 DEF WriterBooks, MintBooks, PhaseSame
    <2>. QED
      BY <2>1, <2>2
  <1>. QED
    BY <1>7, <1>8 DEF WriterBooks

(* Every instruction keeps the writers' books. *)
LEMMA CommonBooks ==
    ASSUME TypeOK, TypeOK', Ending, SharesTrackCollateral, WriterBooks, CommonStep
    PROVE  WriterBooks'
  <1>1. /\ vault.is_settled \in BOOLEAN /\ vault.voided \in BOOLEAN
        /\ \A w \in Writers : position[w] \in Position
    BY VaultFields DEF TypeOK
  <1>2. ASSUME NEW w \in Writers, NEW amount \in Amounts, Deposit(w, amount)
        PROVE  WriterBooks'
    <2>1. now < Expiry /\ ~vault.is_settled
      BY <1>2 DEF Deposit
    <2>2. Live
      BY <2>1, LiveBefore
    <2>3. /\ \A v \in Writers :
                 /\ position'[v].options_minted = position[v].options_minted
                 /\ position'[v].options_sold = position[v].options_sold
                 /\ position[v].shares <= position'[v].shares
          /\ mint' = mint
      BY <1>2, <2>2, DepositOptions
    <2>4. ASSUME NEW v \in Writers PROVE Committed(v) <= position'[v].shares
      <3>1. Committed(v) <= position[v].shares
        BY <2>2 DEF WriterBooks
      <3>2. /\ Committed(v) \in Nat /\ position[v].shares \in Nat
            /\ position'[v].shares \in Nat
        BY PositionFields, ParametersAssumption
        DEF TypeOK, Committed, CollateralPerContract
      <3>. QED
        BY <2>3, <3>1, <3>2
    <2>. QED
      BY <2>1, <2>2, <2>3, <2>4, BooksUntouched
  <1>3. ASSUME NEW w \in Writers, NEW m \in MintIds, NEW quantity \in Quantities,
               NEW premium \in Premiums, MintFromVault(w, m, quantity, premium)
        PROVE  WriterBooks'
    <2>1. now < Expiry /\ ~vault.is_settled
      BY <1>3 DEF MintFromVault
    <2>2. Live
      BY <2>1, LiveBefore
    <2>. QED
      BY <1>3, <2>2, WriteBooks
  <1>4. ASSUME NEW w \in Writers, NEW m \in MintIds, BurnUnsold(w, m)
        PROVE  WriterBooks'
    BY <1>4, BurnBooks
  <1>5. ASSUME NEW w \in Writers, NEW shares \in Amounts, WithdrawFromVault(w, shares)
        PROVE  WriterBooks'
    <2>1. /\ Live /\ mint' = mint
          /\ position[w].options_minted * Strike <= position[w].shares - shares
          /\ \A v \in Writers \ {w} : position'[v] = position[v]
          /\ position'[w].shares = position[w].shares - shares
          /\ OptionsSame(w)
      BY <1>5, WithdrawEffect
    <2>2. ASSUME NEW v \in Writers
          PROVE  /\ position'[v].options_minted = position[v].options_minted
                 /\ position'[v].options_sold = position[v].options_sold
                 /\ Committed(v) <= position'[v].shares
      BY <2>1 DEF OptionsSame, WriterBooks, Committed, CollateralPerContract
    <2>3. ~vault.is_settled
      BY <2>1 DEF Live
    <2>. QED
      BY <2>1, <2>2, <2>3, BooksUntouched
  <1>6. ASSUME NEW w \in Writers, ClaimPremium(w)
        PROVE  WriterBooks'
    <2>1. /\ mint' = mint /\ vault' = vault
          /\ \A v \in Writers \ {w} : position'[v] = position[v]
          /\ StakeSame(w) /\ OptionsSame(w)
      BY <1>6, ClaimEffect
    <2>2. Live' => Live
      BY <2>1 DEF Live
    <2>3. ASSUME Live, NEW v \in Writers
          PROVE  /\ position'[v].options_minted = position[v].options_minted
                 /\ position'[v].options_sold = position[v].options_sold
                 /\ Committed(v) <= position'[v].shares
      BY <2>1, <2>3 DEF StakeSame, OptionsSame, WriterBooks
    <2>. QED
      BY <2>1, <2>2, <2>3, BooksUntouched
  <1>7. ASSUME NEW w \in Writers, WithdrawPostSettlement(w) \/ ReclaimUnsettled(w)
        PROVE  WriterBooks'
    <2>1. mint' = mint /\ ~Live /\ ReleaseShare(w)
      BY <1>7 DEF WithdrawPostSettlement, ReclaimUnsettled, Live
    <2>2. ~Live' /\ vault'.is_settled = vault.is_settled
      BY <2>1, ReleaseEffect DEF Live
    <2>. QED
      BY <2>1, <2>2, BooksUntouched
  <1>8. ASSUME NEW batch \in SUBSET Writers, AutoFinalizeWriters(batch)
        PROVE  WriterBooks'
    <2>1. /\ mint' = mint /\ ~Live
          /\ vault' = vault \/ \E w \in Writers : ReleaseShare(w)
      BY <1>8, BatchEffect
    <2>2. ~Live' /\ vault'.is_settled = vault.is_settled
      BY <2>1, ReleaseEffect DEF Live
    <2>. QED
      BY <2>1, <2>2, BooksUntouched
  <1>9. ASSUME NEW h \in Holders, NEW m \in MintIds, NEW quantity \in Quantities,
               PurchaseFromVault(h, m, quantity)
        PROVE  WriterBooks'
    <2>1. now < Expiry /\ ~vault.is_settled
      BY <1>9 DEF PurchaseFromVault
    <2>2. Live
      BY <2>1, LiveBefore
    <2>. QED
      BY <1>9, <2>2, PurchaseBooks
  <1>10. ASSUME NEW h \in Holders, NEW quantity \in Nat, quantity <= tokens[h],
                vault.is_settled, PayHolder(h, quantity)
         PROVE  WriterBooks'
    <2>1. mint' = mint /\ vault'.is_settled
      BY <1>10, PayEffect, Zenon
    <2>. QED
      BY <2>1, BooksUntouched DEF Live
  <1>11. CASE OracleStep \/ Tick \/ CloseDrainedVault
    <2>1. vault' = vault /\ position' = position /\ mint' = mint
      BY <1>11 DEF OracleStep, SettleExpiry, Tick, CloseDrainedVault
    <2>2. Live' => Live
      BY <2>1 DEF Live
    <2>. QED
      BY <2>1, <2>2, BooksUntouched DEF WriterBooks
  <1>12. CASE WriterStep
    BY <1>2, <1>3, <1>4, <1>5, <1>6, <1>7, <1>12 DEF WriterStep
  <1>13. CASE HolderStep
    <2>1. ASSUME NEW h \in Holders, NEW quantity \in Quantities,
                 ExerciseFromVault(h, quantity)
          PROVE  WriterBooks'
      BY <1>10, <2>1, InputsAssumption DEF ExerciseFromVault
    <2>. QED
      BY <1>9, <1>13, <2>1 DEF HolderStep
  <1>14. ASSUME NEW h \in Holders, AutoFinalizeHolder(h) PROVE WriterBooks'
    <2>1. tokens[h] \in Nat /\ tokens[h] <= tokens[h]
      BY DEF TypeOK
    <2>. QED
      BY <1>10, <1>14, <2>1 DEF AutoFinalizeHolder
  <1>15. ASSUME NEW m \in MintIds, AutoFinalizeEscrow(m) PROVE WriterBooks'
    <2>1. /\ vault'.is_settled
          /\ mint'[m].escrow = 0
          /\ mint'[m].quantity_minted = mint[m].quantity_minted
          /\ mint'[m].quantity_sold = mint[m].quantity_sold
          /\ \A n \in MintIds \ {m} : mint'[n] = mint[n]
      BY <1>15, EscrowEffect, EscrowPay
    <2>2. ASSUME NEW n \in MintIds PROVE MintBooks(n)'
      <3>1. MintBooks(n)
        BY DEF WriterBooks
      <3>2. CASE n = m
        <4>1. /\ mint[m].quantity_sold \in Nat /\ mint[m].escrow \in Nat
              /\ mint[m].quantity_minted \in Nat
          BY MintFields DEF TypeOK
        <4>. QED
          BY <2>1, <3>1, <3>2, <4>1 DEF MintBooks
      <3>3. CASE n # m
        BY <2>1, <3>1, <3>3 DEF MintBooks
      <3>. QED
        BY <3>2, <3>3
    <2>. QED
      BY <2>1, <2>2 DEF WriterBooks, Live
  <1>. QED
    BY <1>7, <1>8, <1>11, <1>12, <1>13, <1>14, <1>15 DEF CommonStep

---------------------------------------------------------------------------
(* The vault's own counters follow the writers' books: a European vault's   *)
(* tokens are all sold by its mints, and none is redeemed before the end.   *)

VaultBooks ==
    /\ vault.total_options_minted >= vault.total_options_sold + Escrowed
    /\ ~vault.is_settled =>
          vault.total_options_minted = vault.total_options_sold + Escrowed
    /\ TokensHeld <= vault.total_options_sold
    /\ Live => /\ vault.total_options_sold = TokensHeld
               /\ vault.total_options_minted = MintedOf
               /\ vault.total_options_sold = SoldOf

(* A step that touches no option keeps them. *)
LEMMA CountersUntouched ==
    ASSUME VaultBooks, CountersSame, mint' = mint, tokens' = tokens,
           vault.is_settled => vault'.is_settled,
           Live' => Live /\ \A w \in Writers : OptionsSame(w)
    PROVE  VaultBooks'
  <1>1. Escrowed' = Escrowed /\ TokensHeld' = TokensHeld
    BY DEF Escrowed, TokensHeld
  <1>2. ASSUME Live' PROVE MintedOf' = MintedOf /\ SoldOf' = SoldOf
    <2>1. /\ [w \in Writers |-> position'[w].options_minted]
               = [w \in Writers |-> position[w].options_minted]
          /\ [w \in Writers |-> position'[w].options_sold]
               = [w \in Writers |-> position[w].options_sold]
      BY <1>2 DEF OptionsSame
    <2>. QED
      BY <2>1 DEF MintedOf, SoldOf
  <1>. QED
    BY <1>1, <1>2 DEF VaultBooks, CountersSame

(* mint_from_vault keeps them. *)
LEMMA MintCounters ==
    ASSUME TypeOK, TypeOK', SharesTrackCollateral, WriterBooks, VaultBooks, Live,
           NEW w \in Writers, NEW m \in MintIds, NEW quantity \in Quantities,
           NEW premium \in Premiums, MintFromVault(w, m, quantity, premium)
    PROVE  VaultBooks'
  <1>1. /\ quantity \in Nat
        /\ vault'.total_options_minted = vault.total_options_minted + quantity
        /\ vault'.total_options_sold = vault.total_options_sold
        /\ \A v \in Writers \ {w} : position'[v] = position[v]
        /\ position'[w].options_minted = position[w].options_minted + quantity
        /\ position'[w].options_sold = position[w].options_sold
        /\ mint[m].writer = NoWriter
        /\ \A n \in MintIds \ {m} : mint'[n] = mint[n]
        /\ mint'[m].escrow = quantity
        /\ tokens' = tokens
    BY MintEffect
  <1>2. mint[m].escrow = 0
    BY <1>1 DEF WriterBooks, MintBooks
  <1>3. Escrowed \in Nat /\ Escrowed' = Escrowed + quantity
    BY <1>1, <1>2, EscrowedChange
  <1>4. position[w].options_minted \in Nat /\ position[w].options_sold \in Nat
    BY PositionFields DEF TypeOK
  <1>5. MintedOf \in Nat /\ MintedOf' = MintedOf + quantity
    BY <1>1, <1>4, MintedChange
  <1>6. SoldOf' = SoldOf
    BY <1>1, <1>4, SoldChange
  <1>7. TokensHeld' = TokensHeld
    BY <1>1 DEF TokensHeld
  <1>8. vault.total_options_minted \in Nat /\ vault.total_options_sold \in Nat
    BY VaultFields DEF TypeOK
  <1>. QED
    BY <1>1, <1>3, <1>5, <1>6, <1>7, <1>8 DEF VaultBooks, Live

(* purchase_from_vault keeps them. *)
LEMMA PurchaseCounters ==
    ASSUME TypeOK, TypeOK', VaultBooks, Live, NEW h \in Holders, NEW m \in MintIds,
           NEW quantity \in Quantities, PurchaseFromVault(h, m, quantity)
    PROVE  VaultBooks'
  <1>0. PICK w \in Writers : w = mint[m].writer
    BY PurchaseEffect
  <1>1. /\ quantity \in Nat
        /\ quantity <= mint[m].escrow
        /\ vault'.total_options_sold = vault.total_options_sold + quantity
        /\ vault'.total_options_minted = vault.total_options_minted
        /\ \A v \in Writers \ {w} : position'[v] = position[v]
        /\ position'[w].options_sold = position[w].options_sold + quantity
        /\ position'[w].options_minted = position[w].options_minted
        /\ \A n \in MintIds \ {m} : mint'[n] = mint[n]
        /\ mint'[m].escrow = mint[m].escrow - quantity
        /\ tokens' = [tokens EXCEPT ![h] = tokens[h] + quantity]
    BY <1>0, PurchaseEffect
  <1>2. mint[m].escrow \in Nat /\ tokens[h] \in Nat /\ tokens[h] + quantity \in Nat
        /\ tokens \in [Holders -> Nat]
    BY <1>1, MintFields DEF TypeOK
  <1>3. Escrowed \in Nat /\ Escrowed' = Escrowed - quantity
    BY <1>1, <1>2, EscrowedChange
  <1>4. position[w].options_minted \in Nat /\ position[w].options_sold \in Nat
    BY PositionFields DEF TypeOK
  <1>5. MintedOf' = MintedOf
    BY <1>1, <1>4, MintedChange
  <1>6. SoldOf \in Nat /\ SoldOf' = SoldOf + quantity
    BY <1>1, <1>4, SoldChange
  <1>7. TokensHeld \in Nat /\ TokensHeld' = TokensHeld + quantity
    <2>1. TokensHeld \in Nat /\ TokensHeld' = TokensHeld + ((tokens[h] + quantity) - tokens[h])
      BY <1>1, <1>2, TokensChange, Zenon
    <2>. QED
      BY <1>1, <1>2, <2>1
  <1>8. vault.total_options_minted \in Nat /\ vault.total_options_sold \in Nat
    BY VaultFields DEF TypeOK
  <1>. QED
    BY <1>1, <1>3, <1>5, <1>6, <1>7, <1>8 DEF VaultBooks, Live

(* burn_unsold_from_vault keeps them. *)
LEMMA BurnCounters ==
    ASSUME TypeOK, TypeOK', VaultBooks, NEW w \in Writers, NEW m \in MintIds,
           BurnUnsold(w, m)
    PROVE  VaultBooks'
  <1> DEFINE unsold == mint[m].escrow
  <1>1. /\ unsold <= position[w].options_minted
        /\ unsold <= vault.total_options_minted
        /\ vault'.total_options_minted = vault.total_options_minted - unsold
        /\ vault'.total_options_sold = vault.total_options_sold
        /\ PhaseSame
        /\ \A v \in Writers \ {w} : position'[v] = position[v]
        /\ position'[w].options_minted = position[w].options_minted - unsold
        /\ position'[w].options_sold = position[w].options_sold
        /\ \A n \in MintIds \ {m} : mint'[n] = mint[n]
        /\ mint'[m].escrow = 0
        /\ tokens' = tokens
    BY BurnEffect
  <1>2. unsold \in Nat
    BY MintFields DEF TypeOK
  <1>3. Escrowed \in Nat /\ Escrowed' = Escrowed - unsold
    BY <1>1, <1>2, EscrowedChange
  <1>4. position[w].options_minted \in Nat /\ position[w].options_sold \in Nat
    BY PositionFields DEF TypeOK
  <1>5. MintedOf \in Nat /\ MintedOf' = MintedOf - unsold
    BY <1>1, <1>2, <1>4, MintedChange
  <1>6. SoldOf' = SoldOf
    BY <1>1, <1>4, SoldChange
  <1>7. TokensHeld' = TokensHeld
    BY <1>1 DEF TokensHeld
  <1>8. vault.total_options_minted \in Nat /\ vault.total_options_sold \in Nat
    BY VaultFields DEF TypeOK
  <1>9. (Live' <=> Live) /\ vault'.is_settled = vault.is_settled
    BY <1>1 DEF Live, PhaseSame
  <1>. QED
    BY <1>1, <1>2, <1>3, <1>5, <1>6, <1>7, <1>8, <1>9 DEF VaultBooks

(* A holder who is paid leaves fewer tokens behind. *)
LEMMA PayCounters ==
    ASSUME TypeOK, VaultBooks, NEW h \in Holders, NEW quantity \in Nat,
           quantity <= tokens[h], vault.is_settled, PayHolder(h, quantity)
    PROVE  /\ VaultBooks'
           /\ TokensHeld' \in Nat /\ TokensHeld' = TokensHeld - quantity
  <1>1. /\ CountersSame /\ vault'.is_settled = vault.is_settled /\ mint' = mint
        /\ tokens' = [tokens EXCEPT ![h] = tokens[h] - quantity]
        /\ tokens[h] - quantity \in Nat /\ tokens[h] \in Nat
        /\ tokens \in [Holders -> Nat]
    BY PayEffect, Zenon DEF TypeOK
  <1>2. /\ TokensHeld \in Nat /\ TokensHeld' \in Nat
        /\ TokensHeld' = TokensHeld + ((tokens[h] - quantity) - tokens[h])
    BY <1>1, TokensChange, Zenon
  <1>3. TokensHeld' = TokensHeld - quantity
    BY <1>1, <1>2
  <1>4. Escrowed' = Escrowed
    BY <1>1 DEF Escrowed
  <1>5. vault.total_options_sold \in Nat
    BY VaultFields DEF TypeOK
  <1>. QED
    BY <1>1, <1>2, <1>3, <1>4, <1>5 DEF VaultBooks, CountersSame, Live

(* An escrow that is finalized takes its options with it, and the counters  *)
(* of what was minted stay behind.                                          *)
LEMMA EscrowCounters ==
    ASSUME TypeOK, TypeOK', VaultBooks, NEW m \in MintIds, AutoFinalizeEscrow(m)
    PROVE  VaultBooks'
  <1>1. /\ CountersSame /\ vault'.is_settled /\ tokens' = tokens
        /\ mint'[m].escrow = 0
        /\ \A n \in MintIds \ {m} : mint'[n] = mint[n]
    BY EscrowEffect, EscrowPay
  <1>2. /\ mint[m].escrow \in Nat
        /\ vault.total_options_minted \in Nat /\ vault.total_options_sold \in Nat
    BY VaultFields, MintFields DEF TypeOK
  <1>3. /\ Escrowed \in Nat /\ Escrowed' \in Nat
        /\ Escrowed' = Escrowed + (mint'[m].escrow - mint[m].escrow)
    BY <1>1, EscrowedChange
  <1>4. Escrowed' <= Escrowed
    BY <1>1, <1>2, <1>3
  <1>5. TokensHeld' = TokensHeld
    BY <1>1 DEF TokensHeld
  <1>. QED
    BY <1>1, <1>2, <1>3, <1>4, <1>5 DEF VaultBooks, CountersSame, Live

(* Ending a European vault ends no option and moves no counter.             *)
LEMMA EndEffect ==
    ASSUME ParInvariant, SettleVault \/ InitializeVoid
    PROVE  /\ CountersSame
           /\ ~Live' /\ Live
           /\ vault'.premium_per_share = vault.premium_per_share
           /\ vault'.total_shares = vault.total_shares
           /\ vault'.total_collateral = vault.total_collateral
           /\ vault'.collateral_remaining = vault.total_collateral
           /\ usdc' = usdc
           /\ InitializeVoid => ~vault'.is_settled
           /\ UNCHANGED <<now, usdcOpen, position, opened, mint, tokens, rebases>>
  <1>1. TypeOK /\ vault \in Vault /\ usdc + 0 = usdc
    BY DEF ParInvariant, TypeOK
  <1>2. Live
    BY DEF SettleVault, SettleWith, InitializeVoid, VoidWith, ParInvariant, Ending, Live
  <1>3. SaturatingSub(vault.total_collateral, vault.early_exercise_payout)
          = vault.total_collateral
    BY <1>1, VaultFields DEF SaturatingSub, ParInvariant, NothingEarly
  <1> DEFINE joined == [vault EXCEPT
                          !.collateral_remaining = vault.total_collateral,
                          !.writer_ask_swept = 0, !.writer_ask_equiv_shares = 0]
  <1>4. JoinPot(0) = joined /\ joined \in Vault
    BY <1>1, <1>3, PotlessJoin
  <1>5. /\ joined.total_options_minted = vault.total_options_minted
        /\ joined.total_options_sold = vault.total_options_sold
        /\ joined.premium_per_share = vault.premium_per_share
        /\ joined.total_shares = vault.total_shares
        /\ joined.total_collateral = vault.total_collateral
        /\ joined.collateral_remaining = vault.total_collateral
        /\ joined.is_settled = vault.is_settled
    BY <1>1, <1>4 DEF Vault
  <1> HIDE DEF joined
  <1>6. \/ vault' = [joined EXCEPT !.is_settled = TRUE, !.settlement_price = record]
        \/ vault' = [joined EXCEPT !.voided = TRUE]
    BY <1>4, Zenon DEF SettleVault, SettleWith, InitializeVoid, VoidWith
  <1>7. InitializeVoid => vault' = [joined EXCEPT !.voided = TRUE]
    BY <1>4, Zenon DEF InitializeVoid, VoidWith
  <1>8. /\ CountersSame
        /\ vault'.premium_per_share = vault.premium_per_share
        /\ vault'.total_shares = vault.total_shares
        /\ vault'.total_collateral = vault.total_collateral
        /\ vault'.collateral_remaining = vault.total_collateral
        /\ vault'.is_settled \/ vault'.voided
    BY <1>4, <1>5, <1>6, Zenon DEF Vault, CountersSame
  <1>9. InitializeVoid => ~vault'.is_settled
    BY <1>2, <1>4, <1>5, <1>7 DEF Vault, Live
  <1>. QED
    BY <1>1, <1>2, <1>8, <1>9
    DEF SettleVault, SettleWith, InitializeVoid, VoidWith, Live

(* Taking a share out touches no option. *)
LEMMA ReleaseCounters ==
    ASSUME TypeOK, NEW w \in Writers, ReleaseShare(w)
    PROVE  /\ CountersSame
           /\ vault'.premium_per_share = vault.premium_per_share
           /\ vault'.writer_ask_swept = vault.writer_ask_swept
           /\ vault'.writer_ask_equiv_shares = vault.writer_ask_equiv_shares
    BY DEF TypeOK, Vault, ReleaseShare, AfterExit, CountersSame

(* The books of a European vault. *)
Books == ParInvariant /\ SharesCounted /\ WriterBooks /\ VaultBooks

(* At the start there is nothing to count. *)
LEMMA InitBooks ==
    ASSUME Init
    PROVE  WriterBooks /\ VaultBooks
  <1> DEFINE n == [w \in Writers |-> position[w].options_minted]
             o == [w \in Writers |-> position[w].options_sold]
             e == [m \in MintIds |-> mint[m].escrow]
             a(w) == [m \in MintIds |-> EscrowAt(w, m)]
  <1>1. /\ n \in [Writers -> Int] /\ \A w \in Writers : n[w] = 0
        /\ o \in [Writers -> Int] /\ \A w \in Writers : o[w] = 0
    BY DEF Init, EmptyPosition
  <1>2. /\ e \in [MintIds -> Int] /\ \A m \in MintIds : e[m] = 0
        /\ \A w : a(w) \in [MintIds -> Int] /\ \A m \in MintIds : a(w)[m] = 0
    BY DEF Init, NoMint, EscrowAt
  <1>3. /\ MintedOf = SumFunction(n) /\ SoldOf = SumFunction(o)
        /\ Escrowed = SumFunction(e) /\ TokensHeld = SumFunction(tokens)
        /\ \A w : EscrowOf(w) = SumFunction(a(w))
    BY DEF MintedOf, SoldOf, Escrowed, TokensHeld, EscrowOf
  <1>4. tokens \in [Holders -> Int] /\ \A h \in Holders : tokens[h] = 0
    BY DEF Init
  <1> HIDE DEF n, o, e, a
  <1>5. MintedOf = 0 /\ SoldOf = 0
    BY <1>1, <1>3, TotalZero, FiniteAssumption
  <1>6. Escrowed = 0 /\ \A w : EscrowOf(w) = 0
    BY <1>2, <1>3, TotalZero, FiniteAssumption
  <1>7. TokensHeld = 0
    BY <1>3, <1>4, TotalZero, FiniteAssumption
  <1>8. /\ vault.total_options_minted = 0 /\ vault.total_options_sold = 0
        /\ \A w \in Writers : /\ position[w].options_minted = 0
                              /\ position[w].options_sold = 0
                              /\ position[w].shares = 0
        /\ \A m \in MintIds : /\ mint[m].quantity_minted = 0
                              /\ mint[m].quantity_sold = 0
                              /\ mint[m].escrow = 0
    BY DEF Init, EmptyVault, EmptyPosition, NoMint
  <1>9. \A w \in Writers : Committed(w) = 0
    BY <1>8, ParametersAssumption DEF Committed, CollateralPerContract
  <1>. QED
    BY <1>5, <1>6, <1>7, <1>8, <1>9 DEF WriterBooks, MintBooks, VaultBooks

(* Every step of a European vault keeps its books. *)
LEMMA NextBooks ==
    ASSUME Books, [Next]_vars
    PROVE  Books'
  <1>1. /\ ParInvariant /\ ParInvariant' /\ SharesCounted'
        /\ TypeOK /\ TypeOK' /\ Ending /\ SharesTrackCollateral
        /\ WriterBooks /\ VaultBooks
        /\ vault.is_settled \in BOOLEAN /\ vault.voided \in BOOLEAN
    BY NextPar, NextCounted, VaultFields DEF Books, ParInvariant, TypeOK
  <1>2. WriterBooks'
    <2>1. CASE CommonStep
      BY <1>1, <2>1, CommonBooks
    <2>2. CASE SettleVault \/ InitializeVoid
      BY <1>1, <2>2, EndEffect, BooksUntouched DEF Live
    <2>3. CASE UNCHANGED vars
      BY <1>1, <2>3, BooksUntouched DEF vars, Live, WriterBooks
    <2>. QED
      BY <2>1, <2>2, <2>3, NextIsCommon
  <1> SUFFICES VaultBooks'
    BY <1>1, <1>2 DEF Books
  <1>3. ASSUME NEW w \in Writers, NEW amount \in Amounts, Deposit(w, amount)
        PROVE  VaultBooks'
    <2>1. now < Expiry /\ ~vault.is_settled
      BY <1>3 DEF Deposit
    <2>2. Live
      BY <1>1, <2>1, LiveBefore
    <2>3. \A v \in Writers : OptionsSame(v)
      BY <1>1, <1>3, <2>2, DepositOptions DEF OptionsSame
    <2>. QED
      BY <1>1, <1>3, <2>1, <2>2, <2>3, DepositEffect, CountersUntouched
  <1>4. ASSUME NEW w \in Writers, NEW m \in MintIds, NEW quantity \in Quantities,
               NEW premium \in Premiums, MintFromVault(w, m, quantity, premium)
        PROVE  VaultBooks'
    <2>1. now < Expiry /\ ~vault.is_settled
      BY <1>4 DEF MintFromVault
    <2>2. Live
      BY <1>1, <2>1, LiveBefore
    <2>. QED
      BY <1>1, <1>4, <2>2, MintCounters
  <1>5. ASSUME NEW w \in Writers, NEW m \in MintIds, BurnUnsold(w, m)
        PROVE  VaultBooks'
    BY <1>1, <1>5, BurnCounters
  <1>6. ASSUME NEW w \in Writers, NEW shares \in Amounts, WithdrawFromVault(w, shares)
        PROVE  VaultBooks'
    <2>1. /\ Live /\ ~vault.is_settled
          /\ mint' = mint /\ tokens' = tokens /\ CountersSame
          /\ \A v \in Writers : OptionsSame(v)
      BY <1>1, <1>6, WithdrawEffect DEF OptionsSame, Live
    <2>. QED
      BY <1>1, <2>1, CountersUntouched
  <1>7. ASSUME NEW w \in Writers, ClaimPremium(w)
        PROVE  VaultBooks'
    <2>1. /\ mint' = mint /\ tokens' = tokens /\ vault' = vault
          /\ \A v \in Writers : OptionsSame(v)
      BY <1>1, <1>7, ClaimEffect DEF OptionsSame
    <2>2. CountersSame /\ (Live' => Live)
      BY <2>1 DEF CountersSame, Live
    <2>. QED
      BY <1>1, <2>1, <2>2, CountersUntouched
  <1>8. ASSUME NEW w \in Writers, ReleaseShare(w), ~Live, mint' = mint, tokens' = tokens
        PROVE  VaultBooks'
    <2>1. CountersSame /\ ~Live' /\ vault'.is_settled = vault.is_settled
      BY <1>1, <1>8, ReleaseCounters, ReleaseEffect DEF Live
    <2>. QED
      BY <1>1, <1>8, <2>1, CountersUntouched
  <1>9. ASSUME vault' = vault, ~Live \/ position' = position,
               mint' = mint, tokens' = tokens
        PROVE  VaultBooks'
    <2>1. CountersSame /\ (Live' => Live /\ position' = position)
      BY <1>9 DEF CountersSame, Live
    <2>. QED
      BY <1>1, <1>9, <2>1, CountersUntouched DEF OptionsSame
  <1>10. ASSUME NEW h \in Holders, NEW m \in MintIds, NEW quantity \in Quantities,
                PurchaseFromVault(h, m, quantity)
         PROVE  VaultBooks'
    <2>1. now < Expiry /\ ~vault.is_settled
      BY <1>10 DEF PurchaseFromVault
    <2>2. Live
      BY <1>1, <2>1, LiveBefore
    <2>. QED
      BY <1>1, <1>10, <2>2, PurchaseCounters
  <1>11. ASSUME NEW h \in Holders, NEW quantity \in Quantities,
                ExerciseFromVault(h, quantity)
         PROVE  VaultBooks'
    <2>1. quantity \in Nat /\ quantity <= tokens[h] /\ vault.is_settled
          /\ PayHolder(h, quantity)
      BY <1>11, InputsAssumption DEF ExerciseFromVault
    <2>. QED
      BY <1>1, <2>1, PayCounters
  <1>12. ASSUME NEW h \in Holders, AutoFinalizeHolder(h)
         PROVE  VaultBooks'
    <2>1. tokens[h] \in Nat /\ tokens[h] <= tokens[h] /\ vault.is_settled
          /\ PayHolder(h, tokens[h])
      BY <1>1, <1>12 DEF AutoFinalizeHolder, TypeOK
    <2>. QED
      BY <1>1, <2>1, PayCounters
  <1>13. CASE WriterStep
    <2>1. ASSUME NEW w \in Writers, WithdrawPostSettlement(w) PROVE VaultBooks'
      BY <1>8, <2>1 DEF WithdrawPostSettlement, Live
    <2>. QED
      BY <1>3, <1>4, <1>5, <1>6, <1>7, <1>13, <2>1 DEF WriterStep
  <1>14. CASE HolderStep
    BY <1>10, <1>11, <1>14 DEF HolderStep
  <1>15. CASE OracleStep \/ Tick \/ UNCHANGED vars
    <2>1. vault' = vault /\ position' = position /\ mint' = mint /\ tokens' = tokens
      BY <1>15 DEF OracleStep, SettleExpiry, Tick, vars
    <2>. QED
      BY <1>9, <2>1
  <1>16. CASE CrankStep
    <2>1. CASE SettleVault \/ InitializeVoid
      BY <1>1, <2>1, EndEffect, CountersUntouched DEF Live
    <2>2. ASSUME NEW batch \in SUBSET Writers, AutoFinalizeWriters(batch)
          PROVE  VaultBooks'
      <3>1. /\ ~Live /\ mint' = mint /\ tokens' = tokens
            /\ vault' = vault \/ \E w \in Writers : ReleaseShare(w)
        BY <1>1, <2>2, BatchEffect
      <3>. QED
        BY <1>8, <1>9, <3>1
    <2>3. ASSUME NEW w \in Writers, ReclaimUnsettled(w) PROVE VaultBooks'
      BY <1>8, <2>3 DEF ReclaimUnsettled, Live
    <2>4. CASE CloseDrainedVault
      BY <1>9, <2>4 DEF CloseDrainedVault
    <2>5. ASSUME NEW m \in MintIds, AutoFinalizeEscrow(m) PROVE VaultBooks'
      BY <1>1, <2>5, EscrowCounters
    <2>. QED
      BY <1>12, <1>16, <2>1, <2>2, <2>3, <2>4, <2>5 DEF CrankStep
  <1>. QED
    BY <1>13, <1>14, <1>15, <1>16 DEF Next

(* The counters of the vault, of its writers, of their mints and of the     *)
(* holders' wallets stay in agreement: the invariant behind both covers.    *)
THEOREM BooksKept == Spec => []Books
  <1>1. Init /\ ParInvariant /\ SharesCounted => Books
    BY InitBooks DEF Books
  <1>2. Books /\ [Next]_vars => Books'
    BY NextBooks
  <1>. QED
    BY <1>1, <1>2, ShareCount, PTL DEF Spec

---------------------------------------------------------------------------
(* What the books give: every option in existence is backed.                *)

(* The options the writers minted fit in the pool, a strike for each. *)
LEMMA MintedBacked ==
    ASSUME Books, Live
    PROVE  vault.total_options_minted * Strike <= vault.total_collateral
  <1> DEFINE n == [w \in Writers |-> position[w].options_minted]
             c == [w \in Writers |-> Strike * position[w].options_minted]
             s == [w \in Writers |-> position[w].shares]
  <1>1. TypeOK /\ Strike \in Nat /\ vault.total_options_minted \in Nat
        /\ \A w \in Writers : position[w].options_minted \in Nat
                              /\ position[w].shares \in Nat
    BY ParametersAssumption, VaultFields, PositionFields
    DEF Books, ParInvariant, TypeOK
  <1>2. \A w \in Writers : Strike * position[w].options_minted \in Nat
    BY <1>1
  <1>3. /\ n \in [Writers -> Int] /\ c \in [Writers -> Int] /\ s \in [Writers -> Int]
        /\ \A w \in Writers : c[w] = Strike * n[w]
    BY <1>1, <1>2
  <1>4. \A w \in Writers : c[w] <= s[w]
    <2>1. \A w \in Writers : position[w].options_minted * Strike
                               = Strike * position[w].options_minted
      BY <1>1
    <2>. QED
      BY <2>1 DEF Books, WriterBooks, Committed, CollateralPerContract
  <1>5. MintedOf = SumFunction(n) /\ SharesOf = SumFunction(s)
    BY DEF MintedOf, SharesOf
  <1> HIDE DEF n, c, s
  <1>6. SumFunction(c) = Strike * SumFunction(n)
    BY <1>1, <1>3, TotalScale, FiniteAssumption
  <1>7. SumFunction(c) <= SumFunction(s)
    BY <1>3, <1>4, TotalMonotone, FiniteAssumption
  <1>8. Strike * MintedOf <= SharesOf
    BY <1>5, <1>6, <1>7
  <1>9. /\ MintedOf = vault.total_options_minted
        /\ SharesOf = vault.total_collateral
    BY DEF Books, VaultBooks, SharesCounted, ParInvariant, SharesTrackCollateral
  <1>10. Strike * vault.total_options_minted = vault.total_options_minted * Strike
    BY <1>1
  <1>. QED
    BY <1>8, <1>9, <1>10

(* Until the vault ends, every option, sold or in escrow, has its strike    *)
(* locked by its writer and by the pool, and the counters the gates go by   *)
(* agree with what exists.                                                  *)
THEOREM OptionsBacked == Spec => []WrittenOptionsBacked
  <1>1. Books => WrittenOptionsBacked
    <2> SUFFICES ASSUME Books PROVE WrittenOptionsBacked
      OBVIOUS
    <2>1. CountersAgree
      BY DEF Books, WriterBooks, MintBooks, VaultBooks, CountersAgree, MintedOf, SoldOf
    <2>2. ASSUME Live
          PROVE  (TokensHeld + Escrowed) * CollateralPerContract(Strike)
                    <= vault.total_collateral
      <3>1. TokensHeld + Escrowed = vault.total_options_minted
        BY <2>2 DEF Books, VaultBooks, Live
      <3>. QED
        BY <2>2, <3>1, MintedBacked DEF CollateralPerContract
    <2>. QED
      BY <2>1, <2>2 DEF WrittenOptionsBacked, Books, WriterBooks
  <1>. QED
    BY <1>1, BooksKept, PTL

---------------------------------------------------------------------------
(* The holders' cover.  While the window is open, what is paid for unsold   *)
(* options must leave the holders theirs: the pool covers both, unless no   *)
(* option was ever sold, when writers need not wait.                        *)

PoolCover ==
    vault.is_settled /\ now < Expiry + ExerciseWindow
      /\ vault.total_options_sold > 0 =>
        (TokensHeld + Escrowed) * Payoff <= vault.collateral_remaining

(* What covers every option still covers the others when some are paid. *)
LEMMA CoverPaid ==
    ASSUME NEW n \in Nat, NEW q \in Nat, q <= n, NEW p \in Nat, NEW c \in Nat,
           NEW d \in Nat, n * p <= c + d
    PROVE  (n - q) * p <= (c - Smaller(q * p, c)) + d
  <1>1. PICK a \in Nat, b \in Nat : a = n * p /\ b = q * p
    OBVIOUS
  <1>2. (n - q) * p = a - b /\ (n - q) * p >= 0
    BY <1>1
  <1>3. PICK r \in Int : r = (n - q) * p
    BY <1>1, <1>2
  <1>4. r = a - b /\ a <= c + d
    BY <1>1, <1>2, <1>3
  <1>5. r <= (c - Smaller(b, c)) + d
    BY <1>4 DEF Smaller
  <1>. QED
    BY <1>1, <1>3, <1>5

(* A payoff of at most the strike costs no more than the strike, and a sum *)
(* no less than each part.                                                 *)
LEMMA CostBounded ==
    ASSUME NEW h \in Nat, NEW c \in Nat, NEW p \in Nat, NEW k \in Nat, p <= k
    PROVE  /\ h * p \in Nat /\ (h + c) * k \in Nat
           /\ h * p <= (h + c) * k
  <1>1. PICK q \in Nat : k = p + q
    <2>1. k - p \in Nat /\ k = p + (k - p)
      OBVIOUS
    <2>. QED
      BY <2>1
  <1>2. PICK paid \in Nat, saved \in Nat, locked \in Nat :
           paid = h * p /\ saved = h * q /\ locked = c * k
    OBVIOUS
  <1>3. h * k = paid + saved
    BY <1>1, <1>2
  <1>4. (h + c) * k = paid + saved + locked
    BY <1>2, <1>3
  <1>5. paid <= paid + saved + locked /\ paid + saved + locked \in Nat
    OBVIOUS
  <1>. QED
    BY <1>2, <1>4, <1>5

(* Fewer options cost no more. *)
LEMMA CostShrinks ==
    ASSUME NEW n \in Nat, NEW k \in Nat, k <= n, NEW p \in Nat
    PROVE  k * p \in Nat /\ n * p \in Nat /\ k * p <= n * p
  <1>1. PICK d \in Nat : n = k + d
    <2>1. n - k \in Nat /\ n = k + (n - k)
      OBVIOUS
    <2>. QED
      BY <2>1
  <1>. QED
    BY <1>1, CostBounded

(* After settlement the payoff is an amount of no more than the strike. *)
LEMMA NextPayoff ==
    ASSUME TypeOK'
    PROVE  Payoff' \in Nat /\ Payoff' <= Strike
  <1>1. vault'.settlement_price \in Nat /\ Strike \in Nat
    BY VaultFields, ParametersAssumption DEF TypeOK
  <1>2. RawIntrinsic(OptionType, vault'.settlement_price, Strike) \in Nat
    BY <1>1, SaturatingSubNat, Zenon DEF RawIntrinsic
  <1>. QED
    BY <1>1, <1>2 DEF Payoff, CappedIntrinsic, Smaller, CollateralPerContract

(* A step that leaves sales, price and pool alone, and adds no option,      *)
(* keeps the cover.                                                         *)
LEMMA CoverUntouched ==
    ASSUME TypeOK, TypeOK', PoolCover, now' >= now,
           TokensHeld' + Escrowed' \in Nat,
           TokensHeld' + Escrowed' <= TokensHeld + Escrowed,
           vault'.is_settled => vault.is_settled,
           vault'.total_options_sold = vault.total_options_sold,
           vault'.settlement_price = vault.settlement_price,
           vault'.collateral_remaining = vault.collateral_remaining
    PROVE  PoolCover'
  <1>1. /\ now \in Nat /\ now' \in Nat /\ Expiry \in Nat /\ ExerciseWindow \in Nat
        /\ vault.collateral_remaining \in Nat
        /\ TokensHeld + Escrowed \in Nat /\ Payoff \in Nat
    BY ParametersAssumption, VaultFields, TotalsNat, PayoffNat DEF TypeOK
  <1>2. Payoff' = Payoff
    BY DEF Payoff
  <1>3. PICK n \in Nat, k \in Nat :
           n = TokensHeld + Escrowed /\ k = TokensHeld' + Escrowed'
    BY <1>1
  <1>4. /\ k * Payoff \in Nat /\ n * Payoff \in Nat
        /\ k * Payoff <= n * Payoff
    BY <1>1, <1>3, CostShrinks
  <1>5. ASSUME n * Payoff <= vault.collateral_remaining
        PROVE  k * Payoff <= vault.collateral_remaining
    BY <1>1, <1>4, <1>5
  <1>. QED
    BY <1>1, <1>2, <1>3, <1>5 DEF PoolCover

(* Settling fixes a payoff of at most a strike for options that a strike    *)
(* each is locked for.                                                      *)
LEMMA SettleCover ==
    ASSUME Books, TypeOK', SettleVault
    PROVE  PoolCover'
  <1>1. /\ ParInvariant /\ TypeOK /\ Strike \in Nat
        /\ vault.total_options_minted \in Nat /\ vault.total_collateral \in Nat
    BY ParametersAssumption, VaultFields DEF Books, ParInvariant, TypeOK
  <1>2. /\ Live
        /\ vault'.collateral_remaining = vault.total_collateral
        /\ tokens' = tokens /\ mint' = mint
    BY <1>1, EndEffect
  <1>3. PICK n \in Nat : n = vault.total_options_minted
    BY <1>1
  <1>4. TokensHeld' + Escrowed' = n
    <2>1. TokensHeld' = TokensHeld /\ Escrowed' = Escrowed
      BY <1>2 DEF TokensHeld, Escrowed
    <2>. QED
      BY <1>2, <1>3, <2>1 DEF Books, VaultBooks, Live
  <1>5. n * Strike <= vault.total_collateral
    BY <1>2, <1>3, MintedBacked
  <1>6. PICK p \in Nat : p = Payoff' /\ p <= Strike
    BY NextPayoff
  <1>7. n * p <= vault.total_collateral
    <2>1. n * p \in Nat /\ (n + 0) * Strike \in Nat /\ n * p <= (n + 0) * Strike
      BY <1>1, <1>6, CostBounded
    <2>2. (n + 0) * Strike = n * Strike
      OBVIOUS
    <2>. QED
      BY <1>1, <1>5, <2>1, <2>2
  <1>. QED
    BY <1>2, <1>4, <1>6, <1>7 DEF PoolCover

(* What is paid for some options is at most their payoff. *)
LEMMA PaidCover ==
    ASSUME TypeOK, TypeOK', PoolCover, NEW q \in Nat, q <= TokensHeld + Escrowed,
           TokensHeld' + Escrowed' = (TokensHeld + Escrowed) - q,
           now' = now, vault.is_settled,
           vault'.total_options_sold = vault.total_options_sold,
           vault'.settlement_price = vault.settlement_price,
           vault'.collateral_remaining
             = vault.collateral_remaining - Smaller(q * Payoff, vault.collateral_remaining)
    PROVE  PoolCover'
  <1>1. /\ Payoff \in Nat /\ vault.collateral_remaining \in Nat
        /\ TokensHeld + Escrowed \in Nat
    BY PayoffNat, TotalsNat, VaultFields DEF TypeOK
  <1>2. Payoff' = Payoff
    BY DEF Payoff
  <1>3. PICK n \in Nat, c \in Nat : n = TokensHeld + Escrowed /\ c = vault.collateral_remaining
    BY <1>1
  <1>4. ASSUME n * Payoff <= c
        PROVE  (n - q) * Payoff <= c - Smaller(q * Payoff, c)
    <2>1. c + 0 = c /\ 0 \in Nat
      OBVIOUS
    <2>2. (n - q) * Payoff <= (c - Smaller(q * Payoff, c)) + 0
      <3>1. n * Payoff <= c + 0 /\ q <= n
        BY <1>3, <1>4, <2>1
      <3>. QED
        BY <1>1, <2>1, <3>1, CoverPaid, Zenon
    <2>3. c - Smaller(q * Payoff, c) \in Int
      <3>1. q * Payoff \in Nat
        BY <1>1
      <3>. QED
        BY <3>1 DEF Smaller
    <2>. QED
      BY <2>2, <2>3
  <1>. QED
    BY <1>2, <1>3, <1>4 DEF PoolCover

(* A holder is paid for its tokens ... *)
LEMMA PayCover ==
    ASSUME TypeOK, TypeOK', VaultBooks, PoolCover, NEW h \in Holders, NEW quantity \in Nat,
           quantity <= tokens[h], vault.is_settled, PayHolder(h, quantity)
    PROVE  PoolCover'
  <1>1. /\ TokensHeld \in Nat /\ Escrowed \in Nat
    BY TotalsNat
  <1>2. TokensHeld' \in Nat /\ TokensHeld' = TokensHeld - quantity
    BY PayCounters
  <1>3. /\ vault'.collateral_remaining
              = vault.collateral_remaining
                  - Smaller(quantity * Payoff, vault.collateral_remaining)
        /\ vault'.settlement_price = vault.settlement_price
        /\ vault'.total_options_sold = vault.total_options_sold
        /\ now' = now /\ mint' = mint
    BY PayEffect, Zenon DEF CountersSame
  <1>4. Escrowed' = Escrowed
    BY <1>3 DEF Escrowed
  <1>5. /\ quantity <= TokensHeld + Escrowed
        /\ TokensHeld' + Escrowed' = (TokensHeld + Escrowed) - quantity
    BY <1>1, <1>2, <1>4
  <1>. QED
    BY <1>3, <1>5, PaidCover

(* ... and the treasury for an escrow's. *)
LEMMA EscrowCover ==
    ASSUME TypeOK, TypeOK', PoolCover, NEW m \in MintIds, AutoFinalizeEscrow(m)
    PROVE  PoolCover'
  <1>1. /\ mint'[m].escrow = 0 /\ now' = now /\ tokens' = tokens
        /\ \A n \in MintIds \ {m} : mint'[n] = mint[n]
        /\ vault.is_settled
    BY EscrowEffect
  <1>2. PICK q \in Nat : q = mint[m].escrow
    BY MintFields DEF TypeOK
  <1>3. /\ vault'.collateral_remaining
              = vault.collateral_remaining - Smaller(q * Payoff, vault.collateral_remaining)
        /\ vault'.settlement_price = vault.settlement_price
        /\ vault'.total_options_sold = vault.total_options_sold
    BY <1>2, EscrowPay DEF CountersSame
  <1>4. /\ TokensHeld \in Nat /\ Escrowed \in Nat /\ q <= Escrowed
        /\ Escrowed' = Escrowed + (0 - q)
    BY <1>1, <1>2, EscrowedChange, TotalsNat
  <1>5. TokensHeld' = TokensHeld
    BY <1>1 DEF TokensHeld
  <1>6. /\ q <= TokensHeld + Escrowed
        /\ TokensHeld' + Escrowed' = (TokensHeld + Escrowed) - q
    BY <1>4, <1>5
  <1>. QED
    BY <1>1, <1>3, <1>6, PaidCover

(* Within the window a writer leaves a settled vault only if no option was  *)
(* ever sold.                                                               *)
LEMMA ExitCover ==
    ASSUME TypeOK, ExerciseWindowOver, CountersSame, now' = now
    PROVE  PoolCover'
  <1>1. now \in Nat /\ Expiry \in Nat /\ ExerciseWindow \in Nat
    BY ParametersAssumption DEF TypeOK
  <1>. QED
    BY <1>1 DEF ExerciseWindowOver, PoolCover, CountersSame

(* No step takes the cover away while the holders' window is open. *)
LEMMA NextCover ==
    ASSUME Books, PoolCover, [Next]_vars
    PROVE  PoolCover'
  <1>1. /\ ParInvariant /\ TypeOK /\ TypeOK' /\ Ending /\ SharesTrackCollateral
        /\ VaultBooks
        /\ now \in Nat /\ vault.is_settled \in BOOLEAN
    BY NextTyping, VaultFields DEF Books, ParInvariant, TypeOK
  <1>2. ASSUME NEW w \in Writers, NEW amount \in Amounts, Deposit(w, amount)
        PROVE  PoolCover'
    <2>1. now < Expiry /\ ~vault.is_settled
      BY <1>2 DEF Deposit
    <2>2. Live
      BY <1>1, <2>1, LiveBefore
    <2>3. PhaseSame
      BY <1>1, <1>2, <2>2, DepositEffect
    <2>. QED
      BY <2>1, <2>3 DEF PoolCover, PhaseSame
  <1>3. ASSUME NEW w \in Writers, NEW m \in MintIds, NEW quantity \in Quantities,
               NEW premium \in Premiums, MintFromVault(w, m, quantity, premium)
        PROVE  PoolCover'
    <2>1. now < Expiry /\ ~vault.is_settled
      BY <1>3 DEF MintFromVault
    <2>2. Live
      BY <1>1, <2>1, LiveBefore
    <2>3. PhaseSame
      BY <1>1, <1>3, <2>2, MintEffect
    <2>. QED
      BY <2>1, <2>3 DEF PoolCover, PhaseSame
  <1>4. ASSUME NEW w \in Writers, NEW m \in MintIds, BurnUnsold(w, m)
        PROVE  PoolCover'
    <2>1. /\ PhaseSame /\ tokens' = tokens /\ now' = now
          /\ vault'.total_options_sold = vault.total_options_sold
          /\ mint'[m].escrow = 0
          /\ \A n \in MintIds \ {m} : mint'[n] = mint[n]
      BY <1>1, <1>4, BurnEffect
    <2>2. /\ TokensHeld \in Nat /\ Escrowed \in Nat /\ Escrowed' \in Nat
          /\ mint[m].escrow \in Nat
          /\ Escrowed' = Escrowed + (mint'[m].escrow - mint[m].escrow)
      BY <1>1, <2>1, EscrowedChange, TotalsNat, MintFields DEF TypeOK
    <2>3. TokensHeld' = TokensHeld
      BY <2>1 DEF TokensHeld
    <2>4. /\ TokensHeld' + Escrowed' \in Nat
          /\ TokensHeld' + Escrowed' <= TokensHeld + Escrowed
      BY <2>1, <2>2, <2>3
    <2>. QED
      BY <1>1, <2>1, <2>4, CoverUntouched DEF PhaseSame
  <1>5. ASSUME NEW w \in Writers, NEW shares \in Amounts, WithdrawFromVault(w, shares)
        PROVE  PoolCover'
    <2>1. Live /\ PhaseSame
      BY <1>1, <1>5, WithdrawEffect
    <2>. QED
      BY <2>1 DEF PoolCover, PhaseSame, Live
  <1>6. ASSUME vault' = vault, tokens' = tokens, mint' = mint, now' >= now
        PROVE  PoolCover'
    <2>1. /\ TokensHeld' = TokensHeld /\ Escrowed' = Escrowed
          /\ TokensHeld \in Nat /\ Escrowed \in Nat
      BY <1>1, <1>6, TotalsNat DEF TokensHeld, Escrowed
    <2>2. /\ TokensHeld' + Escrowed' \in Nat
          /\ TokensHeld' + Escrowed' <= TokensHeld + Escrowed
      BY <2>1
    <2>. QED
      BY <1>1, <1>6, <2>2, CoverUntouched
  <1>7. ASSUME NEW h \in Holders, NEW m \in MintIds, NEW quantity \in Quantities,
               PurchaseFromVault(h, m, quantity)
        PROVE  PoolCover'
    <2>1. ~vault.is_settled /\ PhaseSame
      BY <1>1, <1>7, PurchaseEffect
    <2>. QED
      BY <2>1 DEF PoolCover, PhaseSame
  <1>8. ASSUME NEW h \in Holders, NEW quantity \in Quantities,
               ExerciseFromVault(h, quantity)
        PROVE  PoolCover'
    <2>1. quantity \in Nat /\ quantity <= tokens[h] /\ vault.is_settled
          /\ PayHolder(h, quantity)
      BY <1>8, InputsAssumption DEF ExerciseFromVault
    <2>. QED
      BY <1>1, <2>1, PayCover
  <1>9. ASSUME NEW h \in Holders, AutoFinalizeHolder(h)
        PROVE  PoolCover'
    <2>1. tokens[h] \in Nat /\ tokens[h] <= tokens[h] /\ vault.is_settled
          /\ PayHolder(h, tokens[h])
      BY <1>1, <1>9 DEF AutoFinalizeHolder, TypeOK
    <2>. QED
      BY <1>1, <2>1, PayCover
  <1>10. CASE WriterStep
    <2>1. ASSUME NEW w \in Writers, ClaimPremium(w) PROVE PoolCover'
      <3>1. vault' = vault /\ tokens' = tokens /\ mint' = mint /\ now' = now
        BY <2>1 DEF ClaimPremium
      <3>. QED
        BY <1>1, <1>6, <3>1
    <2>2. ASSUME NEW w \in Writers, WithdrawPostSettlement(w) PROVE PoolCover'
      <3>1. ExerciseWindowOver /\ CountersSame /\ now' = now
        BY <1>1, <2>2, ReleaseCounters DEF WithdrawPostSettlement
      <3>. QED
        BY <1>1, <3>1, ExitCover
    <2>. QED
      BY <1>2, <1>3, <1>4, <1>5, <1>10, <2>1, <2>2 DEF WriterStep
  <1>11. CASE HolderStep
    BY <1>7, <1>8, <1>11 DEF HolderStep
  <1>12. CASE OracleStep \/ Tick \/ UNCHANGED vars
    <2>1. vault' = vault /\ tokens' = tokens /\ mint' = mint /\ now' >= now
      BY <1>1, <1>12 DEF OracleStep, SettleExpiry, Tick, vars
    <2>. QED
      BY <1>6, <2>1
  <1>13. CASE CrankStep
    <2>1. CASE InitializeVoid
      BY <1>1, <2>1, EndEffect DEF PoolCover
    <2>2. ASSUME NEW batch \in SUBSET Writers, AutoFinalizeWriters(batch)
          PROVE  PoolCover'
      <3>1. /\ ExerciseWindowOver /\ now' = now
            /\ vault' = vault \/ \E w \in batch : ReleaseShare(w)
        BY <1>1, <2>2, BatchEffect
      <3>2. CountersSame
        BY <1>1, <3>1, ReleaseCounters DEF CountersSame
      <3>. QED
        BY <1>1, <3>1, <3>2, ExitCover
    <2>3. ASSUME NEW w \in Writers, ReclaimUnsettled(w) PROVE PoolCover'
      <3>1. vault.voided /\ ReleaseShare(w)
        BY <2>3 DEF ReclaimUnsettled
      <3>2. ~vault'.is_settled
        BY <1>1, <3>1, ReleaseEffect, Zenon DEF Ending, EndsOneWay
      <3>. QED
        BY <3>2 DEF PoolCover
    <2>4. CASE CloseDrainedVault
      <3>1. vault' = vault /\ tokens' = tokens /\ mint' = mint /\ now' = now
        BY <2>4 DEF CloseDrainedVault
      <3>. QED
        BY <1>1, <1>6, <3>1
    <2>5. ASSUME NEW m \in MintIds, AutoFinalizeEscrow(m) PROVE PoolCover'
      BY <1>1, <2>5, EscrowCover
    <2>. QED
      BY <1>1, <1>9, <1>13, <2>1, <2>2, <2>3, <2>4, <2>5, SettleCover DEF CrankStep
  <1>. QED
    BY <1>10, <1>11, <1>12, <1>13 DEF Next

(* While the holders' window is open, the remaining collateral pays every   *)
(* option still held in full, whatever writers, cranks and other holders do *)
(* first, and whoever finalizes the escrows of unsold options.              *)
THEOREM HoldersAlwaysCovered == Spec => []HoldersCovered
  <1>1. Init => PoolCover
    BY DEF Init, EmptyVault, PoolCover
  <1>2. Books /\ PoolCover /\ [Next]_vars => PoolCover'
    BY NextCover
  <1>3. Books /\ PoolCover => HoldersCovered
    <2> SUFFICES ASSUME Books, PoolCover, vault.is_settled, now < Expiry + ExerciseWindow
                 PROVE  TokensHeld * Payoff <= vault.collateral_remaining
      BY DEF HoldersCovered
    <2>1. /\ TokensHeld \in Nat /\ Escrowed \in Nat /\ Payoff \in Nat
          /\ vault.total_options_sold \in Nat /\ vault.collateral_remaining \in Nat
          /\ TokensHeld <= vault.total_options_sold
      BY TotalsNat, PayoffNat, VaultFields DEF Books, VaultBooks, ParInvariant, TypeOK
    <2>2. CASE vault.total_options_sold > 0
      <3>1. (TokensHeld + Escrowed) * Payoff <= vault.collateral_remaining
        BY <2>2 DEF PoolCover
      <3>2. PICK n \in Nat : n = TokensHeld + Escrowed
        BY <2>1
      <3>3. /\ TokensHeld * Payoff \in Nat /\ n * Payoff \in Nat
            /\ TokensHeld * Payoff <= n * Payoff
        BY <2>1, <3>2, CostShrinks
      <3>. QED
        BY <2>1, <3>1, <3>2, <3>3
    <2>3. CASE ~(vault.total_options_sold > 0)
      <3>1. TokensHeld = 0
        BY <2>1, <2>3
      <3>2. 0 * Payoff = 0
        BY <2>1
      <3>. QED
        BY <2>1, <3>1, <3>2
    <2>. QED
      BY <2>2, <2>3
  <1>. QED
    BY <1>1, <1>2, <1>3, BooksKept, PTL DEF Spec

---------------------------------------------------------------------------
(* The premium.  While the vault is live the account is compared with what  *)
(* the accumulator owes in its own unit, before any floor: the floors of    *)
(* a purchase's credit are all in the vault's favour there, and each reset  *)
(* of a premium_debt costs less than one base unit.                         *)

(* What the accumulator owes a writer, in units of 1/Scale. *)
Net(w) ==
    position[w].shares * vault.premium_per_share
        - Scale * (position[w].debt + position[w].claimed)

NetOf == SumFunction([w \in Writers |-> Net(w)])

(* An ended American vault may be short of `dust` more (DrawnForDust). *)
PremiumBooks(dust) ==
    IF Live
    THEN /\ \A w \in Writers :
               position[w].debt + position[w].claimed
                  <= Earned(position[w].shares, vault.premium_per_share, Scale)
         /\ Scale * vault.total_collateral + NetOf
               <= Scale * (usdc + rebases + vault.early_exercise_payout)
    ELSE usdcOpen =>
            vault.collateral_remaining + UnclaimedOf <= usdc + rebases + dust

(* The accumulator's floor. *)
LEMMA EarnedBounds ==
    ASSUME NEW s \in Nat, NEW c \in Nat
    PROVE  /\ Earned(s, c, Scale) \in Nat
           /\ s * c \in Nat
           /\ Scale * Earned(s, c, Scale) <= s * c
           /\ s * c < Scale * Earned(s, c, Scale) + Scale
  <1>1. s * c \in Nat /\ Scale \in Nat /\ Scale > 0
    BY ParametersAssumption
  <1>2. /\ (s * c) \div Scale \in Nat
        /\ Scale * ((s * c) \div Scale) <= s * c
        /\ s * c < Scale * ((s * c) \div Scale) + Scale
    BY <1>1, DivBounds
  <1>. QED
    BY <1>1, <1>2 DEF Earned, MulDiv

(* A whole number of units below a total is below its floor. *)
LEMMA FloorLargest ==
    ASSUME NEW k \in Nat, NEW e \in Nat, NEW n \in Nat,
           Scale * k <= n, n < Scale * e + Scale
    PROVE  k <= e
  <1>1. Scale \in Nat /\ Scale > 0
    BY ParametersAssumption
  <1>2. ASSUME k >= e + 1 PROVE FALSE
    <2>1. Scale * (e + 1) <= Scale * k
      BY <1>1, <1>2
    <2>2. Scale * (e + 1) = Scale * e + Scale
      BY <1>1
    <2>3. Scale * k \in Nat /\ Scale * e \in Nat
      BY <1>1
    <2>. QED
      BY <1>1, <2>1, <2>2, <2>3
  <1>. QED
    BY <1>2

(* Shares credited together earn no less than credited apart. *)
LEMMA EarnedTogether ==
    ASSUME NEW s \in Nat, NEW a \in Nat, NEW c \in Nat
    PROVE  Earned(s, c, Scale) + Earned(a, c, Scale) <= Earned(s + a, c, Scale)
  <1> DEFINE x == Earned(s, c, Scale)
             y == Earned(a, c, Scale)
             z == Earned(s + a, c, Scale)
  <1>0. s + a \in Nat
    OBVIOUS
  <1>1. /\ x \in Nat /\ y \in Nat /\ z \in Nat
        /\ s * c \in Nat /\ a * c \in Nat /\ (s + a) * c \in Nat
        /\ Scale * x <= s * c /\ Scale * y <= a * c
        /\ (s + a) * c < Scale * z + Scale
    BY <1>0, EarnedBounds, Zenon
  <1> HIDE DEF x, y, z
  <1>2. Scale \in Nat /\ (s + a) * c = s * c + a * c
    BY ParametersAssumption
  <1>3. Scale * (x + y) = Scale * x + Scale * y
    BY <1>1, <1>2
  <1>4. Scale * x \in Nat /\ Scale * y \in Nat
    BY <1>1, <1>2
  <1>5. Scale * (x + y) <= (s + a) * c
    BY <1>1, <1>2, <1>3, <1>4
  <1>6. x + y <= z
    BY <1>1, <1>5, FloorLargest
  <1>. QED
    BY <1>6 DEF x, y, z

(* A credit to the accumulator never lowers what shares have earned. *)
LEMMA EarnedGrows ==
    ASSUME NEW s \in Nat, NEW c \in Nat, NEW d \in Nat
    PROVE  Earned(s, c, Scale) <= Earned(s, c + d, Scale)
  <1>1. Earned(s, c, Scale) = Earned(c, s, Scale)
    BY DEF Earned, MulDiv
  <1>2. Earned(s, c + d, Scale) = Earned(c + d, s, Scale)
    BY DEF Earned, MulDiv
  <1>3. /\ Earned(c, s, Scale) \in Nat /\ Earned(d, s, Scale) \in Nat
        /\ Earned(c + d, s, Scale) \in Nat
    <2>1. c + d \in Nat
      OBVIOUS
    <2>. QED
      BY <2>1, EarnedBounds, Zenon
  <1>4. Earned(c, s, Scale) + Earned(d, s, Scale) <= Earned(c + d, s, Scale)
    BY EarnedTogether
  <1>. QED
    BY <1>1, <1>2, <1>3, <1>4

(* No shares earn nothing, and leave nothing to claim. *)
LEMMA NothingEarned ==
    ASSUME NEW c \in Nat
    PROVE  /\ Earned(0, c, Scale) = 0
           /\ \A d \in Nat, p \in Nat : Unclaimed(0, c, Scale, d, p) = 0
  <1>1. /\ Earned(0, c, Scale) \in Nat /\ Scale \in Nat /\ Scale > 0
        /\ Scale * Earned(0, c, Scale) <= 0
    BY EarnedBounds, ParametersAssumption
  <1>2. Earned(0, c, Scale) = 0
    BY <1>1
  <1>. QED
    BY <1>2 DEF Unclaimed, SaturatingSub

---------------------------------------------------------------------------
(* How the two totals move. *)

(* What a writer is owed is an integer, what it may claim a natural number. *)
LEMMA NetInt ==
    ASSUME TypeOK
    PROVE  /\ \A w \in Writers : Net(w) \in Int
           /\ NetOf \in Int
           /\ UnclaimedOf \in Nat
           /\ \A w \in Writers : UnclaimedPremium(w) <= UnclaimedOf
  <1> DEFINE f == [w \in Writers |-> Net(w)]
             u == [w \in Writers |-> UnclaimedPremium(w)]
  <1>1. vault.premium_per_share \in Nat /\ Scale \in Nat
        /\ \A w \in Writers : position[w].shares \in Nat
              /\ position[w].debt \in Nat /\ position[w].claimed \in Nat
    BY VaultFields, PositionFields, ParametersAssumption DEF TypeOK
  <1>2. ASSUME NEW w \in Writers PROVE Net(w) \in Int
    <2>1. /\ position[w].shares * vault.premium_per_share \in Int
          /\ Scale * (position[w].debt + position[w].claimed) \in Int
      BY <1>1
    <2>. QED
      BY <2>1 DEF Net
  <1>3. u \in [Writers -> Nat] /\ \A w \in Writers : u[w] = UnclaimedPremium(w)
    BY PremiumNat
  <1>4. f \in [Writers -> Int]
    BY <1>2
  <1>5. NetOf = SumFunction(f) /\ UnclaimedOf = SumFunction(u)
    BY DEF NetOf, UnclaimedOf
  <1> HIDE DEF f, u
  <1>6. SumFunction(f) \in Int
    BY <1>4, TotalInt, FiniteAssumption
  <1>7. SumFunction(u) \in Nat /\ \A w \in Writers : u[w] <= SumFunction(u)
    BY <1>3, TotalNat, FiniteAssumption
  <1>. QED
    BY <1>2, <1>3, <1>5, <1>6, <1>7

(* A position follows its shares, its debt and its claims. *)
LEMMA NetOne ==
    ASSUME TypeOK, TypeOK', NEW w \in Writers,
           vault'.premium_per_share = vault.premium_per_share,
           \A v \in Writers \ {w} : /\ position'[v].shares = position[v].shares
                                    /\ PremiumSame(v)
    PROVE  /\ NetOf' \in Int
           /\ NetOf' = NetOf + (Net(w)' - Net(w))
  <1> DEFINE f == [v \in Writers |-> Net(v)]
             g == [v \in Writers |-> Net(v)']
  <1>1. f \in [Writers -> Int]
    BY NetInt
  <1>2. \A v \in Writers \ {w} : Net(v)' = Net(v)
    BY DEF Net, PremiumSame
  <1>3. Net(w)' \in Int
    <2>1. /\ vault'.premium_per_share \in Nat /\ position'[w].shares \in Nat
          /\ position'[w].debt \in Nat /\ position'[w].claimed \in Nat /\ Scale \in Nat
      BY VaultFields, PositionFields, ParametersAssumption DEF TypeOK
    <2>2. /\ position'[w].shares * vault'.premium_per_share \in Int
          /\ Scale * (position'[w].debt + position'[w].claimed) \in Int
      BY <2>1
    <2>. QED
      BY <2>2 DEF Net
  <1>4. g \in [Writers -> Int]
    BY <1>2, <1>3, NetInt
  <1>5. NetOf = SumFunction(f) /\ NetOf' = SumFunction(g)
    BY DEF NetOf
  <1>6. \A v \in Writers \ {w} : g[v] = f[v]
    BY <1>2
  <1>7. f[w] = Net(w) /\ g[w] = Net(w)'
    OBVIOUS
  <1> HIDE DEF f, g
  <1>8. SumFunction(g) = SumFunction(f) + (g[w] - f[w])
    BY <1>1, <1>4, <1>6, TotalChange, FiniteAssumption
  <1>9. SumFunction(g) \in Int
    BY <1>4, TotalInt, FiniteAssumption
  <1>. QED
    BY <1>5, <1>7, <1>8, <1>9

(* Positions that stay owe the same. *)
LEMMA NetSame ==
    ASSUME vault'.premium_per_share = vault.premium_per_share,
           \A v \in Writers : position'[v].shares = position[v].shares /\ PremiumSame(v)
    PROVE  /\ NetOf' = NetOf
           /\ UnclaimedOf' = UnclaimedOf
           /\ \A v \in Writers : UnclaimedPremium(v)' = UnclaimedPremium(v)
  <1>1. \A v \in Writers : Net(v)' = Net(v)
    BY DEF Net, PremiumSame
  <1>2. \A v \in Writers : UnclaimedPremium(v)' = UnclaimedPremium(v)
    BY DEF UnclaimedPremium, PremiumSame
  <1>3. [v \in Writers |-> Net(v)'] = [v \in Writers |-> Net(v)]
    BY <1>1
  <1>4. [v \in Writers |-> UnclaimedPremium(v)'] = [v \in Writers |-> UnclaimedPremium(v)]
    BY <1>2
  <1>. QED
    BY <1>2, <1>3, <1>4 DEF NetOf, UnclaimedOf

(* A credit to the accumulator is owed once to every share. *)
LEMMA NetCredit ==
    ASSUME TypeOK, TypeOK', NEW credit \in Nat,
           vault'.premium_per_share = vault.premium_per_share + credit,
           \A v \in Writers : position'[v].shares = position[v].shares /\ PremiumSame(v)
    PROVE  /\ NetOf' \in Int /\ SharesOf \in Nat
           /\ NetOf' = NetOf + credit * SharesOf
  <1> DEFINE f == [v \in Writers |-> Net(v)]
             s == [v \in Writers |-> position[v].shares]
             c == [v \in Writers |-> credit * position[v].shares]
             g == [v \in Writers |-> Net(v)']
  <1>1. /\ vault.premium_per_share \in Nat /\ Scale \in Nat
        /\ \A v \in Writers : position[v].shares \in Nat
              /\ position[v].debt \in Nat /\ position[v].claimed \in Nat
    BY VaultFields, PositionFields, ParametersAssumption DEF TypeOK
  <1>2. f \in [Writers -> Int] /\ s \in [Writers -> Int]
    BY <1>1, NetInt
  <1>3. \A v \in Writers : credit * position[v].shares \in Int
    BY <1>1
  <1>4. c \in [Writers -> Int]
    BY <1>3
  <1>5. ASSUME NEW v \in Writers PROVE Net(v)' = Net(v) + credit * position[v].shares
    <2>1. position[v].shares * (vault.premium_per_share + credit)
            = position[v].shares * vault.premium_per_share + credit * position[v].shares
      BY <1>1
    <2>2. /\ position[v].shares * vault.premium_per_share \in Int
          /\ credit * position[v].shares \in Int
          /\ Scale * (position[v].debt + position[v].claimed) \in Int
      BY <1>1
    <2>3. Net(v)' = position[v].shares * (vault.premium_per_share + credit)
                      - Scale * (position[v].debt + position[v].claimed)
      BY DEF Net, PremiumSame
    <2>. QED
      BY <2>1, <2>2, <2>3 DEF Net
  <1>6. g \in [Writers -> Int] /\ \A v \in Writers : g[v] = f[v] + c[v]
    BY <1>3, <1>5, NetInt
  <1>7. \A v \in Writers : c[v] = credit * s[v]
    OBVIOUS
  <1>8. NetOf = SumFunction(f) /\ NetOf' = SumFunction(g) /\ SharesOf = SumFunction(s)
    BY DEF NetOf, SharesOf
  <1> HIDE DEF f, g, s, c
  <1>9. SumFunction(g) = SumFunction(f) + SumFunction(c)
    BY <1>2, <1>4, <1>6, TotalAdd, FiniteAssumption
  <1>10. SumFunction(c) = credit * SumFunction(s)
    BY <1>2, <1>4, <1>7, TotalScale, FiniteAssumption
  <1>11. SumFunction(g) \in Int
    BY <1>6, TotalInt, FiniteAssumption
  <1>. QED
    BY <1>8, <1>9, <1>10, <1>11, TotalsNat

(* What may still be claimed follows the one position that changed. *)
LEMMA UnclaimedOne ==
    ASSUME TypeOK, TypeOK', NEW w \in Writers,
           \A v \in Writers \ {w} : UnclaimedPremium(v)' = UnclaimedPremium(v)
    PROVE  /\ UnclaimedPremium(w)' \in Nat /\ UnclaimedOf' \in Nat
           /\ UnclaimedOf' = UnclaimedOf + (UnclaimedPremium(w)' - UnclaimedPremium(w))
  <1> DEFINE f == [v \in Writers |-> UnclaimedPremium(v)]
             g == [v \in Writers |-> UnclaimedPremium(v)']
  <1>1. f \in [Writers -> Nat]
    BY PremiumNat
  <1>2. UnclaimedPremium(w)' \in Nat
    <2>1. vault' \in Vault /\ position'[w] \in Position
      BY DEF TypeOK
    <2>. QED
      BY <2>1, VaultFields, PositionFields, UnclaimedNat, Zenon DEF UnclaimedPremium
  <1>3. g \in [Writers -> Nat]
    BY <1>2, PremiumNat
  <1>4. \A v \in Writers \ {w} : g[v] = f[v]
    OBVIOUS
  <1>5. f[w] = UnclaimedPremium(w) /\ g[w] = UnclaimedPremium(w)'
    OBVIOUS
  <1>6. UnclaimedOf = SumFunction(f) /\ UnclaimedOf' = SumFunction(g)
    BY DEF UnclaimedOf
  <1> HIDE DEF f, g
  <1>7. f \in [Writers -> Int] /\ g \in [Writers -> Int]
    BY <1>1, <1>3
  <1>8. SumFunction(g) = SumFunction(f) + (g[w] - f[w])
    BY <1>4, <1>7, TotalChange, FiniteAssumption
  <1>9. SumFunction(g) \in Nat
    BY <1>3, TotalNat, FiniteAssumption
  <1>. QED
    BY <1>2, <1>5, <1>6, <1>8, <1>9

---------------------------------------------------------------------------
(* The premium of a live vault, instruction by instruction. *)

(* No writer has claimed, or been charged, more than its shares earned. *)
Within(w) ==
    position[w].debt + position[w].claimed
       <= Earned(position[w].shares, vault.premium_per_share, Scale)

(* The comparison in the accumulator's unit survives a step that adds d to  *)
(* the pool, n to what is owed and k to what covers both, if d and n fit in *)
(* k.                                                                       *)
LEMMA LiveAccount ==
    ASSUME NEW dust \in Nat, TypeOK, TypeOK', PremiumBooks(dust), Live, Live',
           \A v \in Writers : Within(v)',
           NEW d \in Int, NEW n \in Int, NEW k \in Int,
           Scale * d + n <= Scale * k,
           vault'.total_collateral = vault.total_collateral + d,
           NetOf' \in Int, NetOf' <= NetOf + n,
           usdc' + rebases' + vault'.early_exercise_payout
              = usdc + rebases + vault.early_exercise_payout + k
    PROVE  PremiumBooks(dust)'
  <1> DEFINE C == vault.total_collateral
             A == usdc + rebases + vault.early_exercise_payout
  <1>1. /\ C \in Int /\ A \in Int /\ Scale \in Int /\ NetOf \in Int
    BY VaultFields, ParametersAssumption, NetInt DEF TypeOK
  <1>2. Scale * C + NetOf <= Scale * A
    BY DEF PremiumBooks
  <1>3. vault'.total_collateral = C + d
    OBVIOUS
  <1>4. usdc' + rebases' + vault'.early_exercise_payout = A + k
    OBVIOUS
  <1> HIDE DEF C, A
  <1>5. Scale * (C + d) = Scale * C + Scale * d /\ Scale * (A + k) = Scale * A + Scale * k
    BY <1>1
  <1>6. /\ Scale * C \in Int /\ Scale * d \in Int
        /\ Scale * A \in Int /\ Scale * k \in Int
    BY <1>1
  <1>7. Scale * (C + d) + NetOf' <= Scale * (A + k)
    <2> DEFINE sc == Scale * C
               sd == Scale * d
               sa == Scale * A
               sk == Scale * k
    <2>1. /\ sc \in Int /\ sd \in Int /\ sa \in Int /\ sk \in Int
          /\ sc + NetOf <= sa /\ sd + n <= sk
          /\ Scale * (C + d) = sc + sd /\ Scale * (A + k) = sa + sk
      BY <1>2, <1>5, <1>6
    <2> HIDE DEF sc, sd, sa, sk
    <2>2. \A x \in Int, y \in Int :
             sc + x <= sa /\ y <= x + n => sc + sd + y <= sa + sk
      BY <2>1
    <2>3. sc + sd + NetOf' <= sa + sk
      <3>1. NetOf \in Int /\ NetOf' \in Int /\ NetOf' <= NetOf + n
        BY <1>1
      <3>. QED
        BY <2>1, <2>2, <3>1, Zenon
    <2>. QED
      BY <2>1, <2>3, Zenon
  <1>8. Scale * vault'.total_collateral + NetOf'
          <= Scale * (usdc' + rebases' + vault'.early_exercise_payout)
    BY <1>3, <1>4, <1>7
  <1>. QED
    BY <1>8 DEF PremiumBooks, Within

(* Instructions that move no premium. *)
LEMMA LiveUntouched ==
    ASSUME NEW dust \in Nat, TypeOK, TypeOK', PremiumBooks(dust), Live, Live',
           vault'.total_collateral = vault.total_collateral,
           vault'.premium_per_share = vault.premium_per_share,
           usdc' + rebases' + vault'.early_exercise_payout
              = usdc + rebases + vault.early_exercise_payout,
           \A v \in Writers : position'[v].shares = position[v].shares /\ PremiumSame(v)
    PROVE  PremiumBooks(dust)'
  <1>1. NetOf' = NetOf
    BY NetSame
  <1>2. \A v \in Writers : Within(v)'
    BY DEF PremiumBooks, Within, PremiumSame
  <1>. QED
    BY <1>1, <1>2 DEF PremiumBooks, Within

(* deposit_to_vault: a premium_debt is rounded down by less than a unit. *)
LEMMA DepositPremium ==
    ASSUME NEW dust \in Nat, TypeOK, TypeOK', SharesTrackCollateral,
           PremiumBooks(dust), Live, NEW w \in Writers, NEW amount \in Amounts, Deposit(w, amount)
    PROVE  PremiumBooks(dust)'
  <1> DEFINE pps    == vault.premium_per_share
             credit == Earned(amount, pps, Scale)
             s      == position[w].shares
             owed   == position[w].debt + position[w].claimed
  <1>1. /\ amount \in Nat /\ credit \in Nat
        /\ vault'.total_collateral = vault.total_collateral + amount
        /\ vault'.premium_per_share = vault.premium_per_share
        /\ PhaseSame
        /\ \A v \in Writers \ {w} : position'[v] = position[v]
        /\ position'[w].shares = s + amount
        /\ usdc' = usdc + amount
        /\ rebases' = rebases + 1
    BY DepositEffect
  <1>2. \/ /\ s = 0 /\ position'[w].debt + position'[w].claimed = credit
        \/ /\ position'[w].debt + position'[w].claimed = owed + credit
    <2>1. /\ position[w].debt \in Nat /\ position[w].claimed \in Nat
          /\ position'[w].debt \in Nat /\ position'[w].claimed \in Nat
      BY PositionFields DEF TypeOK
    <2>2. \/ s = 0 /\ position'[w].debt = credit /\ position'[w].claimed = 0
          \/ /\ position'[w].debt = position[w].debt + credit
             /\ position'[w].claimed = position[w].claimed
      BY DepositEffect
    <2> HIDE DEF credit
    <2>. QED
      BY <1>1, <2>1, <2>2
  <1>3. /\ pps \in Nat /\ s \in Nat /\ owed \in Nat /\ Scale \in Nat /\ Scale > 0
        /\ usdc \in Nat /\ rebases \in Nat /\ vault.early_exercise_payout \in Nat
    BY VaultFields, PositionFields, ParametersAssumption DEF TypeOK
  <1>4. /\ s * pps \in Nat /\ amount * pps \in Nat
        /\ amount * pps < Scale * credit + Scale
        /\ Scale * credit \in Nat
    BY <1>1, <1>3, EarnedBounds
  <1>5. owed <= Earned(s, pps, Scale) /\ Earned(s, pps, Scale) \in Nat
    BY <1>3, EarnedBounds, Zenon DEF PremiumBooks
  <1>6. s = 0 => owed = 0
    BY <1>3, <1>5, NothingEarned
  <1>7. position'[w].debt + position'[w].claimed = owed + credit
    BY <1>1, <1>2, <1>3, <1>6
  <1>8. Earned(s, pps, Scale) + credit <= Earned(s + amount, pps, Scale)
        /\ Earned(s + amount, pps, Scale) \in Nat
    <2>1. s + amount \in Nat
      BY <1>1, <1>3
    <2> HIDE DEF s, pps
    <2>. QED
      BY <1>1, <1>3, <2>1, EarnedTogether, EarnedNat
  <1>9. Net(w)' = (s + amount) * pps - Scale * (owed + credit)
    BY <1>1, <1>7 DEF Net
  <1>10. Net(w) = s * pps - Scale * owed
    BY DEF Net
  <1>11. Live'
    BY <1>1 DEF Live, PhaseSame
  <1>12. ASSUME NEW v \in Writers PROVE Within(v)'
    <2>1. CASE v = w
      <3>1. owed + credit <= Earned(s + amount, pps, Scale)
        <4> HIDE DEF owed, credit, s, pps
        <4>. QED
          BY <1>1, <1>3, <1>5, <1>8
      <3>. QED
        BY <1>1, <1>7, <2>1, <3>1 DEF Within
    <2>2. CASE v # w
      BY <1>1, <2>2 DEF PremiumBooks, Within
    <2>. QED
      BY <2>1, <2>2
  <1>13. /\ NetOf' \in Int /\ NetOf' = NetOf + (Net(w)' - Net(w))
    BY <1>1, NetOne DEF PremiumSame
  <1>14. usdc' + rebases' + vault'.early_exercise_payout
           = usdc + rebases + vault.early_exercise_payout + (amount + 1)
    BY <1>1, <1>3 DEF PhaseSame
  <1> HIDE DEF pps, credit, s, owed
  <1>15. PICK new \in Int : new = Net(w)' /\ new <= Net(w) + Scale
    <2>1. (s + amount) * pps = s * pps + amount * pps
      BY <1>1, <1>3
    <2>2. Scale * (owed + credit) = Scale * owed + Scale * credit
      BY <1>1, <1>3
    <2>3. Scale * owed \in Nat
      BY <1>3
    <2>4. (s + amount) * pps - Scale * (owed + credit)
             <= (s * pps - Scale * owed) + Scale
          /\ (s + amount) * pps - Scale * (owed + credit) \in Int
      BY <1>3, <1>4, <2>1, <2>2, <2>3
    <2>. QED
      BY <1>9, <1>10, <2>4
  <1>16. NetOf' <= NetOf + Scale
    <2>1. NetOf \in Int /\ Net(w) \in Int
      BY NetInt
    <2>2. NetOf + (new - Net(w)) <= NetOf + Scale
      BY <1>3, <1>15, <2>1
    <2>. QED
      BY <1>13, <1>15, <2>2
  <1>17. Scale * amount + Scale <= Scale * (amount + 1)
    BY <1>1, <1>3
  <1>18. amount \in Int /\ Scale \in Int /\ amount + 1 \in Int
    BY <1>1, <1>3
  <1>. QED
    BY <1>1, <1>11, <1>12, <1>13, <1>14, <1>16, <1>17, <1>18, LiveAccount

(* withdraw_from_vault: nothing is left to claim, and the new premium_debt  *)
(* is rounded down by less than a unit.                                     *)
LEMMA WithdrawPremium ==
    ASSUME NEW dust \in Nat, TypeOK, TypeOK', SharesTrackCollateral,
           PremiumBooks(dust), NEW w \in Writers, NEW shares \in Amounts, WithdrawFromVault(w, shares)
    PROVE  PremiumBooks(dust)'
  <1> DEFINE pps    == vault.premium_per_share
             left   == position[w].shares - shares
             debt   == Earned(left, pps, Scale)
             s      == position[w].shares
             owed   == position[w].debt + position[w].claimed
  <1>1. /\ Live /\ shares \in Nat /\ left \in Nat /\ debt \in Nat
        /\ shares <= usdc
        /\ UnclaimedPremium(w) = 0
        /\ vault'.total_collateral = vault.total_collateral - shares
        /\ vault'.premium_per_share = vault.premium_per_share
        /\ PhaseSame
        /\ \A v \in Writers \ {w} : position'[v] = position[v]
        /\ position'[w].shares = left
        /\ position'[w].debt = debt
        /\ position'[w].claimed = 0
        /\ usdc' = usdc - shares
        /\ rebases' = rebases + 1
    BY WithdrawEffect
  <1>2. /\ pps \in Nat /\ s \in Nat /\ owed \in Nat /\ Scale \in Nat /\ Scale > 0
        /\ position[w].debt \in Nat /\ position[w].claimed \in Nat
        /\ usdc \in Nat /\ rebases \in Nat /\ vault.early_exercise_payout \in Nat
        /\ vault.total_collateral \in Nat
    BY VaultFields, PositionFields, ParametersAssumption DEF TypeOK
  <1>3. /\ Earned(s, pps, Scale) \in Nat /\ s * pps \in Nat
        /\ Scale * Earned(s, pps, Scale) <= s * pps
    BY <1>2, EarnedBounds, Zenon
  <1>4. /\ left * pps \in Nat /\ left * pps < Scale * debt + Scale
    BY <1>1, <1>2, EarnedBounds
  <1>5. owed <= Earned(s, pps, Scale)
    BY <1>1 DEF PremiumBooks
  <1>6. owed = Earned(s, pps, Scale)
    <2>1. SaturatingSub(SaturatingSub(Earned(s, pps, Scale), position[w].debt),
                        position[w].claimed) = 0
      BY <1>1 DEF UnclaimedPremium, Unclaimed
    <2> DEFINE e == Earned(s, pps, Scale)
    <2>2. e \in Nat /\ owed <= e
          /\ SaturatingSub(SaturatingSub(e, position[w].debt), position[w].claimed) = 0
      BY <1>3, <1>5, <2>1
    <2> HIDE DEF e
    <2>3. owed = e
      BY <1>2, <2>2 DEF SaturatingSub
    <2>. QED
      BY <2>3 DEF e
  <1>7. Net(w)' = left * pps - Scale * debt
    <2>1. debt + 0 = debt
      BY <1>1
    <2> HIDE DEF debt, left
    <2>. QED
      BY <1>1, <2>1 DEF Net
  <1>8. Net(w) = s * pps - Scale * owed
    BY DEF Net
  <1>9. Live'
    BY <1>1 DEF Live, PhaseSame
  <1>10. ASSUME NEW v \in Writers PROVE Within(v)'
    <2>1. CASE v = w
      <3>1. position'[w].debt + position'[w].claimed = debt
        <4> HIDE DEF debt, left
        <4>. QED
          BY <1>1
      <3>2. Earned(position'[w].shares, vault'.premium_per_share, Scale) = debt
        BY <1>1
      <3> HIDE DEF debt, left
      <3>. QED
        BY <1>1, <2>1, <3>1, <3>2 DEF Within
    <2>2. CASE v # w
      BY <1>1, <2>2 DEF PremiumBooks, Within
    <2>. QED
      BY <2>1, <2>2
  <1>11. /\ NetOf' \in Int /\ NetOf' = NetOf + (Net(w)' - Net(w))
    BY <1>1, NetOne DEF PremiumSame
  <1>12. usdc' + rebases' + vault'.early_exercise_payout
           = usdc + rebases + vault.early_exercise_payout + (1 - shares)
    BY <1>1, <1>2 DEF PhaseSame
  <1>13. vault'.total_collateral = vault.total_collateral + (0 - shares)
    BY <1>1, <1>2
  <1> HIDE DEF pps, left, debt, s, owed
  <1>14. PICK new \in Int : new = Net(w)' /\ new <= Scale
    <2>1. Scale * debt \in Nat
      BY <1>1, <1>2
    <2>2. left * pps - Scale * debt <= Scale /\ left * pps - Scale * debt \in Int
      BY <1>2, <1>4, <2>1
    <2>. QED
      BY <1>7, <2>2
  <1>15. Net(w) >= 0
    <2>1. Scale * owed \in Nat
      BY <1>2
    <2>. QED
      BY <1>3, <1>6, <1>8, <2>1
  <1>16. NetOf' <= NetOf + Scale
    <2>1. NetOf \in Int /\ Net(w) \in Int
      BY NetInt
    <2>2. NetOf + (new - Net(w)) <= NetOf + Scale
      BY <1>2, <1>14, <1>15, <2>1
    <2>. QED
      BY <1>11, <1>14, <2>2
  <1>17. Scale * (0 - shares) + Scale <= Scale * (1 - shares)
    BY <1>1, <1>2
  <1>18. 0 - shares \in Int /\ Scale \in Int /\ 1 - shares \in Int
    BY <1>1, <1>2
  <1>. QED
    BY <1>1, <1>9, <1>10, <1>11, <1>12, <1>13, <1>16, <1>17, <1>18, LiveAccount

(* A premium banked: its credit to all shares together is at most as much.  *)
LEMMA CreditPremium ==
    ASSUME NEW dust \in Nat, TypeOK, TypeOK', SharesCounted, PremiumBooks(dust),
           Live, Live',
           NEW share \in Nat,
           vault'.premium_per_share = vault.premium_per_share + Credit(share),
           vault'.total_collateral = vault.total_collateral,
           vault'.early_exercise_payout = vault.early_exercise_payout,
           usdc' = usdc + share, rebases' = rebases,
           \A v \in Writers : position'[v].shares = position[v].shares /\ PremiumSame(v)
    PROVE  PremiumBooks(dust)'
  <1> DEFINE credit == Credit(share)
  <1>1. credit \in Nat
    BY CreditNat
  <1>2. /\ vault'.premium_per_share = vault.premium_per_share + credit
        /\ credit = IF vault.total_shares > 0
                    THEN MulDiv(share, Scale, vault.total_shares) ELSE 0
    BY DEF Credit
  <1> HIDE DEF credit
  <1>3. /\ NetOf' \in Int /\ SharesOf \in Nat
        /\ NetOf' = NetOf + credit * SharesOf
    BY <1>1, <1>2, NetCredit
  <1>4. /\ vault.total_shares \in Nat /\ Scale \in Nat
        /\ usdc \in Nat /\ rebases \in Nat /\ vault.early_exercise_payout \in Nat
        /\ vault.total_collateral \in Nat /\ vault.premium_per_share \in Nat
    BY VaultFields, ParametersAssumption DEF TypeOK
  <1>5. credit * SharesOf <= Scale * share
    <2>1. SharesOf = vault.total_shares
      BY DEF SharesCounted
    <2>2. CASE vault.total_shares > 0
      <3>1. share * Scale \in Nat
        BY <1>4
      <3>2. vault.total_shares * ((share * Scale) \div vault.total_shares) <= share * Scale
        BY <1>4, <2>2, <3>1, DivBounds
      <3>3. vault.total_shares * credit <= share * Scale
        BY <1>2, <2>2, <3>2 DEF MulDiv
      <3>4. /\ vault.total_shares * credit = credit * vault.total_shares
            /\ share * Scale = Scale * share
        BY <1>1, <1>4
      <3>. QED
        BY <2>1, <3>3, <3>4
    <2>3. CASE ~(vault.total_shares > 0)
      <3>1. credit = 0 /\ 0 * SharesOf = 0 /\ Scale * share >= 0
        BY <1>2, <1>3, <1>4, <2>3
      <3>. QED
        BY <3>1
    <2>. QED
      BY <2>2, <2>3
  <1>6. ASSUME NEW v \in Writers PROVE Within(v)'
    <2>1. position[v].shares \in Nat /\ position[v].debt \in Nat
          /\ position[v].claimed \in Nat
      BY PositionFields DEF TypeOK
    <2>2. /\ Earned(position[v].shares, vault.premium_per_share, Scale)
               <= Earned(position[v].shares, vault.premium_per_share + credit, Scale)
          /\ Earned(position[v].shares, vault.premium_per_share, Scale) \in Nat
          /\ Earned(position[v].shares, vault.premium_per_share + credit, Scale) \in Nat
      <3>1. vault.premium_per_share + credit \in Nat
        BY <1>1, <1>4
      <3>. QED
        BY <1>1, <1>4, <2>1, <3>1, EarnedGrows, EarnedNat, Zenon
    <2>3. position[v].debt + position[v].claimed
            <= Earned(position[v].shares, vault.premium_per_share, Scale)
      BY DEF PremiumBooks
    <2>4. position[v].debt + position[v].claimed
            <= Earned(position[v].shares, vault.premium_per_share + credit, Scale)
      BY <2>1, <2>2, <2>3
    <2>. QED
      BY <1>2, <2>4 DEF Within, PremiumSame
  <1>7. credit * SharesOf \in Int /\ share \in Int /\ 0 \in Int
    BY <1>1, <1>3
  <1>8. /\ Scale * 0 + credit * SharesOf <= Scale * share
        /\ vault'.total_collateral = vault.total_collateral + 0
        /\ NetOf' <= NetOf + credit * SharesOf
        /\ usdc' + rebases' + vault'.early_exercise_payout
             = usdc + rebases + vault.early_exercise_payout + share
    BY <1>3, <1>4, <1>5, <1>7
  <1>. QED
    BY <1>3, <1>6, <1>7, <1>8, LiveAccount

(* claim_premium takes what it takes from what is owed. *)
LEMMA ClaimLive ==
    ASSUME NEW dust \in Nat, TypeOK, TypeOK', PremiumBooks(dust), Live,
           NEW w \in Writers, ClaimPremium(w)
    PROVE  PremiumBooks(dust)'
  <1> DEFINE pps  == vault.premium_per_share
             u    == UnclaimedPremium(w)
             s    == position[w].shares
             e    == Earned(s, pps, Scale)
             owed == position[w].debt + position[w].claimed
  <1>1. /\ u \in Nat /\ u <= usdc
        /\ \A v \in Writers \ {w} : position'[v] = position[v]
        /\ position'[w].claimed = position[w].claimed + u
        /\ position'[w].debt = position[w].debt
        /\ position'[w].shares = s
        /\ usdc' = usdc - u
        /\ vault' = vault /\ rebases' = rebases
    BY ClaimEffect DEF StakeSame
  <1>2. /\ pps \in Nat /\ s \in Nat /\ owed \in Nat /\ Scale \in Nat
        /\ position[w].debt \in Nat /\ position[w].claimed \in Nat
        /\ usdc \in Nat /\ rebases \in Nat /\ vault.early_exercise_payout \in Nat
        /\ vault.total_collateral \in Nat
    BY VaultFields, PositionFields, ParametersAssumption DEF TypeOK
  <1>3. e \in Nat /\ s * pps \in Nat
    BY <1>2, EarnedBounds, Zenon
  <1>4. owed <= e
    BY DEF PremiumBooks
  <1>5. owed + u = e
    <2>1. u = SaturatingSub(SaturatingSub(e, position[w].debt), position[w].claimed)
      BY DEF UnclaimedPremium, Unclaimed
    <2> HIDE DEF u, e
    <2>. QED
      BY <1>2, <1>3, <1>4, <2>1 DEF SaturatingSub
  <1>6. position'[w].debt + position'[w].claimed = owed + u
    <2> HIDE DEF u
    <2>. QED
      BY <1>1, <1>2
  <1>7. Net(w)' = s * pps - Scale * (owed + u) /\ Net(w) = s * pps - Scale * owed
    BY <1>1, <1>6 DEF Net
  <1>8. Live'
    BY <1>1 DEF Live
  <1>9. ASSUME NEW v \in Writers PROVE Within(v)'
    <2>1. CASE v = w
      <3>1. Earned(position'[w].shares, vault'.premium_per_share, Scale) = e
        BY <1>1
      <3>2. owed + u <= e
        BY <1>3, <1>5
      <3> HIDE DEF u, e
      <3>. QED
        BY <1>6, <2>1, <3>1, <3>2 DEF Within
    <2>2. CASE v # w
      BY <1>1, <2>2 DEF PremiumBooks, Within
    <2>. QED
      BY <2>1, <2>2
  <1>10. /\ NetOf' \in Int /\ NetOf' = NetOf + (Net(w)' - Net(w))
    BY <1>1, NetOne DEF PremiumSame
  <1> HIDE DEF pps, u, s, e, owed
  <1>11. PICK new \in Int : new = Net(w)' /\ new = Net(w) + (0 - Scale * u)
    <2>1. Scale * (owed + u) = Scale * owed + Scale * u
      BY <1>1, <1>2
    <2>2. Scale * owed \in Int /\ Scale * u \in Int
      BY <1>1, <1>2
    <2>3. /\ s * pps - Scale * (owed + u) = (s * pps - Scale * owed) + (0 - Scale * u)
          /\ s * pps - Scale * (owed + u) \in Int
      BY <1>3, <2>1, <2>2
    <2>. QED
      BY <1>7, <2>3
  <1>12. Scale * u \in Int /\ 0 - Scale * u \in Int
    BY <1>1, <1>2
  <1>13. NetOf' <= NetOf + (0 - Scale * u)
    <2>1. NetOf \in Int /\ Net(w) \in Int
      BY NetInt
    <2>2. NetOf + (new - Net(w)) <= NetOf + (0 - Scale * u)
      BY <1>11, <1>12, <2>1
    <2>. QED
      BY <1>10, <1>11, <2>2
  <1>14. /\ Scale * 0 + (0 - Scale * u) <= Scale * (0 - u)
         /\ 0 - u \in Int
    BY <1>1, <1>2
  <1>15. /\ vault'.total_collateral = vault.total_collateral + 0
         /\ usdc' + rebases' + vault'.early_exercise_payout
              = usdc + rebases + vault.early_exercise_payout + (0 - u)
    BY <1>1, <1>2
  <1>. QED
    BY <1>8, <1>9, <1>10, <1>12, <1>13, <1>14, <1>15, LiveAccount

---------------------------------------------------------------------------
(* The premium of an ended vault. *)

(* A payout of r from the pool, and of u of unclaimed premium, is covered. *)
LEMMA EndedAccount ==
    ASSUME NEW dust \in Nat, TypeOK, TypeOK', PremiumBooks(dust), ~Live, ~Live',
           NEW r \in Int, NEW u \in Int,
           vault'.collateral_remaining = vault.collateral_remaining - r,
           UnclaimedOf' \in Nat, UnclaimedOf' = UnclaimedOf - u, rebases' = rebases,
           usdcOpen' => usdcOpen /\ usdc' = usdc - u - r
    PROVE  PremiumBooks(dust)'
  <1>1. /\ vault.collateral_remaining \in Nat /\ usdc \in Nat /\ rebases \in Nat
        /\ UnclaimedOf \in Nat
    BY VaultFields, NetInt DEF TypeOK
  <1>2. ASSUME usdcOpen'
        PROVE  vault'.collateral_remaining + UnclaimedOf' <= usdc' + rebases' + dust
    <2>1. vault.collateral_remaining + UnclaimedOf <= usdc + rebases + dust
      BY <1>2 DEF PremiumBooks
    <2>2. (vault.collateral_remaining - r) + (UnclaimedOf - u)
             <= (usdc - u - r) + rebases + dust
      BY <1>1, <2>1
    <2>. QED
      BY <1>2, <2>2
  <1>. QED
    BY <1>2 DEF PremiumBooks

(* A position without shares has nothing to claim, before a step or after. *)
LEMMA NoSharesNoPremium ==
    ASSUME TypeOK, TypeOK', NEW w \in Writers
    PROVE  /\ position[w].shares = 0 => UnclaimedPremium(w) = 0
           /\ position'[w].shares = 0 => UnclaimedPremium(w)' = 0
  <1>1. /\ vault.premium_per_share \in Nat
        /\ position[w].debt \in Nat /\ position[w].claimed \in Nat
        /\ vault'.premium_per_share \in Nat
        /\ position'[w].debt \in Nat /\ position'[w].claimed \in Nat
    BY VaultFields, PositionFields DEF TypeOK
  <1>2. ASSUME position[w].shares = 0 PROVE UnclaimedPremium(w) = 0
    BY <1>1, <1>2, NothingEarned DEF UnclaimedPremium
  <1>3. ASSUME position'[w].shares = 0 PROVE UnclaimedPremium(w)' = 0
    BY <1>1, <1>3, NothingEarned DEF UnclaimedPremium
  <1>. QED
    BY <1>2, <1>3

(* A writer who leaves takes its share and its premium, and nobody else's. *)
LEMMA ReleasePremium ==
    ASSUME NEW dust \in Nat, TypeOK, TypeOK', PremiumBooks(dust), ~Live,
           NEW w \in Writers, ReleaseShare(w),
           \A v \in Writers \ {w} : UnclaimedPremium(v)' = UnclaimedPremium(v),
           position'[w].shares = 0, rebases' = rebases,
           usdcOpen' => /\ usdcOpen
                        /\ usdc' = usdc - UnclaimedPremium(w) - WriterRemaining(w)
    PROVE  PremiumBooks(dust)'
  <1>1. PICK u \in Nat : u = UnclaimedPremium(w)
    BY PremiumNat
  <1>2. PICK r \in Nat : r = WriterRemaining(w)
    BY RemainingNat
  <1>3. vault'.collateral_remaining = vault.collateral_remaining - r /\ ~Live'
    BY <1>2, ReleaseEffect DEF Live
  <1>4. UnclaimedPremium(w)' = 0
    BY NoSharesNoPremium
  <1>5. /\ UnclaimedOf' \in Nat /\ UnclaimedOf \in Nat
        /\ UnclaimedOf' = UnclaimedOf + (0 - u)
    BY <1>1, <1>4, UnclaimedOne, NetInt
  <1>6. UnclaimedOf' = UnclaimedOf - u /\ u \in Int /\ r \in Int
    BY <1>5
  <1>. QED
    BY <1>1, <1>2, <1>3, <1>5, <1>6, EndedAccount

(* Claiming moves premium out of an ended vault, too. *)
LEMMA ClaimEnded ==
    ASSUME NEW dust \in Nat, TypeOK, TypeOK', PremiumBooks(dust), ~Live,
           NEW w \in Writers, ClaimPremium(w)
    PROVE  PremiumBooks(dust)'
  <1>1. PICK u \in Nat : u = UnclaimedPremium(w)
    BY PremiumNat
  <1>2. /\ \A v \in Writers \ {w} : position'[v] = position[v]
        /\ position'[w].claimed = position[w].claimed + u
        /\ position'[w].debt = position[w].debt
        /\ position'[w].shares = position[w].shares
        /\ usdc' = usdc - u /\ usdc \in Nat
        /\ vault' = vault /\ rebases' = rebases /\ usdcOpen' = usdcOpen
    BY <1>1, ClaimEffect DEF StakeSame, TypeOK
  <1>3. /\ vault.premium_per_share \in Nat /\ vault.collateral_remaining \in Nat
        /\ position[w].shares \in Nat
        /\ position[w].debt \in Nat /\ position[w].claimed \in Nat
    BY VaultFields, PositionFields DEF TypeOK
  <1>4. UnclaimedPremium(w)' = 0
    <2> DEFINE e == Earned(position[w].shares, vault.premium_per_share, Scale)
    <2>1. e \in Nat
      BY <1>3, EarnedNat, Zenon
    <2>2. u = SaturatingSub(SaturatingSub(e, position[w].debt), position[w].claimed)
      BY <1>1 DEF UnclaimedPremium, Unclaimed
    <2>3. UnclaimedPremium(w)' =
            SaturatingSub(SaturatingSub(e, position[w].debt), position[w].claimed + u)
      BY <1>2 DEF UnclaimedPremium, Unclaimed
    <2> HIDE DEF e
    <2>4. SaturatingSub(SaturatingSub(e, position[w].debt), position[w].claimed + u) = 0
      BY <1>3, <2>1, <2>2 DEF SaturatingSub
    <2>. QED
      BY <2>3, <2>4
  <1>5. \A v \in Writers \ {w} : UnclaimedPremium(v)' = UnclaimedPremium(v)
    BY <1>2 DEF UnclaimedPremium
  <1>6. /\ UnclaimedOf' \in Nat /\ UnclaimedOf \in Nat
        /\ UnclaimedOf' = UnclaimedOf + (0 - u)
    BY <1>1, <1>4, <1>5, UnclaimedOne, NetInt
  <1>7. /\ UnclaimedOf' = UnclaimedOf - u /\ u \in Int /\ 0 \in Int
        /\ vault'.collateral_remaining = vault.collateral_remaining - 0
        /\ usdc' = usdc - u - 0
        /\ ~Live'
    BY <1>2, <1>3, <1>6 DEF Live
  <1>. QED
    BY <1>2, <1>6, <1>7, EndedAccount

(* A holder's payout comes out of the pool and the account alike. *)
LEMMA PayPremium ==
    ASSUME NEW dust \in Nat, TypeOK, TypeOK', PremiumBooks(dust), vault.is_settled,
           NEW h \in Holders, NEW quantity \in Nat, quantity <= tokens[h],
           PayHolder(h, quantity)
    PROVE  PremiumBooks(dust)'
  <1>1. PICK r \in Nat : r = Smaller(quantity * Payoff, vault.collateral_remaining)
    BY PayEffect, Zenon
  <1>2. /\ usdc' = usdc - r /\ usdc \in Nat
        /\ vault'.collateral_remaining = vault.collateral_remaining - r
        /\ vault'.premium_per_share = vault.premium_per_share
        /\ vault'.is_settled = vault.is_settled
        /\ position' = position /\ rebases' = rebases /\ usdcOpen' = usdcOpen
    BY <1>1, PayEffect, Zenon DEF TypeOK
  <1>3. UnclaimedOf' = UnclaimedOf /\ UnclaimedOf \in Nat
    BY <1>2, NetSame, NetInt DEF PremiumSame
  <1>4. /\ UnclaimedOf' = UnclaimedOf - 0 /\ usdc' = usdc - 0 - r
        /\ r \in Int /\ 0 \in Int /\ UnclaimedOf' \in Nat
    BY <1>2, <1>3
  <1>5. ~Live /\ ~Live'
    BY <1>2 DEF Live
  <1>. QED
    BY <1>2, <1>4, <1>5, EndedAccount

(* So does what is paid for a finalized escrow. *)
LEMMA EscrowPremium ==
    ASSUME NEW dust \in Nat, TypeOK, TypeOK', PremiumBooks(dust),
           NEW m \in MintIds, AutoFinalizeEscrow(m)
    PROVE  PremiumBooks(dust)'
  <1>1. PICK r \in Nat :
           /\ usdc' = usdc - r
           /\ vault'.collateral_remaining = vault.collateral_remaining - r
    BY EscrowPay
  <1>2. /\ usdc \in Nat /\ vault.is_settled /\ vault'.is_settled
        /\ vault'.premium_per_share = vault.premium_per_share
        /\ position' = position /\ rebases' = rebases /\ usdcOpen' = usdcOpen
    BY EscrowEffect, EscrowPay DEF TypeOK
  <1>3. UnclaimedOf' = UnclaimedOf /\ UnclaimedOf \in Nat
    BY <1>2, NetSame, NetInt DEF PremiumSame
  <1>4. /\ UnclaimedOf' = UnclaimedOf - 0 /\ usdc' = usdc - 0 - r
        /\ r \in Int /\ 0 \in Int /\ UnclaimedOf' \in Nat
    BY <1>1, <1>2, <1>3
  <1>5. ~Live /\ ~Live'
    BY <1>2 DEF Live
  <1>. QED
    BY <1>1, <1>2, <1>4, <1>5, EndedAccount

(* A step that moves no money keeps the books of an ended vault. *)
LEMMA EndedUntouched ==
    ASSUME NEW dust \in Nat, TypeOK, TypeOK', PremiumBooks(dust), ~Live, ~Live',
           vault'.collateral_remaining = vault.collateral_remaining,
           UnclaimedOf' = UnclaimedOf, rebases' = rebases,
           usdcOpen' => usdcOpen /\ usdc' = usdc
    PROVE  PremiumBooks(dust)'
    BY DEF PremiumBooks

(* The crank's batch pays the one writer that has a share. *)
LEMMA BatchPremium ==
    ASSUME NEW dust \in Nat, TypeOK, TypeOK', PremiumBooks(dust),
           NEW batch \in SUBSET Writers, AutoFinalizeWriters(batch)
    PROVE  PremiumBooks(dust)'
  <1>1. /\ ~Live /\ usdcOpen /\ rebases' = rebases
        /\ \A v \in batch : position'[v] = EmptyPosition
        /\ \A v \in Writers \ batch : position'[v] = position[v]
        /\ \/ /\ \A v \in batch : position[v].shares = 0
              /\ vault' = vault
              /\ SweepIfDrained(usdc)
           \/ \E w \in batch :
                 /\ ReleaseShare(w)
                 /\ SweepIfDrained(usdc - UnclaimedPremium(w) - WriterRemaining(w))
                 /\ \A v \in batch \ {w} : position[v].shares = 0
    BY BatchEffect
  <1>2. \A v \in batch : position'[v].shares = 0
    BY <1>1 DEF EmptyPosition
  <1>3. ASSUME vault'.premium_per_share = vault.premium_per_share, NEW v \in Writers,
               v \notin batch \/ position[v].shares = 0
        PROVE  UnclaimedPremium(v)' = UnclaimedPremium(v)
    <2>1. CASE v \notin batch
      BY <1>1, <1>3, <2>1 DEF UnclaimedPremium
    <2>2. CASE v \in batch
      BY <1>2, <1>3, <2>2, NoSharesNoPremium
    <2>. QED
      BY <2>1, <2>2
  <1>4. CASE vault' = vault /\ SweepIfDrained(usdc)
             /\ \A v \in batch : position[v].shares = 0
    <2>1. [v \in Writers |-> UnclaimedPremium(v)'] = [v \in Writers |-> UnclaimedPremium(v)]
      BY <1>3, <1>4
    <2>2. UnclaimedOf' = UnclaimedOf
      BY <2>1 DEF UnclaimedOf
    <2>3. usdcOpen' => usdc' = usdc
      BY <1>4, Zenon DEF SweepIfDrained
    <2>4. ~Live'
      BY <1>1, <1>4 DEF Live
    <2>. QED
      BY <1>1, <1>4, <2>2, <2>3, <2>4, EndedUntouched
  <1>5. ASSUME NEW w \in batch, ReleaseShare(w),
               SweepIfDrained(usdc - UnclaimedPremium(w) - WriterRemaining(w)),
               \A v \in batch \ {w} : position[v].shares = 0
        PROVE  PremiumBooks(dust)'
    <2>1. vault'.premium_per_share = vault.premium_per_share
      BY <1>5, ReleaseCounters
    <2>2. \A v \in Writers \ {w} : UnclaimedPremium(v)' = UnclaimedPremium(v)
      BY <1>3, <1>5, <2>1
    <2>3. usdcOpen' => usdc' = usdc - UnclaimedPremium(w) - WriterRemaining(w)
      BY <1>5, Zenon DEF SweepIfDrained
    <2>. QED
      BY <1>1, <1>2, <1>5, <2>2, <2>3, ReleasePremium
  <1>. QED
    BY <1>1, <1>4, <1>5

(* Every instruction keeps the premium's books. *)
LEMMA CommonPremium ==
    ASSUME NEW dust \in Nat, TypeOK, TypeOK', Ending, SharesTrackCollateral,
           Live => SharesCounted, PremiumBooks(dust), CommonStep
    PROVE  PremiumBooks(dust)'
  <1>1. /\ vault \in Vault /\ usdc \in Nat /\ rebases \in Nat
        /\ vault.is_settled \in BOOLEAN /\ vault.voided \in BOOLEAN
        /\ \A v \in Writers : position[v] \in Position
    BY VaultFields DEF TypeOK
  <1>2. ASSUME NEW w \in Writers, NEW amount \in Amounts, Deposit(w, amount)
        PROVE  PremiumBooks(dust)'
    <2>1. now < Expiry /\ ~vault.is_settled
      BY <1>2 DEF Deposit
    <2>. QED
      BY <1>2, <2>1, LiveBefore, DepositPremium
  <1>3. ASSUME PhaseSame, vault'.premium_per_share = vault.premium_per_share,
               vault'.total_collateral = vault.total_collateral,
               usdc' = usdc, rebases' = rebases, usdcOpen' => usdcOpen,
               \A v \in Writers : position'[v].shares = position[v].shares
                                  /\ PremiumSame(v)
        PROVE  PremiumBooks(dust)'
    <2>1. CASE Live
      <3>1. Live'
        BY <1>3, <2>1 DEF PhaseSame, Live
      <3>. QED
        BY <1>3, <2>1, <3>1, LiveUntouched DEF PhaseSame
    <2>2. CASE ~Live
      <3>1. ~Live'
        BY <1>3, <2>2 DEF PhaseSame, Live
      <3>2. UnclaimedOf' = UnclaimedOf
        BY <1>3, NetSame
      <3>. QED
        BY <1>3, <2>2, <3>1, <3>2, EndedUntouched DEF PhaseSame
    <2>. QED
      BY <2>1, <2>2
  <1>4. ASSUME NEW w \in Writers, NEW m \in MintIds, NEW quantity \in Quantities,
               NEW premium \in Premiums, MintFromVault(w, m, quantity, premium)
        PROVE  PremiumBooks(dust)'
    <2>1. now < Expiry /\ ~vault.is_settled
      BY <1>4 DEF MintFromVault
    <2>2. Live
      BY <2>1, LiveBefore
    <2>3. /\ PhaseSame /\ PoolSame /\ vault'.premium_per_share = vault.premium_per_share
          /\ usdc' = usdc /\ rebases' = rebases /\ usdcOpen' = usdcOpen
          /\ \A v \in Writers \ {w} : position'[v] = position[v]
          /\ StakeSame(w) /\ PremiumSame(w)
      BY <1>4, <2>2, MintEffect
    <2>. QED
      BY <1>3, <2>3 DEF PoolSame, StakeSame, PremiumSame
  <1>5. ASSUME NEW w \in Writers, NEW m \in MintIds, BurnUnsold(w, m)
        PROVE  PremiumBooks(dust)'
    <2>1. /\ PhaseSame /\ PoolSame /\ vault'.premium_per_share = vault.premium_per_share
          /\ usdc' = usdc /\ rebases' = rebases /\ usdcOpen' = usdcOpen
          /\ \A v \in Writers \ {w} : position'[v] = position[v]
          /\ StakeSame(w) /\ PremiumSame(w)
      BY <1>5, BurnEffect
    <2>. QED
      BY <1>3, <2>1 DEF PoolSame, StakeSame, PremiumSame
  <1>6. ASSUME NEW w \in Writers, NEW shares \in Amounts, WithdrawFromVault(w, shares)
        PROVE  PremiumBooks(dust)'
    BY <1>6, WithdrawPremium
  <1>7. ASSUME NEW w \in Writers, ClaimPremium(w)
        PROVE  PremiumBooks(dust)'
    BY <1>7, ClaimLive, ClaimEnded
  <1>8. ASSUME NEW w \in Writers, WithdrawPostSettlement(w)
        PROVE  PremiumBooks(dust)'
    <2>1. /\ ~Live /\ usdcOpen /\ ReleaseShare(w) /\ rebases' = rebases
          /\ SweepIfDrained(usdc - UnclaimedPremium(w) - WriterRemaining(w))
          /\ position' = [position EXCEPT ![w] = EmptyPosition]
      BY <1>8 DEF WithdrawPostSettlement, Live
    <2>2. /\ \A v \in Writers \ {w} : position'[v] = position[v]
          /\ position'[w].shares = 0
      BY <1>1, <2>1 DEF TypeOK, EmptyPosition
    <2>3. \A v \in Writers \ {w} : UnclaimedPremium(v)' = UnclaimedPremium(v)
      BY <2>1, <2>2, ReleaseCounters DEF UnclaimedPremium
    <2>4. usdcOpen' => usdc' = usdc - UnclaimedPremium(w) - WriterRemaining(w)
      BY <2>1, Zenon DEF SweepIfDrained
    <2>. QED
      BY <2>1, <2>2, <2>3, <2>4, ReleasePremium
  <1>9. ASSUME NEW w \in Writers, ReclaimUnsettled(w)
        PROVE  PremiumBooks(dust)'
    <2>1. /\ ~Live /\ usdcOpen /\ ReleaseShare(w) /\ rebases' = rebases
          /\ usdc' = usdc - UnclaimedPremium(w) - WriterRemaining(w)
          /\ position' = [position EXCEPT ![w] =
                [position[w] EXCEPT !.claimed = @ + UnclaimedPremium(w), !.shares = 0]]
      BY <1>9 DEF ReclaimUnsettled, Live
    <2>2. /\ \A v \in Writers \ {w} : position'[v] = position[v]
          /\ position'[w].shares = 0
      BY <1>1, <2>1 DEF TypeOK, Position
    <2>3. \A v \in Writers \ {w} : UnclaimedPremium(v)' = UnclaimedPremium(v)
      BY <2>1, <2>2, ReleaseCounters DEF UnclaimedPremium
    <2>. QED
      BY <2>1, <2>2, <2>3, ReleasePremium
  <1>10. ASSUME NEW batch \in SUBSET Writers, AutoFinalizeWriters(batch)
         PROVE  PremiumBooks(dust)'
    BY <1>10, BatchPremium
  <1>11. ASSUME NEW h \in Holders, NEW m \in MintIds, NEW quantity \in Quantities,
                PurchaseFromVault(h, m, quantity)
         PROVE  PremiumBooks(dust)'
    <2>1. PICK w \in Writers : w = mint[m].writer
      BY <1>11, PurchaseEffect
    <2>2. PICK share \in Nat : share = Banked(m, quantity)
      BY <1>11, PurchaseEffect
    <2>3. /\ now < Expiry /\ ~vault.is_settled
          /\ vault'.premium_per_share = vault.premium_per_share + Credit(share)
          /\ PoolSame /\ PhaseSame
          /\ \A v \in Writers \ {w} : position'[v] = position[v]
          /\ StakeSame(w) /\ PremiumSame(w)
          /\ usdc' = usdc + share /\ rebases' = rebases
      BY <1>11, <2>1, <2>2, PurchaseEffect
    <2>4. Live /\ Live'
      BY <2>3, LiveBefore DEF Live, PhaseSame
    <2>. QED
      BY <2>3, <2>4, CreditPremium DEF PoolSame, PhaseSame, StakeSame, PremiumSame
  <1>12. ASSUME NEW h \in Holders, NEW quantity \in Quantities,
                ExerciseFromVault(h, quantity)
         PROVE  PremiumBooks(dust)'
    <2>1. quantity \in Nat /\ quantity <= tokens[h] /\ vault.is_settled
          /\ PayHolder(h, quantity)
      BY <1>12, InputsAssumption DEF ExerciseFromVault
    <2>. QED
      BY <2>1, PayPremium
  <1>13. ASSUME NEW h \in Holders, AutoFinalizeHolder(h)
         PROVE  PremiumBooks(dust)'
    <2>1. tokens[h] \in Nat /\ tokens[h] <= tokens[h] /\ vault.is_settled
          /\ PayHolder(h, tokens[h])
      BY <1>13 DEF AutoFinalizeHolder, TypeOK
    <2>. QED
      BY <2>1, PayPremium
  <1>18. ASSUME NEW m \in MintIds, AutoFinalizeEscrow(m)
         PROVE  PremiumBooks(dust)'
    BY <1>18, EscrowPremium
  <1>14. CASE OracleStep \/ Tick
    <2>1. /\ vault' = vault /\ position' = position /\ usdc' = usdc
          /\ usdcOpen' = usdcOpen /\ rebases' = rebases
      BY <1>14 DEF OracleStep, SettleExpiry, Tick
    <2>. QED
      BY <1>3, <2>1 DEF PhaseSame, PremiumSame
  <1>15. CASE CloseDrainedVault
    <2>1. /\ ~Live /\ vault' = vault /\ position' = position /\ ~usdcOpen'
          /\ rebases' = rebases
      BY <1>15 DEF CloseDrainedVault, Live
    <2>2. ~Live' /\ UnclaimedOf' = UnclaimedOf
      BY <2>1, NetSame DEF Live, PremiumSame
    <2>. QED
      BY <2>1, <2>2, EndedUntouched
  <1>16. CASE WriterStep
    BY <1>2, <1>4, <1>5, <1>6, <1>7, <1>8, <1>16 DEF WriterStep
  <1>17. CASE HolderStep
    BY <1>11, <1>12, <1>17 DEF HolderStep
  <1>. QED
    BY <1>9, <1>10, <1>13, <1>14, <1>15, <1>16, <1>17, <1>18 DEF CommonStep

(* In base units, a live account covers the pool and the unclaimed premium. *)
LEMMA AccountCovers ==
    ASSUME NEW dust \in Nat, TypeOK, PremiumBooks(dust), Live
    PROVE  vault.total_collateral + UnclaimedOf
              <= usdc + rebases + vault.early_exercise_payout
  <1> DEFINE f == [w \in Writers |-> Net(w)]
             u == [w \in Writers |-> UnclaimedPremium(w)]
             c == [w \in Writers |-> Scale * UnclaimedPremium(w)]
             T == vault.total_collateral
             A == usdc + rebases + vault.early_exercise_payout
  <1>1. /\ T \in Nat /\ A \in Nat /\ Scale \in Nat /\ Scale > 0
        /\ vault.premium_per_share \in Nat
        /\ NetOf \in Int /\ UnclaimedOf \in Nat
    BY VaultFields, ParametersAssumption, NetInt DEF TypeOK
  <1>2. ASSUME NEW w \in Writers PROVE Scale * UnclaimedPremium(w) <= Net(w)
    <2> DEFINE e == Earned(position[w].shares, vault.premium_per_share, Scale)
               n == position[w].shares * vault.premium_per_share
               p == UnclaimedPremium(w)
    <2>1. /\ position[w].shares \in Nat
          /\ position[w].debt \in Nat /\ position[w].claimed \in Nat
      BY PositionFields DEF TypeOK
    <2>2. e \in Nat /\ n \in Nat /\ Scale * e <= n
      BY <1>1, <2>1, EarnedBounds, Zenon
    <2>3. /\ position[w].debt + position[w].claimed <= e
          /\ p = SaturatingSub(SaturatingSub(e, position[w].debt), position[w].claimed)
          /\ Net(w) = n - Scale * (position[w].debt + position[w].claimed)
      BY DEF PremiumBooks, UnclaimedPremium, Unclaimed, Net
    <2> HIDE DEF e, n, p
    <2>4. p = e - (position[w].debt + position[w].claimed)
      BY <2>1, <2>2, <2>3 DEF SaturatingSub
    <2>5. Scale * p = Scale * e - Scale * (position[w].debt + position[w].claimed)
      BY <1>1, <2>1, <2>2, <2>4
    <2>6. Scale * e \in Int /\ Scale * (position[w].debt + position[w].claimed) \in Int
      BY <1>1, <2>1, <2>2
    <2>7. Scale * p <= Net(w)
      BY <2>2, <2>3, <2>5, <2>6
    <2>. QED
      BY <2>7 DEF p
  <1>3. \A w \in Writers : Net(w) \in Int /\ UnclaimedPremium(w) \in Nat
                           /\ Scale * UnclaimedPremium(w) \in Int
    BY <1>1, NetInt, PremiumNat
  <1>4. /\ f \in [Writers -> Int] /\ u \in [Writers -> Int] /\ c \in [Writers -> Int]
        /\ \A w \in Writers : c[w] = Scale * u[w] /\ c[w] <= f[w]
    BY <1>2, <1>3
  <1>5. NetOf = SumFunction(f) /\ UnclaimedOf = SumFunction(u)
    BY DEF NetOf, UnclaimedOf
  <1>6. Scale * T + NetOf <= Scale * A
    BY DEF PremiumBooks
  <1> HIDE DEF f, u, c, T, A
  <1>7. SumFunction(c) = Scale * SumFunction(u)
    BY <1>1, <1>4, TotalScale, FiniteAssumption
  <1>8. SumFunction(c) <= SumFunction(f)
    BY <1>4, TotalMonotone, FiniteAssumption
  <1>9. Scale * UnclaimedOf <= NetOf
    BY <1>5, <1>7, <1>8
  <1>10. T + UnclaimedOf <= A
    <2>1. Scale * (T + UnclaimedOf) = Scale * T + Scale * UnclaimedOf
      BY <1>1
    <2>2. Scale * T \in Nat /\ Scale * UnclaimedOf \in Nat /\ Scale * A \in Nat
      BY <1>1
    <2>3. Scale * (T + UnclaimedOf) <= Scale * A
      BY <1>1, <1>6, <1>9, <2>1, <2>2
    <2>4. T + UnclaimedOf \in Nat
      BY <1>1
    <2>5. Scale * A < Scale * A + Scale
      BY <1>1, <2>2
    <2>. QED
      BY <1>1, <2>3, <2>4, <2>5, FloorLargest
  <1>. QED
    BY <1>10 DEF T, A

(* Every step of a European vault keeps the premium's books. *)
LEMMA NextPremium ==
    ASSUME ParInvariant, SharesCounted, PremiumBooks(0), [Next]_vars
    PROVE  PremiumBooks(0)'
  <1>1. TypeOK /\ TypeOK' /\ Ending /\ SharesTrackCollateral
        /\ vault.early_exercise_payout = 0 /\ usdc \in Nat /\ rebases \in Nat
    BY NextTyping DEF ParInvariant, NothingEarly, TypeOK
  <1>2. CASE CommonStep
    BY <1>1, <1>2, CommonPremium
  <1>3. CASE SettleVault \/ InitializeVoid
    <2>1. /\ Live /\ ~Live'
          /\ vault'.premium_per_share = vault.premium_per_share
          /\ vault'.collateral_remaining = vault.total_collateral
          /\ usdc' = usdc /\ rebases' = rebases /\ position' = position
      BY <1>3, EndEffect
    <2>2. UnclaimedOf' = UnclaimedOf
      BY <2>1, NetSame DEF PremiumSame
    <2>3. usdc + rebases + 0 = usdc + rebases
      BY <1>1
    <2>4. vault.total_collateral + UnclaimedOf <= usdc + rebases + 0
      BY <1>1, <2>1, <2>3, AccountCovers
    <2>5. vault'.collateral_remaining + UnclaimedOf' <= usdc' + rebases' + 0
      BY <2>1, <2>2, <2>4
    <2>. QED
      BY <2>1, <2>5 DEF PremiumBooks
  <1>4. CASE UNCHANGED vars
    <2>1. /\ vault' = vault /\ position' = position /\ usdc' = usdc
          /\ usdcOpen' = usdcOpen /\ rebases' = rebases
      BY <1>4 DEF vars
    <2>2. NetOf' = NetOf /\ UnclaimedOf' = UnclaimedOf
      BY <2>1, NetSame DEF PremiumSame
    <2>3. Live' <=> Live
      BY <2>1 DEF Live
    <2>. QED
      BY <2>1, <2>2, <2>3 DEF PremiumBooks
  <1>. QED
    BY <1>2, <1>3, <1>4, NextIsCommon

(* At the start nothing is owed. *)
LEMMA InitPremium ==
    ASSUME Init
    PROVE  PremiumBooks(0)
  <1> DEFINE f == [w \in Writers |-> Net(w)]
  <1>1. /\ Scale \in Nat
        /\ vault.premium_per_share = 0 /\ vault.total_collateral = 0
        /\ vault.early_exercise_payout = 0 /\ usdc = 0 /\ rebases = 0
        /\ Live
        /\ \A w \in Writers : /\ position[w].shares = 0 /\ position[w].debt = 0
                              /\ position[w].claimed = 0
    BY ParametersAssumption DEF Init, EmptyVault, EmptyPosition, Live
  <1>2. \A w \in Writers : Net(w) = 0
    BY <1>1 DEF Net
  <1>3. f \in [Writers -> Int] /\ \A w \in Writers : f[w] = 0
    BY <1>2
  <1>4. NetOf = SumFunction(f)
    BY DEF NetOf
  <1> HIDE DEF f
  <1>5. NetOf = 0
    BY <1>3, <1>4, TotalZero, FiniteAssumption
  <1>6. Earned(0, 0, Scale) = 0
    BY NothingEarned
  <1>7. Scale * 0 + 0 <= Scale * (0 + 0 + 0)
    BY <1>1
  <1>. QED
    BY <1>1, <1>5, <1>6, <1>7 DEF PremiumBooks

(* The account always covers the pool and every writer's unclaimed premium, *)
(* but for one base unit at most per deposit and withdrawal.                *)
THEOREM PremiumCovered == Spec => []PremiumSolvent
  <1>1. Init => PremiumBooks(0)
    BY InitPremium
  <1>2. ParInvariant /\ SharesCounted /\ PremiumBooks(0) /\ [Next]_vars => PremiumBooks(0)'
    BY NextPremium
  <1>3. ParInvariant /\ PremiumBooks(0) => PremiumSolvent
    <2> SUFFICES ASSUME ParInvariant, PremiumBooks(0) PROVE PremiumSolvent
      OBVIOUS
    <2>1. /\ TypeOK /\ vault.early_exercise_payout = 0
          /\ usdc + rebases + 0 = usdc + rebases
      BY DEF ParInvariant, NothingEarly, TypeOK
    <2>2. CASE Live
      BY <2>1, <2>2, AccountCovers DEF PremiumSolvent
    <2>3. CASE ~Live
      <3>1. usdcOpen => vault.collateral_remaining + UnclaimedOf <= usdc + rebases + 0
        BY <2>3 DEF PremiumBooks
      <3>. QED
        BY <2>1, <2>3, <3>1 DEF PremiumSolvent
    <2>. QED
      BY <2>2, <2>3
  <1>. QED
    BY <1>1, <1>2, <1>3, ShareCount, PTL DEF Spec

---------------------------------------------------------------------------
(* American vaults. *)

(* The collateral behind the options of a live vault, as relations between  *)
(* amounts: t is the pool, m, s and x the contracts its counters call       *)
(* minted, sold and exercised, e what it paid for early exercises, c the    *)
(* contracts in escrow, h those in holders' hands, p the pot, d what was    *)
(* drawn from it, b what its backers committed, r the rebases.              *)

(* What r rebases can let be drawn from the pot for nothing. *)
Dust(r) == (r * r - r) \div 2

(* The contracts that writer asks brought are those their backers locked a  *)
(* strike for; the counters know of all others.                             *)
Counted(m, s, x, c, h, b) ==
    /\ m = s + c
    /\ \E asks \in Nat : b = asks * Strike /\ h + x = s + asks

(* The pool's gate, kept by every step: the pool net of early exercises     *)
(* locks a strike for each contract minted and not exercised.               *)
Gated(t, m, x, e, d) ==
    /\ e + d <= x * Strike
    /\ e + m * Strike <= t + x * Strike

(* Where dust was drawn that can still do harm, since the gate is open, it  *)
(* is bounded; as long as nobody rebased since, the pool has less than a    *)
(* strike free.                                                             *)
Dusty(t, m, x, e, d, r) ==
    /\ e + m * Strike + d <= t + x * Strike + Dust(r)
    /\ m >= x => /\ d <= Dust(r) + r
                 /\ d > Dust(r) => t <= e + r

OptionBooks(t, m, s, x, e, c, h, p, d, b, r) ==
    /\ Counted(m, s, x, c, h, b)
    /\ Gated(t, m, x, e, d)
    /\ p + d = b
    /\ r < Strike => Dusty(t, m, x, e, d, r)

(* One rebase more. *)
LEMMA DustGrows ==
    ASSUME NEW r \in Nat
    PROVE  Dust(r) \in Nat /\ Dust(r + 1) = Dust(r) + r
  <1>1. PICK q \in Nat : q = r * r
    OBVIOUS
  <1>2. q >= r
    <2>1. r = 0 \/ r * r >= r
      OBVIOUS
    <2>. QED
      BY <1>1, <2>1
  <1>3. (r + 1) * (r + 1) - (r + 1) = (q - r) + 2 * r
    BY <1>1
  <1>4. PICK n \in Nat : n = q - r
    BY <1>1, <1>2
  <1>5. (n + 2 * r) \div 2 = n \div 2 + r /\ n \div 2 \in Nat
    OBVIOUS
  <1>. QED
    BY <1>1, <1>3, <1>4, <1>5 DEF Dust

(* deposit_to_vault *)
LEMMA DepositOption ==
    ASSUME NEW t \in Nat, NEW m \in Nat, NEW s \in Nat, NEW x \in Nat, NEW e \in Nat,
           NEW c \in Nat, NEW h \in Nat, NEW p \in Nat, NEW d \in Nat, NEW b \in Nat,
           NEW r \in Nat, NEW a \in Nat,
           OptionBooks(t, m, s, x, e, c, h, p, d, b, r)
    PROVE  OptionBooks(t + a, m, s, x, e, c, h, p, d, b, r + 1)
  <1>1. Strike \in Nat
    BY ParametersAssumption
  <1>2. PICK mk \in Nat, xk \in Nat : mk = m * Strike /\ xk = x * Strike
    BY <1>1
  <1>3. Dust(r) \in Nat /\ Dust(r + 1) = Dust(r) + r
    BY DustGrows
  <1>4. Counted(m, s, x, c, h, b) /\ Gated(t, m, x, e, d) /\ p + d = b
        /\ (r < Strike => Dusty(t, m, x, e, d, r))
    BY DEF OptionBooks
  <1>5. Gated(t + a, m, x, e, d)
    BY <1>2, <1>4 DEF Gated
  <1>6. r + 1 < Strike => Dusty(t + a, m, x, e, d, r + 1)
    BY <1>1, <1>2, <1>3, <1>4 DEF Dusty
  <1>. QED
    BY <1>4, <1>5, <1>6 DEF OptionBooks

(* mint_from_vault and fill_vault_peg: a strike of the pool's free          *)
(* collateral for each contract, of which n are sold at once.               *)
LEMMA WriteOption ==
    ASSUME NEW t \in Nat, NEW m \in Nat, NEW s \in Nat, NEW x \in Nat, NEW e \in Nat,
           NEW c \in Nat, NEW h \in Nat, NEW p \in Nat, NEW d \in Nat, NEW b \in Nat,
           NEW r \in Nat, NEW q \in Nat, q > 0, NEW n \in Nat, n <= q,
           OptionBooks(t, m, s, x, e, c, h, p, d, b, r),
           m >= x, e + (m - x) * Strike + q * Strike <= t
    PROVE  OptionBooks(t, m + q, s + n, x, e, c + (q - n), h + n, p, d, b, r)
  <1>1. Strike \in Nat /\ Strike > 0
    BY ParametersAssumption
  <1>2. PICK mk \in Nat, xk \in Nat, qk \in Nat :
           mk = m * Strike /\ xk = x * Strike /\ qk = q * Strike
    BY <1>1
  <1>3. (m + q) * Strike = mk + qk /\ (m - x) * Strike = mk - xk
    BY <1>1, <1>2
  <1>4. qk >= Strike
    <2>1. q * Strike = Strike + (q - 1) * Strike /\ (q - 1) * Strike >= 0
      BY <1>1
    <2>. QED
      BY <1>1, <1>2, <2>1
  <1>5. Dust(r) \in Nat
    BY DustGrows
  <1>6. Counted(m, s, x, c, h, b) /\ Gated(t, m, x, e, d) /\ p + d = b
        /\ (r < Strike => Dusty(t, m, x, e, d, r))
    BY DEF OptionBooks
  <1>7. e + mk + qk <= t + xk
    BY <1>1, <1>2, <1>3
  <1>8. Counted(m + q, s + n, x, c + (q - n), h + n, b)
    <2>1. PICK asks \in Nat : b = asks * Strike /\ h + x = s + asks
      BY <1>6 DEF Counted
    <2>2. (h + n) + x = (s + n) + asks /\ m + q = (s + n) + (c + (q - n))
      BY <1>6, <2>1 DEF Counted
    <2>. QED
      BY <2>1, <2>2 DEF Counted
  <1>9. Gated(t, m + q, x, e, d)
    BY <1>2, <1>3, <1>6, <1>7 DEF Gated
  <1>10. r < Strike => Dusty(t, m + q, x, e, d, r)
    <2> SUFFICES ASSUME r < Strike PROVE Dusty(t, m + q, x, e, d, r)
      OBVIOUS
    <2>1. /\ d <= Dust(r) + r
          /\ d > Dust(r) => t <= e + r
      BY <1>6 DEF Dusty
    <2>2. mk >= xk
      BY <1>1, <1>2, <1>3
    <2>3. d <= Dust(r)
      BY <1>1, <1>2, <1>4, <1>5, <1>7, <2>1, <2>2
    <2>4. e + (mk + qk) + d <= t + xk + Dust(r)
      BY <1>2, <1>5, <1>7, <2>3
    <2>. QED
      BY <1>2, <1>3, <1>5, <2>1, <2>3, <2>4 DEF Dusty
  <1>. QED
    BY <1>6, <1>8, <1>9, <1>10 DEF OptionBooks

(* purchase_from_vault *)
LEMMA SellOption ==
    ASSUME NEW t \in Nat, NEW m \in Nat, NEW s \in Nat, NEW x \in Nat, NEW e \in Nat,
           NEW c \in Nat, NEW h \in Nat, NEW p \in Nat, NEW d \in Nat, NEW b \in Nat,
           NEW r \in Nat, NEW q \in Nat, q <= c,
           OptionBooks(t, m, s, x, e, c, h, p, d, b, r)
    PROVE  OptionBooks(t, m, s + q, x, e, c - q, h + q, p, d, b, r)
  <1>1. Counted(m, s, x, c, h, b)
    BY DEF OptionBooks
  <1>2. PICK asks \in Nat : b = asks * Strike /\ h + x = s + asks
    BY <1>1 DEF Counted
  <1>3. (h + q) + x = (s + q) + asks /\ m = (s + q) + (c - q)
    BY <1>1, <1>2 DEF Counted
  <1>4. Counted(m, s + q, x, c - q, h + q, b)
    BY <1>2, <1>3 DEF Counted
  <1>. QED
    BY <1>4 DEF OptionBooks

(* burn_unsold_from_vault *)
LEMMA BurnOption ==
    ASSUME NEW t \in Nat, NEW m \in Nat, NEW s \in Nat, NEW x \in Nat, NEW e \in Nat,
           NEW c \in Nat, NEW h \in Nat, NEW p \in Nat, NEW d \in Nat, NEW b \in Nat,
           NEW r \in Nat, NEW q \in Nat, q <= c, q <= m,
           OptionBooks(t, m, s, x, e, c, h, p, d, b, r)
    PROVE  OptionBooks(t, m - q, s, x, e, c - q, h, p, d, b, r)
  <1>1. Strike \in Nat
    BY ParametersAssumption
  <1>2. PICK mk \in Nat, xk \in Nat, qk \in Nat :
           mk = m * Strike /\ xk = x * Strike /\ qk = q * Strike
    BY <1>1
  <1>3. (m - q) * Strike = mk - qk
    BY <1>1, <1>2
  <1>4. Dust(r) \in Nat
    BY DustGrows
  <1>5. Counted(m, s, x, c, h, b) /\ Gated(t, m, x, e, d) /\ p + d = b
        /\ (r < Strike => Dusty(t, m, x, e, d, r))
    BY DEF OptionBooks
  <1>6. Counted(m - q, s, x, c - q, h, b)
    BY <1>5 DEF Counted
  <1>7. Gated(t, m - q, x, e, d)
    BY <1>2, <1>3, <1>5 DEF Gated
  <1>8. r < Strike => Dusty(t, m - q, x, e, d, r)
    BY <1>2, <1>3, <1>4, <1>5 DEF Dusty
  <1>. QED
    BY <1>5, <1>6, <1>7, <1>8 DEF OptionBooks

(* withdraw_from_vault *)
LEMMA WithdrawOption ==
    ASSUME NEW t \in Nat, NEW m \in Nat, NEW s \in Nat, NEW x \in Nat, NEW e \in Nat,
           NEW c \in Nat, NEW h \in Nat, NEW p \in Nat, NEW d \in Nat, NEW b \in Nat,
           NEW r \in Nat, NEW a \in Nat, a <= t,
           OptionBooks(t, m, s, x, e, c, h, p, d, b, r),
           m >= x, e + (m - x) * Strike + a <= t
    PROVE  OptionBooks(t - a, m, s, x, e, c, h, p, d, b, r + 1)
  <1>1. Strike \in Nat
    BY ParametersAssumption
  <1>2. PICK mk \in Nat, xk \in Nat : mk = m * Strike /\ xk = x * Strike
    BY <1>1
  <1>3. (m - x) * Strike = mk - xk
    BY <1>1, <1>2
  <1>4. Dust(r) \in Nat /\ Dust(r + 1) = Dust(r) + r
    BY DustGrows
  <1>5. Counted(m, s, x, c, h, b) /\ Gated(t, m, x, e, d) /\ p + d = b
        /\ (r < Strike => Dusty(t, m, x, e, d, r))
    BY DEF OptionBooks
  <1>6. e + mk + a <= t + xk
    BY <1>1, <1>2, <1>3
  <1>7. Gated(t - a, m, x, e, d)
    BY <1>2, <1>5, <1>6 DEF Gated
  <1>8. r + 1 < Strike => Dusty(t - a, m, x, e, d, r + 1)
    <2> SUFFICES ASSUME r + 1 < Strike PROVE Dusty(t - a, m, x, e, d, r + 1)
      OBVIOUS
    <2>1. d <= Dust(r + 1)
      BY <1>1, <1>4, <1>5 DEF Dusty
    <2>2. e + mk + d <= (t - a) + xk + Dust(r + 1)
      BY <1>2, <1>4, <1>6, <2>1
    <2>. QED
      BY <1>2, <1>4, <2>1, <2>2 DEF Dusty
  <1>. QED
    BY <1>5, <1>7, <1>8 DEF OptionBooks

(* fill_writer_ask: a strike for each contract goes to the pot. *)
LEMMA AskOption ==
    ASSUME NEW t \in Nat, NEW m \in Nat, NEW s \in Nat, NEW x \in Nat, NEW e \in Nat,
           NEW c \in Nat, NEW h \in Nat, NEW p \in Nat, NEW d \in Nat, NEW b \in Nat,
           NEW r \in Nat, NEW q \in Nat,
           OptionBooks(t, m, s, x, e, c, h, p, d, b, r)
    PROVE  OptionBooks(t, m, s, x, e, c, h + q, p + q * Strike, d, b + q * Strike, r)
  <1>1. Strike \in Nat
    BY ParametersAssumption
  <1>2. Counted(m, s, x, c, h, b)
    BY DEF OptionBooks
  <1>3. PICK asks \in Nat : b = asks * Strike /\ h + x = s + asks
    BY <1>2 DEF Counted
  <1>4. /\ b + q * Strike = (asks + q) * Strike /\ asks + q \in Nat
        /\ (h + q) + x = s + (asks + q)
    BY <1>1, <1>3
  <1>5. Counted(m, s, x, c, h + q, b + q * Strike)
    BY <1>2, <1>4 DEF Counted
  <1>6. (p + q * Strike) + d = b + q * Strike
    <2>1. PICK qk \in Nat : qk = q * Strike
      BY <1>1
    <2>. QED
      BY <2>1 DEF OptionBooks
  <1>. QED
    BY <1>5, <1>6 DEF OptionBooks

(* An early exercise of q contracts, f paid by the account and g by the     *)
(* pot; the pot pays only what an emptied account could not, and an emptied *)
(* account is short of the pool by no more than r.                          *)
LEMMA ExerciseOption ==
    ASSUME NEW t \in Nat, NEW m \in Nat, NEW s \in Nat, NEW x \in Nat, NEW e \in Nat,
           NEW c \in Nat, NEW h \in Nat, NEW p \in Nat, NEW d \in Nat, NEW b \in Nat,
           NEW r \in Nat, NEW q \in Nat, q <= h, NEW f \in Nat, NEW g \in Nat, g <= p,
           f + g <= q * Strike, g > 0 => t <= e + f + r,
           OptionBooks(t, m, s, x, e, c, h, p, d, b, r)
    PROVE  OptionBooks(t, m, s, x + q, e + f, c, h - q, p - g, d + g, b, r)
  <1>1. Strike \in Nat
    BY ParametersAssumption
  <1>2. PICK mk \in Nat, xk \in Nat, qk \in Nat :
           mk = m * Strike /\ xk = x * Strike /\ qk = q * Strike
    BY <1>1
  <1>3. (x + q) * Strike = xk + qk
    BY <1>1, <1>2
  <1>4. Dust(r) \in Nat
    BY DustGrows
  <1>5. Counted(m, s, x, c, h, b) /\ Gated(t, m, x, e, d) /\ p + d = b
        /\ (r < Strike => Dusty(t, m, x, e, d, r))
    BY DEF OptionBooks
  <1>6. f + g <= qk
    BY <1>2
  <1>7. Counted(m, s, x + q, c, h - q, b)
    <2>1. PICK asks \in Nat : b = asks * Strike /\ h + x = s + asks
      BY <1>5 DEF Counted
    <2>2. (h - q) + (x + q) = s + asks
      BY <2>1
    <2>. QED
      BY <1>5, <2>1, <2>2 DEF Counted
  <1>8. Gated(t, m, x + q, e + f, d + g)
    BY <1>2, <1>3, <1>5, <1>6 DEF Gated
  <1>9. r < Strike => Dusty(t, m, x + q, e + f, d + g, r)
    <2> SUFFICES ASSUME r < Strike PROVE Dusty(t, m, x + q, e + f, d + g, r)
      OBVIOUS
    <2>1. (e + f) + mk + (d + g) <= t + (xk + qk) + Dust(r)
      BY <1>2, <1>4, <1>5, <1>6 DEF Dusty
    <2>2. ASSUME m >= x + q
          PROVE  /\ d + g <= Dust(r) + r
                 /\ d + g > Dust(r) => t <= (e + f) + r
      <3>1. mk >= xk + qk
        <4>1. (m - (x + q)) * Strike >= 0
          BY <1>1, <2>2
        <4>2. (m - (x + q)) * Strike = mk - (xk + qk)
          BY <1>1, <1>2, <1>3
        <4>. QED
          BY <4>1, <4>2
      <3>2. CASE g > 0
        BY <1>2, <1>4, <2>1, <3>1, <3>2
      <3>3. CASE g = 0
        BY <1>4, <1>5, <2>2, <3>3 DEF Dusty
      <3>. QED
        BY <3>2, <3>3
    <2>. QED
      BY <1>2, <1>3, <2>1, <2>2 DEF Dusty
  <1>10. (p - g) + (d + g) = b
    BY <1>5
  <1>. QED
    BY <1>7, <1>8, <1>9, <1>10 DEF OptionBooks

---------------------------------------------------------------------------
(* The pool's own instructions, in the phase they find the vault in.        *)

(* What only an ending sets. *)
EndingSame ==
    /\ vault'.is_settled = vault.is_settled
    /\ vault'.voided = vault.voided
    /\ vault'.settlement_price = vault.settlement_price
    /\ vault'.writer_ask_swept = vault.writer_ask_swept
    /\ vault'.writer_ask_equiv_shares = vault.writer_ask_equiv_shares
    /\ vault'.exercised_options = vault.exercised_options
    /\ vault'.early_exercise_payout = vault.early_exercise_payout

(* None of them ends a vault, and a price is recorded after expiry only. *)
LEMMA CommonPhase ==
    ASSUME TypeOK, CommonStep
    PROVE  /\ EndingSame
           /\ now' >= now
           /\ record' = record \/ (record = NoPrice /\ now >= Expiry)
  <1>1. vault \in Vault /\ now \in Nat
    BY DEF TypeOK
  <1> DEFINE Goal == EndingSame /\ now' >= now
                       /\ (record' = record \/ (record = NoPrice /\ now >= Expiry))
  <1>2. ASSUME NEW w \in Writers, NEW amount \in Amounts, Deposit(w, amount)
        PROVE  Goal
    BY <1>1, <1>2 DEF Deposit, Vault, EndingSame
  <1>3. ASSUME NEW w \in Writers, NEW m \in MintIds, NEW quantity \in Quantities,
               NEW premium \in Premiums, MintFromVault(w, m, quantity, premium)
        PROVE  Goal
    BY <1>1, <1>3 DEF MintFromVault, Vault, EndingSame
  <1>4. ASSUME NEW w \in Writers, NEW m \in MintIds, BurnUnsold(w, m)
        PROVE  Goal
    BY <1>1, <1>4 DEF BurnUnsold, Vault, EndingSame
  <1>5. ASSUME NEW w \in Writers, NEW shares \in Amounts, WithdrawFromVault(w, shares)
        PROVE  Goal
    BY <1>1, <1>5 DEF WithdrawFromVault, Vault, EndingSame
  <1>6. ASSUME NEW w \in Writers, ClaimPremium(w)
        PROVE  Goal
    BY <1>1, <1>6 DEF ClaimPremium, EndingSame
  <1>7. ASSUME NEW w \in Writers, ReleaseShare(w)
        PROVE  EndingSame
    BY <1>1, <1>7 DEF ReleaseShare, AfterExit, Vault, EndingSame
  <1>8. ASSUME NEW w \in Writers, WithdrawPostSettlement(w)
        PROVE  Goal
    BY <1>1, <1>7, <1>8 DEF WithdrawPostSettlement
  <1>9. ASSUME NEW w \in Writers, ReclaimUnsettled(w)
        PROVE  Goal
    BY <1>1, <1>7, <1>9 DEF ReclaimUnsettled
  <1>10. ASSUME NEW batch \in SUBSET Writers, AutoFinalizeWriters(batch)
         PROVE  Goal
    <2>1. /\ now' = now /\ record' = record
          /\ vault' = vault \/ \E w \in batch : ReleaseShare(w)
      BY <1>10, BatchEffect
    <2>2. vault' = vault => EndingSame
      BY DEF EndingSame
    <2>. QED
      BY <1>1, <1>7, <2>1, <2>2
  <1>11. ASSUME NEW h \in Holders, NEW m \in MintIds, NEW quantity \in Quantities,
                PurchaseFromVault(h, m, quantity)
         PROVE  Goal
    BY <1>1, <1>11 DEF PurchaseFromVault, Vault, EndingSame
  <1>12. ASSUME NEW h \in Holders, NEW quantity, PayHolder(h, quantity)
         PROVE  Goal
    BY <1>1, <1>12 DEF PayHolder, Vault, EndingSame
  <1>13. CASE OracleStep
    BY <1>1, <1>13 DEF OracleStep, SettleExpiry, EndingSame
  <1>14. CASE Tick \/ CloseDrainedVault
    BY <1>1, <1>14 DEF Tick, CloseDrainedVault, EndingSame
  <1>15. CASE WriterStep
    BY <1>2, <1>3, <1>4, <1>5, <1>6, <1>8, <1>15 DEF WriterStep
  <1>16. CASE HolderStep
    BY <1>11, <1>12, <1>16 DEF HolderStep, ExerciseFromVault
  <1>17. ASSUME NEW h \in Holders, AutoFinalizeHolder(h) PROVE Goal
    BY <1>12, <1>17 DEF AutoFinalizeHolder
  <1>18. ASSUME NEW m \in MintIds, AutoFinalizeEscrow(m) PROVE Goal
    BY <1>1, <1>18, EscrowEffect, EscrowPay DEF EndingSame
  <1>. QED
    BY <1>9, <1>10, <1>13, <1>14, <1>15, <1>16, <1>17, <1>18 DEF CommonStep

(* How a step moves the amounts of a live vault. *)
Moved(dt, dm, ds, dc, dh, dr) ==
    /\ vault'.total_collateral = vault.total_collateral + dt
    /\ vault'.total_options_minted = vault.total_options_minted + dm
    /\ vault'.total_options_sold = vault.total_options_sold + ds
    /\ Escrowed' = Escrowed + dc
    /\ TokensHeld' = TokensHeld + dh
    /\ rebases' = rebases + dr

(* A step that touches neither pool nor options. *)
LEMMA MovedNothing ==
    ASSUME TypeOK, PoolSame, CountersSame, mint' = mint, tokens' = tokens,
           rebases' = rebases
    PROVE  Moved(0, 0, 0, 0, 0, 0)
  <1>1. /\ vault.total_collateral \in Nat /\ vault.total_options_minted \in Nat
        /\ vault.total_options_sold \in Nat /\ rebases \in Nat
        /\ Escrowed \in Nat /\ TokensHeld \in Nat
    BY VaultFields, TotalsNat DEF TypeOK
  <1>2. Escrowed' = Escrowed /\ TokensHeld' = TokensHeld
    BY DEF Escrowed, TokensHeld
  <1>. QED
    BY <1>1, <1>2 DEF Moved, PoolSame, CountersSame

(* Of a live vault, the pool's instructions take in or give back            *)
(* collateral, write options on free collateral, sell or burn them.         *)
LiveMove ==
    \/ Moved(0, 0, 0, 0, 0, 0)
    \/ \E a \in Nat : Moved(a, 0, 0, 0, 0, 1)
    \/ \E q \in Nat : /\ q > 0
                      /\ HasFree(q * CollateralPerContract(Strike))
                      /\ Moved(0, q, 0, q, 0, 0)
    \/ \E q \in Nat : q <= Escrowed /\ Moved(0, 0, q, 0 - q, q, 0)
    \/ \E q \in Nat : /\ q <= Escrowed
                      /\ q <= vault.total_options_minted
                      /\ Moved(0, 0 - q, 0, 0 - q, 0, 0)
    \/ \E a \in Nat : /\ a <= vault.total_collateral
                      /\ HasFree(a)
                      /\ Moved(0 - a, 0, 0, 0, 0, 1)

LEMMA LiveMoves ==
    ASSUME AmericanSeries, TypeOK, TypeOK', Ending, SharesTrackCollateral, WriterBooks, Live,
           CommonStep
    PROVE  LiveMove
  <1>1. /\ vault \in Vault
        /\ vault.total_collateral \in Nat /\ vault.total_shares \in Nat
        /\ vault.total_options_minted \in Nat
        /\ vault.total_options_sold \in Nat /\ rebases \in Nat
        /\ Escrowed \in Nat /\ TokensHeld \in Nat
        /\ \A m \in MintIds : mint[m].escrow \in Nat /\ mint'[m].escrow \in Nat
        /\ tokens \in [Holders -> Nat]
    BY VaultFields, TotalsNat, MintFields DEF TypeOK
  <1>2. ASSUME NEW w \in Writers, NEW amount \in Amounts, Deposit(w, amount)
        PROVE  LiveMove
    <2>1. /\ amount \in Nat
          /\ vault'.total_collateral = vault.total_collateral + amount
          /\ CountersSame
          /\ rebases' = rebases + 1 /\ mint' = mint /\ tokens' = tokens
      BY <1>2, DepositEffect
    <2>2. Escrowed' = Escrowed /\ TokensHeld' = TokensHeld
      BY <2>1 DEF Escrowed, TokensHeld
    <2>3. Moved(amount, 0, 0, 0, 0, 1)
      BY <1>1, <2>1, <2>2 DEF Moved, CountersSame
    <2>. QED
      BY <2>1, <2>3 DEF LiveMove
  <1>3. ASSUME NEW w \in Writers, NEW m \in MintIds, NEW quantity \in Quantities,
               NEW premium \in Premiums, MintFromVault(w, m, quantity, premium)
        PROVE  LiveMove
    <2>1. /\ quantity \in Nat
          /\ AmericanGate(quantity * CollateralPerContract(Strike))
          /\ vault'.total_options_minted = vault.total_options_minted + quantity
          /\ vault'.total_options_sold = vault.total_options_sold
          /\ PoolSame
          /\ mint[m].writer = NoWriter
          /\ \A n \in MintIds \ {m} : mint'[n] = mint[n]
          /\ mint'[m].escrow = quantity
          /\ tokens' = tokens /\ rebases' = rebases
      BY <1>3, MintEffect
    <2>2. /\ mint[m].escrow <= Escrowed
          /\ Escrowed' = Escrowed + (mint'[m].escrow - mint[m].escrow)
      BY <2>1, EscrowedChange
    <2>3. quantity > 0
      BY InputsAssumption
    <2>4. HasFree(quantity * CollateralPerContract(Strike))
      BY <2>1 DEF AmericanGate, AmericanSeries
    <2>5. mint[m].escrow = 0
      BY <2>1 DEF WriterBooks, MintBooks
    <2>6. TokensHeld' = TokensHeld
      BY <2>1 DEF TokensHeld
    <2>7. Moved(0, quantity, 0, quantity, 0, 0)
      BY <1>1, <2>1, <2>2, <2>5, <2>6 DEF Moved, PoolSame
    <2>. QED
      BY <2>1, <2>3, <2>4, <2>7 DEF LiveMove
  <1>4. ASSUME NEW h \in Holders, NEW m \in MintIds, NEW quantity \in Quantities,
               PurchaseFromVault(h, m, quantity)
        PROVE  LiveMove
    <2>1. /\ quantity \in Nat /\ quantity <= mint[m].escrow
          /\ vault'.total_options_sold = vault.total_options_sold + quantity
          /\ vault'.total_options_minted = vault.total_options_minted
          /\ PoolSame
          /\ \A n \in MintIds \ {m} : mint'[n] = mint[n]
          /\ mint'[m].escrow = mint[m].escrow - quantity
          /\ tokens' = [tokens EXCEPT ![h] = tokens[h] + quantity]
          /\ rebases' = rebases
      BY <1>4, PurchaseEffect
    <2>2. /\ mint[m].escrow <= Escrowed
          /\ Escrowed' = Escrowed + (mint'[m].escrow - mint[m].escrow)
      BY <2>1, EscrowedChange
    <2>3. tokens[h] \in Nat /\ tokens[h] + quantity \in Nat
      BY <1>1, <2>1
    <2>4. TokensHeld' = TokensHeld + ((tokens[h] + quantity) - tokens[h])
      BY <1>1, <2>1, <2>3, TokensChange, Zenon
    <2>5. /\ Escrowed' = Escrowed + (0 - quantity) /\ quantity <= Escrowed
          /\ TokensHeld' = TokensHeld + quantity
      BY <1>1, <2>1, <2>2, <2>3, <2>4
    <2>6. Moved(0, 0, quantity, 0 - quantity, quantity, 0)
      BY <1>1, <2>1, <2>5 DEF Moved, PoolSame
    <2>. QED
      BY <2>1, <2>5, <2>6 DEF LiveMove
  <1>5. ASSUME NEW w \in Writers, NEW m \in MintIds, BurnUnsold(w, m)
        PROVE  LiveMove
    <2> DEFINE unsold == mint[m].escrow
    <2>1. /\ unsold <= vault.total_options_minted
          /\ vault'.total_options_minted = vault.total_options_minted - unsold
          /\ vault'.total_options_sold = vault.total_options_sold
          /\ PoolSame
          /\ \A n \in MintIds \ {m} : mint'[n] = mint[n]
          /\ mint'[m].escrow = 0
          /\ tokens' = tokens /\ rebases' = rebases
      BY <1>5, BurnEffect
    <2>2. /\ unsold <= Escrowed
          /\ Escrowed' = Escrowed + (mint'[m].escrow - unsold)
      BY <2>1, EscrowedChange
    <2>3. TokensHeld' = TokensHeld
      BY <2>1 DEF TokensHeld
    <2>4. unsold \in Nat
      BY <1>1
    <2> HIDE DEF unsold
    <2>5. Moved(0, 0 - unsold, 0, 0 - unsold, 0, 0)
      BY <1>1, <2>1, <2>2, <2>3, <2>4 DEF Moved, PoolSame
    <2>. QED
      BY <2>1, <2>2, <2>4, <2>5 DEF LiveMove
  <1>6. ASSUME NEW w \in Writers, NEW shares \in Amounts, WithdrawFromVault(w, shares)
        PROVE  LiveMove
    <2>1. /\ shares \in Nat /\ shares <= vault.total_shares
          /\ AmericanGate(shares)
          /\ vault'.total_collateral = vault.total_collateral - shares
          /\ CountersSame
          /\ rebases' = rebases + 1 /\ mint' = mint /\ tokens' = tokens
      BY <1>6, WithdrawEffect
    <2>2. Escrowed' = Escrowed /\ TokensHeld' = TokensHeld
      BY <2>1 DEF Escrowed, TokensHeld
    <2>3. HasFree(shares)
      BY <2>1 DEF AmericanGate, AmericanSeries
    <2>4. vault.total_shares = vault.total_collateral
      BY DEF SharesTrackCollateral
    <2>5. Moved(0 - shares, 0, 0, 0, 0, 1)
      BY <1>1, <2>1, <2>2 DEF Moved, CountersSame
    <2>. QED
      BY <2>1, <2>3, <2>4, <2>5 DEF LiveMove
  <1>7. ASSUME NEW w \in Writers, ClaimPremium(w)
        PROVE  LiveMove
    <2>1. vault' = vault /\ mint' = mint /\ tokens' = tokens /\ rebases' = rebases
      BY <1>7, ClaimEffect
    <2>. QED
      BY <2>1, MovedNothing DEF LiveMove, PoolSame, CountersSame
  <1>8. CASE OracleStep \/ Tick \/ CloseDrainedVault
    <2>1. vault' = vault /\ mint' = mint /\ tokens' = tokens /\ rebases' = rebases
      BY <1>8 DEF OracleStep, SettleExpiry, Tick, CloseDrainedVault
    <2>. QED
      BY <2>1, MovedNothing DEF LiveMove, PoolSame, CountersSame
  <1>9. CASE WriterStep
    BY <1>2, <1>3, <1>5, <1>6, <1>7, <1>9 DEF WriterStep, WithdrawPostSettlement, Live
  <1>10. CASE HolderStep
    BY <1>4, <1>10 DEF HolderStep, ExerciseFromVault, Live
  <1>11. /\ ~\E h \in Holders : AutoFinalizeHolder(h)
         /\ ~\E m \in MintIds : AutoFinalizeEscrow(m)
    BY DEF AutoFinalizeHolder, AutoFinalizeEscrow, Live
  <1>12. ~\E batch \in SUBSET Writers : AutoFinalizeWriters(batch)
    BY DEF AutoFinalizeWriters, Live
  <1>13. ~\E w \in Writers : ReclaimUnsettled(w)
    BY Zenon DEF ReclaimUnsettled, Live
  <1>. QED
    BY <1>8, <1>9, <1>10, <1>11, <1>12, <1>13 DEF CommonStep

(* What a live vault's writers own stays at par with its pool. *)
LEMMA CommonTrack ==
    ASSUME TypeOK, TypeOK', Ending, SharesTrackCollateral, Live, CommonStep
    PROVE  SharesTrackCollateral'
  <1>1. /\ vault.total_collateral \in Nat /\ vault.total_shares \in Nat
        /\ vault.total_shares = vault.total_collateral
        /\ \A v \in Writers : /\ position[v] \in Position
                              /\ position[v].shares \in Nat
                              /\ position[v].deposited = position[v].shares
    BY VaultFields, PositionFields DEF TypeOK, SharesTrackCollateral
  <1>2. ASSUME NEW w \in Writers, NEW amount \in Amounts, Deposit(w, amount)
        PROVE  SharesTrackCollateral'
    BY <1>1, <1>2, DepositEffect DEF SharesTrackCollateral
  <1>3. ASSUME NEW w \in Writers, NEW shares \in Amounts, WithdrawFromVault(w, shares)
        PROVE  SharesTrackCollateral'
    BY <1>1, <1>3, WithdrawEffect DEF SharesTrackCollateral
  <1>4. ASSUME PoolSame, \A v \in Writers : StakeSame(v)
        PROVE  SharesTrackCollateral'
    BY <1>1, <1>4 DEF PoolSame, StakeSame, SharesTrackCollateral
  <1>5. ASSUME NEW w \in Writers, \A v \in Writers \ {w} : position'[v] = position[v],
               StakeSame(w)
        PROVE  \A v \in Writers : StakeSame(v)
    BY <1>5 DEF StakeSame
  <1>6. ASSUME NEW w \in Writers, NEW m \in MintIds, NEW quantity \in Quantities,
               NEW premium \in Premiums, MintFromVault(w, m, quantity, premium)
        PROVE  SharesTrackCollateral'
    BY <1>4, <1>5, <1>6, MintEffect
  <1>7. ASSUME NEW h \in Holders, NEW m \in MintIds, NEW quantity \in Quantities,
               PurchaseFromVault(h, m, quantity)
        PROVE  SharesTrackCollateral'
    BY <1>4, <1>5, <1>7, PurchaseEffect
  <1>8. ASSUME NEW w \in Writers, NEW m \in MintIds, BurnUnsold(w, m)
        PROVE  SharesTrackCollateral'
    BY <1>4, <1>5, <1>8, BurnEffect
  <1>9. ASSUME NEW w \in Writers, ClaimPremium(w)
        PROVE  SharesTrackCollateral'
    <2>1. vault' = vault
      BY <1>9, ClaimEffect
    <2>. QED
      BY <1>4, <1>5, <1>9, <2>1, ClaimEffect DEF PoolSame
  <1>10. CASE OracleStep \/ Tick \/ CloseDrainedVault
    <2>1. vault' = vault /\ position' = position
      BY <1>10 DEF OracleStep, SettleExpiry, Tick, CloseDrainedVault
    <2>. QED
      BY <1>4, <2>1 DEF PoolSame, StakeSame
  <1>11. CASE WriterStep
    BY <1>2, <1>3, <1>6, <1>8, <1>9, <1>11 DEF WriterStep, WithdrawPostSettlement, Live
  <1>12. CASE HolderStep
    BY <1>7, <1>12 DEF HolderStep, ExerciseFromVault, Live
  <1>. QED
    BY <1>10, <1>11, <1>12, Zenon
    DEF CommonStep, AutoFinalizeHolder, AutoFinalizeEscrow, AutoFinalizeWriters,
        ReclaimUnsettled, Live

---------------------------------------------------------------------------
(* What an American vault adds to the pool, and what its own instructions   *)
(* do.                                                                      *)

SeriesHeld == SumFunction(series)
BackersOf  == SumFunction(backer)

PotTyped ==
    /\ series \in [Holders -> Nat]
    /\ ask \in [Writers -> Nat]
    /\ pot \in Nat
    /\ potUsdc \in Nat
    /\ backer \in [Writers -> Nat]
    /\ drawn \in Nat

(* The totals of the two new accounts follow the one that changed. *)
LEMMA SeriesChange ==
    ASSUME PotTyped, NEW h \in Holders, NEW n \in Nat,
           series' = [series EXCEPT ![h] = n]
    PROVE  /\ SeriesHeld \in Nat /\ SeriesHeld' \in Nat
           /\ series[h] <= SeriesHeld
           /\ SeriesHeld' = SeriesHeld + (n - series[h])
  <1> DEFINE f == series
             g == [series EXCEPT ![h] = n]
  <1>1. /\ f \in [Holders -> Nat] /\ g \in [Holders -> Nat]
        /\ f \in [Holders -> Int] /\ g \in [Holders -> Int]
        /\ g[h] = n
        /\ \A x \in Holders \ {h} : g[x] = f[x]
    BY DEF PotTyped
  <1>2. SeriesHeld = SumFunction(f) /\ SeriesHeld' = SumFunction(g) /\ f[h] = series[h]
    BY DEF SeriesHeld
  <1> HIDE DEF f, g
  <1>3. SumFunction(g) = SumFunction(f) + (g[h] - f[h])
    BY <1>1, TotalChange, FiniteAssumption
  <1>4. SumFunction(f) \in Nat /\ SumFunction(g) \in Nat /\ f[h] <= SumFunction(f)
    BY <1>1, TotalNat, FiniteAssumption
  <1>. QED
    BY <1>1, <1>2, <1>3, <1>4

LEMMA BackersChange ==
    ASSUME PotTyped, NEW w \in Writers, NEW n \in Nat,
           backer' = [backer EXCEPT ![w] = n]
    PROVE  /\ BackersOf \in Nat /\ BackersOf' \in Nat
           /\ backer[w] <= BackersOf
           /\ BackersOf' = BackersOf + (n - backer[w])
  <1> DEFINE f == backer
             g == [backer EXCEPT ![w] = n]
  <1>1. /\ f \in [Writers -> Nat] /\ g \in [Writers -> Nat]
        /\ f \in [Writers -> Int] /\ g \in [Writers -> Int]
        /\ g[w] = n
        /\ \A x \in Writers \ {w} : g[x] = f[x]
    BY DEF PotTyped
  <1>2. BackersOf = SumFunction(f) /\ BackersOf' = SumFunction(g) /\ f[w] = backer[w]
    BY DEF BackersOf
  <1> HIDE DEF f, g
  <1>3. SumFunction(g) = SumFunction(f) + (g[w] - f[w])
    BY <1>1, TotalChange, FiniteAssumption
  <1>4. SumFunction(f) \in Nat /\ SumFunction(g) \in Nat /\ f[w] <= SumFunction(f)
    BY <1>1, TotalNat, FiniteAssumption
  <1>. QED
    BY <1>1, <1>2, <1>3, <1>4

LEMMA AmericanTotals ==
    ASSUME PotTyped
    PROVE  SeriesHeld \in Nat /\ BackersOf \in Nat
    BY TotalNat, FiniteAssumption DEF PotTyped, SeriesHeld, BackersOf

(* fill_vault_peg writes and sells at once, and credits the premium. *)
LEMMA PegEffect ==
    ASSUME TypeOK, PotTyped, NEW h \in Holders, NEW quantity \in Quantities,
           NEW premium \in Premiums, FillVaultPeg(h, quantity, premium)
    PROVE  /\ quantity \in Nat /\ quantity > 0
           /\ Live /\ HasFree(quantity * CollateralPerContract(Strike))
           /\ PoolSame /\ PhaseSame
           /\ vault'.total_options_minted = vault.total_options_minted + quantity
           /\ vault'.total_options_sold = vault.total_options_sold + quantity
           /\ series[h] + quantity \in Nat
           /\ series' = [series EXCEPT ![h] = series[h] + quantity]
           /\ \E share \in Nat :
                 /\ vault'.premium_per_share = vault.premium_per_share + Credit(share)
                 /\ usdc' = usdc + share
           /\ UNCHANGED <<now, record, usdcOpen, position, opened, mint, tokens,
                          rebases, ask, pot, potUsdc, backer, drawn>>
           /\ TypeOK' /\ PotTyped'
  <1> DEFINE total == quantity * premium
             share == total - Fee(total, FeeBps)
             increment == MulDiv(share, Scale, vault.total_shares)
  <1>1. /\ quantity \in Nat /\ quantity > 0 /\ premium \in Nat
        /\ vault \in Vault /\ usdc \in Nat
        /\ vault.total_shares \in Nat /\ vault.premium_per_share \in Nat
        /\ vault.total_options_minted \in Nat /\ vault.total_options_sold \in Nat
    BY InputsAssumption, VaultFields DEF TypeOK
  <1>2. total \in Nat
    BY <1>1
  <1>3. share \in Nat
    BY <1>2, FeeAtMost
  <1>4. /\ Live /\ HasFree(quantity * CollateralPerContract(Strike))
        /\ usdc' = usdc + share
        /\ series' = [series EXCEPT ![h] = series[h] + quantity]
        /\ vault' = [vault EXCEPT
                       !.total_options_minted = vault.total_options_minted + quantity,
                       !.total_options_sold = vault.total_options_sold + quantity,
                       !.premium_per_share =
                          IF vault.total_shares > 0
                          THEN vault.premium_per_share + increment
                          ELSE vault.premium_per_share]
        /\ UNCHANGED <<now, record, usdcOpen, position, opened, mint, tokens,
                       rebases, ask, pot, potUsdc, backer, drawn>>
    BY DEF FillVaultPeg
  <1>5. Credit(share) = IF vault.total_shares > 0 THEN increment ELSE 0
    BY DEF Credit
  <1>6. Credit(share) \in Nat
    BY <1>3, CreditNat
  <1> HIDE DEF share, increment
  <1>7. /\ vault.total_options_minted + quantity \in Nat
        /\ vault.total_options_sold + quantity \in Nat
        /\ vault.premium_per_share + Credit(share) \in Nat
    BY <1>1, <1>6
  <1>8. vault' = [vault EXCEPT
                    !.total_options_minted = vault.total_options_minted + quantity,
                    !.total_options_sold = vault.total_options_sold + quantity,
                    !.premium_per_share = vault.premium_per_share + Credit(share)]
    <2>1. (IF vault.total_shares > 0 THEN vault.premium_per_share + increment
                                     ELSE vault.premium_per_share)
             = vault.premium_per_share + Credit(share)
      BY <1>1, <1>5
    <2>. QED
      BY <1>4, <2>1, Zenon
  <1>9. vault' \in Vault
    BY <1>1, <1>7, <1>8, VaultSet, Zenon
  <1>10. /\ PoolSame /\ PhaseSame
         /\ vault'.total_options_minted = vault.total_options_minted + quantity
         /\ vault'.total_options_sold = vault.total_options_sold + quantity
         /\ vault'.premium_per_share = vault.premium_per_share + Credit(share)
    BY <1>1, <1>8 DEF Vault, PoolSame, PhaseSame
  <1>11. series[h] + quantity \in Nat /\ usdc + share \in Nat
    BY <1>1, <1>3 DEF PotTyped
  <1>12. TypeOK' /\ PotTyped'
    BY <1>4, <1>9, <1>11 DEF TypeOK, PotTyped
  <1>. QED
    BY <1>1, <1>3, <1>4, <1>10, <1>11, <1>12

(* fill_writer_ask moves a strike per contract into the pot. *)
LEMMA FillAskEffect ==
    ASSUME TypeOK, PotTyped, NEW h \in Holders, NEW w \in Writers,
           NEW quantity \in Quantities, FillWriterAsk(h, w, quantity)
    PROVE  /\ quantity \in Nat /\ Live
           /\ quantity * Strike \in Nat
           /\ series[h] + quantity \in Nat
           /\ series' = [series EXCEPT ![h] = series[h] + quantity]
           /\ pot' = pot + quantity * Strike
           /\ potUsdc' = potUsdc + quantity * Strike
           /\ backer[w] \in Nat /\ backer[w] + quantity * Strike \in Nat
           /\ backer' = [backer EXCEPT ![w] = backer[w] + quantity * Strike]
           /\ UNCHANGED <<vars, drawn>>
           /\ TypeOK' /\ PotTyped'
  <1> DEFINE moved == quantity * Strike
  <1>1. quantity \in Nat /\ Strike \in Nat
    BY InputsAssumption, ParametersAssumption
  <1>2. moved \in Nat
    BY <1>1
  <1>3. /\ Live /\ quantity <= ask[w]
        /\ ask' = [ask EXCEPT ![w] = ask[w] - quantity]
        /\ series' = [series EXCEPT ![h] = series[h] + quantity]
        /\ pot' = pot + moved
        /\ potUsdc' = potUsdc + moved
        /\ backer' = [backer EXCEPT ![w] = backer[w] + moved]
        /\ UNCHANGED <<vars, drawn>>
    BY DEF FillWriterAsk, CollateralPerContract
  <1> HIDE DEF moved
  <1>4. /\ series[h] + quantity \in Nat /\ backer[w] + moved \in Nat
        /\ backer[w] \in Nat
        /\ ask[w] - quantity \in Nat /\ pot + moved \in Nat /\ potUsdc + moved \in Nat
    BY <1>1, <1>2, <1>3 DEF PotTyped
  <1>5. PotTyped'
    BY <1>3, <1>4 DEF PotTyped
  <1>6. TypeOK'
    BY <1>3 DEF vars, TypeOK
  <1>. QED
    BY <1>1, <1>2, <1>3, <1>4, <1>5, <1>6 DEF moved

(* What an early exercise does to the pool: its account pays first. *)
LEMMA PaymentEffect ==
    ASSUME TypeOK, NEW quantity \in Quantities, NEW spot \in Prices,
           NEW shortfall \in Nat, Pay(quantity, spot, shortfall)
    PROVE  /\ quantity \in Nat /\ now < Expiry
           /\ PoolSame /\ CountersSame
           /\ vault'.premium_per_share = vault.premium_per_share
           /\ vault'.is_settled = vault.is_settled
           /\ vault'.voided = vault.voided
           /\ vault'.exercised_options = vault.exercised_options + quantity
           /\ \E paid \in Nat :
                 /\ paid + shortfall <= quantity * Strike
                 /\ shortfall > 0 => paid = usdc
                 /\ usdc' = usdc - paid
                 /\ vault'.early_exercise_payout = vault.early_exercise_payout + paid
           /\ vault' \in Vault /\ usdc' \in Nat
  <1> DEFINE intrinsic == CappedIntrinsic(OptionType, spot, Strike,
                                          CollateralPerContract(Strike))
             paid == Smaller(quantity * intrinsic, usdc)
  <1>1. /\ quantity \in Nat /\ spot \in Nat /\ Strike \in Nat
        /\ vault \in Vault /\ usdc \in Nat
        /\ vault.exercised_options \in Nat /\ vault.early_exercise_payout \in Nat
    BY InputsAssumption, ParametersAssumption, VaultFields DEF TypeOK
  <1>2. RawIntrinsic(OptionType, spot, Strike) \in Nat
    BY <1>1, SaturatingSubNat, Zenon DEF RawIntrinsic
  <1>3. intrinsic \in Nat /\ intrinsic <= Strike
    BY <1>1, <1>2 DEF CappedIntrinsic, Smaller, CollateralPerContract
  <1>4. quantity * intrinsic \in Nat /\ quantity * intrinsic <= quantity * Strike
    BY <1>1, <1>3
  <1>5. /\ now < Expiry
        /\ shortfall = quantity * intrinsic - paid
        /\ usdc' = usdc - paid
        /\ vault' = [vault EXCEPT
                       !.exercised_options = vault.exercised_options + quantity,
                       !.early_exercise_payout = vault.early_exercise_payout + paid]
    BY DEF Pay
  <1>6. PICK due \in Nat : due = quantity * intrinsic
    BY <1>4
  <1>7. /\ paid \in Nat /\ paid <= due /\ paid <= usdc
        /\ paid < due => paid = usdc
    BY <1>1, <1>6 DEF Smaller
  <1> HIDE DEF paid, intrinsic
  <1>8. due <= quantity * Strike /\ quantity * Strike \in Nat
    BY <1>1, <1>4, <1>6
  <1>9. PICK bound \in Nat : bound = quantity * Strike
    BY <1>8
  <1>10. shortfall = due - paid /\ due <= bound
    BY <1>5, <1>6, <1>8, <1>9
  <1>11. /\ paid + shortfall <= bound
         /\ shortfall > 0 => paid = usdc
    BY <1>7, <1>10
  <1>12. /\ vault.exercised_options + quantity \in Nat
         /\ vault.early_exercise_payout + paid \in Nat
         /\ usdc - paid \in Nat
    BY <1>1, <1>7
  <1>13. vault' \in Vault
    BY <1>1, <1>5, <1>12, VaultSet, Zenon
  <1>14. /\ PoolSame /\ CountersSame
         /\ vault'.premium_per_share = vault.premium_per_share
         /\ vault'.is_settled = vault.is_settled
         /\ vault'.voided = vault.voided
         /\ vault'.exercised_options = vault.exercised_options + quantity
         /\ vault'.early_exercise_payout = vault.early_exercise_payout + paid
    BY <1>1, <1>5 DEF Vault, PoolSame, CountersSame
  <1>. QED
    BY <1>1, <1>5, <1>7, <1>9, <1>11, <1>12, <1>13, <1>14

(* Settling and voiding sweep the pot into the pool at par: a share for     *)
(* each unit.                                                               *)
LEMMA SweepEffect ==
    ASSUME TypeOK, PotTyped, Ending, SharesTrackCollateral,
           SettleAmerican \/ VoidAmerican
    PROVE  /\ Live /\ ~Live' /\ now >= Expiry
           /\ EndsOneWay' /\ (vault'.is_settled => record # NoPrice)
           /\ CountersSame
           /\ vault'.premium_per_share = vault.premium_per_share
           /\ vault'.total_collateral = vault.total_collateral
           /\ vault'.total_shares = vault.total_shares + pot
           /\ vault'.collateral_remaining
                = SaturatingSub(vault.total_collateral + pot, vault.early_exercise_payout)
           /\ vault'.writer_ask_swept = pot
           /\ vault'.writer_ask_equiv_shares = pot
           /\ usdc' = usdc + pot
           /\ UNCHANGED <<now, record, usdcOpen, position, opened, mint, tokens,
                          rebases, series, ask, pot, backer, drawn>>
           /\ TypeOK' /\ PotTyped'
  <1> DEFINE remaining == SaturatingSub(vault.total_collateral + pot,
                                        vault.early_exercise_payout)
             joined == [vault EXCEPT
                          !.collateral_remaining = remaining,
                          !.writer_ask_swept = pot,
                          !.writer_ask_equiv_shares = pot,
                          !.total_shares = vault.total_shares + pot]
  <1>1. /\ vault \in Vault /\ usdc \in Nat /\ pot \in Nat /\ now \in Nat
        /\ Expiry \in Nat /\ GraceWindow \in Nat
        /\ vault.total_collateral \in Nat /\ vault.total_shares \in Nat
        /\ vault.early_exercise_payout \in Nat
    BY VaultFields, ParametersAssumption DEF TypeOK, PotTyped
  <1>2. Live
    BY DEF SettleAmerican, SettleWith, VoidAmerican, VoidWith, Ending, Live
  <1>3. EquivShares(pot) = pot
    <2>1. vault.total_shares = vault.total_collateral
      BY <1>2 DEF SharesTrackCollateral
    <2>2. CASE vault.total_collateral = 0
      BY <2>2 DEF EquivShares
    <2>3. CASE vault.total_collateral # 0
      <3>1. MulDiv(pot, vault.total_collateral, vault.total_collateral) = pot
        BY <1>1, <2>3, MulDivPar
      <3>. QED
        BY <2>1, <2>3, <3>1 DEF EquivShares
    <2>. QED
      BY <2>2, <2>3
  <1>4. JoinPot(pot) = joined
    BY <1>3 DEF JoinPot
  <1>5. remaining \in Nat /\ vault.total_shares + pot \in Nat
    <2>1. vault.total_collateral + pot \in Nat
      BY <1>1
    <2>2. remaining \in Nat
      BY <1>1, <2>1 DEF SaturatingSub
    <2>. QED
      BY <1>1, <2>2
  <1> HIDE DEF remaining
  <1>6. joined \in Vault
    BY <1>1, <1>5, VaultSet, Zenon
  <1>7. /\ joined.total_options_minted = vault.total_options_minted
        /\ joined.total_options_sold = vault.total_options_sold
        /\ joined.premium_per_share = vault.premium_per_share
        /\ joined.total_collateral = vault.total_collateral
        /\ joined.total_shares = vault.total_shares + pot
        /\ joined.collateral_remaining = remaining
        /\ joined.writer_ask_swept = pot
        /\ joined.writer_ask_equiv_shares = pot
        /\ joined.is_settled = vault.is_settled
        /\ joined.voided = vault.voided
    BY <1>1, <1>5 DEF Vault
  <1> HIDE DEF joined
  <1>8. \/ /\ record # NoPrice /\ now >= Expiry
           /\ vault' = [joined EXCEPT !.is_settled = TRUE, !.settlement_price = record]
        \/ vault' = [joined EXCEPT !.voided = TRUE] /\ now >= Expiry + GraceWindow
    BY <1>4 DEF SettleAmerican, SettleWith, VoidAmerican, VoidWith
  <1>9. /\ usdc' = usdc + pot
        /\ UNCHANGED <<now, record, usdcOpen, position, opened, mint, tokens,
                       rebases, series, ask, pot, backer, drawn>>
        /\ pot <= potUsdc
        /\ potUsdc' = potUsdc - pot \/ potUsdc' = 0
    BY DEF SettleAmerican, SettleWith, VoidAmerican, VoidWith
  <1>10. vault' \in Vault
    <2>1. record # NoPrice => record \in Nat
      BY InputsAssumption DEF TypeOK
    <2>2. [joined EXCEPT !.is_settled = TRUE] \in Vault
          /\ [joined EXCEPT !.voided = TRUE] \in Vault
      BY <1>6, VaultSet, Zenon
    <2>3. ASSUME record # NoPrice
          PROVE  [joined EXCEPT !.is_settled = TRUE, !.settlement_price = record] \in Vault
      BY <2>1, <2>2, <2>3, VaultSet, Zenon
    <2>. QED
      BY <1>8, <2>2, <2>3, Zenon
  <1>11. /\ CountersSame
         /\ vault'.premium_per_share = vault.premium_per_share
         /\ vault'.total_collateral = vault.total_collateral
         /\ vault'.total_shares = vault.total_shares + pot
         /\ vault'.collateral_remaining = remaining
         /\ vault'.writer_ask_swept = pot
         /\ vault'.writer_ask_equiv_shares = pot
    BY <1>6, <1>7, <1>8, Zenon DEF Vault, CountersSame
  <1>12. \/ record # NoPrice /\ vault'.is_settled /\ ~vault'.voided
         \/ ~vault'.is_settled /\ vault'.voided
    BY <1>2, <1>6, <1>7, <1>8, Zenon DEF Vault, Live
  <1>13. ~Live' /\ EndsOneWay' /\ (vault'.is_settled => record # NoPrice)
    BY <1>12 DEF Live, EndsOneWay
  <1>14. now >= Expiry
    BY <1>1, <1>8
  <1>15. usdc' \in Nat /\ potUsdc' \in Nat
    BY <1>1, <1>9 DEF PotTyped
  <1>16. TypeOK' /\ PotTyped'
    BY <1>9, <1>10, <1>15 DEF TypeOK, PotTyped
  <1>. QED
    BY <1>2, <1>9, <1>11, <1>13, <1>14, <1>16 DEF remaining

(* A holder of series tokens is paid as any other. *)
LEMMA PaySeriesEffect ==
    ASSUME TypeOK, PotTyped, NEW h \in Holders, NEW quantity \in Nat,
           quantity <= series[h], PaySeriesHolder(h, quantity)
    PROVE  LET payout == Smaller(quantity * Payoff, vault.collateral_remaining) IN
           /\ vault.is_settled /\ ~vault.voided /\ usdcOpen
           /\ payout \in Nat
           /\ usdc' = usdc - payout
           /\ vault'.collateral_remaining = vault.collateral_remaining - payout
           /\ vault'.premium_per_share = vault.premium_per_share
           /\ PoolSame /\ CountersSame /\ EndingSame
           /\ series[h] - quantity \in Nat
           /\ series' = [series EXCEPT ![h] = series[h] - quantity]
           /\ UNCHANGED <<now, record, usdcOpen, position, opened, mint, tokens,
                          rebases, ask, pot, potUsdc, backer, drawn>>
           /\ TypeOK' /\ PotTyped'
  <1> DEFINE payout == Smaller(quantity * Payoff, vault.collateral_remaining)
  <1>1. /\ vault \in Vault /\ vault.collateral_remaining \in Nat /\ usdc \in Nat
        /\ series[h] \in Nat /\ quantity * Payoff \in Nat
    BY VaultFields, PayoffNat DEF TypeOK, PotTyped
  <1>2. payout \in Nat /\ payout <= vault.collateral_remaining
    BY <1>1 DEF Smaller
  <1>3. /\ vault.is_settled /\ ~vault.voided /\ usdcOpen
        /\ payout <= usdc
        /\ series' = [series EXCEPT ![h] = series[h] - quantity]
        /\ usdc' = usdc - payout
        /\ vault' = [vault EXCEPT
                       !.collateral_remaining = vault.collateral_remaining - payout]
        /\ UNCHANGED <<now, record, usdcOpen, position, opened, mint, tokens, rebases,
                       ask, pot, potUsdc, backer, drawn>>
    BY DEF PaySeriesHolder
  <1> HIDE DEF payout
  <1>4. /\ vault.collateral_remaining - payout \in Nat
        /\ usdc - payout \in Nat
        /\ series[h] - quantity \in Nat
    BY <1>1, <1>2, <1>3
  <1>5. vault' \in Vault
    BY <1>1, <1>3, <1>4, VaultSet, Zenon
  <1>6. /\ vault'.collateral_remaining = vault.collateral_remaining - payout
        /\ vault'.premium_per_share = vault.premium_per_share
        /\ PoolSame /\ CountersSame /\ EndingSame
    BY <1>1, <1>3, Zenon DEF Vault, PoolSame, CountersSame, EndingSame
  <1>7. TypeOK' /\ PotTyped'
    BY <1>3, <1>4, <1>5 DEF TypeOK, PotTyped
  <1>. QED
    BY <1>2, <1>3, <1>4, <1>6, <1>7 DEF payout

(* At par a backer's equivalent shares are the units he committed. *)
LEMMA BackerPart ==
    ASSUME TypeOK, PotTyped, NEW w \in Writers,
           vault.writer_ask_equiv_shares = vault.writer_ask_swept
    PROVE  BackerShares(w) = IF vault.writer_ask_swept = 0 THEN 0 ELSE backer[w]
  <1>1. backer[w] \in Nat /\ vault.writer_ask_swept \in Nat
    BY VaultFields DEF TypeOK, PotTyped
  <1>2. ASSUME vault.writer_ask_swept # 0
        PROVE  MulDiv(backer[w], vault.writer_ask_swept, vault.writer_ask_swept)
                  = backer[w]
    BY <1>1, <1>2, MulDivPar
  <1>. QED
    BY <1>2 DEF BackerShares

(* What they are worth rounds towards the pool. *)
LEMMA ResidualPart ==
    ASSUME TypeOK, NEW w \in Writers, BackerShares(w) \in Nat,
           BackerShares(w) <= vault.total_shares
    PROVE  /\ Residual(w) \in Nat
           /\ Residual(w) <= vault.collateral_remaining
           /\ vault.collateral_remaining <= vault.total_shares =>
                 vault.collateral_remaining - Residual(w)
                    <= vault.total_shares - BackerShares(w)
  <1>1. vault.total_shares \in Nat /\ vault.collateral_remaining \in Nat
    BY VaultFields DEF TypeOK
  <1>2. CASE BackerShares(w) = 0 \/ vault.total_shares = 0
    BY <1>1, <1>2 DEF Residual
  <1>3. CASE BackerShares(w) # 0 /\ vault.total_shares # 0
    <2>1. Residual(w) = MulDiv(BackerShares(w), vault.collateral_remaining,
                               vault.total_shares)
      BY <1>3 DEF Residual, ShareValue
    <2>2. vault.total_shares > 0
      BY <1>1, <1>3
    <2>. QED
      BY <1>1, <2>1, <2>2, ExitKeeps, Zenon
  <1>. QED
    BY <1>2, <1>3

LEMMA ResidualEffect ==
    ASSUME TypeOK, PotTyped, NEW w \in Writers, WithdrawResidual(w),
           vault.writer_ask_equiv_shares = vault.writer_ask_swept
    PROVE  /\ ~Live /\ usdcOpen /\ vault.writer_ask_swept > 0
           /\ vault.is_settled => now >= Expiry + ExerciseWindow
           /\ backer[w] \in Nat /\ backer[w] <= vault.total_shares
           /\ Residual(w) \in Nat
           /\ vault.collateral_remaining <= vault.total_shares =>
                 vault.collateral_remaining - Residual(w)
                    <= vault.total_shares - backer[w]
           /\ usdc' = usdc - Residual(w)
           /\ vault'.collateral_remaining = vault.collateral_remaining - Residual(w)
           /\ vault'.total_shares = vault.total_shares - backer[w]
           /\ vault'.total_collateral = vault.total_collateral
           /\ vault'.premium_per_share = vault.premium_per_share
           /\ CountersSame /\ EndingSame
           /\ backer' = [backer EXCEPT ![w] = 0]
           /\ UNCHANGED <<now, record, usdcOpen, position, opened, mint, tokens,
                          rebases, series, ask, pot, potUsdc, drawn>>
           /\ TypeOK' /\ PotTyped'
  <1>1. /\ vault \in Vault /\ usdc \in Nat /\ backer[w] \in Nat
        /\ vault.collateral_remaining \in Nat /\ vault.total_shares \in Nat
        /\ vault.writer_ask_swept \in Nat
    BY VaultFields DEF TypeOK, PotTyped
  <1>2. /\ ~Live /\ usdcOpen /\ vault.writer_ask_swept > 0
        /\ vault.is_settled => now >= Expiry + ExerciseWindow
        /\ Residual(w) <= usdc
        /\ Residual(w) <= vault.collateral_remaining
        /\ BackerShares(w) <= vault.total_shares
        /\ usdc' = usdc - Residual(w)
        /\ backer' = [backer EXCEPT ![w] = 0]
        /\ vault' = [vault EXCEPT
                       !.collateral_remaining = vault.collateral_remaining - Residual(w),
                       !.total_shares = vault.total_shares - BackerShares(w)]
        /\ UNCHANGED <<now, record, usdcOpen, position, opened, mint, tokens, rebases,
                       series, ask, pot, potUsdc, drawn>>
    BY DEF WithdrawResidual, Live
  <1>3. BackerShares(w) = backer[w]
    BY <1>1, <1>2, BackerPart
  <1>4. /\ Residual(w) \in Nat
        /\ vault.collateral_remaining <= vault.total_shares =>
              vault.collateral_remaining - Residual(w)
                 <= vault.total_shares - backer[w]
    BY <1>1, <1>2, <1>3, ResidualPart
  <1>5. /\ vault.collateral_remaining - Residual(w) \in Nat
        /\ vault.total_shares - backer[w] \in Nat
        /\ usdc - Residual(w) \in Nat
    BY <1>1, <1>2, <1>3, <1>4
  <1>6. vault' \in Vault
    BY <1>1, <1>2, <1>3, <1>5, VaultSet, Zenon
  <1>7. /\ vault'.collateral_remaining = vault.collateral_remaining - Residual(w)
        /\ vault'.total_shares = vault.total_shares - backer[w]
        /\ vault'.total_collateral = vault.total_collateral
        /\ vault'.premium_per_share = vault.premium_per_share
        /\ CountersSame /\ EndingSame
    BY <1>1, <1>2, <1>3 DEF Vault, CountersSame, EndingSame
  <1>8. TypeOK' /\ PotTyped'
    BY <1>2, <1>5, <1>6 DEF TypeOK, PotTyped
  <1>. QED
    BY <1>1, <1>2, <1>3, <1>4, <1>7, <1>8

---------------------------------------------------------------------------
(* The books of an American vault: one inductive invariant.                 *)

Held == TokensHeld + SeriesHeld

StateBooks ==
    OptionBooks(vault.total_collateral, vault.total_options_minted,
                vault.total_options_sold, vault.exercised_options,
                vault.early_exercise_payout, Escrowed, Held,
                pot, drawn, BackersOf, rebases)

(* A live vault: its shares are its writers', the pot's record is its       *)
(* account, and every option has its strike.                                *)
OpenBooks == SharesCounted /\ potUsdc = pot /\ StateBooks

(* An ended one: no share is worth more than a unit, and while the pot was  *)
(* never drawn on, the shares are its writers' and its backers'.            *)
ClosedBooks ==
    /\ vault.collateral_remaining <= vault.total_shares
    /\ SharesOf <= vault.total_collateral
    /\ vault.writer_ask_equiv_shares = vault.writer_ask_swept
    /\ drawn = 0 => /\ vault.total_shares = SharesOf + BackersOf
                    /\ vault.writer_ask_swept = 0 => BackersOf = 0

(* While the window is open, options held and unsold ones are covered; and  *)
(* writers who need not wait for it find no option held.                    *)
Waits == vault.total_options_sold > 0 \/ vault.writer_ask_swept > 0

CoverBooks ==
    vault.is_settled /\ now < Expiry + ExerciseWindow =>
        /\ Waits => (Held + Escrowed) * Payoff
                       <= vault.collateral_remaining + DrawnForDust
        /\ ~Waits => Held = 0

AmericanBooks ==
    /\ AmericanSeries
    /\ TypeOK /\ PotTyped /\ Ending
    /\ record # NoPrice => now >= Expiry
    /\ SharesTrackCollateral /\ WriterBooks
    /\ Live => OpenBooks
    /\ ~Live => ClosedBooks
    /\ CoverBooks
    /\ PremiumBooks(DrawnForDust)

(* The dust is an amount, the smaller of what was drawn and the bound. *)
LEMMA DustNat ==
    ASSUME TypeOK, PotTyped
    PROVE  /\ DrawnForDust \in Nat
           /\ DrawnForDust = IF rebases < Strike THEN Smaller(drawn, Dust(rebases))
                                                 ELSE drawn
  <1>1. rebases \in Nat /\ drawn \in Nat
    BY DEF TypeOK, PotTyped
  <1>2. Dust(rebases) \in Nat
    BY <1>1, DustGrows
  <1>3. DrawnForDust = IF rebases < Strike THEN Smaller(drawn, Dust(rebases)) ELSE drawn
    BY DEF DrawnForDust, Dust, CollateralPerContract
  <1>. QED
    BY <1>1, <1>2, <1>3 DEF Smaller

(* It changes only while the vault is live, when the premium's books do not *)
(* mention it.                                                              *)
LEMMA LivePremium ==
    ASSUME NEW a, NEW b, Live, PremiumBooks(a)
    PROVE  PremiumBooks(b)
    BY DEF PremiumBooks

(* The pool's instructions keep the options' books of a live vault. *)
LEMMA StateMoves ==
    ASSUME TypeOK, PotTyped, StateBooks, LiveMove, EndingSame, UNCHANGED potVars
    PROVE  StateBooks'
  <1> DEFINE t == vault.total_collateral
             m == vault.total_options_minted
             s == vault.total_options_sold
             x == vault.exercised_options
             e == vault.early_exercise_payout
             c == Escrowed
             o == TokensHeld
             k == SeriesHeld
             b == BackersOf
             r == rebases
  <1>1. /\ t \in Nat /\ m \in Nat /\ s \in Nat /\ x \in Nat /\ e \in Nat
        /\ c \in Nat /\ o \in Nat /\ k \in Nat /\ b \in Nat /\ r \in Nat
        /\ pot \in Nat /\ drawn \in Nat /\ o + k \in Nat
    BY VaultFields, TotalsNat, AmericanTotals DEF TypeOK, PotTyped
  <1>2. OptionBooks(t, m, s, x, e, c, o + k, pot, drawn, b, r)
    BY DEF StateBooks, Held
  <1>3. /\ SeriesHeld' = k /\ BackersOf' = b /\ pot' = pot /\ drawn' = drawn
        /\ vault'.exercised_options = x /\ vault'.early_exercise_payout = e
    BY DEF potVars, EndingSame, SeriesHeld, BackersOf
  <1>4. ASSUME NEW dt, NEW dm, NEW ds, NEW dc, NEW dh, NEW dr,
               Moved(dt, dm, ds, dc, dh, dr),
               OptionBooks(t + dt, m + dm, s + ds, x, e, c + dc, (o + dh) + k,
                           pot, drawn, b, r + dr)
        PROVE  StateBooks'
    BY <1>3, <1>4 DEF StateBooks, Held, Moved
  <1> HIDE DEF t, m, s, x, e, c, o, k, b, r
  <1>5. CASE Moved(0, 0, 0, 0, 0, 0)
    <2>1. /\ t + 0 = t /\ m + 0 = m /\ s + 0 = s /\ c + 0 = c
          /\ (o + 0) + k = o + k /\ r + 0 = r
      BY <1>1
    <2>. QED
      BY <1>2, <1>4, <1>5, <2>1
  <1>6. ASSUME NEW a \in Nat, Moved(a, 0, 0, 0, 0, 1)
        PROVE  StateBooks'
    <2>1. m + 0 = m /\ s + 0 = s /\ c + 0 = c /\ (o + 0) + k = o + k
      BY <1>1
    <2>2. OptionBooks(t + a, m, s, x, e, c, o + k, pot, drawn, b, r + 1)
      BY <1>1, <1>2, DepositOption, Zenon
    <2>. QED
      BY <1>4, <1>6, <2>1, <2>2
  <1>7. ASSUME NEW q \in Nat, q > 0, HasFree(q * CollateralPerContract(Strike)),
               Moved(0, q, 0, q, 0, 0)
        PROVE  StateBooks'
    <2>1. /\ t + 0 = t /\ s + 0 = s /\ (o + 0) + k = o + k /\ r + 0 = r
          /\ c + (q - 0) = c + q /\ (o + k) + 0 = o + k
      BY <1>1
    <2>2. m >= x /\ e + (m - x) * Strike + q * Strike <= t
      BY <1>7 DEF HasFree, CollateralPerContract, m, x, e, t
    <2>3. OptionBooks(t, m + q, s + 0, x, e, c + (q - 0), (o + k) + 0, pot, drawn, b, r)
      <3>1. 0 \in Nat /\ 0 <= q
        OBVIOUS
      <3>. QED
        BY <1>1, <1>2, <1>7, <2>2, <3>1, WriteOption, Zenon
    <2>. QED
      BY <1>4, <1>7, <2>1, <2>3
  <1>8. ASSUME NEW q \in Nat, q <= c, Moved(0, 0, q, 0 - q, q, 0)
        PROVE  StateBooks'
    <2>1. /\ t + 0 = t /\ m + 0 = m /\ c + (0 - q) = c - q
          /\ (o + q) + k = (o + k) + q /\ r + 0 = r
      BY <1>1
    <2>2. OptionBooks(t, m, s + q, x, e, c - q, (o + k) + q, pot, drawn, b, r)
      BY <1>1, <1>2, <1>8, SellOption, Zenon
    <2>. QED
      BY <1>4, <1>8, <2>1, <2>2
  <1>9. ASSUME NEW q \in Nat, q <= c, q <= m, Moved(0, 0 - q, 0, 0 - q, 0, 0)
        PROVE  StateBooks'
    <2>1. /\ t + 0 = t /\ s + 0 = s /\ m + (0 - q) = m - q /\ c + (0 - q) = c - q
          /\ (o + 0) + k = o + k /\ r + 0 = r
      BY <1>1
    <2>2. OptionBooks(t, m - q, s, x, e, c - q, o + k, pot, drawn, b, r)
      BY <1>1, <1>2, <1>9, BurnOption, Zenon
    <2>. QED
      BY <1>4, <1>9, <2>1, <2>2
  <1>10. ASSUME NEW a \in Nat, a <= t, HasFree(a), Moved(0 - a, 0, 0, 0, 0, 1)
         PROVE  StateBooks'
    <2>1. /\ t + (0 - a) = t - a /\ m + 0 = m /\ s + 0 = s /\ c + 0 = c
          /\ (o + 0) + k = o + k
      BY <1>1
    <2>2. m >= x /\ e + (m - x) * Strike + a <= t
      BY <1>10 DEF HasFree, CollateralPerContract, m, x, e, t
    <2>3. OptionBooks(t - a, m, s, x, e, c, o + k, pot, drawn, b, r + 1)
      BY <1>1, <1>2, <1>10, <2>2, WithdrawOption, Zenon
    <2>. QED
      BY <1>4, <1>10, <2>1, <2>3
  <1>. QED
    BY <1>5, <1>6, <1>7, <1>8, <1>9, <1>10 DEF LiveMove, c, m, t

(* Once the vault has ended, a pool instruction leaves its pool alone, pays *)
(* for options of a holder or an escrow, or lets a writer out.              *)
Pays(q) ==
    /\ vault.is_settled
    /\ TokensHeld' <= TokensHeld
    /\ q <= TokensHeld + Escrowed
    /\ TokensHeld' + Escrowed' = (TokensHeld + Escrowed) - q
    /\ vault'.collateral_remaining
         = vault.collateral_remaining - Smaller(q * Payoff, vault.collateral_remaining)
    /\ PoolSame

EndedMove ==
    \/ /\ PoolSame
       /\ vault'.collateral_remaining = vault.collateral_remaining
       /\ TokensHeld' = TokensHeld
       /\ Escrowed' <= Escrowed
    \/ \E q \in Nat : Pays(q)
    \/ \E w \in Writers : /\ ReleaseShare(w)
                          /\ TokensHeld' = TokensHeld
                          /\ Escrowed' = Escrowed
                          /\ now' = now
                          /\ vault.is_settled => ExerciseWindowOver

LEMMA EndedMoves ==
    ASSUME TypeOK, TypeOK', Ending, ~Live, CommonStep
    PROVE  /\ EndedMove
           /\ Escrowed' \in Nat /\ TokensHeld' \in Nat
           /\ vault'.total_options_sold = vault.total_options_sold
           /\ rebases' = rebases
  <1> DEFINE Goal == /\ EndedMove
                     /\ Escrowed' \in Nat /\ TokensHeld' \in Nat
                     /\ vault'.total_options_sold = vault.total_options_sold
                     /\ rebases' = rebases
  <1>1. /\ vault \in Vault /\ tokens \in [Holders -> Nat]
        /\ ~(vault.is_settled /\ vault.voided)
        /\ Escrowed \in Nat /\ TokensHeld \in Nat
        /\ \A m \in MintIds : mint[m].escrow \in Nat
    BY TotalsNat, MintFields DEF TypeOK, Ending, EndsOneWay
  <1>2. now < Expiry => vault.is_settled
    BY LiveBefore
  <1>3. ASSUME tokens' = tokens PROVE TokensHeld' = TokensHeld /\ TokensHeld' \in Nat
    <2>1. TokensHeld' = TokensHeld
      BY <1>3 DEF TokensHeld
    <2>. QED
      BY <1>1, <2>1
  <1>20. ASSUME mint' = mint
         PROVE  Escrowed' = Escrowed /\ Escrowed' \in Nat /\ Escrowed' <= Escrowed
    <2>1. Escrowed' = Escrowed
      BY <1>20 DEF Escrowed
    <2>. QED
      BY <1>1, <2>1
  <1>4. ASSUME NEW w \in Writers, NEW m \in MintIds, BurnUnsold(w, m)
        PROVE  Goal
    <2>1. /\ PoolSame /\ PhaseSame /\ tokens' = tokens /\ rebases' = rebases
          /\ vault'.total_options_sold = vault.total_options_sold
          /\ mint'[m].escrow = 0
          /\ \A n \in MintIds \ {m} : mint'[n] = mint[n]
      BY <1>4, BurnEffect
    <2>2. /\ Escrowed' \in Nat
          /\ Escrowed' = Escrowed + (mint'[m].escrow - mint[m].escrow)
      BY <2>1, EscrowedChange
    <2>3. Escrowed' <= Escrowed
      BY <1>1, <2>1, <2>2
    <2>. QED
      BY <1>3, <2>1, <2>2, <2>3 DEF EndedMove, PhaseSame
  <1>5. ASSUME NEW w \in Writers, ClaimPremium(w)
        PROVE  Goal
    <2>1. vault' = vault /\ tokens' = tokens /\ mint' = mint /\ rebases' = rebases
      BY <1>5, ClaimEffect
    <2>. QED
      BY <1>3, <1>20, <2>1 DEF EndedMove, PoolSame
  <1>6. ASSUME NEW w \in Writers, ReleaseShare(w), tokens' = tokens, mint' = mint,
               now' = now, rebases' = rebases, vault.is_settled => ExerciseWindowOver
        PROVE  Goal
    <2>1. vault'.total_options_sold = vault.total_options_sold
      BY <1>6, ReleaseCounters DEF CountersSame
    <2>. QED
      BY <1>3, <1>6, <1>20, <2>1 DEF EndedMove
  <1>7. ASSUME NEW w \in Writers, WithdrawPostSettlement(w)
        PROVE  Goal
    BY <1>6, <1>7 DEF WithdrawPostSettlement
  <1>8. ASSUME NEW w \in Writers, ReclaimUnsettled(w)
        PROVE  Goal
    BY <1>1, <1>6, <1>8 DEF ReclaimUnsettled
  <1>9. ASSUME NEW batch \in SUBSET Writers, AutoFinalizeWriters(batch)
        PROVE  Goal
    <2>1. /\ ExerciseWindowOver
          /\ now' = now /\ tokens' = tokens /\ mint' = mint /\ rebases' = rebases
          /\ vault' = vault \/ \E w \in batch : ReleaseShare(w)
      BY <1>9, BatchEffect
    <2>2. CASE vault' = vault
      BY <1>3, <1>20, <2>1, <2>2 DEF EndedMove, PoolSame
    <2>3. ASSUME NEW w \in batch, ReleaseShare(w) PROVE Goal
      BY <1>6, <2>1, <2>3
    <2>. QED
      BY <2>1, <2>2, <2>3
  <1>10. ASSUME NEW h \in Holders, NEW q \in Nat, q <= tokens[h], vault.is_settled,
                PayHolder(h, q)
         PROVE  Goal
    <2>1. /\ vault'.collateral_remaining
               = vault.collateral_remaining
                   - Smaller(q * Payoff, vault.collateral_remaining)
          /\ PoolSame /\ CountersSame
          /\ tokens[h] - q \in Nat
          /\ tokens' = [tokens EXCEPT ![h] = tokens[h] - q]
          /\ mint' = mint /\ rebases' = rebases
      BY <1>10, PayEffect, Zenon
    <2>2. /\ TokensHeld \in Nat /\ tokens[h] <= TokensHeld
          /\ TokensHeld' = TokensHeld + ((tokens[h] - q) - tokens[h])
      BY <1>1, <2>1, TokensChange, Zenon
    <2>3. /\ q <= TokensHeld + Escrowed /\ TokensHeld' <= TokensHeld
          /\ TokensHeld' + Escrowed' = (TokensHeld + Escrowed) - q
          /\ TokensHeld' \in Nat
      <3>1. tokens[h] \in Nat /\ Escrowed' = Escrowed
        BY <1>1, <1>20, <2>1
      <3>. QED
        BY <1>1, <1>10, <2>2, <3>1
    <2>4. Pays(q)
      BY <1>10, <2>1, <2>3 DEF Pays
    <2>. QED
      BY <1>10, <1>20, <2>1, <2>3, <2>4 DEF EndedMove, CountersSame
  <1>11. ASSUME NEW h \in Holders, NEW q \in Quantities, ExerciseFromVault(h, q)
         PROVE  Goal
    BY <1>10, <1>11, InputsAssumption DEF ExerciseFromVault
  <1>12. ASSUME NEW h \in Holders, AutoFinalizeHolder(h)
         PROVE  Goal
    <2>1. tokens[h] \in Nat /\ tokens[h] <= tokens[h]
      BY <1>1
    <2>. QED
      BY <1>10, <1>12, <2>1 DEF AutoFinalizeHolder
  <1>21. ASSUME NEW m \in MintIds, AutoFinalizeEscrow(m)
         PROVE  Goal
    <2>1. /\ vault.is_settled /\ tokens' = tokens /\ rebases' = rebases
          /\ mint'[m].escrow = 0
          /\ \A n \in MintIds \ {m} : mint'[n] = mint[n]
      BY <1>21, EscrowEffect
    <2>2. PICK q \in Nat : q = mint[m].escrow
      BY <1>1
    <2>3. /\ vault'.collateral_remaining
               = vault.collateral_remaining
                   - Smaller(q * Payoff, vault.collateral_remaining)
          /\ PoolSame /\ CountersSame
      BY <1>21, <2>2, EscrowPay
    <2>4. /\ Escrowed' \in Nat /\ q <= Escrowed
          /\ Escrowed' = Escrowed + (0 - q)
      BY <2>1, <2>2, EscrowedChange
    <2>5. TokensHeld' = TokensHeld /\ TokensHeld' \in Nat
      BY <1>3, <2>1
    <2>6. /\ q <= TokensHeld + Escrowed /\ TokensHeld' <= TokensHeld
          /\ TokensHeld' + Escrowed' = (TokensHeld + Escrowed) - q
      BY <1>1, <2>4, <2>5
    <2>7. Pays(q)
      BY <2>1, <2>3, <2>6 DEF Pays
    <2>. QED
      BY <2>1, <2>3, <2>4, <2>5, <2>7 DEF EndedMove, CountersSame
  <1>13. CASE OracleStep \/ Tick \/ CloseDrainedVault
    <2>1. vault' = vault /\ tokens' = tokens /\ mint' = mint /\ rebases' = rebases
      BY <1>13 DEF OracleStep, SettleExpiry, Tick, CloseDrainedVault
    <2>. QED
      BY <1>3, <1>20, <2>1 DEF EndedMove, PoolSame
  <1>14. ASSUME NEW w \in Writers, NEW amount \in Amounts, Deposit(w, amount)
         PROVE  Goal
    <2>1. now < Expiry /\ ~vault.is_settled
      BY <1>14 DEF Deposit
    <2>. QED
      BY <1>2, <2>1
  <1>15. ASSUME NEW w \in Writers, NEW m \in MintIds, NEW q \in Quantities,
                NEW p \in Premiums, MintFromVault(w, m, q, p)
         PROVE  Goal
    <2>1. now < Expiry /\ ~vault.is_settled
      BY <1>15 DEF MintFromVault
    <2>. QED
      BY <1>2, <2>1
  <1>16. ASSUME NEW w \in Writers, NEW shares \in Amounts, WithdrawFromVault(w, shares)
         PROVE  Goal
    BY <1>16 DEF WithdrawFromVault
  <1>17. ASSUME NEW h \in Holders, NEW m \in MintIds, NEW q \in Quantities,
                PurchaseFromVault(h, m, q)
         PROVE  Goal
    <2>1. now < Expiry /\ ~vault.is_settled
      BY <1>17 DEF PurchaseFromVault
    <2>. QED
      BY <1>2, <2>1
  <1>18. CASE WriterStep
    BY <1>4, <1>5, <1>7, <1>14, <1>15, <1>16, <1>18 DEF WriterStep
  <1>19. CASE HolderStep
    BY <1>11, <1>17, <1>19 DEF HolderStep
  <1>. QED
    BY <1>8, <1>9, <1>12, <1>13, <1>18, <1>19, <1>21 DEF CommonStep

---------------------------------------------------------------------------
(* The pool's instructions keep the books.                                  *)

LEMMA CommonCover ==
    ASSUME AmericanBooks, TypeOK', CommonStep, UNCHANGED potVars
    PROVE  CoverBooks'
  <1>1. /\ TypeOK /\ PotTyped /\ Ending /\ CoverBooks
        /\ vault.collateral_remaining \in Nat /\ now \in Nat /\ now' \in Nat
        /\ Expiry \in Nat /\ ExerciseWindow \in Nat
        /\ vault.total_options_sold \in Nat /\ vault.writer_ask_swept \in Nat
        /\ TokensHeld \in Nat /\ SeriesHeld \in Nat /\ Escrowed \in Nat
        /\ Payoff \in Nat /\ DrawnForDust \in Nat
    BY VaultFields, TotalsNat, AmericanTotals, PayoffNat, DustNat, ParametersAssumption
    DEF AmericanBooks, TypeOK
  <1>2. EndingSame /\ now' >= now
    BY <1>1, CommonPhase
  <1>3. CASE Live
    BY <1>2, <1>3 DEF CoverBooks, EndingSame, Live
  <1>4. CASE ~Live
    <2> DEFINE Cover == (Held + Escrowed) * Payoff
                           <= vault.collateral_remaining + DrawnForDust
    <2> SUFFICES ASSUME vault'.is_settled, now' < Expiry + ExerciseWindow
                 PROVE  (Waits' => Cover') /\ (~Waits' => Held' = 0)
      BY DEF CoverBooks
    <2>1. /\ EndedMove /\ Escrowed' \in Nat /\ TokensHeld' \in Nat
          /\ vault'.total_options_sold = vault.total_options_sold
          /\ rebases' = rebases
      BY <1>1, <1>4, EndedMoves
    <2>2. Payoff' = Payoff /\ SeriesHeld' = SeriesHeld /\ Waits' = Waits
      BY <1>2, <2>1 DEF EndingSame, Payoff, potVars, SeriesHeld, Waits
    <2>3. DrawnForDust' = DrawnForDust
      BY <2>1 DEF DrawnForDust, potVars
    <2>4. now < Expiry + ExerciseWindow /\ vault.is_settled
      BY <1>1, <1>2 DEF EndingSame
    <2>5. (Waits => Cover) /\ (~Waits => Held = 0)
      BY <1>1, <2>4 DEF CoverBooks
    <2>6. PICK n \in Nat, p \in Nat, c \in Nat, d \in Nat :
             /\ n = Held + Escrowed /\ p = Payoff
             /\ c = vault.collateral_remaining /\ d = DrawnForDust
      BY <1>1 DEF Held
    <2>7. Waits => n * p <= c + d
      BY <2>5, <2>6
    <2>8. PICK a \in Nat, s \in Nat, e \in Nat, a1 \in Nat, e1 \in Nat :
             /\ a = TokensHeld /\ s = SeriesHeld /\ e = Escrowed
             /\ a1 = TokensHeld' /\ e1 = Escrowed'
      BY <1>1, <2>1
    <2>9. /\ Held = a + s /\ n = (a + s) + e
          /\ Held' = a1 + s /\ Held' + Escrowed' = (a1 + s) + e1
      BY <2>2, <2>6, <2>8 DEF Held
    <2>13. ASSUME a1 <= a,
                  Waits => ((a1 + s) + e1) * p <= vault'.collateral_remaining + d
           PROVE  (Waits' => Cover') /\ (~Waits' => Held' = 0)
      <3>1. a + s = 0 => a1 + s = 0
        BY ONLY a \in Nat, s \in Nat, a1 \in Nat, a1 <= a
      <3>2. Waits => Cover'
        BY <2>2, <2>3, <2>6, <2>9, <2>13
      <3>. QED
        BY <2>2, <2>5, <2>9, <3>1, <3>2
    <2> HIDE DEF Cover
    <2>10. CASE /\ vault'.collateral_remaining = vault.collateral_remaining
                /\ TokensHeld' = TokensHeld
                /\ Escrowed' <= Escrowed
      <3>1. PICK left \in Nat : left = (a1 + s) + e1
        OBVIOUS
      <3>2. a1 = a /\ e1 <= e
        BY <2>8, <2>10
      <3>3. a1 <= a /\ left <= n
        BY ONLY a \in Nat, s \in Nat, e \in Nat, a1 \in Nat, e1 \in Nat, left \in Nat,
                <2>9, <3>1, <3>2
      <3>4. left * p \in Nat /\ n * p \in Nat /\ left * p <= n * p
        BY <3>3, CostShrinks
      <3>5. Waits => left * p <= vault'.collateral_remaining + d
        BY <2>6, <2>7, <2>10, <3>4
      <3>. QED
        BY <2>13, <3>1, <3>3, <3>5
    <2>11. ASSUME NEW q \in Nat, Pays(q)
           PROVE  (Waits' => Cover') /\ (~Waits' => Held' = 0)
      <3>1. /\ q <= a + e /\ a1 <= a /\ a1 + e1 = (a + e) - q
            /\ vault'.collateral_remaining = c - Smaller(q * p, c)
        BY <2>6, <2>8, <2>11 DEF Pays
      <3>2. q <= n /\ (a1 + s) + e1 = n - q
        BY ONLY a \in Nat, s \in Nat, e \in Nat, a1 \in Nat, e1 \in Nat, q \in Nat,
                <2>9, <3>1
      <3>3. Waits => (n - q) * p <= (c - Smaller(q * p, c)) + d
        BY <2>7, <3>2, CoverPaid, Zenon
      <3>. QED
        BY <2>13, <3>1, <3>2, <3>3
    <2>12. ASSUME NEW w \in Writers, ReleaseShare(w), TokensHeld' = TokensHeld,
                  Escrowed' = Escrowed, now' = now,
                  vault.is_settled => ExerciseWindowOver
           PROVE  (Waits' => Cover') /\ (~Waits' => Held' = 0)
      <3>1. ~(now >= Expiry + ExerciseWindow)
        BY <1>1, <2>4
      <3>2. ~Waits
        BY <2>4, <2>12, <3>1 DEF ExerciseWindowOver, Waits
      <3>3. Held' = Held
        BY <2>2, <2>12 DEF Held
      <3>. QED
        BY <2>2, <2>5, <3>2, <3>3
    <2>. QED
      BY <2>1, <2>10, <2>11, <2>12 DEF EndedMove
  <1>. QED
    BY <1>3, <1>4

(* What a writer is paid is no more than a unit per share. *)
LEMMA RemainingPar ==
    ASSUME TypeOK, NEW w \in Writers, position[w].shares <= vault.total_shares,
           vault.collateral_remaining <= vault.total_shares
    PROVE  WriterRemaining(w) <= position[w].shares
  <1> DEFINE paid == WriterRemaining(w)
             shares == position[w].shares
  <1>1. /\ vault.collateral_remaining \in Nat /\ vault.total_shares \in Nat
        /\ paid \in Nat /\ shares \in Nat /\ shares <= vault.total_shares
        /\ vault.collateral_remaining <= vault.total_shares
    BY VaultFields, PositionFields, RemainingAtMost DEF TypeOK
  <1>2. CASE vault.total_shares = 0 \/ shares = 0
    BY <1>1, <1>2 DEF WriterRemaining
  <1>3. CASE vault.total_shares # 0 /\ shares # 0
    <2>1. paid = MulDiv(shares, vault.collateral_remaining, vault.total_shares)
      BY <1>3 DEF WriterRemaining, ShareValue
    <2>2. vault.total_shares > 0
      BY <1>1, <1>3
    <2> HIDE DEF paid, shares
    <2>3. paid * vault.total_shares <= shares * vault.collateral_remaining
      BY <1>1, <2>1, <2>2, ExitKeeps, Zenon
    <2>4. shares * vault.collateral_remaining <= shares * vault.total_shares
      <3>1. shares * vault.collateral_remaining <= (shares + 0) * vault.total_shares
        BY <1>1, CostBounded
      <3>2. shares + 0 = shares
        BY <1>1
      <3>. QED
        BY <3>1, <3>2
    <2>5. paid * vault.total_shares <= shares * vault.total_shares
      <3>1. /\ paid * vault.total_shares \in Nat
            /\ shares * vault.collateral_remaining \in Nat
            /\ shares * vault.total_shares \in Nat
        BY <1>1
      <3>. QED
        BY <2>3, <2>4, <3>1
    <2>6. PICK a \in Nat, b \in Nat, n \in Nat :
             a = paid /\ b = shares /\ n = vault.total_shares
      BY <1>1
    <2>7. n > 0 /\ a * n <= b * n
      BY <2>2, <2>5, <2>6
    <2>8. a <= b
      <3>1. ASSUME a >= b + 1 PROVE FALSE
        <4>1. a * n >= (b + 1) * n
          BY <3>1
        <4>2. (b + 1) * n = b * n + n
          OBVIOUS
        <4>. QED
          BY <2>7, <4>1, <4>2
      <3>. QED
        BY <3>1
    <2>. QED
      BY <2>6, <2>8 DEF paid, shares
  <1>. QED
    BY <1>2, <1>3

(* Of an ended vault, the share count and the pool shrink together. *)
LEMMA CommonClosed ==
    ASSUME AmericanBooks, TypeOK', CommonStep, UNCHANGED potVars, ~Live
    PROVE  ClosedBooks'
  <1>1. /\ TypeOK /\ PotTyped /\ Ending /\ ClosedBooks /\ SharesTrackCollateral
        /\ vault.collateral_remaining \in Nat /\ vault.total_shares \in Nat
        /\ vault.total_collateral \in Nat
        /\ SharesOf \in Nat /\ BackersOf \in Nat
    BY VaultFields, TotalsNat, AmericanTotals DEF AmericanBooks, TypeOK
  <1>2. EndingSame /\ EndedMove
    BY <1>1, CommonPhase, EndedMoves
  <1>3. BackersOf' = BackersOf /\ drawn' = drawn
    BY DEF potVars, BackersOf
  <1>4. /\ SharesOf' \in Nat
        /\ vault'.total_shares + SharesOf = vault.total_shares + SharesOf'
    BY <1>1, CommonCount DEF ShareCountMoves
  <1>5. vault'.total_shares \in Nat
    BY VaultFields DEF TypeOK
  <1>6. /\ vault'.writer_ask_equiv_shares = vault'.writer_ask_swept
        /\ drawn' = 0 => /\ vault'.total_shares = SharesOf' + BackersOf'
                         /\ vault'.writer_ask_swept = 0 => BackersOf' = 0
    BY <1>1, <1>2, <1>3, <1>4, <1>5 DEF ClosedBooks, EndingSame
  <1>7. ASSUME PoolSame, vault'.collateral_remaining <= vault.collateral_remaining
        PROVE  ClosedBooks'
    <2>1. vault'.collateral_remaining \in Nat
      BY VaultFields DEF TypeOK
    <2>2. SharesOf' = SharesOf
      BY <1>1, <1>4, <1>7 DEF PoolSame
    <2>. QED
      BY <1>1, <1>6, <1>7, <2>1, <2>2 DEF ClosedBooks, PoolSame
  <1>8. ASSUME NEW q \in Nat, Pays(q)
        PROVE  ClosedBooks'
    <2>1. q * Payoff \in Nat
      BY <1>1, PayoffNat
    <2>2. /\ Smaller(q * Payoff, vault.collateral_remaining) \in Nat
      BY <1>1, <2>1 DEF Smaller
    <2>3. vault'.collateral_remaining <= vault.collateral_remaining
      BY <1>1, <1>8, <2>2 DEF Pays
    <2>. QED
      BY <1>7, <1>8, <2>3 DEF Pays
  <1>9. ASSUME NEW w \in Writers, ReleaseShare(w)
        PROVE  ClosedBooks'
    <2> DEFINE paid == WriterRemaining(w)
               shares == position[w].shares
    <2>1. /\ paid \in Nat /\ shares \in Nat /\ shares <= vault.total_shares
          /\ paid <= vault.collateral_remaining
          /\ paid <= vault.total_collateral
          /\ vault'.collateral_remaining = vault.collateral_remaining - paid
          /\ vault'.total_collateral = vault.total_collateral - paid
          /\ vault'.total_shares = vault.total_shares - shares
          /\ vault.collateral_remaining - paid <= vault.total_shares - shares
      BY <1>1, <1>9, ReleaseEffect DEF ClosedBooks
    <2>2. paid <= shares
      BY <1>1, <2>1, RemainingPar DEF ClosedBooks
    <2> HIDE DEF paid, shares
    <2>3. SharesOf' = SharesOf - shares
      BY <1>1, <1>4, <2>1
    <2>4. /\ vault'.collateral_remaining <= vault'.total_shares
          /\ SharesOf' <= vault'.total_collateral
      BY <1>1, <2>1, <2>2, <2>3 DEF ClosedBooks
    <2>. QED
      BY <1>6, <2>4 DEF ClosedBooks
  <1>. QED
    BY <1>1, <1>2, <1>7, <1>8, <1>9 DEF EndedMove

LEMMA CommonAmerican ==
    ASSUME AmericanBooks, CommonStep, UNCHANGED potVars
    PROVE  AmericanBooks'
  <1>1. /\ AmericanSeries
        /\ TypeOK /\ PotTyped /\ Ending /\ SharesTrackCollateral /\ WriterBooks
        /\ (record # NoPrice => now >= Expiry)
        /\ now \in Nat /\ Expiry \in Nat
    BY ParametersAssumption DEF AmericanBooks, TypeOK
  <1>2. TypeOK'
    BY <1>1, NextTyping, NextIsCommon
  <1>3. PotTyped'
    BY <1>1 DEF PotTyped, potVars
  <1>4. /\ EndingSame /\ now' >= now /\ now' \in Nat
        /\ record' = record \/ (record = NoPrice /\ now >= Expiry)
    BY <1>1, <1>2, CommonPhase DEF TypeOK
  <1>5. Live' = Live
    BY <1>4 DEF EndingSame, Live
  <1>6. /\ Ending'
        /\ record' # NoPrice => now' >= Expiry
    BY <1>1, <1>4 DEF Ending, EndsOneWay, EndingSame
  <1>7. SharesTrackCollateral'
    <2>1. CASE Live
      BY <1>1, <1>2, <2>1, CommonTrack
    <2>2. CASE ~Live
      BY <1>5, <2>2 DEF SharesTrackCollateral
    <2>. QED
      BY <2>1, <2>2
  <1>8. WriterBooks'
    BY <1>1, <1>2, CommonBooks
  <1>9. ASSUME Live PROVE OpenBooks'
    <2>1. SharesCounted /\ potUsdc = pot /\ StateBooks
      BY <1>9 DEF AmericanBooks, OpenBooks
    <2>2. SharesCounted'
      <3>1. ShareCountMoves
        BY <1>1, <1>2, CommonCount
      <3>2. vault.total_shares \in Nat /\ vault'.total_shares \in Nat
        BY <1>1, <1>2, VaultFields DEF TypeOK
      <3>. QED
        BY <2>1, <3>1, <3>2 DEF ShareCountMoves, SharesCounted
    <2>3. LiveMove
      BY <1>1, <1>2, <1>9, LiveMoves
    <2>4. StateBooks'
      BY <1>1, <1>4, <2>1, <2>3, StateMoves
    <2>5. potUsdc' = pot'
      BY <2>1 DEF potVars
    <2>. QED
      BY <2>2, <2>4, <2>5 DEF OpenBooks
  <1>10. ASSUME ~Live PROVE ClosedBooks'
    BY <1>2, <1>10, CommonClosed
  <1>11. CoverBooks'
    BY <1>2, CommonCover
  <1>12. PremiumBooks(DrawnForDust)'
    <2>1. PICK dust \in Nat : dust = DrawnForDust
      BY <1>1, DustNat
    <2>2. PremiumBooks(dust)
      BY <2>1 DEF AmericanBooks
    <2>3. Live => SharesCounted
      BY DEF AmericanBooks, OpenBooks
    <2>4. PremiumBooks(dust)'
      BY <1>1, <1>2, <2>2, <2>3, CommonPremium
    <2>5. CASE Live
      BY <1>5, <2>4, <2>5 DEF PremiumBooks
    <2>6. CASE ~Live
      <3>1. rebases' = rebases /\ drawn' = drawn
        BY <1>1, <1>2, <2>6, EndedMoves DEF potVars
      <3>2. DrawnForDust' = dust
        BY <2>1, <3>1 DEF DrawnForDust
      <3>. QED
        BY <2>4, <3>2 DEF PremiumBooks
    <2>. QED
      BY <2>5, <2>6
  <1>. QED
    BY <1>2, <1>3, <1>5, <1>6, <1>7, <1>8, <1>9, <1>10, <1>11, <1>12 DEF AmericanBooks

---------------------------------------------------------------------------
(* So do the instructions an American vault adds.                           *)

(* Those of a live vault touch neither its shares nor its positions. *)
LEMMA LiveFrame ==
    ASSUME AmericanBooks, TypeOK', PotTyped', Live, PoolSame,
           vault'.is_settled = vault.is_settled, vault'.voided = vault.voided,
           UNCHANGED <<now, record, position, mint>>,
           potUsdc' = pot', StateBooks', PremiumBooks(0)'
    PROVE  AmericanBooks'
  <1>1. /\ Ending /\ SharesTrackCollateral /\ WriterBooks /\ SharesCounted
        /\ record # NoPrice => now >= Expiry
    BY DEF AmericanBooks, OpenBooks
  <1>2. Live' /\ ~vault'.is_settled
    BY DEF Live
  <1>3. Ending'
    BY <1>1 DEF Ending, EndsOneWay
  <1>4. SharesTrackCollateral'
    BY <1>1 DEF SharesTrackCollateral, PoolSame
  <1>5. WriterBooks'
    <2>1. \A w \in Writers : Committed(w) <= position'[w].shares
      BY <1>1 DEF WriterBooks
    <2>. QED
      BY <1>1, <2>1, BooksUntouched
  <1>6. SharesCounted'
    BY <1>1 DEF SharesCounted, SharesOf, PoolSame
  <1>7. PremiumBooks(DrawnForDust)'
    BY <1>2 DEF PremiumBooks
  <1>. QED
    BY <1>1, <1>2, <1>3, <1>4, <1>5, <1>6, <1>7 DEF AmericanBooks, OpenBooks, CoverBooks

(* What the books of a live vault say of its amounts. *)
LEMMA LiveFacts ==
    ASSUME AmericanBooks, Live
    PROVE  /\ TypeOK /\ PotTyped /\ Ending /\ SharesTrackCollateral /\ SharesCounted
           /\ potUsdc = pot /\ StateBooks /\ PremiumBooks(0)
           /\ vault.total_collateral \in Nat /\ vault.total_options_minted \in Nat
           /\ vault.total_options_sold \in Nat /\ vault.exercised_options \in Nat
           /\ vault.early_exercise_payout \in Nat
           /\ Escrowed \in Nat /\ TokensHeld \in Nat /\ SeriesHeld \in Nat
           /\ Held \in Nat /\ BackersOf \in Nat
           /\ pot \in Nat /\ drawn \in Nat /\ rebases \in Nat /\ usdc \in Nat
  <1>1. /\ TypeOK /\ PotTyped /\ Ending /\ SharesTrackCollateral /\ OpenBooks
        /\ PremiumBooks(DrawnForDust)
    BY DEF AmericanBooks
  <1>2. PremiumBooks(0)
    BY <1>1, LivePremium
  <1>3. /\ vault.total_collateral \in Nat /\ vault.total_options_minted \in Nat
        /\ vault.total_options_sold \in Nat /\ vault.exercised_options \in Nat
        /\ vault.early_exercise_payout \in Nat
        /\ Escrowed \in Nat /\ TokensHeld \in Nat /\ SeriesHeld \in Nat
        /\ BackersOf \in Nat
        /\ pot \in Nat /\ drawn \in Nat /\ rebases \in Nat /\ usdc \in Nat
    BY <1>1, VaultFields, TotalsNat, AmericanTotals DEF TypeOK, PotTyped
  <1>4. Held \in Nat
    BY <1>3 DEF Held
  <1>. QED
    BY <1>1, <1>2, <1>3, <1>4 DEF OpenBooks

(* fill_vault_peg *)
LEMMA PegAmerican ==
    ASSUME AmericanBooks, NEW h \in Holders, NEW quantity \in Quantities,
           NEW premium \in Premiums, FillVaultPeg(h, quantity, premium)
    PROVE  AmericanBooks'
  <1>1. Live
    BY DEF FillVaultPeg
  <1> DEFINE t == vault.total_collateral
             m == vault.total_options_minted
             s == vault.total_options_sold
             x == vault.exercised_options
             e == vault.early_exercise_payout
  <1>2. /\ TypeOK /\ PotTyped /\ SharesTrackCollateral /\ SharesCounted
        /\ potUsdc = pot /\ StateBooks /\ PremiumBooks(0)
        /\ t \in Nat /\ m \in Nat /\ s \in Nat /\ x \in Nat /\ e \in Nat
        /\ Escrowed \in Nat /\ TokensHeld \in Nat /\ SeriesHeld \in Nat
        /\ Held \in Nat /\ BackersOf \in Nat
        /\ pot \in Nat /\ drawn \in Nat /\ rebases \in Nat
    BY <1>1, LiveFacts
  <1>3. /\ quantity \in Nat /\ quantity > 0
        /\ HasFree(quantity * CollateralPerContract(Strike))
        /\ PoolSame /\ PhaseSame
        /\ vault'.total_options_minted = m + quantity
        /\ vault'.total_options_sold = s + quantity
        /\ series[h] + quantity \in Nat
        /\ series' = [series EXCEPT ![h] = series[h] + quantity]
        /\ UNCHANGED <<now, record, usdcOpen, position, opened, mint, tokens,
                       rebases, ask, pot, potUsdc, backer, drawn>>
        /\ TypeOK' /\ PotTyped'
    BY <1>2, PegEffect
  <1>4. PICK share \in Nat :
           /\ vault'.premium_per_share = vault.premium_per_share + Credit(share)
           /\ usdc' = usdc + share
    BY <1>2, PegEffect
  <1>5. Live'
    BY <1>1, <1>3 DEF PhaseSame, Live
  <1>6. PremiumBooks(0)'
    BY <1>1, <1>2, <1>3, <1>4, <1>5, CreditPremium DEF PoolSame, PhaseSame, PremiumSame
  <1>7. Held' = Held + quantity
    <2>1. series[h] \in Nat /\ SeriesHeld' = SeriesHeld + ((series[h] + quantity) - series[h])
      BY <1>2, <1>3, SeriesChange, Zenon DEF PotTyped
    <2>2. TokensHeld' = TokensHeld
      BY <1>3 DEF TokensHeld
    <2>. QED
      BY <1>2, <1>3, <2>1, <2>2 DEF Held
  <1>8. /\ Escrowed' = Escrowed /\ BackersOf' = BackersOf
        /\ vault'.total_collateral = t
        /\ vault'.exercised_options = x /\ vault'.early_exercise_payout = e
    BY <1>3 DEF Escrowed, BackersOf, PoolSame, PhaseSame
  <1>9. m >= x /\ e + (m - x) * Strike + quantity * Strike <= t
    BY <1>3 DEF HasFree, CollateralPerContract
  <1>10. OptionBooks(t, m, s, x, e, Escrowed, Held, pot, drawn, BackersOf, rebases)
    BY <1>2 DEF StateBooks
  <1> HIDE DEF t, m, s, x, e
  <1>11. OptionBooks(t, m + quantity, s + quantity, x, e, Escrowed + (quantity - quantity),
                     Held + quantity, pot, drawn, BackersOf, rebases)
    <2>1. quantity <= quantity
      BY <1>3
    <2>. QED
      BY <1>2, <1>3, <1>9, <1>10, <2>1, WriteOption, Zenon
  <1>12. Escrowed + (quantity - quantity) = Escrowed
    BY <1>2, <1>3
  <1>13. StateBooks'
    BY <1>3, <1>7, <1>8, <1>11, <1>12 DEF StateBooks
  <1>14. potUsdc' = pot'
    BY <1>2, <1>3
  <1>. QED
    BY <1>1, <1>3, <1>6, <1>13, <1>14, LiveFrame DEF PhaseSame

(* fill_writer_ask *)
LEMMA FillAskAmerican ==
    ASSUME AmericanBooks, NEW h \in Holders, NEW w \in Writers,
           NEW quantity \in Quantities, FillWriterAsk(h, w, quantity)
    PROVE  AmericanBooks'
  <1>1. Live
    BY DEF FillWriterAsk
  <1> DEFINE t == vault.total_collateral
             m == vault.total_options_minted
             s == vault.total_options_sold
             x == vault.exercised_options
             e == vault.early_exercise_payout
             moved == quantity * Strike
  <1>2. /\ TypeOK /\ PotTyped /\ SharesTrackCollateral /\ SharesCounted
        /\ potUsdc = pot /\ StateBooks /\ PremiumBooks(0)
        /\ t \in Nat /\ m \in Nat /\ s \in Nat /\ x \in Nat /\ e \in Nat
        /\ Escrowed \in Nat /\ TokensHeld \in Nat /\ SeriesHeld \in Nat
        /\ Held \in Nat /\ BackersOf \in Nat
        /\ pot \in Nat /\ drawn \in Nat /\ rebases \in Nat
    BY <1>1, LiveFacts
  <1>3. /\ quantity \in Nat /\ moved \in Nat
        /\ series[h] + quantity \in Nat
        /\ series' = [series EXCEPT ![h] = series[h] + quantity]
        /\ pot' = pot + moved
        /\ potUsdc' = potUsdc + moved
        /\ backer[w] \in Nat /\ backer[w] + moved \in Nat
        /\ backer' = [backer EXCEPT ![w] = backer[w] + moved]
        /\ UNCHANGED <<vars, drawn>>
        /\ TypeOK' /\ PotTyped'
    BY <1>2, FillAskEffect
  <1>4. OptionBooks(t, m, s, x, e, Escrowed, Held, pot, drawn, BackersOf, rebases)
    BY <1>2 DEF StateBooks
  <1>5. OptionBooks(t, m, s, x, e, Escrowed, Held + quantity, pot + moved, drawn,
                    BackersOf + moved, rebases)
    <2> HIDE DEF t, m, s, x, e
    <2>. QED
      BY <1>2, <1>3, <1>4, AskOption, Zenon
  <1>6. /\ vault' = vault /\ now' = now /\ record' = record /\ position' = position
        /\ mint' = mint /\ tokens' = tokens /\ rebases' = rebases /\ usdc' = usdc
        /\ drawn' = drawn
    BY <1>3 DEF vars
  <1> HIDE DEF moved
  <1>7. Held' = Held + quantity
    <2>1. series[h] \in Nat /\ SeriesHeld' = SeriesHeld + ((series[h] + quantity) - series[h])
      BY <1>2, <1>3, SeriesChange, Zenon DEF PotTyped
    <2>2. TokensHeld' = TokensHeld
      BY <1>6 DEF TokensHeld
    <2>. QED
      BY <1>2, <1>3, <2>1, <2>2 DEF Held
  <1>8. BackersOf' = BackersOf + moved
    <2>1. BackersOf' = BackersOf + ((backer[w] + moved) - backer[w])
      BY <1>2, <1>3, BackersChange, Zenon
    <2>. QED
      BY <1>2, <1>3, <2>1
  <1>9. Escrowed' = Escrowed
    BY <1>6 DEF Escrowed
  <1>10. StateBooks'
    BY <1>3, <1>5, <1>6, <1>7, <1>8, <1>9 DEF StateBooks
  <1>11. potUsdc' = pot' /\ PoolSame
    BY <1>2, <1>3, <1>6 DEF PoolSame
  <1>12. PremiumBooks(0)'
    <2>1. NetOf' = NetOf
      BY <1>6, NetSame DEF PremiumSame
    <2>. QED
      BY <1>1, <1>2, <1>6, <2>1 DEF PremiumBooks, Live
  <1>. QED
    BY <1>1, <1>3, <1>6, <1>10, <1>11, <1>12, LiveFrame

(* exercise_american, either leg *)
LEMMA ExerciseBooks ==
    ASSUME AmericanBooks, NEW quantity \in Quantities, NEW spot \in Prices,
           NEW shortfall \in Nat, shortfall <= pot, Pay(quantity, spot, shortfall),
           quantity <= Held, Held' = Held - quantity,
           pot' = pot - shortfall, potUsdc' = potUsdc - shortfall,
           drawn' = drawn + shortfall,
           UNCHANGED <<now, record, usdcOpen, position, opened, mint, rebases, backer>>,
           TypeOK', PotTyped'
    PROVE  AmericanBooks'
  <1> DEFINE t == vault.total_collateral
             m == vault.total_options_minted
             s == vault.total_options_sold
             x == vault.exercised_options
             e == vault.early_exercise_payout
  <1>1. Live
    <2>1. now < Expiry
      BY DEF Pay
    <2>2. now \in Nat /\ Expiry \in Nat
      BY ParametersAssumption DEF AmericanBooks, TypeOK
    <2>3. record = NoPrice
      BY <2>1, <2>2 DEF AmericanBooks
    <2>. QED
      BY <2>1, <2>3, LiveBefore DEF AmericanBooks, Ending
  <1>2. /\ TypeOK /\ PotTyped /\ potUsdc = pot /\ StateBooks /\ PremiumBooks(0)
        /\ t \in Nat /\ m \in Nat /\ s \in Nat /\ x \in Nat /\ e \in Nat
        /\ Escrowed \in Nat /\ Held \in Nat /\ BackersOf \in Nat
        /\ pot \in Nat /\ drawn \in Nat /\ rebases \in Nat /\ usdc \in Nat
    BY <1>1, LiveFacts
  <1>3. /\ quantity \in Nat
        /\ PoolSame /\ CountersSame
        /\ vault'.premium_per_share = vault.premium_per_share
        /\ vault'.is_settled = vault.is_settled
        /\ vault'.voided = vault.voided
        /\ vault'.exercised_options = x + quantity
    BY <1>2, PaymentEffect
  <1>4. PICK paid \in Nat :
           /\ paid + shortfall <= quantity * Strike
           /\ shortfall > 0 => paid = usdc
           /\ usdc' = usdc - paid
           /\ vault'.early_exercise_payout = e + paid
    BY <1>2, PaymentEffect
  <1>5. shortfall > 0 => t <= e + paid + rebases
    <2>1. UnclaimedOf \in Nat /\ t + UnclaimedOf <= usdc + rebases + e
      BY <1>1, <1>2, AccountCovers, NetInt
    <2> HIDE DEF t, e
    <2>. QED
      BY <1>2, <1>4, <2>1
  <1>6. OptionBooks(t, m, s, x, e, Escrowed, Held, pot, drawn, BackersOf, rebases)
    BY <1>2 DEF StateBooks
  <1>7. OptionBooks(t, m, s, x + quantity, e + paid, Escrowed, Held - quantity,
                    pot - shortfall, drawn + shortfall, BackersOf, rebases)
    <2> HIDE DEF t, m, s, x, e
    <2>. QED
      BY <1>2, <1>3, <1>4, <1>5, <1>6, ExerciseOption, Zenon
  <1>8. Escrowed' = Escrowed /\ BackersOf' = BackersOf
    BY DEF Escrowed, BackersOf
  <1>9. StateBooks'
    BY <1>3, <1>4, <1>7, <1>8 DEF StateBooks, PoolSame, CountersSame
  <1>10. PremiumBooks(0)'
    <2>1. Live'
      BY <1>1, <1>3 DEF Live
    <2>2. usdc' + rebases' + vault'.early_exercise_payout
             = usdc + rebases + vault.early_exercise_payout
      <3> HIDE DEF e
      <3>1. (usdc - paid) + rebases + (e + paid) = usdc + rebases + e
        BY <1>2
      <3>. QED
        BY <1>4, <3>1 DEF e
    <2>. QED
      BY <1>1, <1>2, <1>3, <2>1, <2>2, LiveUntouched DEF PoolSame, PremiumSame
  <1>. QED
    BY <1>1, <1>2, <1>3, <1>9, <1>10, LiveFrame

LEMMA ExerciseAmericanStep ==
    ASSUME AmericanBooks, NEW h \in Holders, NEW quantity \in Quantities,
           NEW spot \in Prices, ExerciseAmerican(h, quantity, spot)
    PROVE  AmericanBooks'
  <1>1. /\ quantity <= tokens[h]
        /\ Pay(quantity, spot, 0)
        /\ tokens' = [tokens EXCEPT ![h] = tokens[h] - quantity]
        /\ UNCHANGED <<now, record, usdcOpen, position, opened, mint, rebases, potVars>>
    BY DEF ExerciseAmerican
  <1>2. /\ TypeOK /\ PotTyped /\ quantity \in Nat
        /\ tokens \in [Holders -> Nat] /\ tokens[h] \in Nat
        /\ pot \in Nat /\ potUsdc \in Nat /\ drawn \in Nat
        /\ SeriesHeld \in Nat /\ 0 \in Nat
    BY InputsAssumption, AmericanTotals DEF AmericanBooks, TypeOK, PotTyped
  <1>3. tokens[h] - quantity \in Nat
    BY <1>1, <1>2
  <1>4. /\ TokensHeld \in Nat /\ tokens[h] <= TokensHeld
        /\ TokensHeld' = TokensHeld + ((tokens[h] - quantity) - tokens[h])
    BY <1>1, <1>2, <1>3, TokensChange, Zenon
  <1>5. quantity <= Held /\ Held' = Held - quantity
    <2>1. SeriesHeld' = SeriesHeld
      BY <1>1 DEF potVars, SeriesHeld
    <2>. QED
      BY <1>1, <1>2, <1>4, <2>1 DEF Held
  <1>6. vault' \in Vault /\ usdc' \in Nat
    BY <1>1, <1>2, PaymentEffect
  <1>7. TypeOK' /\ PotTyped'
    BY <1>1, <1>2, <1>3, <1>6 DEF TypeOK, PotTyped, potVars
  <1>8. /\ 0 <= pot /\ pot' = pot - 0 /\ potUsdc' = potUsdc - 0 /\ drawn' = drawn + 0
        /\ UNCHANGED <<now, record, usdcOpen, position, opened, mint, rebases, backer>>
    BY <1>1, <1>2 DEF potVars
  <1>. QED
    BY <1>1, <1>2, <1>5, <1>7, <1>8, ExerciseBooks

LEMMA ExerciseSeriesStep ==
    ASSUME AmericanBooks, NEW h \in Holders, NEW quantity \in Quantities,
           NEW spot \in Prices, ExerciseSeries(h, quantity, spot)
    PROVE  AmericanBooks'
  <1>1. TypeOK /\ PotTyped /\ quantity \in Nat /\ pot \in Nat
    BY InputsAssumption DEF AmericanBooks, PotTyped
  <1>2. PICK shortfall \in Nat :
           /\ shortfall <= pot
           /\ quantity <= series[h]
           /\ Pay(quantity, spot, shortfall)
           /\ shortfall <= potUsdc
           /\ series' = [series EXCEPT ![h] = series[h] - quantity]
           /\ pot' = pot - shortfall
           /\ potUsdc' = potUsdc - shortfall
           /\ drawn' = drawn + shortfall
           /\ UNCHANGED <<now, record, usdcOpen, position, opened, mint, tokens,
                          rebases, ask, backer>>
    <2>1. \A n \in 0..pot : n \in Nat /\ n <= pot
      BY <1>1
    <2>. QED
      BY <2>1 DEF ExerciseSeries
  <1>3. /\ series \in [Holders -> Nat] /\ series[h] \in Nat
        /\ potUsdc \in Nat /\ drawn \in Nat /\ TokensHeld \in Nat
    BY <1>1, TotalsNat DEF PotTyped
  <1>4. /\ series[h] - quantity \in Nat
        /\ pot - shortfall \in Nat /\ potUsdc - shortfall \in Nat
        /\ drawn + shortfall \in Nat
    BY <1>1, <1>2, <1>3
  <1>5. /\ SeriesHeld \in Nat /\ series[h] <= SeriesHeld
        /\ SeriesHeld' = SeriesHeld + ((series[h] - quantity) - series[h])
    BY <1>1, <1>2, <1>4, SeriesChange, Zenon
  <1>6. quantity <= Held /\ Held' = Held - quantity
    <2>1. TokensHeld' = TokensHeld
      BY <1>2 DEF TokensHeld
    <2>. QED
      BY <1>1, <1>2, <1>3, <1>5, <2>1 DEF Held
  <1>7. vault' \in Vault /\ usdc' \in Nat
    BY <1>1, <1>2, PaymentEffect
  <1>8. TypeOK' /\ PotTyped'
    BY <1>1, <1>2, <1>3, <1>4, <1>7 DEF TypeOK, PotTyped
  <1>. QED
    BY <1>1, <1>2, <1>6, <1>8, ExerciseBooks

(* The pool and the pot back every option in existence, but for what was    *)
(* drawn, and no more than Dust of that.                                    *)
Backed(t, s, e, c, h, p, d, r) ==
    /\ e + (h + c) * Strike <= t + p + d
    /\ r < Strike => e + (h + c) * Strike <= t + p + Dust(r)
    /\ s = 0 /\ p = 0 => h = 0

(* The books of a live vault back every option in existence. *)
LEMMA Backing ==
    ASSUME NEW t \in Nat, NEW m \in Nat, NEW s \in Nat, NEW x \in Nat, NEW e \in Nat,
           NEW c \in Nat, NEW h \in Nat, NEW p \in Nat, NEW d \in Nat, NEW b \in Nat,
           NEW r \in Nat, OptionBooks(t, m, s, x, e, c, h, p, d, b, r)
    PROVE  Backed(t, s, e, c, h, p, d, r)
  <1>1. Strike \in Nat /\ Strike > 0
    BY ParametersAssumption
  <1>2. Counted(m, s, x, c, h, b) /\ Gated(t, m, x, e, d) /\ p + d = b
        /\ (r < Strike => Dusty(t, m, x, e, d, r))
    BY DEF OptionBooks
  <1>3. PICK asks \in Nat : b = asks * Strike /\ h + x = s + asks
    BY <1>2 DEF Counted
  <1>4. PICK mk \in Nat, xk \in Nat, ok \in Nat :
           mk = m * Strike /\ xk = x * Strike /\ ok = (h + c) * Strike
    BY <1>1
  <1>5. ok + xk = mk + b
    <2>1. (h + c) + x = m + asks
      BY <1>2, <1>3 DEF Counted
    <2>2. ((h + c) + x) * Strike = (h + c) * Strike + x * Strike
      BY <1>1
    <2>3. (m + asks) * Strike = m * Strike + asks * Strike
      BY <1>1
    <2>. QED
      BY <1>3, <1>4, <2>1, <2>2, <2>3
  <1>6. Dust(r) \in Nat
    BY DustGrows
  <1>7. e + mk <= t + xk /\ e + d <= xk
    BY <1>2, <1>4 DEF Gated
  <1>8. r < Strike => e + mk + d <= t + xk + Dust(r)
    BY <1>2, <1>4 DEF Dusty
  <1>9. e + ok <= t + p + d
    BY <1>2, <1>5, <1>7
  <1>10. r < Strike => e + ok <= t + p + Dust(r)
    BY <1>2, <1>5, <1>6, <1>8
  <1>12. ASSUME s = 0, p = 0 PROVE h = 0
    <2>1. asks * Strike <= x * Strike
      BY <1>2, <1>3, <1>4, <1>7, <1>12
    <2>2. asks <= x
      <3>1. ASSUME asks >= x + 1 PROVE FALSE
        <4>1. asks * Strike >= (x + 1) * Strike
          BY <1>1, <3>1
        <4>2. (x + 1) * Strike = x * Strike + Strike
          BY <1>1
        <4>3. x * Strike \in Nat
          BY <1>1
        <4>. QED
          BY <1>1, <2>1, <4>1, <4>2, <4>3
      <3>. QED
        BY <3>1
    <2>. QED
      BY <1>3, <1>12, <2>2
  <1>. QED
    BY <1>4, <1>9, <1>10, <1>12 DEF Backed

(* As the definitions of the properties say it. *)
LEMMA LiveBacked ==
    ASSUME AmericanBooks, Live
    PROVE  /\ DrawnForDust \in Nat
           /\ vault.early_exercise_payout + (Held + Escrowed) * Strike
                 <= vault.total_collateral + pot + DrawnForDust
           /\ vault.total_options_sold = 0 /\ pot = 0 => Held = 0
  <1>1. /\ TypeOK /\ PotTyped /\ StateBooks
        /\ vault.total_collateral \in Nat /\ vault.total_options_minted \in Nat
        /\ vault.total_options_sold \in Nat /\ vault.exercised_options \in Nat
        /\ vault.early_exercise_payout \in Nat
        /\ Escrowed \in Nat /\ Held \in Nat /\ BackersOf \in Nat
        /\ pot \in Nat /\ drawn \in Nat /\ rebases \in Nat
    BY LiveFacts
  <1>2. /\ DrawnForDust \in Nat
        /\ DrawnForDust = IF rebases < Strike THEN Smaller(drawn, Dust(rebases))
                                              ELSE drawn
    BY <1>1, DustNat
  <1>3. OptionBooks(vault.total_collateral, vault.total_options_minted,
                    vault.total_options_sold, vault.exercised_options,
                    vault.early_exercise_payout, Escrowed, Held,
                    pot, drawn, BackersOf, rebases)
    BY <1>1 DEF StateBooks
  <1> DEFINE t == vault.total_collateral
             m == vault.total_options_minted
             s == vault.total_options_sold
             x == vault.exercised_options
             e == vault.early_exercise_payout
             c == Escrowed
             held == Held
             b == BackersOf
  <1>4. /\ t \in Nat /\ m \in Nat /\ s \in Nat /\ x \in Nat /\ e \in Nat
        /\ c \in Nat /\ held \in Nat /\ b \in Nat
        /\ pot \in Nat /\ drawn \in Nat /\ rebases \in Nat
    BY <1>1, <1>2
  <1>5. OptionBooks(t, m, s, x, e, c, held, pot, drawn, b, rebases)
    BY <1>3
  <1>6. Backed(t, s, e, c, held, pot, drawn, rebases)
    <2> HIDE DEF t, m, s, x, e, c, held, b
    <2>. QED
      BY <1>4, <1>5, Backing, Zenon
  <1>. QED
    BY <1>2, <1>6 DEF Backed, Smaller

(* settle_vault and initialize_void *)
LEMMA SweepAmerican ==
    ASSUME AmericanBooks, SettleAmerican \/ VoidAmerican
    PROVE  AmericanBooks'
  <1> DEFINE t == vault.total_collateral
             e == vault.early_exercise_payout
             left == SaturatingSub(t + pot, e)
  <1>1. TypeOK /\ PotTyped /\ Ending /\ SharesTrackCollateral /\ WriterBooks
    BY DEF AmericanBooks
  <1>2. /\ Live /\ ~Live' /\ now >= Expiry
        /\ EndsOneWay' /\ (vault'.is_settled => record # NoPrice)
        /\ CountersSame
        /\ vault'.premium_per_share = vault.premium_per_share
        /\ vault'.total_collateral = t
        /\ vault'.total_shares = vault.total_shares + pot
        /\ vault'.collateral_remaining = left
        /\ vault'.writer_ask_swept = pot
        /\ vault'.writer_ask_equiv_shares = pot
        /\ usdc' = usdc + pot
        /\ UNCHANGED <<now, record, usdcOpen, position, opened, mint, tokens,
                       rebases, series, ask, pot, backer, drawn>>
        /\ TypeOK' /\ PotTyped'
    BY <1>1, SweepEffect
  <1>3. /\ SharesCounted /\ StateBooks /\ PremiumBooks(0)
        /\ t \in Nat /\ e \in Nat
        /\ vault.total_options_sold \in Nat
        /\ Escrowed \in Nat /\ Held \in Nat /\ BackersOf \in Nat
        /\ pot \in Nat /\ drawn \in Nat /\ rebases \in Nat /\ usdc \in Nat
    BY <1>2, LiveFacts
  <1>4. /\ DrawnForDust \in Nat
        /\ e + (Held + Escrowed) * Strike <= t + pot + DrawnForDust
        /\ vault.total_options_sold = 0 /\ pot = 0 => Held = 0
    BY <1>2, LiveBacked
  <1>5. DrawnForDust' = DrawnForDust
    BY <1>2 DEF DrawnForDust
  <1>6. left \in Nat /\ left <= t + pot /\ t + pot <= left + e
        /\ (e <= t + pot => left = t + pot - e)
        /\ (e > t + pot => left = 0)
    BY <1>3 DEF SaturatingSub
  <1> HIDE DEF t, e, left
  <1>7. Ending' /\ (record' # NoPrice => now' >= Expiry)
    BY <1>2 DEF Ending
  <1>8. SharesTrackCollateral' /\ WriterBooks'
    <2>1. SharesTrackCollateral'
      BY <1>2 DEF SharesTrackCollateral
    <2>2. ~vault.is_settled
      BY <1>2 DEF Live
    <2>. QED
      BY <1>1, <1>2, <2>1, <2>2, BooksUntouched
  <1>9. ClosedBooks'
    <2>1. SharesOf' = SharesOf /\ BackersOf' = BackersOf
      BY <1>2 DEF SharesOf, BackersOf
    <2>2. vault.total_shares = t /\ SharesOf = t
      BY <1>1, <1>2, <1>3 DEF SharesTrackCollateral, SharesCounted, t
    <2>3. pot + drawn = BackersOf
      BY <1>3 DEF StateBooks, OptionBooks
    <2>4. /\ vault'.collateral_remaining <= vault'.total_shares
          /\ SharesOf' <= vault'.total_collateral
          /\ vault'.writer_ask_equiv_shares = vault'.writer_ask_swept
      BY <1>2, <1>3, <1>6, <2>1, <2>2
    <2>5. drawn' = 0 => /\ vault'.total_shares = SharesOf' + BackersOf'
                        /\ vault'.writer_ask_swept = 0 => BackersOf' = 0
      BY <1>2, <1>3, <2>1, <2>2, <2>3
    <2>. QED
      BY <2>4, <2>5 DEF ClosedBooks
  <1>10. CoverBooks'
    <2>1. Held' = Held /\ Escrowed' = Escrowed
      BY <1>2 DEF Held, TokensHeld, SeriesHeld, Escrowed
    <2>2. Payoff' \in Nat /\ Payoff' <= Strike /\ Strike \in Nat
      <3>1. /\ vault'.settlement_price \in Nat /\ Strike \in Nat
        BY <1>2, VaultFields, ParametersAssumption DEF TypeOK
      <3>2. RawIntrinsic(OptionType, vault'.settlement_price, Strike) \in Nat
        BY <3>1, SaturatingSubNat, Zenon DEF RawIntrinsic
      <3>. QED
        BY <3>1, <3>2 DEF Payoff, CappedIntrinsic, Smaller, CollateralPerContract
    <2>3. PICK n \in Nat, payoff \in Nat : n = Held + Escrowed /\ payoff = Payoff'
      BY <1>3, <2>2
    <2>4. n * payoff <= (n + 0) * Strike /\ n + 0 = n
      BY <2>2, <2>3, CostBounded
    <2>5. PICK a \in Nat, b \in Nat : a = n * payoff /\ b = n * Strike
      BY <2>2
    <2>6. a <= left + DrawnForDust
      <3>1. a <= b
        BY <2>4, <2>5
      <3>2. PICK total \in Nat, early \in Nat, sold \in Nat, rest \in Nat, d \in Nat :
               /\ total = t /\ early = e /\ sold = pot /\ rest = left
               /\ d = DrawnForDust
        BY <1>3, <1>4, <1>6
      <3>3. early + b <= total + sold + d
        BY <1>4, <2>3, <2>5, <3>2
      <3>4. total + sold <= rest + early
        BY <1>6, <3>2
      <3>5. a <= rest + d
        BY ONLY a \in Nat, b \in Nat, total \in Nat, early \in Nat, sold \in Nat,
                rest \in Nat, d \in Nat, <3>1, <3>3, <3>4
      <3>. QED
        BY <3>2, <3>5
    <2>7. (Held' + Escrowed') * Payoff' <= vault'.collateral_remaining + DrawnForDust'
      BY <1>2, <1>5, <2>1, <2>3, <2>5, <2>6
    <2>8. ~Waits' => Held' = 0
      <3>1. vault'.total_options_sold = vault.total_options_sold
        BY <1>2 DEF CountersSame
      <3>2. ~Waits' => vault.total_options_sold = 0 /\ pot = 0
        BY <1>2, <1>3, <3>1 DEF Waits
      <3>. QED
        BY <1>4, <2>1, <3>2
    <2>. QED
      BY <2>7, <2>8 DEF CoverBooks
  <1>11. PremiumBooks(DrawnForDust)'
    <2>1. UnclaimedOf \in Nat /\ t + UnclaimedOf <= usdc + rebases + e
      BY <1>1, <1>2, <1>3, AccountCovers, NetInt DEF t, e
    <2>2. UnclaimedOf' = UnclaimedOf
      BY <1>2, NetSame DEF PremiumSame
    <2>3. e <= t + pot + DrawnForDust
      <3>1. (Held + Escrowed) * Strike \in Nat
        BY <1>3, ParametersAssumption
      <3>. QED
        BY <1>3, <1>4, <3>1
    <2>4. left + UnclaimedOf <= (usdc + pot) + rebases + DrawnForDust
      BY <1>3, <1>4, <1>6, <2>1, <2>3
    <2>. QED
      BY <1>2, <1>5, <2>2, <2>4 DEF PremiumBooks
  <1>. QED
    BY <1>2, <1>7, <1>8, <1>9, <1>10, <1>11 DEF AmericanBooks

(* The instructions of an ended vault that pay out of the pool's remains. *)
LEMMA EndedFrame ==
    ASSUME AmericanBooks, ~Live, TypeOK', PotTyped', EndingSame,
           UNCHANGED <<now, record, usdcOpen, position, mint, rebases, drawn>>,
           vault'.premium_per_share = vault.premium_per_share,
           NEW paid \in Nat,
           vault'.collateral_remaining = vault.collateral_remaining - paid,
           usdc' = usdc - paid,
           ClosedBooks', CoverBooks'
    PROVE  AmericanBooks'
  <1>1. /\ TypeOK /\ PotTyped /\ Ending /\ WriterBooks
        /\ (record # NoPrice => now >= Expiry)
        /\ PremiumBooks(DrawnForDust)
    BY DEF AmericanBooks
  <1>2. ~Live'
    BY DEF EndingSame, Live
  <1>3. Ending' /\ (record' # NoPrice => now' >= Expiry)
    BY <1>1 DEF Ending, EndsOneWay, EndingSame
  <1>4. SharesTrackCollateral' /\ WriterBooks'
    <2>1. SharesTrackCollateral'
      BY <1>2 DEF SharesTrackCollateral
    <2>2. vault'.is_settled = vault.is_settled
      BY DEF EndingSame
    <2>. QED
      BY <1>1, <1>2, <2>1, <2>2, BooksUntouched
  <1>5. PremiumBooks(DrawnForDust)'
    <2>1. PICK dust \in Nat : dust = DrawnForDust
      BY <1>1, DustNat
    <2>2. DrawnForDust' = dust
      BY <2>1 DEF DrawnForDust
    <2>3. UnclaimedOf \in Nat /\ UnclaimedOf' = UnclaimedOf /\ usdc \in Nat
      BY <1>1, NetInt, NetSame DEF PremiumSame, TypeOK
    <2>4. UnclaimedOf' \in Nat /\ UnclaimedOf' = UnclaimedOf - 0
      BY <2>3
    <2>5. usdc' = usdc - 0 - paid
      BY <2>3
    <2>6. PremiumBooks(dust)
      BY <1>1, <2>1
    <2>7. paid \in Int /\ 0 \in Int
      OBVIOUS
    <2>8. PremiumBooks(dust)'
      BY <1>1, <1>2, <2>4, <2>5, <2>6, <2>7, EndedAccount
    <2>. QED
      BY <1>2, <2>2, <2>8 DEF PremiumBooks
  <1>. QED
    BY <1>2, <1>3, <1>4, <1>5 DEF AmericanBooks

(* exercise_from_vault and auto_finalize_holders, of series tokens *)
LEMMA PaySeriesAmerican ==
    ASSUME AmericanBooks, NEW h \in Holders, NEW quantity \in Nat,
           quantity <= series[h], PaySeriesHolder(h, quantity)
    PROVE  AmericanBooks'
  <1> DEFINE payout == Smaller(quantity * Payoff, vault.collateral_remaining)
  <1>1. TypeOK /\ PotTyped /\ CoverBooks
    BY DEF AmericanBooks
  <1>2. /\ vault.is_settled /\ ~vault.voided /\ usdcOpen
        /\ payout \in Nat
        /\ usdc' = usdc - payout
        /\ vault'.collateral_remaining = vault.collateral_remaining - payout
        /\ vault'.premium_per_share = vault.premium_per_share
        /\ PoolSame /\ CountersSame /\ EndingSame
        /\ series[h] - quantity \in Nat
        /\ series' = [series EXCEPT ![h] = series[h] - quantity]
        /\ UNCHANGED <<now, record, usdcOpen, position, opened, mint, tokens,
                       rebases, ask, pot, potUsdc, backer, drawn>>
        /\ TypeOK' /\ PotTyped'
    BY <1>1, PaySeriesEffect
  <1>3. /\ ~Live /\ ClosedBooks
    BY <1>2 DEF Live, AmericanBooks
  <1>4. /\ vault.collateral_remaining \in Nat /\ vault.total_shares \in Nat
        /\ TokensHeld \in Nat /\ SeriesHeld \in Nat
        /\ Payoff \in Nat /\ DrawnForDust \in Nat
        /\ series[h] \in Nat
    BY <1>1, VaultFields, TotalsNat, AmericanTotals, PayoffNat, DustNat
    DEF TypeOK, PotTyped
  <1>5. ClosedBooks'
    <2>1. SharesOf' = SharesOf /\ BackersOf' = BackersOf
      BY <1>2 DEF SharesOf, BackersOf
    <2>2. vault'.collateral_remaining <= vault.collateral_remaining
      <3> HIDE DEF payout
      <3>. QED
        BY <1>2, <1>4
    <2>3. vault'.collateral_remaining \in Nat
      BY <1>2, VaultFields DEF TypeOK
    <2>. QED
      BY <1>2, <1>3, <1>4, <2>1, <2>2, <2>3 DEF ClosedBooks, PoolSame, EndingSame
  <1>6. CoverBooks'
    <2> SUFFICES ASSUME vault'.is_settled, now' < Expiry + ExerciseWindow
                 PROVE  /\ Waits' => (Held' + Escrowed') * Payoff'
                                        <= vault'.collateral_remaining + DrawnForDust'
                        /\ ~Waits' => Held' = 0
      BY DEF CoverBooks
    <2>1. /\ Waits => (Held + Escrowed) * Payoff
                         <= vault.collateral_remaining + DrawnForDust
          /\ ~Waits => Held = 0
      BY <1>1, <1>2 DEF CoverBooks
    <2>2. /\ series[h] <= SeriesHeld
          /\ SeriesHeld' = SeriesHeld + ((series[h] - quantity) - series[h])
      BY <1>1, <1>2, SeriesChange, Zenon
    <2>3. TokensHeld' = TokensHeld /\ Escrowed' = Escrowed
      BY <1>2 DEF TokensHeld, Escrowed
    <2>4. PICK a \in Nat, s \in Nat, e \in Nat, g \in Nat :
             a = TokensHeld /\ s = SeriesHeld /\ e = Escrowed /\ g = series[h]
      BY <1>1, <1>4, TotalsNat
    <2>5. /\ Held = a + s /\ g <= s /\ quantity <= g
          /\ Held' = a + (s + ((g - quantity) - g)) /\ Escrowed' = e
      BY <2>2, <2>3, <2>4 DEF Held
    <2>6. PICK n \in Nat : n = (a + s) + e
      OBVIOUS
    <2>7. /\ quantity <= n /\ Held' + Escrowed' = n - quantity
          /\ a + s = 0 => Held' = 0
      BY ONLY a \in Nat, s \in Nat, e \in Nat, g \in Nat, quantity \in Nat, <2>5, <2>6
    <2>8. Waits => (n - quantity) * Payoff
             <= (vault.collateral_remaining
                   - Smaller(quantity * Payoff, vault.collateral_remaining)) + DrawnForDust
      <3>1. Waits => n * Payoff <= vault.collateral_remaining + DrawnForDust
        BY <2>1, <2>4, <2>5, <2>6
      <3>. QED
        BY <1>4, <2>7, <3>1, CoverPaid, Zenon
    <2>9. Payoff' = Payoff /\ DrawnForDust' = DrawnForDust /\ Waits' = Waits
      BY <1>2 DEF EndingSame, CountersSame, Payoff, DrawnForDust, Waits
    <2>. QED
      BY <1>2, <2>1, <2>5, <2>7, <2>8, <2>9
  <1> HIDE DEF payout
  <1>. QED
    BY <1>2, <1>3, <1>5, <1>6, EndedFrame

(* withdraw_writer_ask_residual and reclaim_writer_ask_residual *)
LEMMA ResidualAmerican ==
    ASSUME AmericanBooks, NEW w \in Writers, WithdrawResidual(w)
    PROVE  AmericanBooks'
  <1>1. TypeOK /\ PotTyped
    BY DEF AmericanBooks
  <1>2. ~Live
    BY DEF WithdrawResidual, Live
  <1>3. ClosedBooks
    BY <1>2 DEF AmericanBooks
  <1>4. /\ vault.writer_ask_swept > 0
        /\ vault.is_settled => now >= Expiry + ExerciseWindow
        /\ backer[w] \in Nat /\ backer[w] <= vault.total_shares
        /\ Residual(w) \in Nat
        /\ vault.collateral_remaining <= vault.total_shares =>
              vault.collateral_remaining - Residual(w)
                 <= vault.total_shares - backer[w]
        /\ usdc' = usdc - Residual(w)
        /\ vault'.collateral_remaining = vault.collateral_remaining - Residual(w)
        /\ vault'.total_shares = vault.total_shares - backer[w]
        /\ vault'.total_collateral = vault.total_collateral
        /\ vault'.premium_per_share = vault.premium_per_share
        /\ EndingSame
        /\ backer' = [backer EXCEPT ![w] = 0]
        /\ UNCHANGED <<now, record, usdcOpen, position, opened, mint, tokens,
                       rebases, series, ask, pot, potUsdc, drawn>>
        /\ TypeOK' /\ PotTyped'
    BY <1>1, <1>3, ResidualEffect DEF ClosedBooks
  <1>5. ClosedBooks'
    <2>1. SharesOf' = SharesOf
      BY <1>4 DEF SharesOf
    <2>2. BackersOf \in Nat /\ BackersOf' = BackersOf + (0 - backer[w])
      BY <1>1, <1>4, BackersChange, Zenon
    <2>3. /\ vault.total_shares \in Nat /\ SharesOf \in Nat
          /\ vault.writer_ask_swept \in Nat
      BY <1>1, VaultFields, TotalsNat DEF TypeOK
    <2>4. vault'.collateral_remaining <= vault'.total_shares
      BY <1>3, <1>4 DEF ClosedBooks
    <2>5. drawn' = 0 => /\ vault'.total_shares = SharesOf' + BackersOf'
                        /\ vault'.writer_ask_swept = 0 => BackersOf' = 0
      BY <1>3, <1>4, <2>1, <2>2, <2>3 DEF ClosedBooks, EndingSame
    <2>. QED
      BY <1>3, <1>4, <2>1, <2>4, <2>5 DEF ClosedBooks, EndingSame
  <1>6. CoverBooks'
    <2>1. now \in Nat /\ Expiry \in Nat /\ ExerciseWindow \in Nat
      BY <1>1, ParametersAssumption DEF TypeOK
    <2>. QED
      BY <1>4, <2>1 DEF CoverBooks, EndingSame
  <1>. QED
    BY <1>2, <1>4, <1>5, <1>6, EndedFrame

(* Resting writer asks are no part of the books. *)
LEMMA AsksApart ==
    ASSUME AmericanBooks, ask' \in [Writers -> Nat],
           UNCHANGED <<vars, series, pot, potUsdc, backer, drawn>>
    PROVE  AmericanBooks'
  <1>1. UNCHANGED <<now, record, vault, usdc, usdcOpen, position, opened, mint,
                    tokens, rebases, series, pot, potUsdc, backer, drawn>>
    BY DEF vars
  <1>2. /\ TypeOK /\ PotTyped /\ Ending /\ SharesTrackCollateral /\ WriterBooks
        /\ (record # NoPrice => now >= Expiry)
        /\ (Live => OpenBooks) /\ (~Live => ClosedBooks)
        /\ CoverBooks /\ PremiumBooks(DrawnForDust)
    BY DEF AmericanBooks
  <1>3. TypeOK' /\ PotTyped' /\ Ending' /\ (record' # NoPrice => now' >= Expiry)
    BY <1>1, <1>2 DEF TypeOK, PotTyped, Ending, EndsOneWay
  <1>4. Live' = Live
    BY <1>1 DEF Live
  <1>5. SharesTrackCollateral'
    BY <1>1, <1>2, <1>4 DEF SharesTrackCollateral
  <1>6. WriterBooks'
    BY <1>1, <1>2, <1>4 DEF WriterBooks, MintBooks, Committed, EscrowOf, EscrowAt
  <1>7. /\ SharesOf' = SharesOf /\ BackersOf' = BackersOf
        /\ Held' = Held /\ Escrowed' = Escrowed
    BY <1>1 DEF SharesOf, BackersOf, Held, TokensHeld, SeriesHeld, Escrowed
  <1>8. Live => OpenBooks'
    BY <1>1, <1>2, <1>7 DEF OpenBooks, SharesCounted, StateBooks
  <1>9. ~Live => ClosedBooks'
    BY <1>1, <1>2, <1>7 DEF ClosedBooks
  <1>10. DrawnForDust' = DrawnForDust /\ Payoff' = Payoff
    BY <1>1 DEF DrawnForDust, Payoff
  <1>11. CoverBooks'
    BY <1>1, <1>2, <1>7, <1>10 DEF CoverBooks, Waits
  <1>12. NetOf' = NetOf /\ UnclaimedOf' = UnclaimedOf
    BY <1>1, NetSame DEF PremiumSame
  <1>13. PremiumBooks(DrawnForDust)'
    BY <1>1, <1>2, <1>4, <1>10, <1>12 DEF PremiumBooks
  <1>. QED
    BY <1>3, <1>4, <1>5, <1>6, <1>8, <1>9, <1>11, <1>13 DEF AmericanBooks

(* Every step of an American vault keeps its books. *)
LEMMA NextAmerican ==
    ASSUME AmericanBooks, [ANext]_avars
    PROVE  AmericanBooks'
  <1>1. /\ ask \in [Writers -> Nat] /\ series \in [Holders -> Nat]
        /\ \A q \in Quantities : q \in Nat
    BY InputsAssumption DEF AmericanBooks, PotTyped
  <1>2. CASE PoolStep
    <2>1. CommonStep /\ UNCHANGED potVars
      BY <1>2 DEF PoolStep, CommonStep
    <2>. QED
      BY <2>1, CommonAmerican
  <1>3. CASE SeriesStep
    <2>1. PICK h \in Holders :
            \/ \E quantity \in Quantities, premium \in Premiums :
                  FillVaultPeg(h, quantity, premium)
            \/ \E quantity \in Quantities, w \in Writers : FillWriterAsk(h, w, quantity)
            \/ \E quantity \in Quantities, spot \in Prices :
                  \/ ExerciseAmerican(h, quantity, spot)
                  \/ ExerciseSeries(h, quantity, spot)
            \/ \E quantity \in Quantities : ExerciseSeriesFromVault(h, quantity)
            \/ AutoFinalizeSeriesHolder(h)
      BY <1>3 DEF SeriesStep
    <2>2. ASSUME NEW quantity \in Quantities, ExerciseSeriesFromVault(h, quantity)
          PROVE  AmericanBooks'
      BY <1>1, <2>2, PaySeriesAmerican DEF ExerciseSeriesFromVault
    <2>3. ASSUME AutoFinalizeSeriesHolder(h)
          PROVE  AmericanBooks'
      <3>1. series[h] \in Nat /\ series[h] <= series[h]
        BY <1>1
      <3>. QED
        BY <2>3, <3>1, PaySeriesAmerican DEF AutoFinalizeSeriesHolder
    <2>. QED
      BY <2>1, <2>2, <2>3, PegAmerican, FillAskAmerican, ExerciseAmericanStep,
         ExerciseSeriesStep
  <1>4. CASE BackerStep
    <2>1. PICK w \in Writers :
            \/ \E quantity \in Quantities : PostWriterAsk(w, quantity)
            \/ CancelWriterAsk(w)
            \/ WithdrawResidual(w)
      BY <1>4 DEF BackerStep
    <2>2. ASSUME NEW quantity \in Quantities, PostWriterAsk(w, quantity)
          PROVE  AmericanBooks'
      BY <1>1, <2>2, AsksApart DEF PostWriterAsk
    <2>3. ASSUME CancelWriterAsk(w)
          PROVE  AmericanBooks'
      BY <1>1, <2>3, AsksApart DEF CancelWriterAsk
    <2>. QED
      BY <2>1, <2>2, <2>3, ResidualAmerican
  <1>5. CASE SettleAmerican \/ VoidAmerican
    BY <1>5, SweepAmerican
  <1>6. CASE UNCHANGED avars
    BY <1>1, <1>6, AsksApart DEF avars, potVars
  <1>. QED
    BY <1>2, <1>3, <1>4, <1>5, <1>6 DEF ANext

(* At the start there is nothing. *)
LEMMA InitAmerican ==
    ASSUME AInit
    PROVE  AmericanBooks
  <1>1. /\ Init /\ AmericanSeries
        /\ series = [h \in Holders |-> 0] /\ ask = [w \in Writers |-> 0]
        /\ backer = [w \in Writers |-> 0]
        /\ pot = 0 /\ potUsdc = 0 /\ drawn = 0
    BY DEF AInit
  <1>2. TypeOK
    BY <1>1 DEF Init, TypeOK, EmptyVault, Vault, EmptyPosition, Position, NoMint, Mint
  <1>3. PotTyped
    BY <1>1 DEF PotTyped
  <1>4. /\ Live /\ vault.total_collateral = 0 /\ vault.total_shares = 0
        /\ vault.total_options_minted = 0 /\ vault.total_options_sold = 0
        /\ vault.exercised_options = 0 /\ vault.early_exercise_payout = 0
        /\ ~vault.is_settled /\ ~vault.voided
        /\ record = NoPrice /\ rebases = 0
        /\ \A w \in Writers : position[w].shares = 0 /\ position[w].deposited = 0
    BY <1>1 DEF Init, EmptyVault, EmptyPosition, Live
  <1>5. Ending /\ SharesTrackCollateral
    BY <1>4 DEF Ending, EndsOneWay, SharesTrackCollateral
  <1>6. WriterBooks /\ SharesCounted /\ PremiumBooks(0)
    BY <1>1, InitBooks, InitCounted, InitPremium
  <1>7. TokensHeld = 0 /\ SeriesHeld = 0 /\ BackersOf = 0 /\ Escrowed = 0
    <2> DEFINE e == [m \in MintIds |-> mint[m].escrow]
    <2>1. /\ tokens \in [Holders -> Int] /\ \A h \in Holders : tokens[h] = 0
          /\ series \in [Holders -> Int] /\ \A h \in Holders : series[h] = 0
          /\ backer \in [Writers -> Int] /\ \A w \in Writers : backer[w] = 0
      BY <1>1 DEF Init
    <2>2. e \in [MintIds -> Int] /\ \A m \in MintIds : e[m] = 0
      BY <1>1 DEF Init, NoMint
    <2>3. Escrowed = SumFunction(e)
      BY DEF Escrowed
    <2> HIDE DEF e
    <2>. QED
      BY <2>1, <2>2, <2>3, TotalZero, FiniteAssumption
      DEF TokensHeld, SeriesHeld, BackersOf
  <1>8. OptionBooks(0, 0, 0, 0, 0, 0, 0, 0, 0, 0, 0)
    <2>1. /\ Strike \in Nat /\ Strike > 0 /\ 0 * Strike = 0
          /\ Dust(0) = 0
      BY ParametersAssumption DEF Dust
    <2>2. Counted(0, 0, 0, 0, 0, 0)
      BY <2>1 DEF Counted
    <2>3. Gated(0, 0, 0, 0, 0) /\ Dusty(0, 0, 0, 0, 0, 0)
      BY <2>1 DEF Gated, Dusty
    <2>. QED
      BY <2>2, <2>3 DEF OptionBooks
  <1>9. StateBooks
    BY <1>1, <1>4, <1>7, <1>8 DEF StateBooks, Held
  <1>10. OpenBooks
    BY <1>1, <1>6, <1>9 DEF OpenBooks
  <1>11. CoverBooks
    BY <1>4 DEF CoverBooks
  <1>12. PremiumBooks(DrawnForDust)
    BY <1>4, <1>6, LivePremium
  <1>. QED
    BY <1>1, <1>2, <1>3, <1>4, <1>5, <1>6, <1>10, <1>11, <1>12 DEF AmericanBooks

(* The books of an American vault always agree: its shares with its pool,   *)
(* its options with the collateral of pool and pot, its accounts with what  *)
(* is owed from them.                                                       *)
THEOREM AmericanBooksKept == ASpec => []AmericanBooks
  <1>1. AInit => AmericanBooks
    BY InitAmerican
  <1>2. AmericanBooks /\ [ANext]_avars => AmericanBooks'
    BY NextAmerican
  <1>. QED
    BY <1>1, <1>2, PTL DEF ASpec

(* Until the vault ends, pool and pot lock a strike for every option, but   *)
(* for the dust drawn from the pot, whatever was exercised early.           *)
THEOREM EveryOptionIsBacked == ASpec => []EveryOptionBacked
  <1>1. AmericanBooks => EveryOptionBacked
    <2> SUFFICES ASSUME AmericanBooks, Live
                 PROVE  vault.early_exercise_payout
                          + Outstanding * CollateralPerContract(Strike)
                             <= vault.total_collateral + pot + DrawnForDust
      BY DEF EveryOptionBacked
    <2>1. vault.early_exercise_payout + (Held + Escrowed) * Strike
             <= vault.total_collateral + pot + DrawnForDust
      BY LiveBacked
    <2>2. Outstanding = Held + Escrowed
      BY DEF Outstanding, Held, SeriesHeld
    <2>. QED
      BY <2>1, <2>2 DEF CollateralPerContract
  <1>. QED
    BY <1>1, AmericanBooksKept, PTL

(* While their window is open, holders of series tokens and of others can   *)
(* all be paid, but for the same dust.                                      *)
THEOREM EveryHolderCovered == ASpec => []AllHoldersCovered
  <1>1. AmericanBooks => AllHoldersCovered
    <2> SUFFICES ASSUME AmericanBooks, vault.is_settled, now < Expiry + ExerciseWindow
                 PROVE  Held * Payoff <= vault.collateral_remaining + DrawnForDust
      BY DEF AllHoldersCovered, Held, SeriesHeld
    <2>1. /\ TypeOK /\ PotTyped
          /\ Waits => (Held + Escrowed) * Payoff
                         <= vault.collateral_remaining + DrawnForDust
          /\ ~Waits => Held = 0
      BY DEF AmericanBooks, CoverBooks
    <2>2. /\ Held \in Nat /\ Escrowed \in Nat /\ Payoff \in Nat
          /\ vault.collateral_remaining \in Nat /\ DrawnForDust \in Nat
      BY <2>1, VaultFields, TotalsNat, AmericanTotals, PayoffNat, DustNat DEF TypeOK, Held
    <2>3. PICK h \in Nat, n \in Nat, p \in Nat, c \in Nat :
             /\ h = Held /\ n = Held + Escrowed /\ p = Payoff
             /\ c = vault.collateral_remaining + DrawnForDust
      <3>1. /\ Held + Escrowed \in Nat
            /\ vault.collateral_remaining + DrawnForDust \in Nat
        BY <2>2
      <3>. QED
        BY <2>2, <3>1
    <2>4. h <= n
      BY <2>2, <2>3
    <2>5. h * p \in Nat /\ n * p \in Nat /\ h * p <= n * p
      BY <2>4, CostShrinks
    <2>6. CASE Waits
      BY <2>1, <2>3, <2>5, <2>6
    <2>7. CASE ~Waits
      BY <2>1, <2>3, <2>7
    <2>. QED
      BY <2>6, <2>7
  <1>. QED
    BY <1>1, AmericanBooksKept, PTL

(* The accounts hold the pool, the pot and the unclaimed premium, within    *)
(* the rounding of the premium.                                             *)
THEOREM AccountsCoverDebts == ASpec => []AccountsSolvent
  <1>1. AmericanBooks => AccountsSolvent
    <2> SUFFICES ASSUME AmericanBooks, usdcOpen PROVE AccountsSolvent
      BY DEF AccountsSolvent
    <2>1. CASE Live
      <3>1. /\ TypeOK /\ potUsdc = pot /\ PremiumBooks(0)
            /\ vault.total_collateral \in Nat /\ vault.early_exercise_payout \in Nat
            /\ pot \in Nat /\ usdc \in Nat /\ rebases \in Nat /\ 0 \in Nat
        BY <2>1, LiveFacts
      <3>2. UnclaimedOf \in Nat
        BY <3>1, NetInt
      <3>3. vault.total_collateral + UnclaimedOf
               <= usdc + rebases + vault.early_exercise_payout
        BY <2>1, <3>1, AccountCovers
      <3>. QED
        BY <2>1, <3>1, <3>2, <3>3 DEF AccountsSolvent
    <2>2. CASE ~Live
      BY <2>2 DEF AccountsSolvent, AmericanBooks, PremiumBooks
    <2>. QED
      BY <2>1, <2>2
  <1>. QED
    BY <1>1, AmericanBooksKept, PTL

(* While the pot was never drawn on, writers and backers leave an ended     *)
(* vault in any order, and no share is left behind.                         *)
THEOREM UndrawnExits == ASpec => []UndrawnExitsSucceed
  <1>1. AmericanBooks => UndrawnExitsSucceed
    <2> SUFFICES ASSUME AmericanBooks, drawn = 0, ~Live
                 PROVE  /\ ExitsCovered
                        /\ \A w \in Writers :
                              /\ Residual(w) <= vault.collateral_remaining
                              /\ BackerShares(w) <= vault.total_shares
                        /\ vault.total_shares
                             = SharesOf + SumFunction([w \in Writers |-> BackerShares(w)])
      BY DEF UndrawnExitsSucceed
    <2>1. /\ TypeOK /\ PotTyped
          /\ vault.collateral_remaining <= vault.total_shares
          /\ SharesOf <= vault.total_collateral
          /\ vault.writer_ask_equiv_shares = vault.writer_ask_swept
          /\ vault.total_shares = SharesOf + BackersOf
          /\ vault.writer_ask_swept = 0 => BackersOf = 0
      BY DEF AmericanBooks, ClosedBooks
    <2>2. /\ vault.collateral_remaining \in Nat /\ vault.total_shares \in Nat
          /\ vault.total_collateral \in Nat
          /\ SharesOf \in Nat /\ BackersOf \in Nat
      BY <2>1, VaultFields, TotalsNat, AmericanTotals DEF TypeOK
    <2>3. ASSUME NEW w \in Writers
          PROVE  /\ position[w].shares <= vault.total_shares
                 /\ WriterRemaining(w) <= vault.collateral_remaining
                 /\ WriterRemaining(w) <= vault.total_collateral
      <3>1. position[w].shares \in Nat /\ position[w].shares <= SharesOf
        BY <2>1, PositionFields, TotalsNat DEF TypeOK
      <3>2. position[w].shares <= vault.total_shares
        BY <2>1, <2>2, <3>1
      <3>3. /\ WriterRemaining(w) \in Nat
            /\ WriterRemaining(w) <= vault.collateral_remaining
            /\ WriterRemaining(w) <= position[w].shares
        BY <2>1, <3>2, RemainingAtMost, RemainingPar
      <3>. QED
        BY <2>1, <2>2, <3>1, <3>2, <3>3
    <2>4. ASSUME NEW w \in Writers
          PROVE  /\ BackerShares(w) \in Nat
                 /\ BackerShares(w) <= vault.total_shares
                 /\ Residual(w) <= vault.collateral_remaining
      <3>1. BackerShares(w) = IF vault.writer_ask_swept = 0 THEN 0 ELSE backer[w]
        BY <2>1, BackerPart
      <3>2. backer[w] \in Nat /\ backer[w] <= BackersOf
        BY <2>1, TotalNat, FiniteAssumption DEF PotTyped, BackersOf
      <3>3. BackerShares(w) \in Nat /\ BackerShares(w) <= vault.total_shares
        BY <2>1, <2>2, <3>1, <3>2
      <3>. QED
        BY <2>1, <3>3, ResidualPart
    <2>5. SumFunction([w \in Writers |-> BackerShares(w)]) = BackersOf
      <3> DEFINE f == [w \in Writers |-> BackerShares(w)]
      <3>1. \A w \in Writers :
               BackerShares(w) = IF vault.writer_ask_swept = 0 THEN 0 ELSE backer[w]
        BY <2>1, BackerPart
      <3>2. CASE vault.writer_ask_swept = 0
        <4>1. f \in [Writers -> Int] /\ \A w \in Writers : f[w] = 0
          BY <3>1, <3>2
        <4>2. SumFunction(f) = 0
          <5> HIDE DEF f
          <5>. QED
            BY <4>1, TotalZero, FiniteAssumption
        <4>. QED
          BY <2>1, <3>2, <4>2
      <3>3. CASE vault.writer_ask_swept # 0
        <4>1. f = backer
          BY <2>1, <3>1, <3>3 DEF PotTyped
        <4>. QED
          BY <4>1 DEF BackersOf
      <3>. QED
        BY <3>2, <3>3
    <2>. QED
      BY <2>1, <2>3, <2>4, <2>5 DEF ExitsCovered
  <1>. QED
    BY <1>1, AmericanBooksKept, PTL
==========================================================================
