---------------------------- MODULE VaultMath ----------------------------
(***************************************************************************)
(* The integer arithmetic the vault instructions of programs/opta share:   *)
(* the capped intrinsic value of a contract, the collateral it locks, the  *)
(* protocol fee, the pro-rata shares of a pool and the                      *)
(* premium-per-share accumulator.  Amounts are natural numbers (USDC base  *)
(* units); every division floors, as u128 checked_div does.                *)
(*                                                                         *)
(* Here and in the modules above, a definition whose comment begins with   *)
(* "Faulty" is a plausible wrong version of the one after it.  None is     *)
(* used by a specification: each shows, put in its place, that the         *)
(* properties notice.                                                      *)
(***************************************************************************)
EXTENDS Naturals

Smaller(a, b) == IF a <= b THEN a ELSE b

(* u64::saturating_sub: never below zero. *)
SaturatingSub(a, b) == IF a >= b THEN a - b ELSE 0

(* (a as u128) * b / c, the shape of every pro-rata computation. *)
MulDiv(a, b, c) == (a * b) \div c

(* Every contract locks one strike of USDC, calls and puts alike. *)
CollateralPerContract(strike) == strike

(* What one contract pays at price `spot`: its intrinsic value, zero out of *)
(* the money and, once capped, never more than `cap`.                       *)
RawIntrinsic(optionType, spot, strike) ==
    IF optionType = "Call" THEN SaturatingSub(spot, strike)
                           ELSE SaturatingSub(strike, spot)

(* Faulty: the cap forgotten. *)
UncappedIntrinsic(optionType, spot, strike, cap) ==
    RawIntrinsic(optionType, spot, strike)

CappedIntrinsic(optionType, spot, strike, cap) ==
    Smaller(RawIntrinsic(optionType, spot, strike), cap)

(* The protocol's cut of a premium, floored: the writers get the rest. *)
Fee(premium, feeBps) == MulDiv(premium, feeBps, 10000)

(* Faulty: priced on the pool the deposit has already joined. *)
SharesForAfterTransfer(amount, shares, collateral) ==
    IF shares = 0 THEN amount ELSE MulDiv(amount, shares, collateral + amount)

(* Shares issued for a deposit into a pool of `collateral` in `shares`. *)
SharesFor(amount, shares, collateral) ==
    IF shares = 0 THEN amount ELSE MulDiv(amount, shares, collateral)

(* Faulty: rounded towards the writer who leaves. *)
ShareValueRoundedUp(shares, pool, totalShares) ==
    (shares * pool + totalShares - 1) \div totalShares

(* The pool's value of some shares. *)
ShareValue(shares, pool, totalShares) == MulDiv(shares, pool, totalShares)

(* What the accumulator has credited to `shares` since the vault opened. *)
Earned(shares, cumulative, scale) == MulDiv(shares, cumulative, scale)

(* Faulty: what was claimed is claimable again. *)
UnclaimedForgetful(shares, cumulative, scale, debt, claimed) ==
    SaturatingSub(Earned(shares, cumulative, scale), debt)

(* ... of which a position with this debt and these claims may still take. *)
Unclaimed(shares, cumulative, scale, debt, claimed) ==
    SaturatingSub(SaturatingSub(Earned(shares, cumulative, scale), debt), claimed)
==========================================================================
