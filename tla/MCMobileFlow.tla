---------------------------- MODULE MCMobileFlow ----------------------------
(* Small instances of MobileFlow for TLC. *)
EXTENDS MobileFlow, TLC

CONSTANTS r1, r2

TwoRuns == {r1, r2}
=============================================================================
