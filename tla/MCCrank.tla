----------------------------- MODULE MCCrank -----------------------------
(* Small instances of Crank for TLC. *)
EXTENDS Crank, TLC

CONSTANTS p, v, w

(* p can never be settled and is the oldest; v's option is listed, w's is   *)
(* in an order nobody can sweep.                                            *)
ThreeVaults == {p, v, w}
Oldest      == p :> 1 @@ v :> 2 @@ w :> 3
OnSale      == p :> "wallet" @@ v :> "listing" @@ w :> "order"
==========================================================================
