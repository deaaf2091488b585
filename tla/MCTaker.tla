----------------------------- MODULE MCTaker -----------------------------
(* Small instances of Taker for TLC. *)
EXTENDS Taker, TLC

CONSTANTS a, b, c, s, p

(* A seller's resale ask at a and its writer ask, with a delay, at b; at c  *)
(* a program may come to sell.                                              *)
ThreeOrders == {a, b, c}
Sellers     == a :> s @@ b :> s @@ c :> p
AtStart     == a :> [qty |-> 2, price |-> 1] @@ b :> [qty |-> 1, price |-> 1]
               @@ c :> [qty |-> 0, price |-> 1]
Strikes     == [o \in ThreeOrders |-> 2]
Expiries    == a :> 3 @@ b :> 9 @@ c :> 9
Delays      == a :> 0 @@ b :> 1 @@ c :> 0
==========================================================================
