--------------------------- MODULE MCTriggers ---------------------------
(* Small instances of Triggers for TLC. *)
EXTENDS Triggers, TLC

CONSTANTS a, b

TwoTraders == {a, b}

(* a has the triggers, b the order they may meet. *)
PairOfA  == {<<a, 1>>, <<a, 2>>}
OrderOfB == {<<b, 1>>}

(* Enough for a to buy twice and sell what it bought too. *)
BuyersUsdc    == a :> 2 @@ b :> 1
BuyersTokens  == a :> 1 @@ b :> 0
=========================================================================
