-------------------------- MODULE MCOrderBook --------------------------
(* Small instances of OrderBook for TLC. *)
EXTENDS OrderBook, TLC

CONSTANTS a, b

TwoTraders   == {a, b}

(* a rests two orders and a listing at once, b a listing. *)
OrdersAndListings == {<<a, 1>>, <<a, 2>>, <<a, 0>>, <<b, 0>>}
ListingsOfBoth    == {<<a, 0>>, <<b, 0>>}

UsdcOfTwo    == a :> 3 @@ b :> 1
TokensOfTwo  == a :> 2 @@ b :> 0
========================================================================
