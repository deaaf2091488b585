---------------------------- MODULE MCPriceFeed ----------------------------
(* Small instances of PriceFeed for TLC.  A unit of time is half a minute; *)
(* only the breaker's hour is shortened.                                   *)
EXTENDS PriceFeed

(* 107 is beyond the band around 100 at first, within it after an hour.    *)
SomePrices == {100, 107}
TwoKeys    == {"lane", "spare"}
NearClocks == {-1, 1}
============================================================================
