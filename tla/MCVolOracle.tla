---------------------------- MODULE MCVolOracle ----------------------------
(* VolOracle with a ring of three samples and two market prices.  The      *)
(* intervals keep the order of the code's: an hour, a little less between  *)
(* two pushes, two hours for the longest gap, more until it is stale.      *)
EXTENDS VolOracle

SomeSpots == {1, 3}
============================================================================
