-------------------------- MODULE MCTriggerKeeper --------------------------
(* Small instances of TriggerKeeper for TLC. *)
EXTENDS TriggerKeeper, TLC

CONSTANTS buy, cheap, take, stop, odd, a

(* Two buys of different ceilings, one of which an ask too dear for the     *)
(* other may hold up, and which also waits for the contract's own mark; a   *)
(* take-profit and a stop-loss; and maybe a buy on a feed the price service *)
(* lacks.  Spot is 1 or 6.                                                  *)
FiveStops   == {buy, cheap, take, stop, odd}
Kinds       == buy :> "StopEntryBuy" @@ cheap :> "StopEntryBuy"
               @@ take :> "TakeProfitSell" @@ stop :> "StopLossSell"
               @@ odd :> "StopEntryBuy"
Comparators == buy :> "ge" @@ cheap :> "le" @@ take :> "ge" @@ stop :> "ge" @@ odd :> "ge"
Thresholds  == buy :> 5 @@ cheap :> 2 @@ take :> 5 @@ stop :> 5 @@ odd :> 5
Margins     == [t \in FiveStops |-> 1]
Ceilings    == buy :> 2 @@ cheap :> 1 @@ take :> 0 @@ stop :> 0 @@ odd :> 1
Quantities  == buy :> 2 @@ cheap :> 1 @@ take :> 1 @@ stop :> 1 @@ odd :> 1
Tries       == buy :> 2 @@ cheap :> 1 @@ take :> 1 @@ stop :> 1 @@ odd :> 1
Tapes       == [t \in FiveStops |-> IF t = cheap THEN "Contract" ELSE "Underlying"]
=============================================================================
