--------------------------- MODULE MCWriterBot ---------------------------
(* A small instance of WriterBot for TLC. *)
EXTENDS WriterBot, TLC

CONSTANTS c, d

TwoSeries == {c, d}
Strikes   == c :> 1 @@ d :> 2
==========================================================================
