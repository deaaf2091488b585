------------------------- MODULE MCAmericanVault -------------------------
(* Small instances of AmericanVault for TLC. *)
EXTENDS AmericanVault, TLC

CONSTANTS w1, w2, h1, m1

TwoWriters == {w1, w2}
OneHolder  == {h1}
OneMint    == {m1}
==========================================================================
