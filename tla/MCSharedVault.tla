-------------------------- MODULE MCSharedVault --------------------------
(* A small instance of SharedVault for TLC. *)
EXTENDS SharedVault, TLC

CONSTANTS w1, w2, h1, m1, m2

TwoWriters == {w1, w2}
TwoMints   == {m1, m2}

(* A writer may buy another writer's options. *)
HolderAndWriter == {h1, w1}
==========================================================================
