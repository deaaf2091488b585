----------------------------- MODULE MCIndexer -----------------------------
(* Small instances of Indexer for TLC. *)
EXTENDS Indexer
=============================================================================
