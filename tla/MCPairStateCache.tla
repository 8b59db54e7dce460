--------------------------- MODULE MCPairStateCache ---------------------------
(* Small instances of PairStateCache for TLC. *)
EXTENDS PairStateCache
=============================================================================
