------------------------- MODULE MCAtlasDatasource -------------------------
(* Small instances of AtlasDatasource for TLC. *)
EXTENDS AtlasDatasource

\* Two iterations alive at once: the current one and one that was cancelled
\* while a subscribe call of it was pending.
MCSlots == {1, 2}

\* The middle transaction of three fails on chain: it is skipped.
MCUnusable == {2}
=============================================================================
