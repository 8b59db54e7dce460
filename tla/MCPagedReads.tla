----------------------------- MODULE MCPagedReads -----------------------------
(* Small instances of PagedReads for TLC. *)
EXTENDS PagedReads

\* Two values, so that rows have equal amounts.
MCAmounts == {1, 2}

\* 0 stands for an absent limit, 5 is above the maximum.
MCLimits == {0, 1, 5}

\* An empty position and one with collateral on both sides.
MCHoldings == {{}, {0, 1}}
=============================================================================
