---------------------------- MODULE MCSwapStream ----------------------------
(* Two swaps of one transaction and one of another: every way two rows can  *)
(* meet under one tx_sig, next to a row that is alone.  If a script runs,   *)
(* two of them are in the table; for the backfill of volumes the lone one   *)
(* may be of a pair it does not know.                                       *)
EXTENDS EmaBackfill

MCUnknowns == {{}, {"b"}}

\* No limit, or one that stops the script early.
MCLimits == {0, 1}

MCSwaps   == {"a1", "a2", "b"}
MCTxOf    == [s \in MCSwaps |-> IF s = "b" THEN "txB" ELSE "txA"]
MCEarlier == [s \in MCSwaps |-> IF s = "a2" THEN {"a1"} ELSE {}]
MCPairOf  == [s \in MCSwaps |-> IF s = "a2" THEN "Q" ELSE "P"]
=============================================================================
