------------------------- MODULE MCTransactionCrawler -------------------------
(* Small instances of TransactionCrawler and CrawlerStart for TLC. *)
EXTENDS CrawlerStart

\* No filter, or a filter that starts the first sweep below a signature.
MCStartBefore == {0, 2}

\* One transaction is skipped by the worker.
MCUnusable == {2}

\* Two signatures in one slot.
MCSlotOf == <<1, 1, 3>>

\* No start block (one of them by an argument that overrides the environment), or
\* one after the two signatures, in which the program has no transaction.
MCArgs == {<<>>, <<0>>}
MCEnvs == {<<>>, <<2>>}
=============================================================================
