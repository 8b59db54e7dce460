-------------------------- MODULE MCIndexerDaemon --------------------------
(* A small instance of IndexerDaemon for TLC: one datasource, as pipeline.rs *)
(* attaches, a channel of two and three updates per run.                    *)
EXTENDS IndexerDaemon

MCFailing == {2}
=============================================================================
