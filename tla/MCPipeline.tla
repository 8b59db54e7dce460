----------------------------- MODULE MCPipeline -----------------------------
(* Small instances of Pipeline, LogMetrics and AccountSources for TLC. *)
EXTENDS AccountSources

\* The second update fails.
MCFailing == {2}
=============================================================================
