----------------------------- MODULE LogMetrics -----------------------------
(***************************************************************************)
(* The indexer's metrics (LogMetrics) beside one pipeline run.  The loop   *)
(* and the datasource tasks put samples into the histograms; a flush shows *)
(* what has come in since the last one and empties them.  It shows them    *)
(* under a read lock and then takes the write lock to clear: what another  *)
(* task records in between is cleared unseen.  The loop itself waits for   *)
(* its flush.                                                              *)
(*                                                                         *)
(* The four counters are those of Pipeline; the gauge and the counters     *)
(* that are only logged are left out, and so are the values of samples.    *)
(***************************************************************************)
EXTENDS Pipeline

VARIABLES
  samples,   \* histograms: samples of each of the loop's two, and whether
             \*   there are samples of datasources
  flush,     \* "idle", or "clear": shown and not yet emptied
  shown      \* history: samples of each that a flush has shown

metricsVars == <<samples, flush, shown>>

NoSamples == [nanos |-> 0, millis |-> 0, sources |-> FALSE]
NoneShown == [nanos |-> 0, millis |-> 0]

MetricsInit == samples = NoSamples /\ flush = "idle" /\ shown = NoneShown

\* record_histogram: one more sample of the loop, or one of a datasource.
NanosSample  == [samples EXCEPT !.nanos = @ + 1]
MillisSample == [samples EXCEPT !.millis = @ + 1]
SourceSample == [samples EXCEPT !.sources = TRUE]

\* What has been shown once the histograms are shown.
ShownNow == [nanos |-> shown.nanos + samples.nanos, millis |-> shown.millis + samples.millis]

\* The tick of the interval: show the histograms.
ShowMetrics ==
  /\ pc = "select" /\ flush = "idle"
  /\ flush' = "clear" /\ shown' = ShownNow
  /\ UNCHANGED <<vars, samples>>

\* Empty them, whatever they hold by now.
ClearMetrics ==
  /\ pc = "select" /\ flush = "clear"
  /\ flush' = "idle" /\ samples' = NoSamples
  /\ UNCHANGED <<vars, shown>>

\* The flush before the loop is left, in one step: no sample of the loop comes
\* after it.
LastFlush ==
  /\ shown' = ShownNow /\ samples' = NoSamples
  /\ UNCHANGED flush

\* The steps of the loop: the time an update took becomes two samples, at two
\* awaits after it was handled.
Loop ==
  \/ RecordNanoseconds /\ samples' = NanosSample /\ UNCHANGED <<flush, shown>>
  \/ RecordMilliseconds /\ samples' = MillisSample /\ UNCHANGED <<flush, shown>>
  \/ /\ Receive \/ CountReceived \/ Process \/ CountResult \/ CountProcessed
     /\ UNCHANGED metricsVars
  \/ (Cancelled \/ Closed) /\ LastFlush

\* Faulty variant: the flush runs beside the loop, as a task of its own.
MeteredRunBesideFlush == Loop

MeteredRun == flush = "idle" /\ Loop

MeteredCtrlC ==
  /\ flush = "idle" /\ CtrlC
  /\ IF Immediate THEN LastFlush ELSE UNCHANGED metricsVars

-----------------------------------------------------------------------------
(* Properties *)

MetricsOK ==
  /\ samples \in [nanos : Nat, millis : Nat, sources : BOOLEAN]
  /\ flush \in {"idle", "clear"}
  /\ shown \in [nanos : Nat, millis : Nat]

\* The samples of the loop that wait for a flush or were in a report.
Waiting == IF flush = "clear" THEN NoSamples ELSE samples
Nanos   == shown.nanos + Waiting.nanos
Millis  == shown.millis + Waiting.millis

\* Every processing time waits in both histograms or was in exactly one report,
\* although datasources record and flushes empty the same histograms.  Only the
\* time of the last update may be missing, while it is on its way there or when
\* the future was dropped on it; back at its select! the loop has left none out.
SamplesAreShown ==
  /\ Millis <= Nanos /\ Nanos <= Len(handled) /\ Len(handled) <= Millis + 1
  /\ pc \in {"select", "ok"} => Millis = Len(handled)
=============================================================================
