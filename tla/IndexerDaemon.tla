---------------------------- MODULE IndexerDaemon ----------------------------
(***************************************************************************)
(* The indexer's daemon loop (main.rs run_daemon_loop) around pipeline     *)
(* runs (pipeline.rs run_pipeline), composed with the model of one run.    *)
(*                                                                         *)
(* run_pipeline races the run's future against Ctrl-C and SIGTERM.  When a *)
(* signal wins, the future is dropped and the loop starts a new pipeline,  *)
(* as it does when the run returns.  The datasource tasks of a run are     *)
(* spawned, so they survive a dropped run: such a task is an orphan.       *)
(*                                                                         *)
(* pipeline.rs gives the builder no cancellation token: TokenGiven of the  *)
(* run is FALSE here.                                                      *)
(***************************************************************************)
EXTENDS Pipeline, FiniteSets

CONSTANTS
  MayFail,      \* the metrics in use may fail, which makes run return Err
  MaxDelay,     \* max_retry_delay in seconds
  MaxOrphans    \* orphans are counted up to this number (bound)

ASSUME SourcesAssumption    == IsFiniteSet(Sources)
ASSUME MayFailAssumption    == MayFail \in BOOLEAN
ASSUME MaxDelayAssumption   == MaxDelay \in Nat \ {0}
ASSUME MaxOrphansAssumption == MaxOrphans \in Nat

VARIABLES
  mode,         \* control point of run_daemon_loop
  retryDelay,   \* retry_delay in seconds
  handlers,     \* tokio has replaced the default disposition of the signals
  orphans,      \* datasource tasks still running whose pipeline is gone
  errors        \* history: instances that failed since the last Ok

daemonVars == <<mode, retryDelay, handlers, orphans, errors>>
allVars    == <<vars, daemonVars>>

Modes == {"starting", "running", "backoff", "pause", "exited"}

Min2(a, b) == IF a <= b THEN a ELSE b

DaemonTypeOK ==
  /\ TypeOK
  /\ mode \in Modes
  /\ retryDelay \in 1..MaxDelay
  /\ handlers \in BOOLEAN
  /\ orphans \in 0..MaxOrphans
  /\ errors \in 0..MaxDelay

DaemonInit ==
  /\ Init
  /\ mode = "starting"
  /\ retryDelay = 1
  /\ handlers = FALSE
  /\ orphans = 0
  /\ errors = 0

\* The tasks an ended run leaves behind: running, and not told to stop.
Abandoned == IF token THEN {} ELSE {d \in Sources : source[d] = "running"}

-----------------------------------------------------------------------------
(* The daemon loop.                                                        *)

\* create_pipeline, then run: a new channel, token and set of tasks.  (With a
\* validated configuration create_pipeline succeeds.)
Start ==
  /\ mode = "starting"
  /\ mode' = "running"
  /\ handlers' = TRUE
  /\ pc' = "select"
  /\ source' = [d \in Sources |-> "running"]
  /\ token' = FALSE
  /\ queue' = <<>>
  /\ current' = 0
  /\ counters' = [c \in Counters |-> 0]
  /\ produced' = 0
  /\ handled' = <<>>
  /\ UNCHANGED <<retryDelay, orphans, errors>>

\* The run takes a step of its own.
RunStep ==
  /\ mode = "running"
  /\ Next /\ ~Drop
  /\ UNCHANGED daemonVars

\* Faulty variants: forgets to reset the delay; takes Ok for the end.
ReturnsOkKeepsDelay ==
  /\ mode = "running"
  /\ pc = "ok"
  /\ mode' = "pause"
  /\ errors' = 0
  /\ UNCHANGED <<vars, handlers, orphans, retryDelay>>
ReturnsOkExits ==
  /\ mode = "running"
  /\ pc = "ok"
  /\ mode' = "exited"
  /\ UNCHANGED <<vars, handlers, orphans, retryDelay, errors>>

\* The run returned Ok: reset the delay, sleep it, restart.
ReturnsOk ==
  /\ mode = "running"
  /\ pc = "ok"
  /\ mode' = "pause"
  /\ retryDelay' = 1
  /\ errors' = 0
  /\ UNCHANGED <<vars, handlers, orphans>>

\* Ctrl-C or SIGTERM wins the select! of run_pipeline: the run is dropped and
\* counts as Ok.
Signal ==
  /\ mode = "running"
  /\ pc \notin Ended
  /\ pc' = "dropped"
  /\ orphans' = Min2(MaxOrphans, orphans + Cardinality(Abandoned))
  /\ mode' = "pause"
  /\ retryDelay' = 1
  /\ errors' = 0
  /\ UNCHANGED <<source, token, queue, current, counters, produced, handled, handlers>>

\* A signal while no run is listening: before the first run it kills the
\* process; later tokio's handlers swallow it (no effect, so no step).
SignalAtStart ==
  /\ mode = "starting"
  /\ ~handlers
  /\ mode' = "exited"
  /\ UNCHANGED <<vars, retryDelay, handlers, orphans, errors>>

\* A metrics call inside run fails and `?` returns Err, at any await but that of
\* process, whose errors run keeps to itself: nothing cancels the token.  The
\* loop sleeps the old delay and doubles it for the next failure.
ReturnsErr ==
  /\ MayFail
  /\ mode = "running"
  /\ pc \notin Ended \cup {"process"}
  /\ pc' = "dropped"
  /\ orphans' = Min2(MaxOrphans, orphans + Cardinality(Abandoned))
  /\ mode' = "backoff"
  /\ retryDelay' = Min2(2 * retryDelay, MaxDelay)
  /\ errors' = Min2(MaxDelay, errors + 1)
  /\ UNCHANGED <<source, token, queue, current, counters, produced, handled, handlers>>

Wake ==
  /\ mode \in {"backoff", "pause"}
  /\ mode' = "starting"
  /\ UNCHANGED <<vars, retryDelay, handlers, orphans, errors>>

\* An orphan gives up by itself after too many failed connections.
OrphanReturns ==
  /\ orphans > 0
  /\ orphans' = orphans - 1
  /\ UNCHANGED <<vars, mode, retryDelay, handlers, errors>>

DaemonNext ==
  \/ Start \/ RunStep \/ ReturnsOk \/ Signal \/ SignalAtStart \/ ReturnsErr
  \/ Wake \/ OrphanReturns

(***************************************************************************)
(* Fairness: the daemon's own task runs, timers fire, and the run's loop   *)
(* is scheduled.  Signals, failures and datasources are not obliged.       *)
(***************************************************************************)
DaemonFairness ==
  /\ WF_allVars(Start) /\ WF_allVars(ReturnsOk) /\ WF_allVars(Wake)
  /\ WF_allVars(mode = "running" /\ Run /\ UNCHANGED daemonVars)

DaemonSpec     == DaemonInit /\ [][DaemonNext]_allVars
FairDaemonSpec == DaemonSpec /\ DaemonFairness

-----------------------------------------------------------------------------
(* Properties.                                                             *)

TwoTo[k \in Nat] == IF k = 0 THEN 1 ELSE 2 * TwoTo[k - 1]

\* The delay slept after the next failure is 2^errors seconds, limited, where
\* errors counts the failures since a run last ended well; a signal, which cuts
\* a run short, ends it well.
BackoffMatches == DaemonTypeOK /\ retryDelay = Min2(TwoTo[errors], MaxDelay)

\* When the only datasources give up, the run drains its channel, returns and
\* is started again with fresh datasources: the indexer never idles on a
\* pipeline that nothing feeds.
FeederlessRunRestarts ==
  (mode = "running" /\ \A d \in Sources : source[d] = "returned") ~> (mode = "starting")
=============================================================================
