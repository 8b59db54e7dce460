------------------------------ MODULE Pipeline ------------------------------
(***************************************************************************)
(* One run of carbon's pipeline (Pipeline::run): datasource tasks send     *)
(* updates into one bounded channel; a single loop selects between the     *)
(* cancellation token, Ctrl-C and the channel and processes one update at  *)
(* a time.  select! takes any branch that is ready.                        *)
(*                                                                         *)
(* An update goes through the loop in as many steps as there are awaits on *)
(* its way: each metrics call is one, process is one.                      *)
(*                                                                         *)
(* The run is a future: its owner may drop it at any await (Drop), which   *)
(* neither cancels the token nor stops the spawned datasource tasks.       *)
(* Metrics are those of the indexer's LogMetrics, which never fail; the    *)
(* periodic flush changes no state kept here.                              *)
(***************************************************************************)
EXTENDS Naturals, Sequences

CONSTANTS
  Sources,      \* the datasource tasks of the run
  Capacity,     \* channel_buffer_size
  MaxUpdates,   \* number of updates sent (bound)
  Failing,      \* updates whose processing returns an error
  Immediate,    \* shutdown_strategy is Immediate (otherwise ProcessPending)
  TokenGiven    \* the application gave the builder a token it may cancel

ASSUME CapacityAssumption   == Capacity \in Nat \ {0}
ASSUME MaxUpdatesAssumption == MaxUpdates \in Nat
ASSUME FailingAssumption    == Failing \subseteq 1..MaxUpdates
ASSUME BooleanAssumption    == Immediate \in BOOLEAN /\ TokenGiven \in BOOLEAN

VARIABLES
  pc,           \* control point of run
  source,       \* source[d]: "running", or "returned" (its senders are dropped)
  token,        \* the datasource cancellation token is cancelled
  queue,        \* the channel
  current,      \* the update being processed, or 0
  counters,     \* the updates_* counters
  produced,     \* history: number of updates sent
  handled       \* history: updates whose processing has ended, oldest first

vars == <<pc, source, token, queue, current, counters, produced, handled>>

\* "ok" is Ok(()); "dropped" is a future that was dropped.
Ended    == {"ok", "dropped"}
Counters == {"received", "successful", "failed", "processed"}

\* Where an update taken from the channel is, in the order of the awaits.
OnTheWay == {"received", "process", "nanoseconds", "milliseconds", "result", "count"}

TypeOK ==
  /\ pc \in {"select"} \cup OnTheWay \cup Ended
  /\ source \in [Sources -> {"running", "returned"}]
  /\ token \in BOOLEAN
  /\ queue \in Seq(1..MaxUpdates)
  /\ Len(queue) <= Capacity
  /\ current \in 0..MaxUpdates
  /\ counters \in [Counters -> Nat]
  /\ produced \in 0..MaxUpdates
  /\ handled \in Seq(1..MaxUpdates)

Init ==
  /\ pc = "select"
  /\ source = [d \in Sources |-> "running"]
  /\ token = FALSE
  /\ queue = <<>>
  /\ current = 0
  /\ counters = [c \in Counters |-> 0]
  /\ produced = 0
  /\ handled = <<>>

\* increment_counter: the counter goes up and the loop goes on.
Increment(c) == counters' = [counters EXCEPT ![c] = @ + 1]

-----------------------------------------------------------------------------
(* The datasource tasks, through the interface run gives them: a sender,   *)
(* a token.                                                                *)

\* A datasource puts an update into the channel.  Whether a full channel makes
\* it wait or drop the update is the datasource's business (AtlasDatasource).
Send(d) ==
  /\ source[d] = "running"
  /\ pc \notin Ended
  /\ Len(queue) < Capacity
  /\ produced < MaxUpdates
  /\ queue' = Append(queue, produced + 1)
  /\ produced' = produced + 1
  /\ UNCHANGED <<pc, source, token, current, counters, handled>>

\* consume returns and its last sender is dropped; an error is only logged.
SourceReturns(d) ==
  /\ source[d] = "running"
  /\ source' = [source EXCEPT ![d] = "returned"]
  /\ UNCHANGED <<pc, token, queue, current, counters, produced, handled>>

\* The application cancels the token it gave the builder.
CancelToken ==
  /\ TokenGiven
  /\ ~token
  /\ token' = TRUE
  /\ UNCHANGED <<pc, source, queue, current, counters, produced, handled>>

-----------------------------------------------------------------------------
(* The select! loop.                                                       *)

\* The token is cancelled: flush and shut down the metrics, leave the loop.
Cancelled ==
  /\ pc = "select"
  /\ token
  /\ pc' = "ok"
  /\ UNCHANGED <<source, token, queue, current, counters, produced, handled>>

\* Ctrl-C: cancel the token; Immediate leaves the loop, ProcessPending logs
\* that pending updates will be processed and selects again.
CtrlC ==
  /\ pc = "select"
  /\ token' = TRUE
  /\ pc' = IF Immediate THEN "ok" ELSE "select"
  /\ UNCHANGED <<source, queue, current, counters, produced, handled>>

\* Faulty variant: only a full channel is read.
ReceiveBatched ==
  /\ pc = "select"
  /\ Len(queue) = Capacity
  /\ current' = Head(queue)
  /\ queue' = Tail(queue)
  /\ pc' = "received"
  /\ UNCHANGED <<source, token, counters, produced, handled>>

\* recv returns an update.
Receive ==
  /\ pc = "select"
  /\ queue # <<>>
  /\ current' = Head(queue)
  /\ queue' = Tail(queue)
  /\ pc' = "received"
  /\ UNCHANGED <<source, token, counters, produced, handled>>

CountReceived ==
  /\ pc = "received"
  /\ Increment("received")
  /\ pc' = "process"
  /\ UNCHANGED <<source, token, queue, current, produced, handled>>

\* Faulty variant: a failed update is put back to be retried.
ProcessRetries ==
  /\ pc = "process"
  /\ handled' = Append(handled, current)
  /\ queue' = IF current \in Failing THEN Append(queue, current) ELSE queue
  /\ current' = 0
  /\ pc' = "nanoseconds"
  /\ UNCHANGED <<source, token, counters, produced>>

\* process returns, with an error or without; the update is never retried.
Process ==
  /\ pc = "process"
  /\ handled' = Append(handled, current)
  /\ current' = 0
  /\ pc' = "nanoseconds"
  /\ UNCHANGED <<source, token, queue, counters, produced>>

\* record_histogram, twice.  LogMetrics says what becomes of the samples.
RecordNanoseconds ==
  /\ pc = "nanoseconds" /\ pc' = "milliseconds"
  /\ UNCHANGED <<source, token, queue, current, counters, produced, handled>>
RecordMilliseconds ==
  /\ pc = "milliseconds" /\ pc' = "result"
  /\ UNCHANGED <<source, token, queue, current, counters, produced, handled>>

\* An error of process is logged and counted.
CountResult ==
  /\ pc = "result"
  /\ Increment(IF handled[Len(handled)] \in Failing THEN "failed" ELSE "successful")
  /\ pc' = "count"
  /\ UNCHANGED <<source, token, queue, current, produced, handled>>

\* updates_processed and the queue gauge, then back to select!.
CountProcessed ==
  /\ pc = "count"
  /\ Increment("processed")
  /\ pc' = "select"
  /\ UNCHANGED <<source, token, queue, current, produced, handled>>

\* Faulty variant: the end of the last datasource does not end the run.
ClosedIgnored ==
  /\ pc = "select"
  /\ queue = <<>>
  /\ token
  /\ \A d \in Sources : source[d] = "returned"
  /\ pc' = "ok"
  /\ UNCHANGED <<source, token, queue, current, counters, produced, handled>>

\* recv returns None: the channel is empty and every sender is dropped.
Closed ==
  /\ pc = "select"
  /\ queue = <<>>
  /\ \A d \in Sources : source[d] = "returned"
  /\ pc' = "ok"
  /\ UNCHANGED <<source, token, queue, current, counters, produced, handled>>

\* The owner drops the future, whatever it was awaiting.
Drop ==
  /\ pc \notin Ended
  /\ pc' = "dropped"
  /\ UNCHANGED <<source, token, queue, current, counters, produced, handled>>

Run ==
  \/ Cancelled \/ Closed
  \/ Receive \/ CountReceived
  \/ Process
  \/ RecordNanoseconds \/ RecordMilliseconds
  \/ CountResult \/ CountProcessed

Next ==
  \/ \E d \in Sources : Send(d) \/ SourceReturns(d)
  \/ CancelToken \/ CtrlC \/ Drop
  \/ Run

(***************************************************************************)
(* Fairness: the loop's task is scheduled, process and the metric updates  *)
(* return.  Nothing obliges a datasource to send or to return.             *)
(***************************************************************************)
Fairness == WF_vars(Run)

Spec     == Init /\ [][Next]_vars
FairSpec == Spec /\ Fairness

-----------------------------------------------------------------------------
(* Properties.                                                             *)

InFlight == IF current = 0 THEN 0 ELSE 1

\* The counters never run ahead of what they count, and lag behind it by at most
\* the update on its way through the loop: whichever await the future is dropped
\* at, processed, results, handled and received differ by that one update only,
\* and where the loop is back at its select! all of them agree.
CountersBalance ==
  LET results == counters["successful"] + counters["failed"] IN
  /\ counters["processed"] <= results
  /\ results <= Len(handled)
  /\ Len(handled) <= counters["received"]
  /\ counters["received"] <= Len(handled) + InFlight
  /\ Len(handled) + InFlight <= counters["processed"] + 1
  /\ pc = "select" => counters["processed"] = Len(handled) /\ InFlight = 0

\* What was handled, is in flight and is queued is exactly what was sent, in
\* the order it was sent: no update is lost, repeated or overtaken by the loop.
NothingLost ==
  /\ \A i \in 1..Len(handled) : handled[i] = i
  /\ current # 0 => current = Len(handled) + 1
  /\ \A i \in 1..Len(queue) : queue[i] = Len(handled) + InFlight + i
  /\ produced = Len(handled) + InFlight + Len(queue)

\* A run that ends because its channel closed, and not because it was
\* cancelled, has processed every update.
ClosedMeansDrained ==
  pc = "ok" /\ ~token => Len(handled) = produced

\* Every update sent is processed, unless the run ends first.  A cancelled run
\* ends; so does one whose datasources have all returned (the way the daemon
\* learns that its only datasource gave up).
RunProgresses ==
  /\ \A u \in 1..MaxUpdates : (u <= produced) ~> (u <= Len(handled) \/ pc \in Ended)
  /\ (token \/ \A d \in Sources : source[d] = "returned") ~> (pc \in Ended)

\* The loop is an in-order processor of what was sent.
InOrder == INSTANCE InOrderProcessing WITH produced <- produced, handled <- handled
RefinesInOrder == InOrder!Spec
=============================================================================
