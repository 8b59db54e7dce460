--------------------------- MODULE PipelineProofs ---------------------------
(***************************************************************************)
(* Proofs about Pipeline, for every set of datasources, channel capacity   *)
(* and number of updates; about IndexerDaemon, which starts one run after  *)
(* the other, for every finite set of datasources and any limits; and about *)
(* LogMetrics and AccountSources, a run with its metrics and the two       *)
(* datasources of accounts, for any chain and number of accounts.          *)
(***************************************************************************)
EXTENDS IndexerDaemon, AccountSources, SequenceTheorems, FiniteSetTheorems, WellFoundedInduction, TLAPS

\* An update is in flight from the channel to the end of process; a dropped run
\* keeps whatever it was processing.
FlightOK ==
  /\ pc \in {"received", "process"} => current # 0
  /\ pc \notin {"received", "process", "dropped"} => current = 0

\* Which counters already know the update on its way, by control point; of a
\* dropped run only CountersBalance is left.
Results == counters["successful"] + counters["failed"]
CountersAt ==
  /\ pc \in {"select", "received", "ok"} =>
       counters["received"] = Len(handled) /\ Results = Len(handled) /\ counters["processed"] = Len(handled)
  /\ pc = "process" =>
       counters["received"] = Len(handled) + 1 /\ Results = Len(handled) /\ counters["processed"] = Len(handled)
  /\ pc \in {"nanoseconds", "milliseconds", "result"} =>
       counters["received"] = Len(handled) /\ Results + 1 = Len(handled) /\ counters["processed"] + 1 = Len(handled)
  /\ pc = "count" =>
       counters["received"] = Len(handled) /\ Results = Len(handled) /\ counters["processed"] + 1 = Len(handled)

CountersOK == CountersAt /\ (pc = "dropped" => CountersBalance)

IInv == TypeOK /\ FlightOK /\ CountersOK /\ NothingLost /\ ClosedMeansDrained

USE CapacityAssumption, MaxUpdatesAssumption, FailingAssumption, BooleanAssumption
    DEF CapacityAssumption, MaxUpdatesAssumption, FailingAssumption, BooleanAssumption

-----------------------------------------------------------------------------
(* What each action does to the two sequences, in terms the later steps    *)
(* need: types, lengths and elements.                                      *)

LEMMA SendEffect ==
  ASSUME TypeOK, NEW d \in Sources, Send(d)
  PROVE  /\ queue' \in Seq(1..MaxUpdates)
         /\ Len(queue') = Len(queue) + 1
         /\ queue'[Len(queue) + 1] = produced + 1
         /\ \A i \in 1..Len(queue) : queue'[i] = queue[i]
<1>1. produced + 1 \in 1..MaxUpdates /\ queue' = Append(queue, produced + 1)
  BY DEF TypeOK, Send
<1> QED BY <1>1, AppendProperties DEF TypeOK

LEMMA ReceiveEffect ==
  ASSUME TypeOK, Receive
  PROVE  /\ queue' \in Seq(1..MaxUpdates)
         /\ Len(queue) \in Nat \ {0}
         /\ Len(queue') = Len(queue) - 1
         /\ current' = queue[1]
         /\ current' \in 1..MaxUpdates
         /\ \A i \in 1..Len(queue') : queue'[i] = queue[i + 1]
<1>1. queue \in Seq(1..MaxUpdates) /\ queue # <<>> /\ queue' = Tail(queue) /\ current' = Head(queue)
  BY DEF TypeOK, Receive
<1> QED BY <1>1, HeadTailProperties, EmptySeq, LenProperties

LEMMA ProcessEffect ==
  ASSUME TypeOK, FlightOK, Process
  PROVE  /\ handled' \in Seq(1..MaxUpdates)
         /\ Len(handled') = Len(handled) + 1
         /\ handled'[Len(handled) + 1] = current
         /\ \A i \in 1..Len(handled) : handled'[i] = handled[i]
<1>1. current \in 1..MaxUpdates /\ handled' = Append(handled, current)
  BY DEF TypeOK, FlightOK, Process
<1> QED BY <1>1, AppendProperties DEF TypeOK

LEMMA Lengths ==
  ASSUME TypeOK
  PROVE  Len(queue) \in Nat /\ Len(handled) \in Nat
  BY LenProperties DEF TypeOK

\* The steps that touch neither sequence, nor what is in flight.
Quiet == UNCHANGED <<queue, current, produced, handled>>

\* The metrics calls of the loop: each passes the update on to the next await.
Metric == CountReceived \/ RecordNanoseconds \/ RecordMilliseconds \/ CountResult \/ CountProcessed

LEMMA QuietSteps ==
  ASSUME Next
  PROVE  \/ Quiet
         \/ \E d \in Sources : Send(d)
         \/ Receive \/ Process
  BY DEF Next, Run, Quiet, SourceReturns, CancelToken, Cancelled, CtrlC, Closed, Drop,
     CountReceived, RecordNanoseconds, RecordMilliseconds, CountResult, CountProcessed

\* Where the steps that are neither of the above nor metrics calls lead.
LEMMA OtherSteps ==
  ASSUME Next, ~Receive, ~Process, ~Metric
  PROVE  /\ UNCHANGED <<handled, current, counters>>
         /\ pc' = pc \/ (pc = "select" /\ pc' = "ok") \/ (pc \notin Ended /\ pc' = "dropped")
  BY DEF Next, Run, Metric, Send, SourceReturns, CancelToken, Cancelled, CtrlC, Closed, Drop

LEMMA IncrementEffect ==
  ASSUME TypeOK, NEW c \in Counters, Increment(c)
  PROVE  /\ counters' \in [Counters -> Nat]
         /\ counters'[c] = counters[c] + 1
         /\ \A d \in Counters \ {c} : counters'[d] = counters[d]
  BY DEF TypeOK, Increment

-----------------------------------------------------------------------------

LEMMA TypeInit == Init => TypeOK
<1> SUFFICES ASSUME Init PROVE TypeOK
  OBVIOUS
<1>1. /\ queue \in Seq(1..MaxUpdates) /\ Len(queue) = 0
      /\ handled \in Seq(1..MaxUpdates) /\ Len(handled) = 0
  BY EmptySeq DEF Init
<1>2. token \in BOOLEAN
  BY DEF Init
<1>3. pc = "select" /\ current = 0 /\ produced = 0
  BY DEF Init
<1>4. source \in [Sources -> {"running", "returned"}] /\ counters \in [Counters -> Nat]
  BY DEF Init
<1> QED BY <1>1, <1>2, <1>3, <1>4 DEF TypeOK, Ended

LEMMA TypeStep ==
  ASSUME TypeOK, FlightOK, [Next]_vars
  PROVE  TypeOK'
<1> USE DEF Ended, OnTheWay
<1>1. CASE UNCHANGED vars
  BY <1>1 DEF TypeOK, vars
<1>2. ASSUME NEW d \in Sources, Send(d) PROVE TypeOK'
  <2>1. UNCHANGED <<pc, source, token, current, counters, handled>>
    BY <1>2 DEF Send
  <2>2. Len(queue') <= Capacity /\ produced' \in 0..MaxUpdates
    BY <1>2, SendEffect, Lengths DEF TypeOK, Send
  <2> QED BY <1>2, <2>1, <2>2, SendEffect DEF TypeOK
<1>3. ASSUME NEW d \in Sources, SourceReturns(d) PROVE TypeOK'
  BY <1>3 DEF TypeOK, SourceReturns
<1>4. CASE CancelToken
  BY <1>4 DEF TypeOK, CancelToken
<1>5. CASE CtrlC
  BY <1>5 DEF TypeOK, CtrlC
<1>6. CASE Receive
  <2>1. UNCHANGED <<source, token, counters, produced, handled>> /\ pc' = "received"
    BY <1>6 DEF Receive
  <2>2. Len(queue') <= Capacity
    BY <1>6, ReceiveEffect DEF TypeOK
  <2> QED BY <1>6, <2>1, <2>2, ReceiveEffect DEF TypeOK
<1>7. CASE Process
  <2>1. UNCHANGED <<source, token, queue, counters, produced>> /\ pc' = "nanoseconds" /\ current' = 0
    BY <1>7 DEF Process
  <2> QED BY <1>7, <2>1, ProcessEffect DEF TypeOK
<1>8. CASE Metric
  <2>1. UNCHANGED <<source, token, queue, current, produced, handled>> /\ pc' \in {"select"} \cup OnTheWay
    BY <1>8 DEF Metric, CountReceived, RecordNanoseconds, RecordMilliseconds, CountResult, CountProcessed
  <2>2. counters' = counters \/ \E c \in Counters : Increment(c)
    BY <1>8 DEF Metric, CountReceived, RecordNanoseconds, RecordMilliseconds, CountResult,
       CountProcessed, Counters
  <2>3. counters' \in [Counters -> Nat]
    BY <2>2, IncrementEffect DEF TypeOK
  <2> QED BY <2>1, <2>3 DEF TypeOK
<1>9. CASE Cancelled \/ Closed \/ Drop
  BY <1>9 DEF TypeOK, Cancelled, Closed, Drop
<1> QED BY <1>1, <1>2, <1>3, <1>4, <1>5, <1>6, <1>7, <1>8, <1>9 DEF Next, Run, Metric

LEMMA FlightStep ==
  ASSUME TypeOK, FlightOK, [Next]_vars
  PROVE  FlightOK'
<1> USE DEF FlightOK, Ended
<1>1. CASE UNCHANGED vars
  BY <1>1 DEF vars
<1>2. CASE Receive
  BY <1>2, ReceiveEffect DEF Receive
<1>3. CASE Process
  BY <1>3 DEF Process
<1>4. CASE Metric
  BY <1>4 DEF Metric, CountReceived, RecordNanoseconds, RecordMilliseconds, CountResult, CountProcessed
<1>5. CASE Next /\ ~Receive /\ ~Process /\ ~Metric
  BY <1>5, OtherSteps
<1> QED BY <1>1, <1>2, <1>3, <1>4, <1>5

\* At every control point of a run that is not dropped the counters balance.
LEMMA BalanceFollows ==
  ASSUME TypeOK, FlightOK, CountersAt
  PROVE  CountersBalance \/ pc = "dropped"
<1>1. counters["processed"] \in Nat /\ Results \in Nat /\ Len(handled) \in Nat /\ counters["received"] \in Nat
  BY Lengths DEF TypeOK, Counters, Results
<1>2. pc \in {"received", "process"} => InFlight = 1
  BY DEF InFlight, FlightOK
<1>3. pc \notin {"received", "process", "dropped"} => InFlight = 0
  BY DEF InFlight, FlightOK
<1>4. pc \in {"select", "ok", "received", "process", "nanoseconds", "milliseconds", "result", "count", "dropped"}
  BY DEF TypeOK, OnTheWay, Ended
<1> QED BY <1>1, <1>2, <1>3, <1>4 DEF CountersBalance, CountersAt, Results

LEMMA CountersStep ==
  ASSUME TypeOK, FlightOK, CountersOK, [Next]_vars
  PROVE  CountersOK'
<1>0. /\ counters["processed"] \in Nat /\ counters["received"] \in Nat
      /\ counters["successful"] \in Nat /\ counters["failed"] \in Nat
      /\ Len(handled) \in Nat
  BY Lengths DEF TypeOK, Counters
<1>1. CASE UNCHANGED vars
  BY <1>1 DEF vars, CountersOK, CountersAt, CountersBalance, Results, InFlight
<1>2. CASE Receive
  <2>1. pc = "select" /\ pc' = "received" /\ UNCHANGED <<handled, counters>>
    BY <1>2 DEF Receive
  <2> QED BY <2>1 DEF CountersOK, CountersAt, Results
<1>3. CASE Process
  <2>1. pc = "process" /\ pc' = "nanoseconds" /\ UNCHANGED counters
    BY <1>3 DEF Process
  <2>2. Len(handled') = Len(handled) + 1
    BY <1>3, ProcessEffect
  <2> QED BY <1>0, <2>1, <2>2 DEF CountersOK, CountersAt, Results
<1>4. CASE CountReceived
  <2>1. pc = "received" /\ pc' = "process" /\ UNCHANGED handled /\ Increment("received")
    BY <1>4 DEF CountReceived
  <2>2. counters'["received"] = counters["received"] + 1 /\ Results' = Results
        /\ counters'["processed"] = counters["processed"]
    BY <2>1, IncrementEffect DEF Counters, Results
  <2> QED BY <1>0, <2>1, <2>2 DEF CountersOK, CountersAt
<1>5. CASE RecordNanoseconds \/ RecordMilliseconds
  <2>1. pc \in {"nanoseconds", "milliseconds"} /\ pc' \in {"milliseconds", "result"} /\ UNCHANGED <<handled, counters>>
    BY <1>5 DEF RecordNanoseconds, RecordMilliseconds
  <2> QED BY <2>1 DEF CountersOK, CountersAt, Results
<1>6. CASE CountResult
  <2>1. pc = "result" /\ pc' = "count" /\ UNCHANGED handled
        /\ (Increment("failed") \/ Increment("successful"))
    BY <1>6 DEF CountResult
  <2>2. counters'["received"] = counters["received"] /\ Results' = Results + 1
        /\ counters'["processed"] = counters["processed"]
    <3>1. CASE Increment("failed")
      BY <1>0, <3>1, IncrementEffect DEF Counters, Results
    <3>2. CASE Increment("successful")
      BY <1>0, <3>2, IncrementEffect DEF Counters, Results
    <3> QED BY <2>1, <3>1, <3>2
  <2> QED BY <1>0, <2>1, <2>2 DEF CountersOK, CountersAt, Results
<1>7. CASE CountProcessed
  <2>1. pc = "count" /\ pc' = "select" /\ UNCHANGED handled /\ Increment("processed")
    BY <1>7 DEF CountProcessed
  <2>2. counters'["received"] = counters["received"] /\ Results' = Results
        /\ counters'["processed"] = counters["processed"] + 1
    BY <2>1, IncrementEffect DEF Counters, Results
  <2> QED BY <1>0, <2>1, <2>2 DEF CountersOK, CountersAt
<1>8. CASE Next /\ ~Receive /\ ~Process /\ ~Metric
  <2>1. /\ UNCHANGED <<handled, current, counters>>
        /\ pc' = pc \/ (pc = "select" /\ pc' = "ok") \/ (pc \notin Ended /\ pc' = "dropped")
    BY <1>8, OtherSteps
  <2>2. CASE pc' = pc \/ (pc = "select" /\ pc' = "ok")
    BY <2>1, <2>2 DEF CountersOK, CountersAt, CountersBalance, Results, InFlight
  <2>3. CASE pc \notin Ended /\ pc' = "dropped"
    <3>1. CountersBalance
      BY <2>3, BalanceFollows DEF CountersOK, Ended
    <3> QED BY <2>1, <2>3, <3>1 DEF CountersOK, CountersAt, CountersBalance, InFlight
  <2> QED BY <2>1, <2>2, <2>3
<1> QED BY <1>1, <1>2, <1>3, <1>4, <1>5, <1>6, <1>7, <1>8 DEF Metric

LEMMA NothingLostStep ==
  ASSUME TypeOK, FlightOK, NothingLost, [Next]_vars
  PROVE  NothingLost'
<1> USE DEF NothingLost
<1>1. Len(queue) \in Nat /\ Len(handled) \in Nat /\ produced \in Nat
  BY Lengths DEF TypeOK
<1>2. InFlight \in {0, 1} /\ (current = 0 <=> InFlight = 0) /\ (current' = 0 <=> InFlight' = 0)
      /\ InFlight' \in {0, 1}
  BY DEF InFlight
<1>3. CASE UNCHANGED <<queue, current, produced, handled>>
  BY <1>1, <1>2, <1>3
<1>4. ASSUME NEW d \in Sources, Send(d) PROVE NothingLost'
  <2>1. produced' = produced + 1 /\ UNCHANGED <<current, handled>>
    BY <1>4 DEF Send
  <2>2. InFlight' = InFlight
    BY <2>1, <1>2
  <2>3. /\ Len(queue') = Len(queue) + 1
        /\ queue'[Len(queue) + 1] = produced + 1
        /\ \A i \in 1..Len(queue) : queue'[i] = queue[i]
    BY <1>4, SendEffect
  <2>4. ASSUME NEW i \in 1..Len(queue')
        PROVE  queue'[i] = Len(handled) + InFlight + i
    <3>1. i \in 1..Len(queue) \/ i = Len(queue) + 1
      BY <1>1, <2>3
    <3>2. produced = Len(handled) + InFlight + Len(queue)
      OBVIOUS
    <3>3. CASE i \in 1..Len(queue)
      <4>1. queue[i] = Len(handled) + InFlight + i
        BY <3>3
      <4> QED BY <2>3, <3>3, <4>1
    <3>4. CASE i = Len(queue) + 1
      <4>1. queue'[i] = produced + 1
        BY <2>3, <3>4
      <4>2. produced + 1 = Len(handled) + InFlight + i
        BY <1>1, <1>2, <3>2, <3>4
      <4> QED BY <4>1, <4>2
    <3> QED BY <3>1, <3>3, <3>4
  <2> QED BY <1>1, <1>2, <2>1, <2>2, <2>3, <2>4
<1>5. CASE Receive
  <2>1. current = 0 /\ UNCHANGED <<produced, handled>>
    BY <1>5 DEF Receive, FlightOK
  <2>2. InFlight = 0 /\ InFlight' = 1
    BY <1>2, <1>5, <2>1, ReceiveEffect
  <2>3. /\ Len(queue) \in Nat \ {0}
        /\ Len(queue') = Len(queue) - 1
        /\ current' = queue[1]
        /\ \A i \in 1..Len(queue') : queue'[i] = queue[i + 1]
    BY <1>5, ReceiveEffect
  <2>4. current' = Len(handled) + 1
    BY <1>1, <2>2, <2>3
  <2>5. \A i \in 1..Len(queue') : queue'[i] = Len(handled) + 1 + i
    BY <1>1, <2>2, <2>3
  <2>6. produced = Len(handled) + 1 + Len(queue')
    BY <1>1, <2>2, <2>3
  <2> QED BY <1>1, <2>1, <2>2, <2>4, <2>5, <2>6
<1>6. CASE Process
  <2>1. current # 0 /\ current' = 0 /\ UNCHANGED <<queue, produced>>
    BY <1>6 DEF Process, FlightOK
  <2>2. InFlight = 1 /\ InFlight' = 0
    BY <1>2, <2>1
  <2>3. /\ Len(handled') = Len(handled) + 1
        /\ handled'[Len(handled) + 1] = current
        /\ \A i \in 1..Len(handled) : handled'[i] = handled[i]
    BY <1>6, ProcessEffect
  <2>4. \A i \in 1..Len(handled') : handled'[i] = i
    BY <1>1, <2>1, <2>3
  <2>5. \A i \in 1..Len(queue) : queue[i] = Len(handled') + i
    BY <1>1, <2>2, <2>3
  <2>6. produced = Len(handled') + Len(queue)
    BY <1>1, <2>2, <2>3
  <2> QED BY <1>1, <2>1, <2>2, <2>4, <2>5, <2>6
<1>7. CASE Quiet \/ UNCHANGED vars
  BY <1>3, <1>7 DEF Quiet, vars
<1> QED BY <1>4, <1>5, <1>6, <1>7, QuietSteps

LEMMA DrainedStep ==
  ASSUME TypeOK, FlightOK, NothingLost, ClosedMeansDrained, [Next]_vars
  PROVE  ClosedMeansDrained'
<1> USE Lengths DEF ClosedMeansDrained
<1>1. CASE Closed
  <2>1. Len(queue) = 0
    BY <1>1, EmptySeq DEF Closed
  <2> QED BY <1>1, <2>1 DEF Closed, NothingLost, InFlight, FlightOK, TypeOK
<1>2. CASE UNCHANGED vars
  BY <1>2 DEF vars
<1>3. CASE Next /\ ~Closed
  BY <1>3 DEF Next, Run, Send, SourceReturns, CancelToken, CtrlC, Drop, Cancelled, Receive, Process,
     CountReceived, RecordNanoseconds, RecordMilliseconds, CountResult, CountProcessed, Ended
<1> QED BY <1>1, <1>2, <1>3

-----------------------------------------------------------------------------

LEMMA IInvInit == Init => IInv
<1> SUFFICES ASSUME Init PROVE IInv
  OBVIOUS
<1>1. Len(queue) = 0 /\ Len(handled) = 0
  BY EmptySeq DEF Init
<1>2. CountersOK
  BY <1>1 DEF Init, CountersOK, CountersAt, Results, Counters
<1> QED BY <1>1, <1>2, TypeInit DEF Init, IInv, FlightOK, NothingLost, ClosedMeansDrained, InFlight

LEMMA IInvStep == IInv /\ [Next]_vars => IInv'
  BY TypeStep, FlightStep, CountersStep, NothingLostStep, DrainedStep DEF IInv

THEOREM Invariance == Spec => []IInv
  BY IInvInit, IInvStep, PTL DEF Spec

THEOREM TypeCorrect == Spec => []TypeOK
<1>1. IInv => TypeOK
  BY DEF IInv
<1> QED BY <1>1, Invariance, PTL

LEMMA IInvBalances == IInv => CountersBalance
  BY BalanceFollows DEF IInv, CountersOK

\* The counters lag behind what was taken, handled and decided by at most the
\* update on its way, whichever of the loop's awaits the future is dropped at.
THEOREM CountersAgree == Spec => []CountersBalance
  BY IInvBalances, Invariance, PTL

\* Handled, in flight and queued are exactly what was sent, in order.
THEOREM ChannelIsFaithful == Spec => []NothingLost
<1>1. IInv => NothingLost
  BY DEF IInv
<1> QED BY <1>1, Invariance, PTL

\* A run that ends without being cancelled has processed everything.
THEOREM ClosedRunIsDrained == Spec => []ClosedMeansDrained
<1>1. IInv => ClosedMeansDrained
  BY DEF IInv
<1> QED BY <1>1, Invariance, PTL

-----------------------------------------------------------------------------
(* Refinement: the loop implements InOrderProcessing, with the same        *)
(* histories.  Process is its Handle, Send its Produce.                    *)

LEMMA RefinesInit == Init => InOrder!Init
  BY DEF Init, InOrder!Init

LEMMA RefinesStep == IInv /\ [Next]_vars => [InOrder!Next]_<<produced, handled>>
<1> SUFFICES ASSUME IInv, [Next]_vars PROVE [InOrder!Next]_<<produced, handled>>
  OBVIOUS
<1> USE DEF InOrder!Next, InOrder!Produce, InOrder!Handle
<1>1. CASE UNCHANGED vars \/ Quiet \/ Receive
  BY <1>1 DEF vars, Quiet, Receive
<1>2. ASSUME NEW d \in Sources, Send(d) PROVE InOrder!Produce
  BY <1>2 DEF Send
<1>3. CASE Process
  <2>1. current = Len(handled) + 1 /\ Len(handled) < produced
    BY <1>3, Lengths DEF IInv, FlightOK, NothingLost, InFlight, Process, TypeOK
  <2> QED BY <1>3, <2>1 DEF Process
<1> QED BY <1>1, <1>2, <1>3, QuietSteps

THEOREM ImplementsInOrder == Spec => RefinesInOrder
<1>1. Spec => InOrder!Init /\ [][InOrder!Next]_<<produced, handled>>
  BY RefinesInit, RefinesStep, Invariance, PTL DEF Spec
<1> QED BY <1>1 DEF RefinesInOrder, InOrder!Spec

-----------------------------------------------------------------------------
(* The daemon.  Of a run it needs only that it leaves the daemon's own     *)
(* variables alone.                                                        *)

\* The daemon's own variables.
DaemonOK ==
  /\ mode \in Modes
  /\ retryDelay \in 1..MaxDelay
  /\ handlers \in BOOLEAN
  /\ orphans \in 0..MaxOrphans
  /\ errors \in 0..MaxDelay

USE SourcesAssumption, MayFailAssumption, MaxDelayAssumption, MaxOrphansAssumption
    DEF SourcesAssumption, MayFailAssumption, MaxDelayAssumption, MaxOrphansAssumption

-----------------------------------------------------------------------------

\* The smaller of two numbers is one of them and at most both.
LEMMA Min2Bounds ==
  ASSUME NEW a \in Nat, NEW b \in Nat
  PROVE  Min2(a, b) \in Nat /\ Min2(a, b) <= a /\ Min2(a, b) <= b /\ Min2(a, b) \in {a, b}
  BY DEF Min2

\* A run leaves finitely many tasks behind.
LEMMA AbandonedCount ==
  Cardinality(Abandoned) \in Nat
<1>1. Cardinality({}) = 0 /\ IsFiniteSet({})
  BY FS_EmptySet
<1>2. IsFiniteSet({d \in Sources : source[d] = "running"})
  BY FS_Subset
<1>3. IsFiniteSet(Abandoned)
  BY <1>1, <1>2 DEF Abandoned
<1> QED BY <1>1, <1>3, FS_CardinalityType DEF Abandoned

\* What the two steps that cut a run short do to the orphans.
LEMMA OrphansOfCut ==
  ASSUME DaemonOK, Signal \/ ReturnsErr
  PROVE  orphans' \in 0..MaxOrphans
<1> DEFINE behind == Cardinality(Abandoned)
<1>1. behind \in Nat
  BY AbandonedCount
<1>2. orphans' = Min2(MaxOrphans, orphans + behind)
  BY DEF Signal, ReturnsErr
<1> HIDE DEF behind
<1>3. orphans \in Nat /\ orphans <= MaxOrphans
  BY DEF DaemonOK
<1>4. orphans' \in Nat /\ orphans' <= MaxOrphans
  BY <1>1, <1>2, <1>3, Min2Bounds
<1> QED BY <1>1, <1>2, <1>3, <1>4 DEF Min2

-----------------------------------------------------------------------------

LEMMA DaemonStart == DaemonInit => DaemonOK
<1> SUFFICES ASSUME DaemonInit PROVE DaemonOK
  OBVIOUS
<1>1. handlers \in BOOLEAN /\ mode \in Modes
  BY DEF DaemonInit, Modes
<1>2. retryDelay = 1 /\ orphans = 0 /\ errors = 0
  BY DEF DaemonInit
<1> QED BY <1>1, <1>2 DEF DaemonOK

LEMMA DaemonStep ==
  ASSUME DaemonOK, [DaemonNext]_allVars
  PROVE  DaemonOK'
<1>1. CASE Start
  BY <1>1 DEF Start, DaemonOK, Modes
<1>2. CASE RunStep
  BY <1>2 DEF RunStep, DaemonOK, daemonVars
<1>3. CASE ReturnsOk
  BY <1>3 DEF ReturnsOk, DaemonOK, Modes
<1>4. CASE Signal
  <2>1. orphans' \in 0..MaxOrphans
    BY <1>4, OrphansOfCut
  <2> QED BY <1>4, <2>1 DEF Signal, DaemonOK, Modes
<1>5. CASE SignalAtStart
  BY <1>5 DEF SignalAtStart, DaemonOK, Modes
<1>6. CASE ReturnsErr
  <2>1. orphans' \in 0..MaxOrphans
    BY <1>6, OrphansOfCut
  <2>2. retryDelay' \in 1..MaxDelay
    BY <1>6 DEF ReturnsErr, DaemonOK, Min2
  <2>3. errors' \in 0..MaxDelay
    BY <1>6 DEF ReturnsErr, DaemonOK, Min2
  <2> QED BY <1>6, <2>1, <2>2, <2>3 DEF ReturnsErr, DaemonOK, Modes
<1>7. CASE Wake
  BY <1>7 DEF Wake, DaemonOK, Modes
<1>8. CASE OrphanReturns
  BY <1>8 DEF OrphanReturns, DaemonOK
<1>9. CASE UNCHANGED allVars
  BY <1>9 DEF allVars, daemonVars, DaemonOK
<1> QED BY <1>1, <1>2, <1>3, <1>4, <1>5, <1>6, <1>7, <1>8, <1>9 DEF DaemonNext

\* The daemon's variables keep their types: the delay between two runs is never
\* longer than max_retry_delay and never zero, whatever mix of errors, signals
\* and ends of runs there is.
THEOREM DelayIsBounded == DaemonSpec => []DaemonOK
  BY DaemonStart, DaemonStep, PTL DEF DaemonSpec

-----------------------------------------------------------------------------

(* What is proved of one run holds of every run of the daemon.             *)

\* A new run starts from the initial state, and cutting a run short is Drop.
LEMMA RunStart == Start => Init'
  BY DEF Start, Init

LEMMA RunCut == Signal \/ ReturnsErr => Drop
  BY DEF Signal, ReturnsErr, Drop

LEMMA RunStays ==
  (RunStep \/ ReturnsOk \/ SignalAtStart \/ Wake \/ OrphanReturns \/ UNCHANGED allVars)
    => [Next]_vars
  BY DEF RunStep, ReturnsOk, SignalAtStart, Wake, OrphanReturns, allVars

LEMMA RunNextOrInit == [DaemonNext]_allVars => Init' \/ [Next]_vars
<1>1. Drop => Next
  BY DEF Next
<1> QED BY <1>1, RunStart, RunCut, RunStays DEF DaemonNext

\* Restarts, signals and failing metrics keep the invariant of the run: each run
\* of the daemon loop begins anew, and no step of the loop touches a run that goes on.
THEOREM RunInvariance == DaemonSpec => []IInv
<1>1. DaemonInit => Init
  BY DEF DaemonInit
<1> QED BY <1>1, IInvInit, IInvStep, RunNextOrInit, PTL DEF DaemonSpec

\* In every run of the daemon, what was handled, is in flight and is queued is
\* what its datasources sent, in order.
THEOREM RunsAreFaithful == DaemonSpec => []NothingLost
<1>1. IInv => NothingLost
  BY DEF IInv
<1> QED BY <1>1, RunInvariance, PTL

\* The counters of every run the daemon starts lag behind by one update at most,
\* wherever a signal or failing metrics cut it short.
THEOREM RunsCountRight == DaemonSpec => []CountersBalance
<1>1. IInv => CountersBalance
  BY IInvBalances
<1> QED BY <1>1, RunInvariance, PTL

-----------------------------------------------------------------------------
(* The powers of two of the back-off.  The recursive function TwoTo exists  *)
(* because each of its beginnings does, and these agree; the inductions     *)
(* are by a least counterexample.                                           *)

LEMMA LeastNumber ==
  ASSUME NEW T, T \subseteq Nat, T # {}
  PROVE  \E x \in T : \A y \in T : x <= y
<1> DEFINE R == OpToRel(<, Nat)
<1>1. PICK x \in T : \A y \in T : ~ (<<y, x>> \in R)
  <2>1. IsWellFoundedOn(R, Nat)
    BY NatLessThanWellFounded
  <2> HIDE DEF R
  <2> QED BY <2>1, WFMin
<1>2. ASSUME NEW y \in T PROVE x <= y
  <2>1. ~(<<y, x>> \in R)
    BY <1>1
  <2>2. <<y, x>> \in Nat \X Nat
    OBVIOUS
  <2>3. ~(y < x)
    BY <2>1, <2>2 DEF OpToRel
  <2> QED BY <2>3
<1> QED BY <1>2

\* g is the first powers of two.
Powers(m, g) == /\ g \in [0..m -> Nat] /\ g[0] = 1
                /\ \A i \in 1..m : g[i] = 2 * g[i - 1]

LEMMA PowersExist == \A m \in Nat : \E g : Powers(m, g)
<1> DEFINE T == {m \in Nat : ~\E g : Powers(m, g)}
<1> SUFFICES ASSUME T # {} PROVE FALSE
  OBVIOUS
<1>1. PICK m \in T : \A y \in T : m <= y
  <2>1. T \subseteq Nat
    OBVIOUS
  <2> HIDE DEF T
  <2> QED BY <2>1, LeastNumber
<1>2. CASE m = 0
  <2>1. PICK g : g = [i \in 0..0 |-> 1]
    OBVIOUS
  <2>2. Powers(0, g)
    BY <2>1 DEF Powers
  <2> QED BY <1>2, <2>2
<1>3. CASE m # 0
  <2>1. m \in Nat /\ m - 1 \in Nat
    BY <1>3
  <2>2. m - 1 \notin T
    BY <1>1, <2>1
  <2>3. PICK g : Powers(m - 1, g)
    BY <2>1, <2>2
  <2>4. PICK h : h = [i \in 0..m |-> IF i = m THEN 2 * g[m - 1] ELSE g[i]]
    OBVIOUS
  <2>5. /\ g \in [0..(m - 1) -> Nat] /\ g[0] = 1
        /\ \A i \in 1..(m - 1) : g[i] = 2 * g[i - 1]
    BY <2>3 DEF Powers
  <2>6. h \in [0..m -> Nat]
    <3>1. g[m - 1] \in Nat
      BY <2>1, <2>5
    <3>2. ASSUME NEW i \in 0..m PROVE (IF i = m THEN 2 * g[m - 1] ELSE g[i]) \in Nat
      BY <2>1, <2>5, <3>1
    <3> QED BY <2>4, <3>2
  <2>7. h[0] = 1
    BY <2>1, <1>3, <2>4, <2>5
  <2>8. ASSUME NEW i \in 1..m PROVE h[i] = 2 * h[i - 1]
    <3>1. i \in 0..m /\ i - 1 \in 0..m /\ i - 1 # m
      BY <2>1
    <3>2. h[i - 1] = g[i - 1]
      BY <2>4, <3>1
    <3>3. CASE i = m
      BY <2>4, <3>1, <3>2, <3>3
    <3>4. CASE i # m
      <4>1. i \in 1..(m - 1) /\ h[i] = g[i]
        BY <2>1, <2>4, <3>1, <3>4
      <4> QED BY <2>5, <3>2, <4>1
    <3> QED BY <3>3, <3>4
  <2>9. Powers(m, h)
    BY <2>6, <2>7, <2>8 DEF Powers
  <2> QED BY <2>9
<1> QED BY <1>2, <1>3

LEMMA PowersAgree ==
  ASSUME NEW m \in Nat, NEW f, NEW g, Powers(m, f), Powers(m + 1, g)
  PROVE  \A i \in 0..m : f[i] = g[i]
<1> DEFINE T == {i \in 0..m : f[i] # g[i]}
<1> SUFFICES ASSUME T # {} PROVE FALSE
  OBVIOUS
<1>1. PICK i \in T : \A y \in T : i <= y
  <2>1. T \subseteq Nat
    OBVIOUS
  <2> HIDE DEF T
  <2> QED BY <2>1, LeastNumber
<1>2. i # 0
  BY DEF Powers
<1>3. i \in 1..m /\ i \in 1..(m + 1) /\ i - 1 \in 0..m /\ i - 1 \notin T
  BY <1>1, <1>2
<1>4. f[i - 1] = g[i - 1]
  BY <1>3
<1> QED BY <1>1, <1>3, <1>4 DEF Powers

LEMMA TwoToDef == 
  TwoTo = [k \in Nat |-> IF k = 0 THEN 1 ELSE 2 * TwoTo[k - 1]]
<1>1. PICK F : F = [m \in Nat |-> CHOOSE g : Powers(m, g)]
  OBVIOUS
<1>2. ASSUME NEW m \in Nat PROVE Powers(m, F[m])
  BY <1>1, PowersExist
<1>3. PICK f : f = [m \in Nat |-> F[m][m]]
  OBVIOUS
<1>4. ASSUME NEW k \in Nat PROVE f[k] = IF k = 0 THEN 1 ELSE 2 * f[k - 1]
  <2>1. CASE k = 0
    BY <1>2, <1>3, <2>1 DEF Powers
  <2>2. CASE k # 0
    <3>1. k - 1 \in Nat /\ (k - 1) + 1 = k /\ k \in 1..k /\ k - 1 \in 0..(k - 1)
      BY <2>2
    <3>2. Powers(k, F[k]) /\ Powers(k - 1, F[k - 1])
      BY <1>2, <3>1
    <3>3. F[k][k] = 2 * F[k][k - 1]
      BY <3>1, <3>2 DEF Powers
    <3>4. PICK p, q : p = F[k - 1] /\ q = F[k]
      OBVIOUS
    <3>5. Powers(k - 1, p) /\ Powers((k - 1) + 1, q)
      BY <3>1, <3>2, <3>4
    <3>6. p[k - 1] = q[k - 1]
      BY <3>1, <3>5, PowersAgree
    <3>7. f[k] = F[k][k] /\ f[k - 1] = F[k - 1][k - 1]
      BY <1>3, <3>1
    <3> QED BY <2>2, <3>3, <3>4, <3>6, <3>7
  <2> QED BY <2>1, <2>2
<1>5. f = [k \in Nat |-> IF k = 0 THEN 1 ELSE 2 * f[k - 1]]
  BY <1>3, <1>4
<1> QED BY <1>5 DEF TwoTo
LEMMA TwoToStep ==
  /\ TwoTo[0] = 1
  /\ \A k \in Nat : TwoTo[k + 1] = 2 * TwoTo[k]
<1>1. ASSUME NEW k \in Nat PROVE TwoTo[k] = IF k = 0 THEN 1 ELSE 2 * TwoTo[k - 1]
  <2>1. PICK f : f = TwoTo
    OBVIOUS
  <2>2. f = [i \in Nat |-> IF i = 0 THEN 1 ELSE 2 * f[i - 1]]
    BY <2>1, TwoToDef
  <2>3. f[k] = IF k = 0 THEN 1 ELSE 2 * f[k - 1]
    BY <2>2
  <2> QED BY <2>1, <2>3
<1>2. ASSUME NEW k \in Nat PROVE TwoTo[k + 1] = 2 * TwoTo[k]
  <2>1. k + 1 \in Nat /\ k + 1 # 0 /\ (k + 1) - 1 = k
    OBVIOUS
  <2> QED BY <1>1, <2>1
<1> QED BY <1>1, <1>2

\* Doubling overtakes counting.
LEMMA TwoToGrows == \A k \in Nat : TwoTo[k] \in Nat /\ TwoTo[k] > k
<1> DEFINE T == {k \in Nat : ~(TwoTo[k] \in Nat /\ TwoTo[k] > k)}
<1> SUFFICES ASSUME T # {} PROVE FALSE
  OBVIOUS
<1>1. PICK k \in T : \A y \in T : k <= y
  <2>1. T \subseteq Nat
    OBVIOUS
  <2> HIDE DEF T
  <2> QED BY <2>1, LeastNumber
<1>2. k \in Nat /\ k # 0
  BY TwoToStep
<1>3. k - 1 \in Nat /\ k - 1 \notin T /\ (k - 1) + 1 = k
  BY <1>1, <1>2
<1>4. TwoTo[k - 1] \in Nat /\ TwoTo[k - 1] > k - 1 /\ TwoTo[k] = 2 * TwoTo[k - 1]
  BY <1>3, TwoToStep
<1> QED BY <1>1, <1>2, <1>4

LEMMA DoubledDelay ==
  ASSUME NEW e \in 0..MaxDelay
  PROVE  Min2(2 * Min2(TwoTo[e], MaxDelay), MaxDelay) = Min2(TwoTo[Min2(MaxDelay, e + 1)], MaxDelay)
<1> DEFINE p == TwoTo[e]
<1>1. e \in Nat /\ p \in Nat /\ p > e /\ TwoTo[e + 1] = 2 * p
  BY TwoToGrows, TwoToStep
<1>2. MaxDelay \in Nat
  OBVIOUS
<1>3. CASE e < MaxDelay
  <2>1. Min2(MaxDelay, e + 1) = e + 1
    BY <1>1, <1>2, <1>3 DEF Min2
  <2> HIDE DEF p
  <2>2. Min2(2 * Min2(p, MaxDelay), MaxDelay) = Min2(2 * p, MaxDelay)
    BY <1>1, <1>2 DEF Min2
  <2> QED BY <1>1, <2>1, <2>2 DEF p
<1>4. CASE e = MaxDelay
  <2>1. Min2(MaxDelay, e + 1) = e
    BY <1>1, <1>2, <1>4 DEF Min2
  <2> HIDE DEF p
  <2>2. Min2(2 * Min2(p, MaxDelay), MaxDelay) = Min2(p, MaxDelay)
    BY <1>1, <1>2, <1>4 DEF Min2
  <2> QED BY <2>1, <2>2 DEF p
<1> QED BY <1>1, <1>2, <1>3, <1>4

\* The equation itself.
DelayDoubles == retryDelay = Min2(TwoTo[errors], MaxDelay)

LEMMA BackoffStart == DaemonInit => DelayDoubles
<1> SUFFICES ASSUME DaemonInit PROVE DelayDoubles
  OBVIOUS
<1>1. retryDelay = 1 /\ TwoTo[errors] = 1
  BY TwoToStep DEF DaemonInit
<1> QED BY <1>1 DEF DelayDoubles, Min2

LEMMA BackoffStep ==
  ASSUME DaemonOK, DelayDoubles, [DaemonNext]_allVars
  PROVE  DelayDoubles'
<1>1. errors \in 0..MaxDelay /\ retryDelay = Min2(TwoTo[errors], MaxDelay)
  BY DEF DaemonOK, DelayDoubles
<1>2. CASE ReturnsErr
  <2>1. retryDelay' = Min2(2 * retryDelay, MaxDelay) /\ errors' = Min2(MaxDelay, errors + 1)
    BY <1>2 DEF ReturnsErr
  <2> QED BY <1>1, <2>1, DoubledDelay DEF DelayDoubles
<1>3. CASE ReturnsOk \/ Signal
  <2>1. retryDelay' = 1 /\ errors' = 0
    BY <1>3 DEF ReturnsOk, Signal
  <2>2. TwoTo[0] = 1
    BY TwoToStep
  <2>3. retryDelay' = Min2(TwoTo[errors'], MaxDelay)
    BY <2>1, <2>2 DEF Min2
  <2> QED BY <2>3 DEF DelayDoubles
<1>4. CASE Start \/ RunStep \/ SignalAtStart \/ Wake \/ OrphanReturns \/ UNCHANGED allVars
  <2>1. retryDelay' = retryDelay /\ errors' = errors
    BY <1>4 DEF Start, RunStep, SignalAtStart, Wake, OrphanReturns, allVars, daemonVars
  <2> QED BY <1>1, <2>1 DEF DelayDoubles
<1> QED BY <1>2, <1>3, <1>4 DEF DaemonNext

\* After any mix of failures, good ends and signals, the delay before the next
\* retry is two to the number of failures since a run last ended well, limited
\* by max_retry_delay (main.rs run_daemon_loop).
THEOREM BackoffIsExponential == DaemonSpec => []BackoffMatches
<1>1. DaemonSpec => []DelayDoubles
  BY BackoffStart, BackoffStep, DelayIsBounded, PTL DEF DaemonSpec
<1>2. IInv /\ DaemonOK /\ DelayDoubles => BackoffMatches
  BY DEF IInv, DaemonOK, DelayDoubles, BackoffMatches, DaemonTypeOK
<1> QED BY <1>1, <1>2, DelayIsBounded, RunInvariance, PTL

-----------------------------------------------------------------------------
(* A run with its metrics and the two datasources of accounts.             *)

LEMMA SourcesStep == [SourcesNext]_mainVars => [Next]_vars
<1> SUFFICES ASSUME [SourcesNext]_mainVars PROVE [Next]_vars
  OBVIOUS
<1>1. Subscriber \in Sources /\ Backfill \in Sources
  BY TasksAssumption DEF TasksAssumption
<1>2. CASE Confirm \/ UNCHANGED mainVars
  BY <1>2 DEF Confirm, mainVars
<1>3. CASE SubscriberStep
  <2>1. UNCHANGED vars \/ Send(Subscriber) \/ SourceReturns(Subscriber)
    BY <1>3 DEF SubscriberStep, CheckToken, SubscriberCancelled, SubscriberReturns, Connect,
         ConnectFails, Subscribe, SubscribeFails, Retry, Notified, SendEvent, Put, Resubscribe, PauseEnds
  <2> QED BY <1>1, <2>1 DEF Next
<1>4. CASE BackfillStep
  <2>1. UNCHANGED vars \/ Send(Backfill) \/ SourceReturns(Backfill)
    BY <1>4 DEF BackfillStep, Request, SendAccount, Put, BackfillReturns
  <2> QED BY <1>1, <2>1 DEF Next
<1>5. CASE RunOfSources
  BY <1>5 DEF RunOfSources, MeteredRun, Loop, MeteredCtrlC, ShowMetrics, ClearMetrics, Next, Run
<1> QED BY <1>2, <1>3, <1>4, <1>5 DEF SourcesNext

\* The metrics and the two datasources add nothing to what a run may do: what
\* is proved of Spec holds with them.
THEOREM SourcesRefineRun == SourcesSpec => Spec
<1>1. SourcesInit => Init
  BY DEF SourcesInit
<1> QED BY <1>1, SourcesStep, PTL DEF SourcesSpec, Spec

LEMMA HandledGrows ==
  ASSUME TypeOK, Process
  PROVE  Len(handled) \in Nat /\ Len(handled') = Len(handled) + 1
<1>1. handled \in Seq(1..MaxUpdates)
  BY DEF TypeOK
<1> QED BY <1>1, AppendProperties, LenProperties DEF Process

\* Which histogram already has the time of the last update, by control point; of
\* a dropped run only SamplesAreShown is left.
SamplesAt ==
  /\ pc \in {"select", "received", "process", "result", "count", "ok"} =>
       Nanos = Len(handled) /\ Millis = Len(handled)
  /\ pc = "nanoseconds" => Nanos + 1 = Len(handled) /\ Millis + 1 = Len(handled)
  /\ pc = "milliseconds" => Nanos = Len(handled) /\ Millis + 1 = Len(handled)

\* A flush is in progress only where the loop waits for it.
MetricsInv ==
  /\ MetricsOK
  /\ SamplesAt
  /\ SamplesAreShown
  /\ flush = "clear" => pc \in {"select", "dropped"}

LEMMA SamplesType ==
  ASSUME MetricsOK
  PROVE  /\ samples.nanos \in Nat /\ samples.millis \in Nat
         /\ shown.nanos \in Nat /\ shown.millis \in Nat
         /\ Waiting.nanos \in Nat /\ Waiting.millis \in Nat
         /\ Nanos \in Nat /\ Millis \in Nat
<1>1. /\ samples.nanos \in Nat /\ samples.millis \in Nat
      /\ shown.nanos \in Nat /\ shown.millis \in Nat
  BY DEF MetricsOK
<1>2. Waiting.nanos \in Nat /\ Waiting.millis \in Nat
  BY <1>1 DEF Waiting, NoSamples
<1> QED BY <1>1, <1>2 DEF Nanos, Millis

\* What is not dropped has its samples where SamplesAt says.
LEMMA ShownFollows ==
  ASSUME TypeOK, MetricsOK, SamplesAt
  PROVE  SamplesAreShown \/ pc = "dropped"
<1>1. Nanos \in Nat /\ Millis \in Nat /\ Len(handled) \in Nat
  BY SamplesType, Lengths
<1>2. pc \in {"select", "ok", "received", "process", "nanoseconds", "milliseconds", "result", "count", "dropped"}
  BY DEF TypeOK, OnTheWay, Ended
<1> QED BY <1>1, <1>2 DEF SamplesAreShown, SamplesAt

LEMMA MetricsStart == SourcesInit => MetricsInv
<1> SUFFICES ASSUME SourcesInit PROVE MetricsInv
  OBVIOUS
<1>1. Len(handled) = 0 /\ pc = "select"
  BY EmptySeq DEF SourcesInit, Init
<1>2. /\ samples = [nanos |-> 0, millis |-> 0, sources |-> FALSE] /\ flush = "idle"
      /\ shown = [nanos |-> 0, millis |-> 0]
  BY DEF SourcesInit, MetricsInit, NoSamples, NoneShown
<1>3. Nanos = 0 /\ Millis = 0
  BY <1>2 DEF Nanos, Millis, Waiting
<1> QED BY <1>1, <1>2, <1>3 DEF MetricsInv, MetricsOK, SamplesAt, SamplesAreShown

\* Steps that leave the two counts of samples where they are.
LEMMA MetricsKept ==
  ASSUME TypeOK, MetricsInv, MetricsOK', UNCHANGED <<Nanos, Millis, handled>>,
         flush' = "clear" => pc' \in {"select", "dropped"},
         \/ pc' = pc \/ pc' = "dropped"
         \/ {pc, pc'} \subseteq {"select", "received", "process", "result", "count", "ok"}
  PROVE  MetricsInv'
<1>1. Nanos \in Nat /\ Millis \in Nat /\ Len(handled) \in Nat
  BY SamplesType, Lengths DEF MetricsInv
<1>2. SamplesAt'
  BY DEF MetricsInv, SamplesAt
<1>3. SamplesAreShown'
  BY <1>1 DEF MetricsInv, SamplesAreShown, SamplesAt
<1> QED BY <1>2, <1>3 DEF MetricsInv

\* Those that touch no metrics but perhaps the samples of the datasources.
LEMMA MetricsUntouched ==
  ASSUME TypeOK, MetricsInv, UNCHANGED <<flush, shown, handled>>,
         samples' = samples \/ samples' = SourceSample,
         \/ pc' = pc \/ (pc \notin Ended /\ pc' = "dropped")
         \/ flush = "idle" /\ {pc, pc'} \subseteq {"select", "received", "process", "result", "count", "ok"}
  PROVE  MetricsInv'
<1>1. /\ samples' \in [nanos : Nat, millis : Nat, sources : BOOLEAN]
      /\ samples'.nanos = samples.nanos /\ samples'.millis = samples.millis
  BY DEF MetricsInv, MetricsOK, SourceSample
<1>2. MetricsOK'
  BY <1>1 DEF MetricsInv, MetricsOK
<1>3. UNCHANGED <<Nanos, Millis>>
  BY <1>1 DEF Nanos, Millis, Waiting
<1>4. flush' = "clear" => pc' \in {"select", "dropped"}
  BY DEF MetricsInv
<1> QED BY <1>2, <1>3, <1>4, MetricsKept

\* Showing what waits, and emptying what was shown, moves no sample in or out.
LEMMA FlushKeeps ==
  ASSUME MetricsOK,
         \/ flush = "idle" /\ flush' = "clear" /\ shown' = ShownNow /\ samples' = samples
         \/ flush = "clear" /\ flush' = "idle" /\ shown' = shown /\ samples' = NoSamples
         \/ flush = "idle" /\ LastFlush
  PROVE  MetricsOK' /\ UNCHANGED <<Nanos, Millis>>
<1>1. /\ samples.nanos \in Nat /\ samples.millis \in Nat
      /\ shown.nanos \in Nat /\ shown.millis \in Nat
  BY SamplesType
<1>2. NoSamples \in [nanos : Nat, millis : Nat, sources : BOOLEAN] /\ NoSamples.nanos = 0 /\ NoSamples.millis = 0
  BY DEF NoSamples
<1>3. /\ ShownNow \in [nanos : Nat, millis : Nat]
      /\ ShownNow.nanos = shown.nanos + samples.nanos /\ ShownNow.millis = shown.millis + samples.millis
  BY <1>1 DEF ShownNow
<1>4. MetricsOK'
  BY <1>2, <1>3 DEF MetricsOK, LastFlush
<1>5. UNCHANGED <<Nanos, Millis>>
  BY <1>1, <1>2, <1>3 DEF Nanos, Millis, Waiting, LastFlush
<1> QED BY <1>4, <1>5

LEMMA MetricsStep ==
  ASSUME TypeOK, MetricsInv, [SourcesNext]_mainVars
  PROVE  MetricsInv'
<1>0. /\ MetricsOK /\ samples \in [nanos : Nat, millis : Nat, sources : BOOLEAN]
      /\ samples.nanos \in Nat /\ samples.millis \in Nat
      /\ shown.nanos \in Nat /\ shown.millis \in Nat
      /\ Len(handled) \in Nat
  BY SamplesType, Lengths DEF MetricsInv, MetricsOK
<1>1. CASE Confirm \/ UNCHANGED mainVars
  <2>1. UNCHANGED <<samples, flush, shown, handled, pc>>
    BY <1>1 DEF Confirm, mainVars, vars, metricsVars
  <2> QED BY <2>1, MetricsUntouched
<1>2. CASE Notified
  <2>1. UNCHANGED <<flush, shown, handled, pc>> /\ (samples' = samples \/ samples' = SourceSample)
    BY <1>2 DEF Notified, vars
  <2> QED BY <2>1, MetricsUntouched
<1>3. CASE SubscriberStep /\ ~Notified
  <2>1. UNCHANGED <<samples, flush, shown, handled, pc>>
    BY <1>3 DEF SubscriberStep, CheckToken, SubscriberCancelled, SubscriberReturns, Connect,
         ConnectFails, Subscribe, SubscribeFails, Retry, SendEvent, Put, Resubscribe, PauseEnds,
         Send, SourceReturns, vars, metricsVars
  <2> QED BY <2>1, MetricsUntouched
<1>4. CASE BackfillStep
  <2>1. UNCHANGED <<samples, flush, shown, handled, pc>>
    BY <1>4 DEF BackfillStep, Request, SendAccount, Put, BackfillReturns, Send, SourceReturns,
         vars, metricsVars
  <2> QED BY <2>1, MetricsUntouched
<1>5. CASE (CancelToken \/ Drop) /\ UNCHANGED metricsVars
  <2>1. UNCHANGED <<samples, flush, shown, handled>> /\ (pc' = pc \/ (pc \notin Ended /\ pc' = "dropped"))
    BY <1>5 DEF CancelToken, Drop, metricsVars
  <2> QED BY <2>1, MetricsUntouched
<1>6. CASE ShowMetrics \/ ClearMetrics
  <2>1. /\ pc = "select" /\ UNCHANGED <<pc, handled>>
        /\ \/ flush = "idle" /\ flush' = "clear" /\ shown' = ShownNow /\ samples' = samples
           \/ flush = "clear" /\ flush' = "idle" /\ shown' = shown /\ samples' = NoSamples
    BY <1>6 DEF ShowMetrics, ClearMetrics, vars
  <2> QED BY <1>0, <2>1, FlushKeeps, MetricsKept
<1>7. CASE flush = "idle" /\ Process /\ UNCHANGED metricsVars
  <2>1. Len(handled') = Len(handled) + 1 /\ pc = "process" /\ pc' = "nanoseconds"
    BY <1>7, HandledGrows DEF Process
  <2>2. UNCHANGED <<samples, flush, shown>>
    BY <1>7 DEF metricsVars
  <2>3. MetricsOK' /\ UNCHANGED <<Nanos, Millis>>
    BY <1>0, <2>2 DEF MetricsOK, Nanos, Millis, Waiting
  <2>4. Nanos = Len(handled) /\ Millis = Len(handled)
    BY <2>1 DEF MetricsInv, SamplesAt
  <2> QED BY <1>0, <1>7, <2>1, <2>2, <2>3, <2>4 DEF MetricsInv, SamplesAt, SamplesAreShown
<1>8. CASE flush = "idle" /\ RecordNanoseconds /\ samples' = NanosSample /\ UNCHANGED <<flush, shown>>
  <2>1. pc = "nanoseconds" /\ pc' = "milliseconds" /\ handled' = handled
    BY <1>8 DEF RecordNanoseconds
  <2>2. /\ samples' \in [nanos : Nat, millis : Nat, sources : BOOLEAN]
        /\ samples'.nanos = samples.nanos + 1 /\ samples'.millis = samples.millis
    BY <1>0, <1>8 DEF NanosSample
  <2>3. MetricsOK' /\ Nanos' = Nanos + 1 /\ Millis' = Millis
    BY <1>0, <1>8, <2>2 DEF MetricsOK, Nanos, Millis, Waiting
  <2>4. Nanos + 1 = Len(handled) /\ Millis + 1 = Len(handled) /\ Nanos \in Nat /\ Millis \in Nat
    BY <1>0, <2>1, SamplesType DEF MetricsInv, SamplesAt
  <2> QED BY <1>0, <1>8, <2>1, <2>3, <2>4 DEF MetricsInv, SamplesAt, SamplesAreShown
<1>9. CASE flush = "idle" /\ RecordMilliseconds /\ samples' = MillisSample /\ UNCHANGED <<flush, shown>>
  <2>1. pc = "milliseconds" /\ pc' = "result" /\ handled' = handled
    BY <1>9 DEF RecordMilliseconds
  <2>2. /\ samples' \in [nanos : Nat, millis : Nat, sources : BOOLEAN]
        /\ samples'.nanos = samples.nanos /\ samples'.millis = samples.millis + 1
    BY <1>0, <1>9 DEF MillisSample
  <2>3. MetricsOK' /\ Nanos' = Nanos /\ Millis' = Millis + 1
    BY <1>0, <1>9, <2>2 DEF MetricsOK, Nanos, Millis, Waiting
  <2>4. Nanos = Len(handled) /\ Millis + 1 = Len(handled) /\ Nanos \in Nat /\ Millis \in Nat
    BY <1>0, <2>1, SamplesType DEF MetricsInv, SamplesAt
  <2> QED BY <1>0, <1>9, <2>1, <2>3, <2>4 DEF MetricsInv, SamplesAt, SamplesAreShown
<1>10. CASE flush = "idle" /\ (Receive \/ CountReceived \/ CountResult \/ CountProcessed \/ CtrlC)
            /\ UNCHANGED metricsVars
  <2>1. /\ UNCHANGED <<samples, flush, shown, handled>>
        /\ {pc, pc'} \subseteq {"select", "received", "process", "result", "count", "ok"}
    BY <1>10 DEF Receive, CountReceived, CountResult, CountProcessed, CtrlC, metricsVars
  <2> QED BY <1>10, <2>1, MetricsUntouched
<1>11. CASE flush = "idle" /\ (Cancelled \/ Closed \/ CtrlC) /\ LastFlush
  <2>1. /\ handled' = handled /\ flush' = "idle"
        /\ {pc, pc'} \subseteq {"select", "received", "process", "result", "count", "ok"}
    BY <1>11 DEF Cancelled, Closed, CtrlC, LastFlush
  <2> QED BY <1>0, <1>11, <2>1, FlushKeeps, MetricsKept
<1>12. CASE RunOfSources
  BY <1>5, <1>6, <1>7, <1>8, <1>9, <1>10, <1>11, <1>12 DEF RunOfSources, MeteredRun, Loop, MeteredCtrlC
<1> QED BY <1>1, <1>2, <1>3, <1>4, <1>12 DEF SourcesNext

\* Every processing time of the loop is in exactly one report or waits for the
\* next in both histograms, although the datasources record into them while they
\* are shown and emptied (log-metrics lib.rs flush); at most the time of the last
\* update is missing, between process and the two records after it
\* (pipeline.rs run).
THEOREM EverySampleIsShown == SourcesSpec => []SamplesAreShown
<1>1. SourcesSpec => []TypeOK
  BY SourcesRefineRun, TypeCorrect, PTL
<1>2. TypeOK /\ MetricsInv /\ [SourcesNext]_mainVars => MetricsInv'
  BY MetricsStep
<1>3. MetricsInv => SamplesAreShown
  BY DEF MetricsInv
<1> QED BY <1>1, <1>2, <1>3, MetricsStart, PTL DEF SourcesSpec

-----------------------------------------------------------------------------
(* What the updates claim.                                                 *)

\* The backfill reads its slot before its accounts.
ClaimInv ==
  /\ SourcesOK
  /\ event <= head /\ tag <= head /\ state <= head
  /\ back = "slot" => left = 0
  /\ back = "send" => tag <= state
  /\ TagsNeverAhead

LEMMA ClaimStart == SourcesInit => ClaimInv
<1> USE ChainAssumption, AttemptsAssumption DEF ChainAssumption, AttemptsAssumption
<1> SUFFICES ASSUME SourcesInit PROVE ClaimInv
  OBVIOUS
<1>1. SourcesOK
  BY DEF SourcesInit, SourcesOK
<1> QED BY <1>1 DEF SourcesInit, ClaimInv, TagsNeverAhead

LEMMA ClaimStep ==
  ASSUME ClaimInv, [SourcesNext]_mainVars
  PROVE  ClaimInv'
<1> USE ChainAssumption, AttemptsAssumption DEF ChainAssumption, AttemptsAssumption
<1>0. SourcesOK /\ event <= head /\ tag <= head /\ state <= head
  BY DEF ClaimInv
<1>1. CASE UNCHANGED mainVars \/ RunOfSources
  <2>1. UNCHANGED sourceVars
    BY <1>1 DEF RunOfSources, mainVars
  <2> QED BY <2>1 DEF ClaimInv, SourcesOK, TagsNeverAhead, sourceVars
<1>2. CASE Confirm
  <2>1. /\ head' = head + 1 /\ head < MaxSlot
        /\ UNCHANGED <<sub, attempts, event, back, tag, state, left, claims>>
    BY <1>2 DEF Confirm
  <2>2. head' \in 0..MaxSlot /\ head <= head' /\ event <= head' /\ tag <= head' /\ state <= head'
    BY <1>0, <2>1 DEF SourcesOK
  <2> QED BY <2>1, <2>2 DEF ClaimInv, SourcesOK, TagsNeverAhead
<1>3. CASE CheckToken \/ SubscriberCancelled \/ Connect \/ Resubscribe \/ PauseEnds
           \/ ConnectFails \/ SubscribeFails
  <2>1. /\ UNCHANGED <<head, event, back, tag, state, left, claims>>
        /\ sub' \in {"top", "connect", "subscribe", "stream", "send", "pause"}
    BY <1>0, <1>3 DEF CheckToken, SubscriberCancelled, SubscriberReturns, Connect, Resubscribe, PauseEnds,
            ConnectFails, SubscribeFails, Retry, backVars, SourcesOK
  <2>2. attempts' = attempts \/ (attempts' = attempts + 1 /\ attempts + 1 <= MaxAttempts)
    BY <1>0, <1>3 DEF CheckToken, SubscriberCancelled, SubscriberReturns, Connect, Resubscribe, PauseEnds,
            ConnectFails, SubscribeFails, Retry, SourcesOK
  <2>3. attempts' \in 0..MaxAttempts
    BY <1>0, <2>2 DEF SourcesOK
  <2> QED BY <2>1, <2>3 DEF ClaimInv, SourcesOK, TagsNeverAhead
<1>4. CASE Subscribe \/ Notified
  <2>1. /\ UNCHANGED <<head, back, tag, state, left, claims>>
        /\ sub' \in {"stream", "send"}
        /\ attempts' = attempts \/ attempts' = 0
        /\ event' = head \/ (event < head /\ event' = event + 1)
    BY <1>4 DEF Subscribe, Notified, backVars
  <2>2. event' \in 0..MaxSlot /\ event' <= head /\ attempts' \in 0..MaxAttempts
    BY <1>0, <2>1 DEF SourcesOK
  <2> QED BY <2>1, <2>2 DEF ClaimInv, SourcesOK, TagsNeverAhead
<1>5. CASE SendEvent
  <2>1. /\ UNCHANGED <<head, attempts, event, back, tag, state, left>> /\ sub' = "stream"
        /\ claims' = claims \union {[tag |-> event, state |-> event]}
    BY <1>5 DEF SendEvent, Put, backVars
  <2>2. event \in 0..MaxSlot
    BY <1>0 DEF SourcesOK
  <2>3. SourcesOK'
    BY <1>0, <2>1, <2>2 DEF SourcesOK
  <2>4. TagsNeverAhead'
    BY <2>1, <2>2 DEF ClaimInv, TagsNeverAhead
  <2> QED BY <2>1, <2>3, <2>4 DEF ClaimInv
<1>6. CASE Request
  <2>1. UNCHANGED <<head, sub, attempts, event, claims>>
    BY <1>6 DEF Request
  <2>2. CASE back = "slot" /\ back' = "accounts" /\ tag' = head /\ UNCHANGED <<state, left>>
    BY <1>0, <2>1, <2>2 DEF ClaimInv, SourcesOK, TagsNeverAhead
  <2>3. CASE back = "accounts" /\ back' = "send" /\ state' = head /\ left' = Accounts /\ UNCHANGED tag
    <3>1. SourcesOK'
      BY <1>0, <2>1, <2>3 DEF SourcesOK
    <3>2. state' <= head'
      BY <1>0, <2>1, <2>3 DEF SourcesOK
    <3> QED BY <2>1, <2>3, <3>1, <3>2 DEF ClaimInv, TagsNeverAhead
  <2> QED BY <1>6, <2>2, <2>3 DEF Request
<1>7. CASE SendAccount
  <2>1. /\ UNCHANGED <<head, sub, attempts, event, back, tag, state>> /\ back = "send"
        /\ left > 0 /\ left' = left - 1
        /\ claims' = claims \/ claims' = claims \union {[tag |-> tag, state |-> state]}
    BY <1>7 DEF SendAccount, Put
  <2>2. tag \in 0..MaxSlot /\ state \in 0..MaxSlot /\ tag <= state
    BY <1>0, <2>1 DEF ClaimInv, SourcesOK
  <2>3. SourcesOK'
    BY <1>0, <2>1, <2>2 DEF SourcesOK
  <2>4. TagsNeverAhead'
    BY <2>1, <2>2 DEF ClaimInv, TagsNeverAhead
  <2> QED BY <2>1, <2>3, <2>4 DEF ClaimInv
<1>8. CASE BackfillReturns
  BY <1>8 DEF BackfillReturns, sourceVars, ClaimInv, SourcesOK, TagsNeverAhead
<1> QED BY <1>1, <1>2, <1>3, <1>4, <1>5, <1>6, <1>7, <1>8
        DEF SourcesNext, SubscriberStep, BackfillStep

\* No update of the subscription or the backfill claims a newer slot than that
\* of the state it carries, whatever is confirmed between the backfill's two
\* requests and however often the subscription is lost.
THEOREM ClaimsAreSafe == SourcesSpec => []TagsNeverAhead
<1>1. ClaimInv => TagsNeverAhead
  BY DEF ClaimInv
<1> QED BY <1>1, ClaimStart, ClaimStep, PTL DEF SourcesSpec
=============================================================================
