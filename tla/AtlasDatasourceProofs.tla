----------------------- MODULE AtlasDatasourceProofs -----------------------
(***************************************************************************)
(* Proofs about AtlasDatasource for every number of iterations, channel    *)
(* capacity, retry budget and published transactions.                      *)
(***************************************************************************)
EXTENDS AtlasDatasource, SequenceTheorems, TLAPS

\* The retry budget is not exhausted before consume gives up.
BudgetLeft == phase # "failed" => attempts < MaxAttempts

\* The inductive invariant: NoSilentGap needs the cursors in range, the type
\* of attempts needs BudgetLeft.
IInv == TypeOK /\ BudgetLeft /\ SingleActiveIteration /\ CursorInRange /\ NoSilentGap

USE MaxTxAssumption, UnusableAssumption, CapacityAssumption, MaxAttemptsAssumption
    DEF MaxTxAssumption, UnusableAssumption, CapacityAssumption, MaxAttemptsAssumption

-----------------------------------------------------------------------------
(* Type correctness is inductive together with BudgetLeft and the cursors. *)

LEMMA TypeInit == Init => TypeOK
<1> SUFFICES ASSUME Init PROVE TypeOK
  OBVIOUS
<1>1. chan \in Seq(1..MaxTx) /\ Len(chan) = 0
  BY EmptySeq DEF Init
<1>2. /\ phase = "top" /\ attempts = 0 /\ cur \in Slots
      /\ published = 0 /\ accepted = {}
      /\ iterCancel \in [Slots -> BOOLEAN] /\ handle \in [Slots -> BOOLEAN]
      /\ clock \in [Slots -> {"done"}] /\ tx \in [Slots -> {"done"}]
      /\ cursor \in [Slots -> {0}] /\ since \in [Slots -> {0}]
  BY DEF Init
<1>3. mainCancel \in BOOLEAN /\ rxOpen \in BOOLEAN
  BY DEF Init
<1> QED BY <1>1, <1>2, <1>3 DEF TypeOK, Phases, TaskStates

LEMMA ConsumeType ==
  ASSUME TypeOK, BudgetLeft, Consume
  PROVE  TypeOK'
<1> USE DEF consumeVars, clockVars, txVars, chanVars, envVars, Phases, TaskStates
<1>1. CASE CheckCancelled
  BY <1>1 DEF TypeOK, CheckCancelled
<1>2. CASE ConnectFails
  BY <1>2 DEF TypeOK, ConnectFails, BudgetLeft
<1>3. ASSUME NEW s \in Slots, Connect(s) PROVE TypeOK'
  BY <1>3 DEF TypeOK, Connect
<1>4. CASE StopIteration
  BY <1>4 DEF TypeOK, StopIteration
<1>5. CASE EndIteration
  BY <1>5 DEF TypeOK, EndIteration
<1>6. CASE Wake
  BY <1>6 DEF TypeOK, Wake
<1> QED BY <1>1, <1>2, <1>3, <1>4, <1>5, <1>6 DEF Consume

LEMMA TaskType ==
  ASSUME TypeOK, NEW s \in Slots, Supervise(s) \/ ClockTask(s) \/ TxTask(s)
  PROVE  TypeOK'
<1> USE DEF consumeVars, clockVars, txVars, chanVars, envVars, Phases, TaskStates
<1>1. CASE Supervise(s)
  BY <1>1 DEF TypeOK, Supervise
<1>2. CASE ClockTask(s)
  BY <1>2 DEF TypeOK, ClockTask, ClockSubscribes, ClockLost, ClockCancelled
<1>3. CASE TxSubscribes(s)
  BY <1>3 DEF TypeOK, TxSubscribes
<1>4. CASE TxSkip(s)
  BY <1>4 DEF TypeOK, TxSkip, HasEvent, NextTx
<1>5. CASE TxSend(s)
  <2>1. NextTx(s) \in 1..MaxTx
    BY <1>5 DEF TypeOK, TxSend, HasEvent, NextTx
  <2>2. chan' \in Seq(1..MaxTx) /\ Len(chan') = Len(chan) + 1
    BY <1>5, <2>1, AppendProperties DEF TypeOK, TxSend
  <2>3. Len(chan') <= Capacity
    BY <1>5, <2>2, LenProperties DEF TypeOK, TxSend, CanSend
  <2>4. /\ cursor' \in [Slots -> 0..MaxTx]
        /\ accepted' \subseteq 1..MaxTx
    <3>1. cursor' = [cursor EXCEPT ![s] = NextTx(s)] /\ accepted' = accepted \cup {NextTx(s)}
      BY <1>5 DEF TxSend
    <3>2. accepted' \subseteq 1..MaxTx
      BY <2>1, <3>1 DEF TypeOK
    <3> QED BY <2>1, <3>1, <3>2 DEF TypeOK
  <2>5. UNCHANGED <<consumeVars, iterCancel, handle, clockVars, tx, since, envVars>>
    BY <1>5 DEF TxSend
  <2> QED BY <2>1, <2>2, <2>3, <2>4, <2>5 DEF TypeOK
<1>6. CASE TxSubscribeFails(s) \/ TxSendFails(s) \/ TxStreamCloses(s) \/ TxCancelled(s)
  <2>1. TxEnds(s) /\ UNCHANGED <<consumeVars, iterCancel, handle, clockVars, chanVars, envVars>>
    BY <1>6 DEF TxSubscribeFails, TxSendFails, TxStreamCloses, TxCancelled
  <2> QED BY <2>1 DEF TypeOK, TxEnds
<1> QED BY <1>1, <1>2, <1>3, <1>4, <1>5, <1>6 DEF TxTask

LEMMA EnvironmentType ==
  ASSUME TypeOK, Publish \/ Receive \/ CancelSource \/ DropReceiver
  PROVE  TypeOK'
<1> USE DEF consumeVars, clockVars, txVars, chanVars, envVars
<1>1. CASE Publish
  BY <1>1 DEF TypeOK, Publish
<1>2. CASE Receive
  <2>1. chan' \in Seq(1..MaxTx) /\ Len(chan') = Len(chan) - 1
    BY <1>2, HeadTailProperties DEF TypeOK, Receive
  <2>2. Len(chan') <= Capacity
    BY <2>1, LenProperties DEF TypeOK
  <2> QED BY <1>2, <2>1, <2>2 DEF TypeOK, Receive
<1>3. CASE CancelSource
  BY <1>3 DEF TypeOK, CancelSource
<1>4. CASE DropReceiver
  <2>1. chan' \in Seq(1..MaxTx) /\ Len(chan') = 0
    BY <1>4, EmptySeq DEF DropReceiver
  <2>2. rxOpen' \in BOOLEAN
    BY <1>4 DEF DropReceiver
  <2>3. UNCHANGED <<consumeVars, iterCancel, handle, clockVars, txVars, accepted, mainCancel, published>>
    BY <1>4 DEF DropReceiver
  <2> QED BY <2>1, <2>2, <2>3 DEF TypeOK
<1> QED BY <1>1, <1>2, <1>3, <1>4

LEMMA BudgetStep ==
  ASSUME TypeOK, BudgetLeft, [Next]_vars
  PROVE  BudgetLeft'
<1> USE DEF consumeVars, BudgetLeft
<1>1. CASE ConnectFails
  BY <1>1 DEF TypeOK, ConnectFails
<1>2. CASE EndIteration
  BY <1>2 DEF EndIteration
<1>3. CASE Consume /\ ~ConnectFails /\ ~EndIteration
  BY <1>3 DEF Consume, CheckCancelled, Connect, StopIteration, Wake
<1>4. CASE ~Consume
  <2>1. UNCHANGED consumeVars
    BY <1>4 DEF Next, vars, Supervise, ClockTask, ClockSubscribes, ClockLost, ClockCancelled,
       TxTask, TxSubscribes, TxSubscribeFails, TxSkip, TxSend, TxSendFails, TxStreamCloses,
       TxCancelled, Publish, Receive, CancelSource, DropReceiver
  <2> QED BY <2>1
<1> QED BY <1>1, <1>2, <1>3, <1>4

LEMMA TypeStep ==
  ASSUME TypeOK, BudgetLeft, [Next]_vars
  PROVE  TypeOK'
<1>1. CASE UNCHANGED vars
  BY <1>1 DEF TypeOK, vars, consumeVars, clockVars, txVars, chanVars, envVars
<1>2. CASE Next
  BY <1>2, ConsumeType, TaskType, EnvironmentType DEF Next
<1> QED BY <1>1, <1>2

-----------------------------------------------------------------------------
(* Only the loop of consume makes an iteration token fresh or moves on from *)
(* an iteration, and it does so only over cancelled or finished ones.       *)

LEMMA SingleStep ==
  ASSUME TypeOK, SingleActiveIteration, [Next]_vars
  PROVE  SingleActiveIteration'
<1> USE DEF SingleActiveIteration, consumeVars
<1>1. CASE UNCHANGED vars
  BY <1>1 DEF vars
<1>2. ASSUME NEW s \in Slots, Connect(s) PROVE SingleActiveIteration'
  BY <1>2 DEF TypeOK, Connect
<1>3. CASE StopIteration
  BY <1>3 DEF TypeOK, StopIteration
<1>4. CASE CheckCancelled \/ ConnectFails \/ EndIteration \/ Wake
  BY <1>4 DEF CheckCancelled, ConnectFails, EndIteration, Wake
<1>5. ASSUME NEW s \in Slots, Supervise(s) \/ ClockLost(s) PROVE SingleActiveIteration'
  <2>1. \A r \in Slots : (handle'[r] => handle[r]) /\ (iterCancel[r] => iterCancel'[r])
    BY <1>5 DEF TypeOK, Supervise, ClockLost
  <2>2. UNCHANGED consumeVars
    BY <1>5 DEF Supervise, ClockLost
  <2> QED BY <2>1, <2>2
<1>6. ASSUME NEW s \in Slots,
             ClockSubscribes(s) \/ ClockCancelled(s) \/ TxTask(s)
      PROVE  SingleActiveIteration'
  BY <1>6 DEF ClockSubscribes, ClockCancelled, TxTask, TxSubscribes, TxSubscribeFails, TxSkip,
     TxSend, TxSendFails, TxStreamCloses, TxCancelled
<1>7. CASE Publish \/ Receive \/ CancelSource \/ DropReceiver
  BY <1>7 DEF Publish, Receive, CancelSource, DropReceiver
<1> QED BY <1>1, <1>2, <1>3, <1>4, <1>5, <1>6, <1>7 DEF Next, Consume, ClockTask

-----------------------------------------------------------------------------
(* A live subscription moves its cursor only over transactions it put into *)
(* the channel or that are unusable; every failure ends it.                *)

Gapless == CursorInRange /\ NoSilentGap

LEMMA GaplessStep ==
  ASSUME TypeOK, Gapless, [Next]_vars
  PROVE  Gapless'
<1> USE DEF Gapless, CursorInRange, NoSilentGap, txVars, chanVars
<1>1. CASE UNCHANGED vars
  BY <1>1 DEF vars, envVars
<1>2. ASSUME NEW s \in Slots, Connect(s) PROVE Gapless'
  BY <1>2 DEF TypeOK, Connect, envVars
<1>3. CASE Consume /\ ~(\E s \in Slots : Connect(s))
  BY <1>3 DEF Consume, CheckCancelled, ConnectFails, StopIteration, EndIteration, Wake, envVars
<1>4. ASSUME NEW s \in Slots, Supervise(s) \/ ClockTask(s) PROVE Gapless'
  BY <1>4 DEF Supervise, ClockTask, ClockSubscribes, ClockLost, ClockCancelled, envVars
<1>5. ASSUME NEW s \in Slots, TxSubscribes(s) PROVE Gapless'
  BY <1>5 DEF TypeOK, TxSubscribes, envVars
<1>6. ASSUME NEW s \in Slots, TxSkip(s) PROVE Gapless'
  BY <1>6 DEF TypeOK, TxSkip, HasEvent, NextTx, envVars
<1>7. ASSUME NEW s \in Slots, TxSend(s) PROVE Gapless'
  <2>1. /\ cursor' = [cursor EXCEPT ![s] = cursor[s] + 1]
        /\ accepted' = accepted \cup {cursor[s] + 1}
        /\ cursor[s] < published
        /\ UNCHANGED <<tx, since, envVars>>
    BY <1>7 DEF TxSend, HasEvent, NextTx
  <2> QED BY <2>1 DEF TypeOK, envVars
<1>8. ASSUME NEW s \in Slots,
             TxSubscribeFails(s) \/ TxSendFails(s) \/ TxStreamCloses(s) \/ TxCancelled(s)
      PROVE  Gapless'
  <2>1. TxEnds(s) /\ UNCHANGED <<chanVars, envVars>>
    BY <1>8 DEF TxSubscribeFails, TxSendFails, TxStreamCloses, TxCancelled
  <2> QED BY <2>1 DEF TypeOK, TxEnds, envVars
<1>9. CASE Publish \/ Receive \/ CancelSource \/ DropReceiver
  BY <1>9 DEF TypeOK, Publish, Receive, CancelSource, DropReceiver, envVars
<1> QED BY <1>1, <1>2, <1>3, <1>4, <1>5, <1>6, <1>7, <1>8, <1>9 DEF Next, TxTask

-----------------------------------------------------------------------------

LEMMA IInvInit == Init => IInv
<1> SUFFICES ASSUME Init PROVE IInv
  OBVIOUS
<1>1. TypeOK
  BY TypeInit
<1>2. BudgetLeft /\ SingleActiveIteration
  BY DEF Init, BudgetLeft, SingleActiveIteration
<1>3. CursorInRange /\ NoSilentGap
  BY DEF Init, CursorInRange, NoSilentGap
<1> QED BY <1>1, <1>2, <1>3 DEF IInv

LEMMA IInvStep == IInv /\ [Next]_vars => IInv'
  BY TypeStep, BudgetStep, SingleStep, GaplessStep DEF IInv, Gapless

THEOREM Invariance == Spec => []IInv
  BY IInvInit, IInvStep, PTL DEF Spec

\* Every reachable state is well typed: in particular the channel never holds
\* more than its capacity and the attempt counter stays within the budget.
THEOREM TypeCorrect == Spec => []TypeOK
<1>1. IInv => TypeOK
  BY DEF IInv
<1> QED BY <1>1, Invariance, PTL

\* At most one iteration is not cancelled, whatever old tasks still run.
THEOREM SingleIteration == Spec => []SingleActiveIteration
<1>1. IInv => SingleActiveIteration
  BY DEF IInv
<1> QED BY <1>1, Invariance, PTL

\* No live subscription has silently lost a usable transaction.
THEOREM NoGapWhileLive == Spec => []NoSilentGap
<1>1. IInv => NoSilentGap
  BY DEF IInv
<1> QED BY <1>1, Invariance, PTL
=============================================================================
