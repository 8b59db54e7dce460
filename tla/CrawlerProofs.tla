---------------------------- MODULE CrawlerProofs ----------------------------
(***************************************************************************)
(* Proofs about TransactionCrawler and CrawlerStart for every history, page *)
(* size, channel capacity, number of concurrent requests, filter, start    *)
(* block and assignment of slots.                                          *)
(***************************************************************************)
EXTENDS CrawlerStart, SequenceTheorems, TLAPS

USE BoundsAssumption, BatchAssumption, CapacityAssumption, FilterAssumption, UnusableAssumption
    DEF BoundsAssumption, BatchAssumption, CapacityAssumption, FilterAssumption, UnusableAssumption

-----------------------------------------------------------------------------
(* Channels: what taking and adding an element does to type and length.    *)

LEMMA AppendSig ==
  ASSUME NEW q \in Seq(Sigs), NEW s \in Sigs
  PROVE  /\ Append(q, s) \in Seq(Sigs)
         /\ Len(q) \in Nat
         /\ Len(Append(q, s)) = Len(q) + 1
         /\ Append(q, s)[Len(q) + 1] = s
         /\ \A i \in 1..Len(q) : Append(q, s)[i] = q[i]
  BY AppendProperties, LenProperties

LEMMA TailSig ==
  ASSUME NEW q \in Seq(Sigs), q # <<>>
  PROVE  /\ Tail(q) \in Seq(Sigs)
         /\ Head(q) \in Sigs
         /\ Head(q) = q[1]
         /\ Len(q) \in Nat \ {0}
         /\ Len(Tail(q)) = Len(q) - 1
         /\ \A i \in 1..Len(Tail(q)) : Tail(q)[i] = q[i + 1]
  BY HeadTailProperties, EmptySeq, LenProperties

\* The page of a request: an interval above `until`.
LEMMA PageBounds ==
  ASSUME EnvOK, ListerOK, ~PageIsEmpty
  PROVE  /\ PageTop \in Sigs /\ PageLow \in Sigs
         /\ until < PageLow /\ PageLow <= PageTop
         /\ before = 0 => PageTop = tip
         /\ before # 0 => PageTop = before - 1
<1>1. PageTop \in 0..MaxSig /\ (before = 0 => PageTop = tip) /\ (before # 0 => PageTop = before - 1)
  BY DEF EnvOK, ListerOK, PageTop
<1>2. until \in Nat /\ until < PageTop
  BY <1>1 DEF ListerOK, PageIsEmpty
<1> QED BY <1>1, <1>2 DEF PageLow, Sigs

-----------------------------------------------------------------------------
(* Type correctness, one lemma per task.                                   *)

LEMMA TypeInit == Init => TypeOK
<1> SUFFICES ASSUME Init PROVE TypeOK
  OBVIOUS
<1>1. SigsOK /\ TxsOK
  BY EmptySeq DEF Init, SigsOK, TxsOK
<1>2. FetcherOK
  BY EmptySeq DEF Init, FetcherOK
<1>3. HistoryOK
  BY EmptySeq DEF Init, HistoryOK
<1>4. ListerOK
  BY DEF Init, ListerOK
<1>5. EnvOK
  <2>1. tip \in 0..MaxSig /\ waiting \in 0..OutCapacity
    BY DEF Init
  <2>2. floor \in 0..MaxSig
    BY DEF Init
  <2> QED BY <2>1, <2>2 DEF Init, EnvOK
<1>6. WorkerOK
  BY DEF Init, WorkerOK
<1> QED BY <1>1, <1>2, <1>3, <1>4, <1>5, <1>6 DEF TypeOK

\* The parts of the type invariant that a step leaves alone.
LEMMA Kept ==
  ASSUME TypeOK
  PROVE  /\ UNCHANGED envVars => EnvOK'
         /\ UNCHANGED listVars => ListerOK'
         /\ UNCHANGED sigs => SigsOK'
         /\ UNCHANGED fetchVars => FetcherOK'
         /\ UNCHANGED txs => TxsOK'
         /\ UNCHANGED workVars => WorkerOK'
         /\ UNCHANGED histVars => HistoryOK'
<1>1. UNCHANGED envVars => EnvOK'
  BY DEF TypeOK, EnvOK, envVars
<1>2. UNCHANGED listVars => ListerOK'
  BY DEF TypeOK, ListerOK, listVars
<1>3. UNCHANGED sigs => SigsOK'
  BY DEF TypeOK, SigsOK
<1>4. UNCHANGED fetchVars => FetcherOK'
  BY DEF TypeOK, FetcherOK, fetchVars
<1>5. UNCHANGED txs => TxsOK'
  BY DEF TypeOK, TxsOK
<1>6. UNCHANGED workVars => WorkerOK'
  BY DEF TypeOK, WorkerOK, workVars
<1>7. UNCHANGED histVars => HistoryOK'
  BY DEF TypeOK, HistoryOK, histVars
<1> QED BY <1>1, <1>2, <1>3, <1>4, <1>5, <1>6, <1>7

LEMMA TypeLister ==
  ASSUME TypeOK, ListerStep
  PROVE  TypeOK'
<1>0. EnvOK /\ ListerOK /\ SigsOK /\ HistoryOK
  BY DEF TypeOK
<1>1. EnvOK' /\ FetcherOK' /\ TxsOK' /\ WorkerOK'
  BY Kept DEF ListerStep, ListPage, EndSweep, ListFails, SendSignature, SendSignatureFails, EndPage, ListerCancelled
<1>2. ListerOK'
  <2>1. CASE ListPage
    BY <1>0, <2>1, PageBounds DEF ListPage, ListerOK, Sigs
  <2>2. CASE EndSweep
    BY <1>0, <2>2 DEF EndSweep, ListerOK
  <2>3. CASE ListFails
    BY <1>0, <2>3 DEF ListFails, ListerOK
  <2>4. CASE SendSignature
    BY <1>0, <2>4 DEF SendSignature, ListerOK, Sigs
  <2>5. CASE SendSignatureFails
    BY <1>0, <2>5 DEF SendSignatureFails, ListerOK, Sigs
  <2>6. CASE EndPage
    BY <1>0, <2>6 DEF EndPage, ListerOK, Sigs
  <2>7. CASE ListerCancelled
    BY <1>0, <2>7 DEF ListerCancelled, ListerOK
  <2> QED BY <2>1, <2>2, <2>3, <2>4, <2>5, <2>6, <2>7 DEF ListerStep
<1>3. SigsOK' /\ HistoryOK'
  <2>1. CASE SendSignature
    <3>1. next \in Sigs
      BY <1>0, <2>1 DEF SendSignature, ListerOK, Sigs
    <3>2. SigsOK'
      BY <1>0, <2>1, <3>1, AppendSig DEF SendSignature, SigsOK
    <3>3. HistoryOK'
      BY <1>0, <2>1, <3>1 DEF SendSignature, HistoryOK
    <3> QED BY <3>2, <3>3
  <2>2. CASE ~SendSignature
    BY <2>2, Kept DEF ListerStep, ListPage, EndSweep, ListFails, SendSignatureFails, EndPage, ListerCancelled
  <2> QED BY <2>1, <2>2
<1> QED BY <1>1, <1>2, <1>3 DEF TypeOK

LEMMA TypeFetcher ==
  ASSUME TypeOK, FetcherStep
  PROVE  TypeOK'
<1>0. SigsOK /\ FetcherOK /\ TxsOK /\ HistoryOK
  BY DEF TypeOK
<1>1. EnvOK' /\ ListerOK' /\ WorkerOK'
  BY Kept DEF FetcherStep, StartFetch, SendTransaction, FetcherCancelled, Fetched, FetchFails
<1>2. CASE StartFetch
  <2>1. TxsOK' /\ HistoryOK'
    BY <1>2, Kept DEF StartFetch
  <2>2. SigsOK' /\ Head(sigs) \in Sigs
    BY <1>0, <1>2, TailSig DEF StartFetch, SigsOK
  <2>3. FetcherOK'
    BY <1>0, <1>2, <2>2 DEF StartFetch, FetcherOK
  <2> QED BY <1>1, <2>1, <2>2, <2>3 DEF TypeOK
<1>3. CASE SendTransaction
  <2>1. SigsOK'
    BY <1>3, Kept DEF SendTransaction
  <2>2. hold \in Sigs /\ FetcherOK'
    BY <1>0, <1>3 DEF SendTransaction, FetcherOK, Sigs
  <2>3. TxsOK'
    BY <1>0, <1>3, <2>2, AppendSig DEF SendTransaction, TxsOK
  <2>4. HistoryOK'
    BY <1>0, <1>3, <2>2 DEF SendTransaction, HistoryOK
  <2> QED BY <1>1, <2>1, <2>2, <2>3, <2>4 DEF TypeOK
<1>4. CASE FetcherCancelled
  <2>1. TxsOK' /\ HistoryOK'
    BY <1>4, Kept DEF FetcherCancelled
  <2>2. SigsOK'
    BY <1>4, EmptySeq DEF FetcherCancelled, SigsOK
  <2>3. FetcherOK'
    BY <1>4, EmptySeq DEF FetcherCancelled, FetcherOK
  <2> QED BY <1>1, <2>1, <2>2, <2>3 DEF TypeOK
<1>5. ASSUME NEW s \in DOMAIN fetching, Fetched(s) PROVE TypeOK'
  <2>1. SigsOK' /\ TxsOK' /\ HistoryOK'
    BY <1>5, Kept DEF Fetched
  <2>2. FetcherOK'
    BY <1>0, <1>5 DEF Fetched, Without, FetcherOK, Sigs
  <2> QED BY <1>1, <2>1, <2>2 DEF TypeOK
<1>6. ASSUME NEW s \in DOMAIN fetching, FetchFails(s) PROVE TypeOK'
  <2>1. SigsOK' /\ TxsOK'
    BY <1>6, Kept DEF FetchFails
  <2>2. FetcherOK'
    BY <1>0, <1>6 DEF FetchFails, Without, FetcherOK
  <2>3. HistoryOK'
    BY <1>0, <1>6 DEF FetchFails, FetcherOK, HistoryOK
  <2> QED BY <1>1, <2>1, <2>2, <2>3 DEF TypeOK
<1> QED BY <1>2, <1>3, <1>4, <1>5, <1>6 DEF FetcherStep

LEMMA TypeWorker ==
  ASSUME TypeOK, WorkerStep
  PROVE  TypeOK'
<1>0. EnvOK /\ TxsOK /\ WorkerOK /\ HistoryOK
  BY DEF TypeOK
<1>1. ListerOK' /\ SigsOK' /\ FetcherOK'
  BY Kept DEF WorkerStep, TakeTransaction, SendUpdate, SendUpdateFails, WorkerCancelled
<1>2. CASE TakeTransaction
  <2>1. EnvOK'
    BY <1>2, Kept DEF TakeTransaction
  <2>2. TxsOK' /\ Head(txs) \in Sigs
    BY <1>0, <1>2, TailSig DEF TakeTransaction, TxsOK
  <2>3. WorkerOK'
    BY <1>0, <1>2, <2>2 DEF TakeTransaction, WorkerOK, workVars, Sigs
  <2>4. HistoryOK'
    BY <1>0, <1>2, <2>2 DEF TakeTransaction, HistoryOK
  <2> QED BY <1>1, <2>1, <2>2, <2>3, <2>4 DEF TypeOK
<1>3. CASE SendUpdate
  <2>1. TxsOK'
    BY <1>3, Kept DEF SendUpdate
  <2>2. waiting' \in 0..OutCapacity
    BY <1>0, <1>3 DEF SendUpdate, EnvOK
  <2>3. EnvOK'
    BY <1>0, <1>3, <2>2 DEF SendUpdate, EnvOK
  <2>4. work \in Sigs /\ WorkerOK'
    BY <1>0, <1>3 DEF SendUpdate, WorkerOK
  <2>5. HistoryOK'
    BY <1>0, <1>3, <2>4, AppendSig DEF SendUpdate, HistoryOK
  <2> QED BY <1>1, <2>1, <2>3, <2>4, <2>5 DEF TypeOK
<1>4. CASE SendUpdateFails
  <2>1. EnvOK' /\ TxsOK'
    BY <1>4, Kept DEF SendUpdateFails
  <2>2. work \in Sigs /\ WorkerOK'
    BY <1>0, <1>4 DEF SendUpdateFails, WorkerOK
  <2>3. HistoryOK'
    BY <1>0, <1>4, <2>2 DEF SendUpdateFails, HistoryOK
  <2> QED BY <1>1, <2>1, <2>2, <2>3 DEF TypeOK
<1>5. CASE WorkerCancelled
  <2>1. EnvOK' /\ HistoryOK'
    BY <1>5, Kept DEF WorkerCancelled
  <2>2. TxsOK'
    BY <1>5, EmptySeq DEF WorkerCancelled, TxsOK
  <2>3. WorkerOK'
    BY <1>0, <1>5 DEF WorkerCancelled, WorkerOK
  <2> QED BY <1>1, <2>1, <2>2, <2>3 DEF TypeOK
<1> QED BY <1>2, <1>3, <1>4, <1>5 DEF WorkerStep

LEMMA TypeEnvironment ==
  ASSUME TypeOK, Environment
  PROVE  TypeOK'
<1>0. EnvOK
  BY DEF TypeOK
<1>1. ListerOK' /\ SigsOK' /\ FetcherOK' /\ TxsOK' /\ WorkerOK' /\ HistoryOK'
  BY Kept DEF Environment, Confirm, Receive, DropReceiver, Cancel
<1>2. tip' \in 0..MaxSig /\ waiting' \in 0..OutCapacity
  BY <1>0 DEF Environment, Confirm, Receive, DropReceiver, Cancel, EnvOK
<1>3. cancel' \in BOOLEAN /\ rxOpen' \in BOOLEAN /\ blocking' \in BOOLEAN /\ floor' \in 0..MaxSig
  BY <1>0 DEF Environment, Confirm, Receive, DropReceiver, Cancel, EnvOK
<1>4. EnvOK'
  BY <1>2, <1>3 DEF EnvOK
<1> QED BY <1>1, <1>4 DEF TypeOK

LEMMA TypeConsume ==
  ASSUME TypeOK, NEW u \in 0..tip, NEW b \in StartBefore, Consume(u, b)
  PROVE  TypeOK'
<1>0. EnvOK /\ ListerOK
  BY DEF TypeOK
<1>1. SigsOK' /\ FetcherOK' /\ TxsOK' /\ WorkerOK' /\ HistoryOK'
  BY Kept DEF Consume
<1>2. u \in 0..MaxSig
  BY <1>0 DEF EnvOK
<1>3. EnvOK'
  BY <1>0, <1>2 DEF Consume, EnvOK
<1>4. ListerOK'
  BY <1>0, <1>2 DEF Consume, ListerOK
<1> QED BY <1>1, <1>3, <1>4 DEF TypeOK

LEMMA TypeStep ==
  ASSUME TypeOK, [Next]_vars
  PROVE  TypeOK'
<1>1. CASE UNCHANGED vars
  BY <1>1, Kept DEF vars, TypeOK
<1> QED BY <1>1, TypeConsume, TypeLister, TypeFetcher, TypeWorker, TypeEnvironment DEF Next

\* The three tasks keep their variables in their types: no channel holds more
\* than its capacity, no request is tried more often than configured, and what
\* a task holds is a signature of the chain.
THEOREM TypeCorrect == Spec => []TypeOK
<1>1. TypeOK /\ [Next]_vars => TypeOK'
  BY TypeStep
<1> QED BY <1>1, TypeInit, PTL DEF Spec

-----------------------------------------------------------------------------
(* The cursor of the sweeps.                                               *)

\* The cursor points at confirmed signatures, and the floor is never passed.
Bounded ==
  /\ floor <= until /\ until <= tip
  /\ before <= tip /\ recent <= tip /\ next <= tip /\ low <= tip
  /\ \A s \in Sigs : listed[s] # 0 => s <= tip

\* Nothing is listed before consume has spawned the tasks.
NewOK ==
  lister = "new" =>
    /\ floor = 0 /\ until = 0 /\ recent = 0 /\ before = 0 /\ next = 0 /\ low = 0
    /\ \A s \in Sigs : listed[s] = 0

\* Between two pages: before the first page of a sweep nothing above `until` is
\* listed; later exactly what lies between `before` and the newest is (all of
\* it only if there is a fetcher).
AskingOK ==
  lister = "ask" =>
    \/ recent = 0 /\ \A s \in Sigs : until < s => listed[s] = 0
    \/ /\ until < before /\ until < recent /\ before <= recent + 1
       /\ \A s \in Sigs : until < s /\ listed[s] # 0 => before <= s /\ s <= recent

\* Inside a page: the same with the signature that is sent next.
SendingOK ==
  lister = "send" =>
    /\ until < low /\ low <= next + 1 /\ until < recent /\ next <= recent
    /\ before # 0 => next < before
    /\ \A s \in Sigs : until < s /\ listed[s] # 0 => next < s /\ s <= recent
    /\ fetcher = "run" => \A s \in Sigs : next < s /\ s <= recent => listed[s] = 1

CursorInv == Bounded /\ NewOK /\ AskingOK /\ SendingOK /\ ListedExactlyOnce

LEMMA CursorInit == Init => CursorInv
<1> SUFFICES ASSUME Init PROVE CursorInv
  OBVIOUS
<1>1. /\ \A s \in Sigs : listed[s] = 0
      /\ lister = "new" /\ before = 0 /\ recent = 0 /\ next = 0 /\ low = 0 /\ until = 0 /\ floor = 0
  BY DEF Init
<1>2. tip \in Nat
  BY DEF Init
<1>3. Bounded
  BY <1>1, <1>2 DEF Bounded
<1>4. NewOK /\ AskingOK /\ SendingOK
  BY <1>1 DEF NewOK, AskingOK, SendingOK
<1>6. ListedExactlyOnce
  BY <1>1 DEF ListedExactlyOnce, Sigs
<1> QED BY <1>3, <1>4, <1>6 DEF CursorInv

\* The state the cursor's invariant reads.
cursorVars == <<lister, before, until, recent, next, low, tip, floor, listed, fetcher>>

LEMMA CursorKept ==
  ASSUME CursorInv, UNCHANGED cursorVars
  PROVE  CursorInv'
<1>1. Bounded'
  BY DEF CursorInv, cursorVars, Bounded
<1>2. NewOK' /\ AskingOK'
  BY DEF CursorInv, cursorVars, NewOK, AskingOK
<1>3. SendingOK'
  BY DEF CursorInv, cursorVars, SendingOK
<1>4. ListedExactlyOnce'
  BY DEF CursorInv, cursorVars, ListedExactlyOnce
<1> QED BY <1>1, <1>2, <1>3, <1>4 DEF CursorInv

\* What the types give the steps below.
LEMMA CursorTypes ==
  ASSUME TypeOK
  PROVE  /\ tip \in Nat /\ floor \in Nat /\ before \in Nat /\ until \in Nat
         /\ recent \in Nat /\ next \in Nat /\ low \in Nat
         /\ lister = "send" => low \in Sigs
         /\ \A s \in Sigs : s \in Nat \ {0} /\ listed[s] \in Nat
         /\ lister \in {"new", "ask", "send", "ended"}
  BY DEF TypeOK, EnvOK, ListerOK, HistoryOK, Sigs

\* A signature is listed only when it was not listed before.
LEMMA NextIsNew ==
  ASSUME TypeOK, CursorInv, SendSignature
  PROVE  next \in Sigs /\ listed[next] = 0 /\ until < next /\ next <= tip
<1>1. /\ lister = "send" /\ low <= next
      /\ next \in Sigs /\ next \in Nat /\ until \in Nat /\ low \in Nat
  BY DEF TypeOK, ListerOK, SendSignature, Sigs
<1>2. SendingOK /\ Bounded
  BY DEF CursorInv
<1>3. until < next
  BY <1>1, <1>2 DEF SendingOK
<1>4. listed[next] = 0
  BY <1>1, <1>2, <1>3 DEF SendingOK
<1> QED BY <1>1, <1>2, <1>3, <1>4 DEF Bounded

LEMMA CursorPage ==
  ASSUME TypeOK, CursorInv, ListPage
  PROVE  CursorInv'
<1>1. /\ lister = "ask" /\ lister' = "send"
      /\ recent' = IF recent = 0 THEN PageTop ELSE recent
      /\ next' = PageTop /\ low' = PageLow
      /\ UNCHANGED <<before, until, tip, floor, listed, fetcher>>
  BY DEF ListPage, envVars, fetchVars, histVars
<1>2. /\ PageTop \in Sigs /\ PageLow \in Sigs /\ until < PageLow /\ PageLow <= PageTop
      /\ before = 0 => PageTop = tip
      /\ before # 0 => PageTop = before - 1
  BY PageBounds DEF ListPage, TypeOK
<1>3. PageTop \in Nat /\ PageLow \in Nat /\ PageTop # 0
  BY <1>2 DEF Sigs
<1>4. PageTop <= tip
  BY <1>2, <1>3, CursorTypes DEF CursorInv, Bounded
<1>5. Bounded'
  BY <1>1, <1>2, <1>3, <1>4, CursorTypes DEF CursorInv, Bounded
<1>6. NewOK' /\ AskingOK'
  BY <1>1 DEF NewOK, AskingOK
<1>7. SendingOK'
  <2>1. CASE recent = 0 /\ \A s \in Sigs : until < s => listed[s] = 0
    <3>1. \A s \in Sigs : ~(next' < s /\ s <= recent')
      BY <1>1, <1>3, <2>1 DEF Sigs
    <3> QED BY <1>1, <1>2, <1>3, <2>1, <3>1, CursorTypes DEF SendingOK
  <2>2. CASE /\ until < before /\ until < recent /\ before <= recent + 1
             /\ \A s \in Sigs : until < s /\ listed[s] # 0 => before <= s /\ s <= recent
    <3>1. recent # 0 /\ before # 0 /\ PageTop = before - 1 /\ recent' = recent
      BY <1>1, <1>2, <2>2, CursorTypes
    <3>2. \A s \in Sigs : until < s /\ listed[s] # 0 => next' < s /\ s <= recent'
      BY <1>1, <2>2, <3>1, CursorTypes
    <3>3. fetcher = "run" => \A s \in Sigs : next' < s /\ s <= recent' => listed[s] = 1
      <4> SUFFICES ASSUME fetcher = "run", NEW s \in Sigs, next' < s, s <= recent'
                   PROVE  listed[s] = 1
        OBVIOUS
      <4>1. before <= s /\ s <= recent /\ s > floor
        BY <1>1, <2>2, <3>1, CursorTypes DEF CursorInv, Bounded
      <4> QED BY <3>1, <4>1 DEF CursorInv, ListedExactlyOnce
    <3> QED BY <1>1, <1>2, <1>3, <2>2, <3>1, <3>2, <3>3, CursorTypes DEF SendingOK
  <2> QED BY <1>1, <2>1, <2>2 DEF CursorInv, AskingOK
<1>8. ListedExactlyOnce'
  <2> SUFFICES ASSUME NEW s \in Sigs
               PROVE  /\ listed[s] <= 1
                      /\ fetcher = "run" /\ s > floor =>
                           (s <= until \/ (before # 0 /\ before <= s /\ s <= recent')
                              => listed[s] = 1)
    BY <1>1 DEF ListedExactlyOnce
  <2>1. recent' = recent \/ (before # 0 => recent' < before)
    BY <1>1, <1>2, <1>3, CursorTypes
  <2> QED BY <1>1, <1>3, <2>1, CursorTypes DEF CursorInv, ListedExactlyOnce
<1> QED BY <1>5, <1>6, <1>7, <1>8 DEF CursorInv

LEMMA CursorSweep ==
  ASSUME TypeOK, CursorInv, EndSweep
  PROVE  CursorInv'
<1>1. /\ lister = "ask" /\ lister' = "ask" /\ before' = 0 /\ recent' = 0
      /\ until' = IF recent # 0 THEN recent ELSE until
      /\ UNCHANGED <<next, low, tip, floor, listed, fetcher>>
      /\ PageTop <= until
  BY DEF EndSweep, PageIsEmpty, envVars, fetchVars, histVars
<1>2. CASE recent = 0 /\ \A s \in Sigs : until < s => listed[s] = 0
  <2>1. Bounded' /\ NewOK' /\ AskingOK' /\ SendingOK'
    BY <1>1, <1>2, CursorTypes DEF CursorInv, Bounded, NewOK, AskingOK, SendingOK
  <2>2. ListedExactlyOnce'
    BY <1>1, <1>2 DEF CursorInv, ListedExactlyOnce
  <2> QED BY <2>1, <2>2 DEF CursorInv
<1>3. CASE /\ until < before /\ until < recent /\ before <= recent + 1
           /\ \A s \in Sigs : until < s /\ listed[s] # 0 => before <= s /\ s <= recent
  <2>1. until' = recent /\ before = until + 1
    BY <1>1, <1>3, CursorTypes DEF PageTop
  <2>2. Bounded'
    BY <1>1, <1>3, <2>1, CursorTypes DEF CursorInv, Bounded
  <2>3. NewOK' /\ AskingOK' /\ SendingOK'
    BY <1>1, <1>3, <2>1, CursorTypes DEF NewOK, AskingOK, SendingOK
  <2>4. ListedExactlyOnce'
    <3> SUFFICES ASSUME NEW s \in Sigs
                 PROVE  /\ listed[s] <= 1
                        /\ fetcher = "run" /\ s > floor => (s <= recent => listed[s] = 1)
      BY <1>1, <2>1 DEF ListedExactlyOnce
    <3>1. s <= recent => s <= until \/ (before # 0 /\ before <= s /\ s <= recent)
      BY <2>1, CursorTypes
    <3> QED BY <3>1 DEF CursorInv, ListedExactlyOnce
  <2> QED BY <2>2, <2>3, <2>4 DEF CursorInv
<1> QED BY <1>1, <1>2, <1>3 DEF CursorInv, AskingOK

LEMMA CursorSend ==
  ASSUME TypeOK, CursorInv, SendSignature
  PROVE  CursorInv'
<1>0. next \in Sigs /\ listed[next] = 0 /\ until < next /\ next <= tip
  BY NextIsNew
<1>1. /\ lister = "send" /\ lister' = "send" /\ next >= low /\ next' = next - 1
      /\ fetcher = "run"
      /\ UNCHANGED <<before, until, recent, low, tip, floor, fetcher>>
  BY DEF SendSignature, envVars, fetchVars
<1>2. listed'[next] = 1 /\ \A s \in Sigs : s # next => listed'[s] = listed[s]
  BY <1>0 DEF SendSignature, TypeOK, HistoryOK
<1>3. Bounded'
  BY <1>0, <1>1, <1>2, CursorTypes DEF CursorInv, Bounded
<1>4. NewOK' /\ AskingOK'
  BY <1>1 DEF NewOK, AskingOK
<1>5. next <= recent
  BY <1>1 DEF CursorInv, SendingOK
<1>6. SendingOK'
  <2>1. \A s \in Sigs : until < s /\ listed'[s] # 0 => next' < s /\ s <= recent
    BY <1>0, <1>1, <1>2, <1>5, CursorTypes DEF CursorInv, SendingOK
  <2>2. \A s \in Sigs : next' < s /\ s <= recent => listed'[s] = 1
    BY <1>0, <1>1, <1>2, CursorTypes DEF CursorInv, SendingOK
  <2> QED BY <1>0, <1>1, <2>1, <2>2, CursorTypes DEF CursorInv, SendingOK
<1>7. ListedExactlyOnce'
  BY <1>0, <1>1, <1>2 DEF CursorInv, ListedExactlyOnce
<1> QED BY <1>3, <1>4, <1>6, <1>7 DEF CursorInv

LEMMA CursorPageEnds ==
  ASSUME TypeOK, CursorInv, SendSignatureFails \/ EndPage
  PROVE  CursorInv'
<1>1. /\ lister = "send" /\ lister' = "ask" /\ before' = low
      /\ UNCHANGED <<until, recent, next, low, tip, floor, listed, fetcher>>
      /\ fetcher = "ended" \/ next < low
  BY DEF SendSignatureFails, EndPage, envVars, fetchVars, histVars
<1>2. low \in Nat /\ low # 0 /\ low <= next + 1
  BY <1>1, CursorTypes DEF CursorInv, SendingOK
<1>3. Bounded'
  BY <1>1 DEF CursorInv, Bounded
<1>4. NewOK' /\ AskingOK' /\ SendingOK'
  BY <1>1, <1>2, CursorTypes DEF CursorInv, NewOK, AskingOK, SendingOK
<1>5. ListedExactlyOnce'
  BY <1>1, <1>2, CursorTypes DEF CursorInv, SendingOK, ListedExactlyOnce
<1> QED BY <1>3, <1>4, <1>5 DEF CursorInv

\* A crawl that starts below a signature has listed nothing between it and the
\* newest one, and has no newest one yet.
LEMMA CursorConsume ==
  ASSUME TypeOK, CursorInv, NEW u \in 0..tip, NEW b \in StartBefore, Consume(u, b)
  PROVE  CursorInv'
<1>1. /\ recent = 0 /\ next = 0 /\ low = 0 /\ \A s \in Sigs : listed[s] = 0
  BY DEF CursorInv, NewOK, Consume
<1>2. /\ lister' = "ask" /\ floor' = u /\ until' = u /\ before' = b
      /\ UNCHANGED <<recent, next, low, tip, listed, fetcher>>
      /\ b = 0 \/ b <= tip
  BY DEF Consume, fetchVars, histVars
<1>0. tip \in Nat /\ b \in 0..MaxSig
  BY CursorTypes
<1>3. u \in Nat /\ u <= tip /\ b \in Nat /\ b <= tip
  BY <1>0, <1>2
<1>4. Bounded'
  BY <1>1, <1>2, <1>3, CursorTypes DEF Bounded
<1>5. NewOK' /\ AskingOK' /\ SendingOK'
  BY <1>1, <1>2 DEF NewOK, AskingOK, SendingOK
<1>6. ListedExactlyOnce'
  BY <1>1, <1>2, <1>3 DEF ListedExactlyOnce, Sigs
<1> QED BY <1>4, <1>5, <1>6 DEF CursorInv

LEMMA CursorStep ==
  ASSUME TypeOK, CursorInv, [Next]_vars
  PROVE  CursorInv'
<1>1. CASE ListPage
  BY <1>1, CursorPage
<1>2. CASE EndSweep
  BY <1>2, CursorSweep
<1>3. CASE SendSignature
  BY <1>3, CursorSend
<1>4. CASE SendSignatureFails \/ EndPage
  BY <1>4, CursorPageEnds
<1>5. CASE ListFails \/ UNCHANGED vars
  <2>1. UNCHANGED cursorVars
    BY <1>5 DEF ListFails, vars, cursorVars, envVars, listVars, fetchVars, histVars
  <2> QED BY <2>1, CursorKept
<1>6. CASE ListerCancelled
  <2>1. lister' = "ended" /\ UNCHANGED <<before, until, recent, next, low, tip, floor, listed, fetcher>>
    BY <1>6 DEF ListerCancelled, envVars, fetchVars, histVars
  <2>2. Bounded' /\ ListedExactlyOnce'
    BY <2>1 DEF CursorInv, Bounded, ListedExactlyOnce
  <2> QED BY <2>1, <2>2 DEF CursorInv, NewOK, AskingOK, SendingOK
<1>7. CASE FetcherStep
  <2>1. /\ UNCHANGED <<lister, before, until, recent, next, low, tip, floor, listed>>
        /\ fetcher' = "run" => fetcher = "run"
    BY <1>7 DEF FetcherStep, StartFetch, SendTransaction, FetcherCancelled, Fetched, FetchFails,
                envVars, listVars, histVars
  <2>2. Bounded' /\ NewOK' /\ AskingOK'
    BY <2>1 DEF CursorInv, Bounded, NewOK, AskingOK
  <2>3. SendingOK'
    BY <2>1 DEF CursorInv, SendingOK
  <2>4. ListedExactlyOnce'
    BY <2>1 DEF CursorInv, ListedExactlyOnce
  <2> QED BY <2>2, <2>3, <2>4 DEF CursorInv
<1>8. CASE WorkerStep \/ (Environment /\ ~Confirm)
  <2>1. UNCHANGED cursorVars
    BY <1>8 DEF WorkerStep, TakeTransaction, SendUpdate, SendUpdateFails, WorkerCancelled,
                Environment, Receive, DropReceiver, Cancel, cursorVars, envVars, listVars, fetchVars,
                histVars
  <2> QED BY <2>1, CursorKept
<1>9. CASE Confirm
  <2>1. tip' = tip + 1 /\ UNCHANGED <<lister, before, until, recent, next, low, floor, listed, fetcher>>
    BY <1>9 DEF Confirm, listVars, fetchVars, histVars
  <2>2. Bounded'
    BY <2>1, CursorTypes DEF CursorInv, Bounded
  <2>3. NewOK' /\ AskingOK' /\ SendingOK'
    BY <2>1 DEF CursorInv, NewOK, AskingOK, SendingOK
  <2>4. ListedExactlyOnce'
    BY <2>1 DEF CursorInv, ListedExactlyOnce
  <2> QED BY <2>2, <2>3, <2>4 DEF CursorInv
<1>10. ASSUME NEW u \in 0..tip, NEW b \in StartBefore, Consume(u, b) PROVE CursorInv'
  BY <1>10, CursorConsume
<1> QED BY <1>1, <1>2, <1>3, <1>4, <1>5, <1>6, <1>7, <1>8, <1>9, <1>10 DEF Next, ListerStep

\* The cursor lists nothing twice and passes over nothing, whatever is
\* confirmed, retried or cancelled between its steps.
THEOREM ListsExactlyOnce == Spec => []ListedExactlyOnce
<1>1. TypeOK /\ CursorInv /\ [Next]_vars => (TypeOK /\ CursorInv)'
  BY TypeStep, CursorStep
<1>2. TypeOK /\ CursorInv => ListedExactlyOnce
  BY DEF CursorInv
<1> QED BY <1>1, <1>2, TypeInit, CursorInit, PTL DEF Spec

-----------------------------------------------------------------------------
(* A transaction is in one place at a time: in a channel, in a task's      *)
(* hands, given to the pipeline or given up.                               *)

In(q, s)    == \E i \in 1..Len(q) : q[i] = s
Distinct(q) == \A i, j \in 1..Len(q) : q[i] = q[j] => i = j

Working(s) == worker = "send" /\ work = s
Ended(s)   == In(given, s) \/ s \in gone

\* One conjunct per stage: whoever is there is in no later one.
Placed(s) ==
  /\ In(sigs, s) => /\ listed[s] # 0 /\ s \notin DOMAIN fetching /\ hold # s
                    /\ ~In(txs, s) /\ ~Working(s) /\ ~Ended(s)
  /\ s \in DOMAIN fetching => listed[s] # 0 /\ hold # s /\ ~In(txs, s) /\ ~Working(s) /\ ~Ended(s)
  /\ hold = s => listed[s] # 0 /\ ~In(txs, s) /\ ~Working(s) /\ ~Ended(s)
  /\ In(txs, s) => listed[s] # 0 /\ ~Working(s) /\ ~Ended(s)
  /\ Working(s) => listed[s] # 0 /\ ~Ended(s)
  /\ Ended(s) => listed[s] # 0

PlaceInv ==
  /\ Distinct(sigs) /\ Distinct(txs)
  /\ \A s \in Sigs : Placed(s)

LEMMA AppendIn ==
  ASSUME NEW q \in Seq(Sigs), NEW s \in Sigs
  PROVE  /\ \A r : In(Append(q, s), r) <=> In(q, r) \/ r = s
         /\ Distinct(q) /\ ~In(q, s) => Distinct(Append(q, s))
<1> DEFINE p == Append(q, s)
<1>1. /\ Len(q) \in Nat /\ Len(p) = Len(q) + 1 /\ p[Len(q) + 1] = s
      /\ \A i \in 1..Len(q) : p[i] = q[i]
  BY AppendSig
<1> HIDE DEF p
<1>2. \A r : In(p, r) <=> In(q, r) \/ r = s
  <2>1. ASSUME NEW r, In(q, r) \/ r = s PROVE In(p, r)
    <3>1. CASE In(q, r)
      <4>1. PICK i \in 1..Len(q) : q[i] = r
        BY <3>1 DEF In
      <4>2. i \in 1..Len(p) /\ p[i] = r
        BY <1>1, <4>1
      <4> QED BY <4>2 DEF In
    <3>2. CASE r = s
      <4>1. Len(q) + 1 \in 1..Len(p) /\ p[Len(q) + 1] = r
        BY <1>1, <3>2
      <4> QED BY <4>1 DEF In
    <3> QED BY <2>1, <3>1, <3>2
  <2>2. ASSUME NEW r, In(p, r) PROVE In(q, r) \/ r = s
    <3>1. PICK i \in 1..Len(p) : p[i] = r
      BY <2>2 DEF In
    <3>2. i \in 1..Len(q) \/ i = Len(q) + 1
      BY <1>1
    <3> QED BY <1>1, <3>1, <3>2 DEF In
  <2> QED BY <2>1, <2>2
<1>3. ASSUME Distinct(q), ~In(q, s) PROVE Distinct(p)
  <2> SUFFICES ASSUME NEW i \in 1..Len(p), NEW j \in 1..Len(p), p[i] = p[j] PROVE i = j
    BY DEF Distinct
  <2>1. \A k \in 1..Len(p) : k \in 1..Len(q) \/ k = Len(q) + 1
    BY <1>1
  <2>2. \A k \in 1..Len(q) : p[k] = q[k] /\ q[k] # s
    BY <1>1, <1>3 DEF In
  <2> QED BY <1>1, <1>3, <2>1, <2>2 DEF Distinct
<1> QED BY <1>2, <1>3 DEF p

LEMMA TailIn ==
  ASSUME NEW q \in Seq(Sigs), q # <<>>, Distinct(q)
  PROVE  /\ In(q, Head(q))
         /\ \A r : In(Tail(q), r) <=> In(q, r) /\ r # Head(q)
         /\ Distinct(Tail(q))
<1> DEFINE p == Tail(q)
<1>1. /\ Len(q) \in Nat \ {0} /\ Len(p) = Len(q) - 1 /\ Head(q) = q[1]
      /\ \A i \in 1..Len(p) : p[i] = q[i + 1]
  BY TailSig
<1> HIDE DEF p
<1>2. \A i \in 1..Len(p) : i + 1 \in 1..Len(q) /\ i + 1 # 1
  BY <1>1
<1>3. \A r : In(p, r) <=> In(q, r) /\ r # Head(q)
  <2>1. ASSUME NEW r, In(p, r) PROVE In(q, r) /\ r # Head(q)
    <3>1. PICK i \in 1..Len(p) : p[i] = r
      BY <2>1 DEF In
    <3>2. i + 1 \in 1..Len(q) /\ q[i + 1] = r /\ i + 1 # 1 /\ 1 \in 1..Len(q)
      BY <1>1, <1>2, <3>1
    <3> QED BY <1>1, <3>2 DEF In, Distinct
  <2>2. ASSUME NEW r, In(q, r), r # Head(q) PROVE In(p, r)
    <3>1. PICK i \in 1..Len(q) : q[i] = r
      BY <2>2 DEF In
    <3>2. i # 1
      BY <1>1, <2>2, <3>1
    <3>3. i - 1 \in 1..Len(p) /\ p[i - 1] = r
      BY <1>1, <3>1, <3>2
    <3> QED BY <3>3 DEF In
  <2> QED BY <2>1, <2>2
<1>4. Distinct(p)
  <2> SUFFICES ASSUME NEW i \in 1..Len(p), NEW j \in 1..Len(p), p[i] = p[j] PROVE i = j
    BY DEF Distinct
  <2>1. q[i + 1] = q[j + 1] /\ i + 1 \in 1..Len(q) /\ j + 1 \in 1..Len(q)
    BY <1>1, <1>2
  <2>2. i + 1 = j + 1
    BY <2>1 DEF Distinct
  <2> QED BY <2>2
<1>5. In(q, Head(q))
  <2>1. 1 \in 1..Len(q) /\ q[1] = Head(q)
    BY <1>1
  <2> QED BY <2>1 DEF In
<1> QED BY <1>3, <1>4, <1>5 DEF p

LEMMA NoneIn ==
  ASSUME NEW q, q = <<>>
  PROVE  Distinct(q) /\ \A r : ~In(q, r)
  BY DEF Distinct, In

LEMMA PlaceInit == Init => PlaceInv
<1> SUFFICES ASSUME Init PROVE PlaceInv
  OBVIOUS
<1>1. sigs = <<>> /\ txs = <<>> /\ given = <<>> /\ hold = 0 /\ worker = "recv" /\ gone = {}
  BY DEF Init
<1>2. DOMAIN fetching = {}
  BY EmptySeq DEF Init
<1>3. \A s \in Sigs : s # 0
  BY DEF Sigs
<1> QED BY <1>1, <1>2, <1>3, NoneIn DEF PlaceInv, Placed, Working, Ended

\* The state the places read.
placeVars == <<sigs, fetching, hold, txs, workVars, histVars>>

LEMMA PlaceKept ==
  ASSUME PlaceInv, UNCHANGED placeVars
  PROVE  PlaceInv'
  BY DEF PlaceInv, Placed, Working, Ended, In, Distinct, placeVars, workVars, histVars

LEMMA PlaceSend ==
  ASSUME TypeOK, CursorInv, PlaceInv, SendSignature
  PROVE  PlaceInv'
<1>1. next \in Sigs /\ listed[next] = 0 /\ sigs \in Seq(Sigs)
  BY NextIsNew DEF TypeOK, SigsOK
<1>2. /\ UNCHANGED <<fetching, hold, txs, worker, work, given, gone>>
      /\ sigs' = Append(sigs, next)
  BY DEF SendSignature, fetchVars, workVars
<1>3. listed'[next] # 0 /\ \A s \in Sigs : listed'[s] # 0 <=> listed[s] # 0 \/ s = next
  BY <1>1 DEF SendSignature, TypeOK, HistoryOK
<1>4. Placed(next)
  BY <1>1 DEF PlaceInv
<1>5. /\ Distinct(sigs')
      /\ \A s : In(sigs', s) <=> In(sigs, s) \/ s = next
  BY <1>1, <1>2, <1>4, AppendIn DEF PlaceInv, Placed
<1>6. ASSUME NEW s \in Sigs PROVE Placed(s)'
  <2>1. Placed(s)
    BY DEF PlaceInv
  <2>2. UNCHANGED <<In(txs, s), Working(s), Ended(s), DOMAIN fetching, hold>>
    BY <1>2 DEF In, Working, Ended
  <2> QED BY <1>1, <1>3, <1>4, <1>5, <2>1, <2>2 DEF Placed
<1> QED BY <1>2, <1>5, <1>6 DEF PlaceInv, Distinct

LEMMA PlaceStartFetch ==
  ASSUME TypeOK, PlaceInv, StartFetch
  PROVE  PlaceInv'
<1>1. sigs \in Seq(Sigs) /\ sigs # <<>> /\ Distinct(sigs)
  BY DEF TypeOK, SigsOK, StartFetch, PlaceInv
<1>2. /\ UNCHANGED <<hold, txs, worker, work, listed, given, gone>>
      /\ sigs' = Tail(sigs) /\ DOMAIN fetching' = DOMAIN fetching \union {Head(sigs)}
  BY DEF StartFetch, workVars, histVars
<1>3. /\ Distinct(sigs') /\ In(sigs, Head(sigs))
      /\ \A s : In(sigs', s) <=> In(sigs, s) /\ s # Head(sigs)
  BY <1>1, <1>2, TailIn
<1>4. ASSUME NEW s \in Sigs PROVE Placed(s)'
  <2>1. Placed(s)
    BY DEF PlaceInv
  <2>2. UNCHANGED <<In(txs, s), Working(s), Ended(s), hold, listed>>
    BY <1>2 DEF In, Working, Ended
  <2> QED BY <1>2, <1>3, <2>1, <2>2 DEF Placed
<1> QED BY <1>2, <1>3, <1>4 DEF PlaceInv, Distinct

LEMMA PlaceFetched ==
  ASSUME TypeOK, PlaceInv, NEW f \in DOMAIN fetching, Fetched(f)
  PROVE  PlaceInv'
<1>1. /\ UNCHANGED <<sigs, txs, worker, work, listed, given, gone>>
      /\ DOMAIN fetching' = DOMAIN fetching \ {f} /\ hold' = f
  BY DEF Fetched, Without, workVars, histVars
<1>2. ASSUME NEW s \in Sigs PROVE Placed(s)'
  <2>1. Placed(s)
    BY DEF PlaceInv
  <2>2. UNCHANGED <<In(sigs, s), In(txs, s), Working(s), Ended(s), listed>>
    BY <1>1 DEF In, Working, Ended
  <2> QED BY <1>1, <2>1, <2>2 DEF Placed
<1> QED BY <1>1, <1>2 DEF PlaceInv, Distinct

LEMMA PlaceFetchFails ==
  ASSUME TypeOK, PlaceInv, NEW f \in DOMAIN fetching, FetchFails(f)
  PROVE  PlaceInv'
<1>1. /\ UNCHANGED <<sigs, hold, txs, worker, work, listed, given>>
      /\ \/ DOMAIN fetching' = DOMAIN fetching /\ gone' = gone
         \/ DOMAIN fetching' = DOMAIN fetching \ {f} /\ gone' = gone \union {f}
  BY DEF FetchFails, Without, workVars
<1>2. ASSUME NEW s \in Sigs PROVE Placed(s)'
  <2>1. Placed(s)
    BY DEF PlaceInv
  <2>2. UNCHANGED <<In(sigs, s), In(txs, s), Working(s), In(given, s), listed, hold>>
    BY <1>1 DEF In, Working
  <2> QED BY <1>1, <2>1, <2>2 DEF Placed, Ended
<1> QED BY <1>1, <1>2 DEF PlaceInv, Distinct

LEMMA PlaceSendTransaction ==
  ASSUME TypeOK, PlaceInv, SendTransaction
  PROVE  PlaceInv'
<1>1. hold \in Sigs /\ txs \in Seq(Sigs) /\ \A s \in Sigs : s # 0
  BY DEF TypeOK, FetcherOK, TxsOK, SendTransaction, Sigs
<1>2. /\ UNCHANGED <<sigs, fetching, worker, work, listed, given>> /\ hold' = 0
      /\ \/ txs' = Append(txs, hold) /\ gone' = gone
         \/ txs' = txs /\ gone' = gone \union {hold}
  BY DEF SendTransaction, workVars
<1>3. Placed(hold) /\ Distinct(txs)
  BY <1>1 DEF PlaceInv
<1>4. Distinct(txs')
  BY <1>1, <1>2, <1>3, AppendIn DEF Placed
<1>0. \A s : In(Append(txs, hold), s) <=> In(txs, s) \/ s = hold
  BY <1>1, AppendIn
<1>5. \/ gone' = gone /\ \A s : In(txs', s) <=> In(txs, s) \/ s = hold
      \/ gone' = gone \union {hold} /\ txs' = txs
  <2>1. CASE txs' = Append(txs, hold) /\ gone' = gone
    BY <1>0, <2>1
  <2> QED BY <1>2, <2>1
<1>6. ASSUME NEW s \in Sigs PROVE Placed(s)'
  <2>1. Placed(s)
    BY DEF PlaceInv
  <2>2. UNCHANGED <<In(sigs, s), Working(s), In(given, s), DOMAIN fetching, listed>>
    BY <1>2 DEF In, Working
  <2>3. CASE gone' = gone /\ \A r : In(txs', r) <=> In(txs, r) \/ r = hold
    BY <1>1, <1>2, <1>3, <2>1, <2>2, <2>3 DEF Placed, Ended
  <2>4. CASE gone' = gone \union {hold} /\ txs' = txs
    <3>1. UNCHANGED In(txs, s)
      BY <2>4 DEF In
    <3> QED BY <1>1, <1>2, <2>1, <2>2, <2>4, <3>1 DEF Placed, Ended
  <2> QED BY <1>5, <2>3, <2>4
<1> QED BY <1>2, <1>4, <1>6 DEF PlaceInv, Distinct

LEMMA PlaceFetcherCancelled ==
  ASSUME TypeOK, PlaceInv, FetcherCancelled
  PROVE  PlaceInv'
<1>1. /\ UNCHANGED <<txs, worker, work, listed, given, gone>>
      /\ sigs' = <<>> /\ hold' = 0 /\ fetching' = <<>>
  BY DEF FetcherCancelled, workVars, histVars
<1>2. DOMAIN fetching' = {} /\ \A s \in Sigs : s # 0
  BY <1>1, EmptySeq DEF Sigs
<1>3. Distinct(sigs') /\ \A s : ~In(sigs', s)
  BY <1>1, NoneIn
<1>4. ASSUME NEW s \in Sigs PROVE Placed(s)'
  <2>1. Placed(s)
    BY DEF PlaceInv
  <2>2. UNCHANGED <<In(txs, s), Working(s), Ended(s), listed>>
    BY <1>1 DEF In, Working, Ended
  <2> QED BY <1>1, <1>2, <1>3, <2>1, <2>2 DEF Placed
<1> QED BY <1>1, <1>3, <1>4 DEF PlaceInv, Distinct

LEMMA PlaceTake ==
  ASSUME TypeOK, PlaceInv, TakeTransaction
  PROVE  PlaceInv'
<1>1. txs \in Seq(Sigs) /\ txs # <<>> /\ Distinct(txs) /\ worker = "recv"
  BY DEF TypeOK, TxsOK, TakeTransaction, PlaceInv
<1>2. /\ UNCHANGED <<sigs, fetching, hold, listed, given>> /\ txs' = Tail(txs)
      /\ \/ gone' = gone \union {Head(txs)} /\ worker' = worker /\ work' = work
         \/ gone' = gone /\ worker' = "send" /\ work' = Head(txs)
  BY DEF TakeTransaction, fetchVars, workVars
<1>3. /\ Distinct(txs') /\ In(txs, Head(txs))
      /\ \A s : In(txs', s) <=> In(txs, s) /\ s # Head(txs)
  BY <1>1, <1>2, TailIn
<1>4. ASSUME NEW s \in Sigs PROVE Placed(s)'
  <2>1. Placed(s)
    BY DEF PlaceInv
  <2>2. UNCHANGED <<In(sigs, s), In(given, s), DOMAIN fetching, hold, listed>>
    BY <1>2 DEF In
  <2> QED BY <1>1, <1>2, <1>3, <2>1, <2>2 DEF Placed, Working, Ended
<1> QED BY <1>2, <1>3, <1>4 DEF PlaceInv, Distinct

LEMMA PlaceSendUpdate ==
  ASSUME TypeOK, PlaceInv, SendUpdate \/ SendUpdateFails
  PROVE  PlaceInv'
<1>1. given \in Seq(Sigs) /\ work \in Sigs /\ worker = "send"
  BY DEF TypeOK, HistoryOK, WorkerOK, SendUpdate, SendUpdateFails
<1>2. /\ UNCHANGED <<sigs, fetching, hold, txs, listed>> /\ worker' = "recv"
      /\ \/ given' = Append(given, work) /\ gone' = gone
         \/ given' = given /\ gone' = gone \union {work}
  BY DEF SendUpdate, SendUpdateFails, fetchVars
<1>0. \A s : In(Append(given, work), s) <=> In(given, s) \/ s = work
  BY <1>1, AppendIn
<1>3. ASSUME NEW s PROVE Ended(s)' <=> Ended(s) \/ s = work
  <2>1. CASE given' = Append(given, work) /\ gone' = gone
    <3>1. In(given, s)' <=> In(Append(given, work), s)
      BY <2>1 DEF In
    <3> QED BY <1>0, <2>1, <3>1 DEF Ended
  <2>2. CASE given' = given /\ gone' = gone \union {work}
    <3>1. In(given, s)' <=> In(given, s)
      BY <2>2 DEF In
    <3> QED BY <2>2, <3>1 DEF Ended
  <2> QED BY <1>2, <2>1, <2>2
<1>4. ASSUME NEW s \in Sigs PROVE Placed(s)'
  <2>1. Placed(s)
    BY DEF PlaceInv
  <2>2. UNCHANGED <<In(sigs, s), In(txs, s), DOMAIN fetching, hold, listed>>
    BY <1>2 DEF In
  <2>3. ~Working(s)'
    BY <1>2 DEF Working
  <2> QED BY <1>1, <1>3, <2>1, <2>2, <2>3 DEF Placed, Working
<1> QED BY <1>2, <1>4 DEF PlaceInv, Distinct

LEMMA PlaceWorkerCancelled ==
  ASSUME TypeOK, PlaceInv, WorkerCancelled
  PROVE  PlaceInv'
<1>1. /\ UNCHANGED <<sigs, fetching, hold, listed, given, gone>>
      /\ worker' = "ended" /\ txs' = <<>>
  BY DEF WorkerCancelled, fetchVars, histVars
<1>2. Distinct(txs') /\ \A s : ~In(txs', s)
  BY <1>1, NoneIn
<1>3. ASSUME NEW s \in Sigs PROVE Placed(s)'
  <2>1. Placed(s)
    BY DEF PlaceInv
  <2>2. UNCHANGED <<In(sigs, s), Ended(s), DOMAIN fetching, hold, listed>> /\ ~Working(s)'
    BY <1>1 DEF In, Working, Ended
  <2> QED BY <1>2, <2>1, <2>2 DEF Placed
<1> QED BY <1>1, <1>2, <1>3 DEF PlaceInv, Distinct

\* The steps that move no transaction.
LEMMA Unmoved ==
  ASSUME [Next]_vars
  PROVE  \/ UNCHANGED placeVars
         \/ SendSignature
         \/ StartFetch \/ SendTransaction \/ FetcherCancelled
         \/ \E s \in DOMAIN fetching : Fetched(s) \/ FetchFails(s)
         \/ TakeTransaction \/ SendUpdate \/ SendUpdateFails \/ WorkerCancelled
  BY DEF Next, Consume, ListerStep, FetcherStep, WorkerStep, Environment, ListPage, EndSweep, ListFails,
         SendSignatureFails, EndPage, ListerCancelled, Confirm, Receive, DropReceiver, Cancel,
         vars, placeVars, envVars, listVars, fetchVars, workVars, histVars

LEMMA PlaceStep ==
  ASSUME TypeOK, CursorInv, PlaceInv, [Next]_vars
  PROVE  PlaceInv'
<1>1. CASE UNCHANGED placeVars
  BY <1>1, PlaceKept
<1>2. CASE SendSignature
  BY <1>2, PlaceSend
<1>3. CASE StartFetch \/ SendTransaction \/ FetcherCancelled
  BY <1>3, PlaceStartFetch, PlaceSendTransaction, PlaceFetcherCancelled
<1>4. ASSUME NEW s \in DOMAIN fetching, Fetched(s) \/ FetchFails(s) PROVE PlaceInv'
  BY <1>4, PlaceFetched, PlaceFetchFails
<1>5. CASE TakeTransaction \/ SendUpdate \/ SendUpdateFails \/ WorkerCancelled
  BY <1>5, PlaceTake, PlaceSendUpdate, PlaceWorkerCancelled
<1> QED BY <1>1, <1>2, <1>3, <1>4, <1>5, Unmoved

-----------------------------------------------------------------------------
(* The crawler is a once-only delivery.                                    *)

LEMMA DeliveryInit ==
  ASSUME Init
  PROVE  Delivery!Init
<1>1. tip \in Nat
  BY DEF Init
<1> QED BY <1>1 DEF Init, Delivery!Init

\* Whatever a step ends was open: confirmed, not given and not given up.
LEMMA EndsOpen ==
  ASSUME TypeOK, CursorInv, NEW s \in Sigs, listed[s] # 0, ~Ended(s)
  PROVE  s \in 1..tip /\ Delivery!Open(s)
<1>1. s \in 1..tip
  BY CursorTypes DEF CursorInv, Bounded, Sigs
<1>2. ~In(given, s) /\ s \notin gone
  BY DEF Ended
<1> QED BY <1>1, <1>2 DEF Delivery!Open, In

LEMMA DeliveryStep ==
  ASSUME TypeOK, CursorInv, PlaceInv, [Next]_vars
  PROVE  [Delivery!Next]_<<tip, given, gone>>
<1>1. \A s \in Sigs : Placed(s)
  BY DEF PlaceInv
<1>2. ASSUME NEW s \in Sigs, listed[s] # 0, ~Ended(s), tip' = tip,
             \/ given' = Append(given, s) /\ gone' = gone
             \/ given' = given /\ gone' = gone \union {s}
      PROVE  Delivery!Next
  <2>1. s \in 1..tip /\ Delivery!Open(s)
    BY <1>2, EndsOpen
  <2>2. Delivery!Give(s) \/ Delivery!GiveUp(s)
    BY <1>2, <2>1 DEF Delivery!Give, Delivery!GiveUp
  <2> QED BY <2>1, <2>2 DEF Delivery!Next
<1>3. CASE Confirm
  BY <1>3 DEF Confirm, histVars, Delivery!Next, Delivery!Confirm
<1>4. ASSUME NEW s \in DOMAIN fetching, FetchFails(s) PROVE [Delivery!Next]_<<tip, given, gone>>
  <2>1. s \in Sigs /\ listed[s] # 0 /\ ~Ended(s)
    BY <1>1 DEF TypeOK, FetcherOK, Placed
  <2>2. tip' = tip /\ given' = given /\ (gone' = gone \/ gone' = gone \union {s})
    BY <1>4 DEF FetchFails, envVars
  <2> QED BY <1>2, <2>1, <2>2
<1>5. CASE SendTransaction
  <2>1. hold \in Sigs
    BY <1>5 DEF SendTransaction, TypeOK, FetcherOK, Sigs
  <2>2. listed[hold] # 0 /\ ~Ended(hold)
    BY <1>1, <2>1 DEF Placed
  <2>3. tip' = tip /\ given' = given /\ (gone' = gone \/ gone' = gone \union {hold})
    BY <1>5 DEF SendTransaction, envVars
  <2> QED BY <1>2, <2>1, <2>2, <2>3
<1>6. CASE TakeTransaction
  <2>1. Head(txs) \in Sigs /\ In(txs, Head(txs))
    BY <1>6, TailIn, TailSig DEF TakeTransaction, TypeOK, TxsOK, PlaceInv
  <2>2. listed[Head(txs)] # 0 /\ ~Ended(Head(txs))
    BY <1>1, <2>1 DEF Placed
  <2>3. tip' = tip /\ given' = given /\ (gone' = gone \/ gone' = gone \union {Head(txs)})
    BY <1>6 DEF TakeTransaction, envVars
  <2> QED BY <1>2, <2>1, <2>2, <2>3
<1>7. CASE SendUpdate \/ SendUpdateFails
  <2>1. work \in Sigs /\ Working(work)
    BY <1>7 DEF SendUpdate, SendUpdateFails, TypeOK, WorkerOK, Working
  <2>2. listed[work] # 0 /\ ~Ended(work)
    BY <1>1, <2>1 DEF Placed
  <2>3. /\ tip' = tip
        /\ \/ given' = Append(given, work) /\ gone' = gone
           \/ given' = given /\ gone' = gone \union {work}
    BY <1>7 DEF SendUpdate, SendUpdateFails, envVars
  <2> QED BY <1>2, <2>1, <2>2, <2>3
<1>8. CASE UNCHANGED <<tip, given, gone>>
  BY <1>8
<1>9. \/ UNCHANGED <<tip, given, gone>>
      \/ Confirm \/ SendTransaction \/ TakeTransaction \/ SendUpdate \/ SendUpdateFails
      \/ \E s \in DOMAIN fetching : FetchFails(s)
  BY DEF Next, Consume, ListerStep, FetcherStep, WorkerStep, Environment, ListPage, EndSweep, ListFails,
         SendSignature, SendSignatureFails, EndPage, ListerCancelled, StartFetch, Fetched,
         FetcherCancelled, WorkerCancelled, Receive, DropReceiver, Cancel,
         vars, envVars, histVars
<1> QED BY <1>3, <1>4, <1>5, <1>6, <1>7, <1>8, <1>9

\* Every transaction the crawler hands to the pipeline or gives up was confirmed
\* and is decided once, whatever fails, is retried or is cancelled.
THEOREM DeliversOnce == Spec => RefinesDelivery
<1> DEFINE Inv == TypeOK /\ CursorInv /\ PlaceInv
<1>1. Init => Inv /\ Delivery!Init
  BY TypeInit, CursorInit, PlaceInit, DeliveryInit
<1>2. Inv /\ [Next]_vars => Inv'
  BY TypeStep, CursorStep, PlaceStep
<1>3. Inv /\ [Next]_vars => [Delivery!Next]_<<tip, given, gone>>
  BY DeliveryStep
<1> QED BY <1>1, <1>2, <1>3, PTL DEF Spec, RefinesDelivery, Delivery!Spec

-----------------------------------------------------------------------------
(* The search for the start signature.                                     *)

\* The pages read so far lie above the start slot; the result is at or before
\* it, and everything of the pages above the result is after it.
Passed   == from # 0 => \A s \in Sigs : from <= s /\ s <= newest => SlotOf[s] > start
Landed   == origin # 0 => /\ SlotOf[origin] <= start
                          /\ \A s \in Sigs : origin < s /\ s <= newest => SlotOf[s] > start
Searched ==
  /\ from <= newest /\ newest <= tip /\ origin <= tip
  /\ stage # "search" => from = 0
  /\ stage # "ready" => lister = "new" /\ origin = 0
  /\ lister # "new" => floor = origin
SearchInv == Searched /\ Passed /\ Landed

LEMMA StartTypeInit == StartInit => StartOK
<1> SUFFICES ASSUME StartInit PROVE StartOK
  OBVIOUS
<1>1. PICK arg \in Args, env \in Envs : start = StartBlock(arg, env)
  BY DEF StartInit
<1>2. /\ arg = <<>> \/ arg[1] \in Nat
      /\ env = <<>> \/ env[1] \in Nat
  BY StartAssumption DEF StartAssumption
<1>3. start \in Nat
  BY <1>1, <1>2 DEF StartBlock
<1>4. MaxPages \in Nat
  BY SearchAssumption DEF SearchAssumption
<1> QED BY <1>3, <1>4 DEF StartInit, StartOK

LEMMA SearchInit == StartInit => SearchInv
<1> SUFFICES ASSUME StartInit PROVE SearchInv
  OBVIOUS
<1>1. tip \in Nat /\ lister = "new"
  BY DEF StartInit, Init
<1>2. from = 0 /\ newest = 0 /\ origin = 0 /\ stage # "search"
  BY DEF StartInit
<1> QED BY <1>1, <1>2 DEF SearchInv, Searched, Passed, Landed

\* What a page of the search is.
LEMMA SearchPageIs ==
  ASSUME TypeOK, StartOK, SearchInv
  PROVE  /\ SearchTop \in 0..tip
         /\ \A s \in SearchPage : s \in Sigs /\ s \in Nat \ {0} /\ s <= SearchTop
         /\ \A s \in Sigs : s <= SearchTop /\ s \notin SearchPage =>
              \A r \in SearchPage : s < r
         /\ from = 0 => SearchTop = tip
         /\ from # 0 => SearchTop = from - 1
<1>1. tip \in Nat /\ from \in Nat /\ newest \in Nat /\ from <= newest /\ newest <= tip
  BY DEF TypeOK, EnvOK, StartOK, SearchInv, Searched
<1>2. SearchTop \in 0..tip /\ (from = 0 => SearchTop = tip) /\ (from # 0 => SearchTop = from - 1)
  BY <1>1 DEF SearchTop
<1>3. PageLimit \in Nat
  BY SearchAssumption DEF SearchAssumption
<1> QED BY <1>2, <1>3 DEF SearchPage, Sigs

\* The slots do not decrease, so what lies above a match in its page is known.
LEMMA SearchFinds ==
  ASSUME TypeOK, StartOK, SearchInv, FindSignature
  PROVE  (StartOK /\ SearchInv)'
<1>1. /\ stage = "search" /\ stage' = "ready" /\ from' = 0 /\ attempts' = 0
      /\ newest' = IF from = 0 THEN tip ELSE newest
      /\ origin' \in SearchPage /\ SlotOf[origin'] <= start
      /\ \A s \in SearchPage : SlotOf[s] <= start => s <= origin'
      /\ UNCHANGED <<start, lister, floor, tip>>
  BY DEF FindSignature, Answered, AtOrBefore, vars, envVars, listVars
<1>2. PICK o \in SearchPage : o = origin'
  BY <1>1
<1>3. /\ o \in Sigs /\ o \in Nat \ {0} /\ o <= SearchTop /\ SearchTop \in 0..tip
      /\ from = 0 => SearchTop = tip
      /\ from # 0 => SearchTop = from - 1
      /\ \A s \in Sigs : s <= SearchTop /\ s \notin SearchPage => s < o
  BY SearchPageIs
<1>4. tip \in 0..MaxSig /\ from \in Nat /\ newest \in 0..MaxSig /\ start \in Nat /\ MaxPages \in Nat
  BY SearchAssumption DEF TypeOK, EnvOK, StartOK, SearchAssumption
<1>5. \A s \in Sigs : SlotOf[s] \in Nat
  BY SlotAssumption DEF SlotAssumption
<1>6. newest' \in 0..MaxSig /\ newest' <= tip /\ o <= tip /\ o \in 0..MaxSig
  BY <1>1, <1>3, <1>4 DEF SearchInv, Searched
<1>7. StartOK'
  BY <1>1, <1>2, <1>4, <1>6 DEF StartOK
<1>8. lister = "new"
  BY <1>1 DEF SearchInv, Searched
<1>9. Searched' /\ Passed'
  BY <1>1, <1>2, <1>6, <1>8 DEF Searched, Passed
<1>10. ASSUME NEW s \in Sigs, o < s, s <= newest' PROVE SlotOf[s] > start
  <2>1. CASE s <= SearchTop
    <3>1. s \in SearchPage
      BY <1>3, <1>10, <2>1 DEF Sigs
    <3>2. ~(SlotOf[s] <= start)
      BY <1>1, <1>2, <1>3, <1>10, <3>1 DEF Sigs
    <3> QED BY <1>4, <1>5, <3>2
  <2>2. CASE ~(s <= SearchTop)
    <3>1. from # 0 /\ from <= s /\ s <= newest
      BY <1>1, <1>3, <1>4, <1>10, <2>2 DEF Sigs
    <3> QED BY <3>1 DEF SearchInv, Passed
  <2> QED BY <2>1, <2>2
<1>11. Landed'
  BY <1>1, <1>2, <1>10 DEF Landed
<1> QED BY <1>7, <1>9, <1>11 DEF SearchInv

LEMMA SearchPages ==
  ASSUME TypeOK, StartOK, SearchInv, NextPage
  PROVE  (StartOK /\ SearchInv)'
<1>1. /\ stage = "search" /\ attempts < MaxPages
      /\ newest' = IF from = 0 THEN tip ELSE newest
      /\ from' \in SearchPage /\ \A s \in SearchPage : from' <= s
      /\ \A s \in SearchPage : ~(SlotOf[s] <= start)
      /\ attempts' = attempts + 1
      /\ UNCHANGED <<start, stage, origin, lister, floor, tip>>
  BY DEF NextPage, Answered, AtOrBefore, vars, envVars, listVars
<1>2. PICK f \in SearchPage : f = from'
  BY <1>1
<1>3. /\ f \in Sigs /\ f \in Nat \ {0} /\ f <= SearchTop /\ SearchTop \in 0..tip
      /\ from = 0 => SearchTop = tip
      /\ from # 0 => SearchTop = from - 1
      /\ \A s \in Sigs : s <= SearchTop /\ s \notin SearchPage => s < f
  BY SearchPageIs
<1>4. /\ tip \in 0..MaxSig /\ from \in Nat /\ newest \in 0..MaxSig /\ start \in Nat
      /\ attempts \in Nat /\ MaxPages \in Nat
  BY SearchAssumption DEF TypeOK, EnvOK, StartOK, SearchAssumption
<1>5. \A s \in Sigs : SlotOf[s] \in Nat
  BY SlotAssumption DEF SlotAssumption
<1>6. newest' \in 0..MaxSig /\ newest' <= tip /\ f <= newest' /\ f \in 0..MaxSig
  BY <1>1, <1>3, <1>4 DEF SearchInv, Searched
<1>7. StartOK'
  BY <1>1, <1>2, <1>4, <1>6 DEF StartOK
<1>8. origin = 0
  BY <1>1 DEF SearchInv, Searched
<1>9. Searched' /\ Landed'
  BY <1>1, <1>2, <1>6, <1>8 DEF SearchInv, Searched, Landed
<1>10. ASSUME NEW s \in Sigs, f <= s, s <= newest' PROVE SlotOf[s] > start
  <2>1. CASE s <= SearchTop
    <3>1. s \in SearchPage
      BY <1>3, <1>10, <2>1 DEF Sigs
    <3> QED BY <1>1, <1>4, <1>5, <3>1
  <2>2. CASE ~(s <= SearchTop)
    <3>1. from # 0 /\ from <= s /\ s <= newest
      BY <1>1, <1>3, <1>4, <1>10, <2>2 DEF Sigs
    <3> QED BY <3>1 DEF SearchInv, Passed
  <2> QED BY <2>1, <2>2
<1>11. Passed'
  BY <1>1, <1>2, <1>10 DEF Passed
<1> QED BY <1>7, <1>9, <1>11 DEF SearchInv

\* A step that leaves the search alone; the history may grow.
LEMMA SearchKept ==
  ASSUME TypeOK, StartOK, SearchInv, UNCHANGED startVars,
         tip' \in Nat, tip <= tip',
         lister = "new" \/ lister' # "new",
         lister' # "new" => stage = "ready" /\ floor' = origin
  PROVE  (StartOK /\ SearchInv)'
<1>1. StartOK'
  BY DEF StartOK, startVars
<1>2. tip \in Nat /\ newest \in Nat /\ origin \in Nat
  BY DEF TypeOK, EnvOK, StartOK
<1>3. Searched'
  BY <1>2 DEF SearchInv, Searched, startVars
<1>4. Passed' /\ Landed'
  BY DEF SearchInv, Passed, Landed, startVars
<1> QED BY <1>1, <1>3, <1>4 DEF SearchInv

LEMMA SearchStep ==
  ASSUME TypeOK, TypeOK', StartOK, SearchInv, [StartNext]_allVars
  PROVE  (StartOK /\ SearchInv)'
<1>0. /\ tip \in Nat /\ tip' \in Nat /\ from \in Nat /\ newest \in Nat /\ MaxPages \in Nat
      /\ attempts \in 0..MaxPages
  BY SearchAssumption DEF TypeOK, EnvOK, StartOK, SearchAssumption
<1>1. CASE BlockFound \/ BlockMissing
  <2>1. /\ stage = "block" /\ stage' \in {"search", "ready"}
        /\ UNCHANGED <<start, from, attempts, origin, newest, lister, floor, tip>>
    BY <1>1 DEF BlockFound, BlockMissing, vars, envVars, listVars
  <2>2. StartOK'
    BY <2>1 DEF StartOK
  <2>3. SearchInv'
    BY <2>1 DEF SearchInv, Searched, Passed, Landed
  <2> QED BY <2>2, <2>3
<1>2. CASE FindSignature
  BY <1>2, SearchFinds
<1>3. CASE NextPage
  BY <1>3, SearchPages
<1>4. CASE SearchEnds
  <2>1. /\ stage = "search" /\ stage' = "ready" /\ from' = 0 /\ attempts' = 0 /\ newest' = 0
        /\ UNCHANGED <<start, origin, lister, floor, tip>>
    BY <1>4 DEF SearchEnds, vars, envVars, listVars
  <2>2. StartOK'
    BY <1>0, <2>1 DEF StartOK
  <2>3. SearchInv'
    BY <1>0, <2>1 DEF SearchInv, Searched, Passed, Landed
  <2> QED BY <2>2, <2>3
<1>5. CASE Launch
  <2>1. /\ stage = "ready" /\ lister = "new" /\ lister' = "ask" /\ floor' = origin
        /\ UNCHANGED startVars /\ tip' = tip
    BY <1>5 DEF Launch, Consume
  <2> QED BY <1>0, <2>1, SearchKept
<1>6. CASE (ListerStep \/ FetcherStep \/ WorkerStep \/ Environment) /\ UNCHANGED startVars
  <2>1. /\ floor' = floor
        /\ lister' = lister \/ (lister' # "new" /\ lister # "new")
        /\ tip' = tip \/ tip' = tip + 1
    BY <1>6 DEF ListerStep, FetcherStep, WorkerStep, Environment, ListPage, EndSweep, ListFails,
         SendSignature, SendSignatureFails, EndPage, ListerCancelled, StartFetch, Fetched, FetchFails,
         SendTransaction, FetcherCancelled, TakeTransaction, SendUpdate, SendUpdateFails,
         WorkerCancelled, Confirm, Receive, DropReceiver, Cancel, envVars, listVars
  <2> QED BY <1>0, <1>6, <2>1, SearchKept DEF SearchInv, Searched
<1>7. CASE UNCHANGED allVars
  <2>1. UNCHANGED startVars /\ UNCHANGED <<lister, floor, tip>>
    BY <1>7 DEF allVars, vars, envVars, listVars
  <2> QED BY <1>0, <2>1, SearchKept DEF SearchInv, Searched
<1> QED BY <1>1, <1>2, <1>3, <1>4, <1>5, <1>6, <1>7 DEF StartNext, Search

\* The search leaves the crawler alone, and what it hands over is a filter the
\* crawler may be given.
LEMMA Simulates ==
  ASSUME StartOK, SearchInv, [StartNext]_allVars
  PROVE  [Next]_vars
<1>1. CASE Search \/ UNCHANGED allVars
  BY <1>1 DEF Search, BlockFound, BlockMissing, FindSignature, NextPage, SearchEnds, allVars
<1>2. CASE Launch
  <2>1. PICK b \in StartBefore : Consume(origin, b)
    BY <1>2 DEF Launch
  <2>2. origin \in 0..tip
    BY DEF StartOK, SearchInv, Searched
  <2> QED BY <2>1, <2>2 DEF Next
<1>3. CASE ListerStep \/ FetcherStep \/ WorkerStep \/ Environment
  BY <1>3 DEF Next
<1> QED BY <1>1, <1>2, <1>3 DEF StartNext

\* With its start looked up first, the crawler is still the one of
\* TransactionCrawler: what is proved of Spec holds from any start block on.
THEOREM StartRefinesCrawler == StartSpec => Spec
<1> DEFINE Inv == TypeOK /\ StartOK /\ SearchInv
<1>1. StartInit => Inv /\ Init
  BY TypeInit, StartTypeInit, SearchInit DEF StartInit
<1>2. Inv /\ [StartNext]_allVars => Inv' /\ [Next]_vars
  BY Simulates, TypeStep, SearchStep
<1> QED BY <1>1, <1>2, PTL DEF StartSpec, Spec

\* The crawl starts within the start block, whatever is confirmed between two
\* pages of the search: nothing after the block is skipped, nothing the search
\* could see before the block is crawled (datasources.rs find_signature_at_slot).
THEOREM StartIsWithinBlock == StartSpec => []StartsWithinBlock
<1> DEFINE Inv == TypeOK /\ StartOK /\ SearchInv
<1>1. StartInit => Inv
  BY TypeInit, StartTypeInit, SearchInit DEF StartInit
<1>2. Inv /\ [StartNext]_allVars => Inv'
  BY Simulates, TypeStep, SearchStep
<1>3. Inv => StartsWithinBlock
  <2> SUFFICES ASSUME Inv, lister # "new", floor # 0
               PROVE  /\ \A s \in Sigs : SlotOf[s] > start => s > floor
                      /\ \A s \in Sigs : floor < s /\ s <= newest => SlotOf[s] >= start
    BY DEF StartsWithinBlock
  <2>1. floor = origin /\ floor \in Sigs /\ SlotOf[floor] <= start
    BY DEF SearchInv, Searched, Landed, StartOK, Sigs
  <2>2. start \in Nat /\ \A s \in Sigs : SlotOf[s] \in Nat
    BY SlotAssumption DEF SlotAssumption, StartOK
  <2>3. \A s \in Sigs : floor < s /\ s <= newest => SlotOf[s] >= start
    BY <2>1, <2>2 DEF SearchInv, Landed
  <2>4. ASSUME NEW s \in Sigs, SlotOf[s] > start PROVE s > floor
    <3>1. s <= floor => SlotOf[s] <= SlotOf[floor]
      BY <2>1, SlotAssumption DEF SlotAssumption
    <3> QED BY <2>1, <2>2, <2>4, <3>1 DEF Sigs
  <2> QED BY <2>3, <2>4
<1> QED BY <1>1, <1>2, <1>3, PTL DEF StartSpec
=============================================================================
