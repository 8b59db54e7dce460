--------------------------- MODULE AtlasDatasource ---------------------------
(***************************************************************************)
(* The Helius Atlas websocket datasource, the only source of transactions  *)
(* the indexer attaches (HeliusWebsocket::consume).                        *)
(*                                                                         *)
(* `consume` is an outer loop that opens a websocket, spawns one           *)
(* "iteration" and waits for the iteration, its cancellation token or the  *)
(* pipeline's token.  An iteration is a supervisor task that joins a clock *)
(* task (the watchdog) and a transaction task (which feeds the bounded     *)
(* channel with try_send).  Cancelling an iteration does not join it, so   *)
(* the tasks of an old iteration can outlive it while a new one runs.      *)
(*                                                                         *)
(* Transactions are numbered in the order the chain confirms them.  What a *)
(* subscription still holds for its task is the interval                   *)
(* cursor[s]+1 .. published: delivery on one websocket is in order.        *)
(***************************************************************************)
EXTENDS Naturals, Sequences

CONSTANTS
  Slots,        \* iterations whose tasks may be alive at the same time (bound)
  MaxTx,        \* number of transactions the chain publishes (bound)
  Unusable,     \* transactions the task skips: failed, no meta, undecodable
  Capacity,     \* channel_buffer_size of the pipeline's channel
  MaxAttempts   \* MAX_RECONNECTION_ATTEMPTS

ASSUME SlotsAssumption       == Slots # {}
ASSUME MaxTxAssumption       == MaxTx \in Nat
ASSUME UnusableAssumption    == Unusable \subseteq 1..MaxTx
ASSUME CapacityAssumption    == Capacity \in Nat \ {0}
ASSUME MaxAttemptsAssumption == MaxAttempts \in Nat \ {0}

VARIABLES
  phase,        \* control point of `consume`
  attempts,     \* reconnection_attempts
  cur,          \* the iteration `consume` waits for while it is running
  mainCancel,   \* the pipeline's cancellation token
  iterCancel,   \* iterCancel[s]: the cancellation token of iteration s
  handle,       \* handle[s]: the supervisor task of iteration s is alive
  clock,        \* clock[s]: state of the clock task
  tx,           \* tx[s]: state of the transaction task
  cursor,       \* cursor[s]: last transaction the task took from its stream
  chan,         \* the bounded mpsc channel to the pipeline
  rxOpen,       \* the pipeline still holds the receiving half
  published,    \* transactions confirmed so far
  since,        \* history: value of published when task s subscribed
  accepted      \* history: transactions some try_send put into the channel

consumeVars == <<phase, attempts, cur>>
clockVars   == <<clock>>
txVars      == <<tx, cursor, since>>
chanVars    == <<chan, accepted>>
envVars     == <<mainCancel, rxOpen, published>>
vars == <<consumeVars, iterCancel, handle, clockVars, txVars, chanVars, envVars>>

Phases      == {"top", "connecting", "running", "sleeping", "stopped", "failed"}
Returned    == {"stopped", "failed"}
TaskStates  == {"done", "subscribing", "live"}

TypeOK ==
  /\ phase \in Phases
  /\ attempts \in 0..MaxAttempts
  /\ cur \in Slots
  /\ mainCancel \in BOOLEAN
  /\ iterCancel \in [Slots -> BOOLEAN]
  /\ handle \in [Slots -> BOOLEAN]
  /\ clock \in [Slots -> TaskStates]
  /\ tx \in [Slots -> TaskStates]
  /\ cursor \in [Slots -> 0..MaxTx]
  /\ chan \in Seq(1..MaxTx)
  /\ Len(chan) <= Capacity
  /\ rxOpen \in BOOLEAN
  /\ published \in 0..MaxTx
  /\ since \in [Slots -> 0..MaxTx]
  /\ accepted \subseteq 1..MaxTx

Init ==
  /\ phase = "top"
  /\ attempts = 0
  /\ cur \in Slots
  /\ mainCancel = FALSE
  /\ iterCancel = [s \in Slots |-> FALSE]
  /\ handle = [s \in Slots |-> FALSE]
  /\ clock = [s \in Slots |-> "done"]
  /\ tx = [s \in Slots |-> "done"]
  /\ cursor = [s \in Slots |-> 0]
  /\ chan = <<>>
  /\ rxOpen = TRUE
  /\ published = 0
  /\ since = [s \in Slots |-> 0]
  /\ accepted = {}

-----------------------------------------------------------------------------
(* The outer loop of consume.                                              *)

\* The cancellation check at the top of the loop.
CheckCancelled ==
  /\ phase = "top"
  /\ phase' = IF mainCancel THEN "stopped" ELSE "connecting"
  /\ UNCHANGED <<attempts, cur, iterCancel, handle, clockVars, txVars, chanVars, envVars>>

\* Helius::new or EnhancedWebsocket::new fails: count it, give up or sleep.
ConnectFails ==
  /\ phase = "connecting"
  /\ attempts' = attempts + 1
  /\ phase' = IF attempts + 1 >= MaxAttempts THEN "failed" ELSE "sleeping"
  /\ UNCHANGED <<cur, iterCancel, handle, clockVars, txVars, chanVars, envVars>>

\* Both succeed: a fresh iteration token and the three tasks are spawned.
Connect(s) ==
  /\ phase = "connecting"
  /\ ~handle[s]
  /\ phase' = "running"
  /\ cur' = s
  /\ iterCancel' = [iterCancel EXCEPT ![s] = FALSE]
  /\ handle' = [handle EXCEPT ![s] = TRUE]
  /\ clock' = [clock EXCEPT ![s] = "subscribing"]
  /\ tx' = [tx EXCEPT ![s] = "subscribing"]
  /\ UNCHANGED <<attempts, cursor, since, chanVars, envVars>>

\* Faulty variant: returns without cancelling the iteration it spawned.
StopWithoutCancel ==
  /\ phase = "running"
  /\ mainCancel
  /\ phase' = "stopped"
  /\ UNCHANGED <<attempts, cur, iterCancel, handle, clockVars, txVars, chanVars, envVars>>

\* select!: the pipeline's token.
StopIteration ==
  /\ phase = "running"
  /\ mainCancel
  /\ iterCancel' = [iterCancel EXCEPT ![cur] = TRUE]
  /\ phase' = "stopped"
  /\ UNCHANGED <<attempts, cur, handle, clockVars, txVars, chanVars, envVars>>

\* select!: the iteration's token, or its supervisor has ended.
EndIteration ==
  /\ phase = "running"
  /\ iterCancel[cur] \/ ~handle[cur]
  /\ attempts' = 0
  /\ phase' = "sleeping"
  /\ UNCHANGED <<cur, iterCancel, handle, clockVars, txVars, chanVars, envVars>>

\* Faulty variant: forgets the failures on every turn of the loop.
WakeForgetful ==
  /\ phase = "sleeping"
  /\ phase' = "top"
  /\ attempts' = 0
  /\ UNCHANGED <<cur, iterCancel, handle, clockVars, txVars, chanVars, envVars>>

\* The RECONNECTION_DELAY_MS sleep is over; it does not watch any token.
Wake ==
  /\ phase = "sleeping"
  /\ phase' = "top"
  /\ UNCHANGED <<attempts, cur, iterCancel, handle, clockVars, txVars, chanVars, envVars>>

\* The supervisor has joined both tasks of iteration s.
Supervise(s) ==
  /\ handle[s]
  /\ clock[s] = "done"
  /\ tx[s] = "done"
  /\ handle' = [handle EXCEPT ![s] = FALSE]
  /\ iterCancel' = [iterCancel EXCEPT ![s] = TRUE]
  /\ UNCHANGED <<consumeVars, clockVars, txVars, chanVars, envVars>>

-----------------------------------------------------------------------------
(* The clock task.                                                         *)

ClockSubscribes(s) ==
  /\ clock[s] = "subscribing"
  /\ clock' = [clock EXCEPT ![s] = "live"]
  /\ UNCHANGED <<consumeVars, iterCancel, handle, txVars, chanVars, envVars>>

\* Faulty variant: ends without cancelling the iteration.
ClockLostQuietly(s) ==
  /\ clock[s] # "done"
  /\ clock' = [clock EXCEPT ![s] = "done"]
  /\ UNCHANGED <<consumeVars, iterCancel, handle, txVars, chanVars, envVars>>

\* The task gives up on the iteration: the subscription failed, five seconds
\* passed without an update, a slot gap exceeded MAX_MISSED_BLOCKS, or the
\* stream closed.  (An update in time changes nothing the model keeps.)
ClockLost(s) ==
  /\ clock[s] # "done"
  /\ clock' = [clock EXCEPT ![s] = "done"]
  /\ iterCancel' = [iterCancel EXCEPT ![s] = TRUE]
  /\ UNCHANGED <<consumeVars, handle, txVars, chanVars, envVars>>

\* select!: either token.  A task still awaiting its subscription sees neither.
ClockCancelled(s) ==
  /\ clock[s] = "live"
  /\ mainCancel \/ iterCancel[s]
  /\ clock' = [clock EXCEPT ![s] = "done"]
  /\ UNCHANGED <<consumeVars, iterCancel, handle, txVars, chanVars, envVars>>

-----------------------------------------------------------------------------
(* The transaction task.                                                   *)

\* The task returns; its stream and its position in it are gone.
TxEnds(s) ==
  /\ tx' = [tx EXCEPT ![s] = "done"]
  /\ cursor' = [cursor EXCEPT ![s] = 0]
  /\ since' = [since EXCEPT ![s] = 0]

TxSubscribes(s) ==
  /\ tx[s] = "subscribing"
  /\ tx' = [tx EXCEPT ![s] = "live"]
  /\ cursor' = [cursor EXCEPT ![s] = published]
  /\ since' = [since EXCEPT ![s] = published]
  /\ UNCHANGED <<consumeVars, iterCancel, handle, clockVars, chanVars, envVars>>

\* transaction_subscribe failed: the task returns and cancels nothing.
TxSubscribeFails(s) ==
  /\ tx[s] = "subscribing"
  /\ TxEnds(s)
  /\ UNCHANGED <<consumeVars, iterCancel, handle, clockVars, chanVars, envVars>>

HasEvent(s) == tx[s] = "live" /\ cursor[s] < published
NextTx(s)   == cursor[s] + 1
CanSend     == rxOpen /\ Len(chan) < Capacity

\* `continue`: bad signature, no meta, failed status, undecodable.
TxSkip(s) ==
  /\ HasEvent(s)
  /\ NextTx(s) \in Unusable
  /\ cursor' = [cursor EXCEPT ![s] = NextTx(s)]
  /\ UNCHANGED <<consumeVars, iterCancel, handle, clockVars, tx, since, chanVars, envVars>>

\* try_send succeeds.
TxSend(s) ==
  /\ HasEvent(s)
  /\ NextTx(s) \notin Unusable
  /\ CanSend
  /\ chan' = Append(chan, NextTx(s))
  /\ accepted' = accepted \cup {NextTx(s)}
  /\ cursor' = [cursor EXCEPT ![s] = NextTx(s)]
  /\ UNCHANGED <<consumeVars, iterCancel, handle, clockVars, tx, since, envVars>>

\* Faulty variants: drops the update and goes on, or waits for room.
TxSendFailsContinues(s) ==
  /\ HasEvent(s)
  /\ NextTx(s) \notin Unusable
  /\ ~CanSend
  /\ cursor' = [cursor EXCEPT ![s] = NextTx(s)]
  /\ UNCHANGED <<consumeVars, iterCancel, handle, clockVars, tx, since, chanVars, envVars>>
TxSendWaits(s) == HasEvent(s) /\ ~CanSend /\ UNCHANGED vars

\* try_send fails, the channel being full or closed: the update is dropped and
\* the task breaks out of its loop.
TxSendFails(s) ==
  /\ HasEvent(s)
  /\ NextTx(s) \notin Unusable
  /\ ~CanSend
  /\ TxEnds(s)
  /\ UNCHANGED <<consumeVars, iterCancel, handle, clockVars, chanVars, envVars>>

\* The stream ends: `break`.  Events it had not delivered are gone with it.
TxStreamCloses(s) ==
  /\ tx[s] = "live"
  /\ TxEnds(s)
  /\ UNCHANGED <<consumeVars, iterCancel, handle, clockVars, chanVars, envVars>>

\* Faulty variant: looks at the tokens only when an event arrives.
TxCancelledOnEvent(s) ==
  /\ HasEvent(s)
  /\ mainCancel \/ iterCancel[s]
  /\ TxEnds(s)
  /\ UNCHANGED <<consumeVars, iterCancel, handle, clockVars, chanVars, envVars>>

\* select!: either token.
TxCancelled(s) ==
  /\ tx[s] = "live"
  /\ mainCancel \/ iterCancel[s]
  /\ TxEnds(s)
  /\ UNCHANGED <<consumeVars, iterCancel, handle, clockVars, chanVars, envVars>>

-----------------------------------------------------------------------------
(* The chain and the pipeline that owns the channel and the token.         *)

Publish ==
  /\ published < MaxTx
  /\ published' = published + 1
  /\ UNCHANGED <<consumeVars, iterCancel, handle, clockVars, txVars, chanVars, mainCancel, rxOpen>>

Receive ==
  /\ rxOpen
  /\ chan # <<>>
  /\ chan' = Tail(chan)
  /\ UNCHANGED <<consumeVars, iterCancel, handle, clockVars, txVars, accepted, envVars>>

\* The pipeline cancels its datasources.
CancelSource ==
  /\ ~mainCancel
  /\ mainCancel' = TRUE
  /\ UNCHANGED <<consumeVars, iterCancel, handle, clockVars, txVars, chanVars, rxOpen, published>>

\* The pipeline's future ends or is dropped, and the receiver with it.
DropReceiver ==
  /\ rxOpen
  /\ rxOpen' = FALSE
  /\ chan' = <<>>
  /\ UNCHANGED <<consumeVars, iterCancel, handle, clockVars, txVars, accepted, mainCancel, published>>

-----------------------------------------------------------------------------
Consume == CheckCancelled \/ ConnectFails \/ (\E s \in Slots : Connect(s))
             \/ StopIteration \/ EndIteration \/ Wake

ClockTask(s) == ClockSubscribes(s) \/ ClockLost(s) \/ ClockCancelled(s)

TxTask(s) == TxSubscribes(s) \/ TxSubscribeFails(s) \/ TxSkip(s) \/ TxSend(s)
               \/ TxSendFails(s) \/ TxStreamCloses(s) \/ TxCancelled(s)

Next ==
  \/ Consume
  \/ \E s \in Slots : Supervise(s) \/ ClockTask(s) \/ TxTask(s)
  \/ Publish \/ Receive \/ CancelSource \/ DropReceiver

(***************************************************************************)
(* Fairness: tokio runs every ready task, a subscription or connection     *)
(* request is answered one way or the other, and a timer fires.  Nothing   *)
(* obliges the network to fail, so ClockLost and TxStreamCloses of a live  *)
(* stream are not fair.                                                    *)
(***************************************************************************)
Fairness ==
  /\ WF_vars(Consume)
  /\ \A s \in Slots :
       /\ WF_vars(Supervise(s))
       /\ WF_vars(clock[s] = "subscribing" /\ ClockTask(s))
       /\ WF_vars(ClockCancelled(s))
       /\ WF_vars(TxSubscribes(s) \/ TxSubscribeFails(s))
       /\ WF_vars(TxSkip(s) \/ TxSend(s) \/ TxSendFails(s))
       /\ WF_vars(TxCancelled(s))

Spec     == Init /\ [][Next]_vars
FairSpec == Spec /\ Fairness

\* A network on which a transaction subscription that is asked for again and
\* again is granted in the end.
GrantingSpec == FairSpec /\ \A s \in Slots : SF_vars(TxSubscribes(s))
-----------------------------------------------------------------------------
(* Properties.                                                             *)

\* At most one iteration is not cancelled: the one consume is waiting for.
\* Tasks of older iterations, which consume does not join, may still run, but
\* their token is set (datasource loop, lib.rs:115-660).
SingleActiveIteration ==
  \A s \in Slots : handle[s] /\ ~iterCancel[s] => phase = "running" /\ cur = s

\* While a transaction subscription lives it has no hole: every usable
\* transaction it has taken from its stream is in the channel.  Losing one
\* (try_send on a full or closed channel) must end the subscription.
NoSilentGap ==
  \A s \in Slots : tx[s] = "live" =>
    \A t \in (since[s] + 1)..cursor[s] : t \in accepted \cup Unusable

\* A subscription never runs ahead of the chain, nor back behind its start.
CursorInRange ==
  \A s \in Slots : since[s] <= cursor[s] /\ cursor[s] <= published

\* When the clock task has ended, whatever the transaction task is doing (even
\* hanging in its subscribe call), consume leaves the iteration.
WatchdogReconnects ==
  (phase = "running" /\ clock[cur] = "done") ~> (phase # "running")

\* A subscribed task works off its stream (and by NoSilentGap puts every usable
\* transaction into the channel), or ends; it never sits on events.
LiveTaskDelivers ==
  \A s \in Slots :
    (tx[s] = "live" /\ cursor[s] < published)
      ~> (tx[s] # "live" \/ cursor[s] = published)

\* Cancelling the pipeline's token makes consume return and every task of every
\* iteration end, so that all senders are dropped and the channel closes.
CancelReleasesAll ==
  mainCancel ~> (phase \in Returned /\ \A s \in Slots : ~handle[s])

\* If from some point on no connection succeeds, consume gives up and returns:
\* the attempt counter is only reset by an iteration that really ran.
GivesUp ==
  <>[](phase # "running") => <>(phase \in Returned)

\* What the README promises ("automatic retry logic and comprehensive error
\* recovery") and the code does not do: as long as the pipeline listens, a lost
\* transaction subscription is replaced by a new one.
SubscriptionRestored ==
  (phase = "running" /\ tx[cur] = "done" /\ rxOpen)
    ~> (phase \in Returned \/ ~rxOpen \/ (phase = "running" /\ tx[cur] = "live"))
=============================================================================
