--------------------------- MODULE AccountSources ---------------------------
(***************************************************************************)
(* The two datasources of account states, composed with a pipeline run and *)
(* its metrics: the program subscription (RpcProgramSubscribe::consume)    *)
(* and the backfill (GpaBackfillDatasource::consume).  create_pipeline     *)
(* attaches neither.                                                       *)
(*                                                                         *)
(* An account has a new state at every slot, so a state is known by the    *)
(* slot it was read at.  An update carries a state and the slot it claims. *)
(***************************************************************************)
EXTENDS LogMetrics

CONSTANTS
  Subscriber,    \* the task of the program subscription
  Backfill,      \* the task of the backfill
  MaxSlot,       \* slots of the chain (bound)
  MaxAttempts,   \* MAX_RECONNECTION_ATTEMPTS
  Accounts       \* number of the program's accounts

ASSUME TasksAssumption == Sources = {Subscriber, Backfill} /\ Subscriber # Backfill
ASSUME ChainAssumption == MaxSlot \in Nat /\ Accounts \in Nat
ASSUME AttemptsAssumption == MaxAttempts \in Nat \ {0}

VARIABLES
  head,      \* the chain's newest slot
  sub,       \* control point of the subscription's consume
  attempts,  \* reconnection_attempts
  event,     \* slot of the last notification of this subscription
  back,      \* control point of the backfill's consume
  tag,       \* the slot the backfill's updates claim
  state,     \* the slot their accounts were read at
  left,      \* accounts still to be sent
  claims     \* history: [tag, state] of the updates put into the channel

sourceVars == <<head, sub, attempts, event, back, tag, state, left, claims>>
mainVars   == <<vars, metricsVars, sourceVars>>

SourcesInit ==
  /\ Init /\ MetricsInit
  /\ head = 0
  /\ sub = "top" /\ attempts = 0 /\ event = 0
  /\ back = "slot" /\ tag = 0 /\ state = 0 /\ left = 0
  /\ claims = {}

Confirm ==
  /\ head < MaxSlot
  /\ head' = head + 1
  /\ UNCHANGED <<vars, metricsVars, sub, attempts, event, back, tag, state, left, claims>>

\* try_send: an update goes in if there is room and a receiver.
Put(d, t, s) == Send(d) /\ claims' = claims \union {[tag |-> t, state |-> s]}
NoRoom == pc \in Ended \/ Len(queue) = Capacity

-----------------------------------------------------------------------------
(* The program subscription.                                               *)

backVars == <<head, back, tag, state, left>>

SubscriberReturns ==
  /\ SourceReturns(Subscriber)
  /\ UNCHANGED <<metricsVars, sub, attempts, event, backVars, claims>>

\* The token is looked at before a connection and while waiting for an event,
\* neither during a connection attempt nor during the pause after a failure.
CheckToken ==
  /\ source[Subscriber] = "running" /\ sub = "top" /\ ~token
  /\ sub' = "connect"
  /\ UNCHANGED <<vars, metricsVars, attempts, event, backVars, claims>>
SubscriberCancelled ==
  /\ token /\ sub \in {"top", "stream"}
  /\ SubscriberReturns

Connect ==
  /\ source[Subscriber] = "running" /\ sub = "connect"
  /\ sub' = "subscribe"
  /\ UNCHANGED <<vars, metricsVars, attempts, event, backVars, claims>>

Retry(point) ==
  /\ source[Subscriber] = "running" /\ sub = point
  /\ sub' = "pause" /\ attempts' = attempts + 1
  /\ UNCHANGED <<vars, metricsVars, event, backVars, claims>>

\* The limit is met one attempt later by a failed subscription than by a failed
\* connection.
ConnectFails ==
  \/ attempts + 1 < MaxAttempts /\ Retry("connect")
  \/ attempts + 1 >= MaxAttempts /\ sub = "connect" /\ SubscriberReturns
SubscribeFails ==
  \/ attempts + 1 <= MaxAttempts /\ Retry("subscribe")
  \/ attempts + 1 > MaxAttempts /\ sub = "subscribe" /\ SubscriberReturns

\* Notifications start with the next slot.
Subscribe ==
  /\ source[Subscriber] = "running" /\ sub = "subscribe"
  /\ sub' = "stream" /\ attempts' = 0 /\ event' = head
  /\ UNCHANGED <<vars, metricsVars, backVars, claims>>

\* A notification: recorded if it can be decoded, passed over otherwise.
Notified ==
  /\ source[Subscriber] = "running" /\ sub = "stream" /\ event < head
  /\ event' = event + 1
  /\ \/ sub' = "send" /\ samples' = SourceSample
     \/ UNCHANGED <<sub, samples>>
  /\ UNCHANGED <<vars, flush, shown, attempts, backVars, claims>>

SendEvent ==
  /\ sub = "send" /\ Put(Subscriber, event, event)
  /\ sub' = "stream"
  /\ UNCHANGED <<metricsVars, attempts, event, backVars>>

\* A failed send or a closed stream: pause, then connect again.
Resubscribe ==
  /\ source[Subscriber] = "running"
  /\ sub = "stream" \/ (sub = "send" /\ NoRoom)
  /\ sub' = "pause"
  /\ UNCHANGED <<vars, metricsVars, attempts, event, backVars, claims>>
PauseEnds ==
  /\ source[Subscriber] = "running" /\ sub = "pause"
  /\ sub' = "top"
  /\ UNCHANGED <<vars, metricsVars, attempts, event, backVars, claims>>

-----------------------------------------------------------------------------
(* The backfill: slot first, accounts second, and no look at the token.    *)

\* Faulty variant: the accounts first.
RequestAccountsFirst ==
  /\ source[Backfill] = "running"
  /\ \/ back = "slot" /\ back' = "accounts" /\ state' = head /\ UNCHANGED <<tag, left>>
     \/ back = "accounts" /\ back' = "send" /\ tag' = head /\ left' = Accounts /\ UNCHANGED state
  /\ UNCHANGED <<vars, metricsVars, head, sub, attempts, event, claims>>

Request ==
  /\ source[Backfill] = "running"
  /\ \/ back = "slot" /\ back' = "accounts" /\ tag' = head /\ UNCHANGED <<state, left>>
     \/ back = "accounts" /\ back' = "send" /\ state' = head /\ left' = Accounts /\ UNCHANGED tag
  /\ UNCHANGED <<vars, metricsVars, head, sub, attempts, event, claims>>

\* One account, put into the channel or, if there is no room, lost.
SendAccount ==
  /\ source[Backfill] = "running" /\ back = "send" /\ left > 0
  /\ \/ Put(Backfill, tag, state)
     \/ NoRoom /\ UNCHANGED <<vars, claims>>
  /\ left' = left - 1
  /\ UNCHANGED <<metricsVars, head, sub, attempts, event, back, tag, state>>

\* All accounts are through, or one of the two requests failed.
BackfillReturns ==
  /\ back \in {"slot", "accounts"} \/ left = 0
  /\ SourceReturns(Backfill)
  /\ UNCHANGED <<metricsVars, sourceVars>>

-----------------------------------------------------------------------------
SubscriberStep ==
  \/ CheckToken \/ SubscriberCancelled
  \/ Connect \/ ConnectFails \/ Subscribe \/ SubscribeFails
  \/ Notified \/ SendEvent \/ Resubscribe \/ PauseEnds

BackfillStep == Request \/ SendAccount \/ BackfillReturns

RunOfSources ==
  \/ (MeteredRun \/ MeteredCtrlC \/ ShowMetrics \/ ClearMetrics) /\ UNCHANGED sourceVars
  \/ (CancelToken \/ Drop) /\ UNCHANGED <<metricsVars, sourceVars>>

SourcesNext ==
  \/ Confirm \/ SubscriberStep \/ BackfillStep
  \/ RunOfSources

(***************************************************************************)
(* Fairness: the loop's task is scheduled; select! chooses its ready       *)
(* branches at random, so the flush's ticks cannot keep an update or the   *)
(* token waiting for ever; a flush returns.                                *)
(***************************************************************************)
SourcesSpec == SourcesInit /\ [][SourcesNext]_mainVars
FairSourcesSpec ==
  /\ SourcesSpec
  /\ SF_mainVars(MeteredRun /\ UNCHANGED sourceVars)
  /\ WF_mainVars(ClearMetrics /\ UNCHANGED sourceVars)

-----------------------------------------------------------------------------
(* Properties *)

SourcesOK ==
  /\ head \in 0..MaxSlot
  /\ sub \in {"top", "connect", "subscribe", "stream", "send", "pause"}
  /\ attempts \in 0..MaxAttempts
  /\ event \in 0..MaxSlot
  /\ back \in {"slot", "accounts", "send"}
  /\ tag \in 0..MaxSlot /\ state \in 0..MaxSlot /\ left \in 0..Accounts
  /\ claims \subseteq [tag : 0..MaxSlot, state : 0..MaxSlot]

\* An update never claims to be newer than the state it carries, whichever
\* source it comes from and whatever is confirmed between the requests of a
\* backfill, so an update never passes off an older state as a newer one.
TagsNeverAhead == \A u \in claims : u.tag <= u.state
=============================================================================
